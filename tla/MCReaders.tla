------------------------------ MODULE MCReaders ------------------------------
(***************************************************************************)
(* Three transfers: two of a token with one timestamp, and a message that  *)
(* goes the other way; and tables where one transfer may have two rows.    *)
(***************************************************************************)
EXTENDS Readers

MCKey == 1 .. 3
Token(from, to, account) ==
  [fromDomainId |-> from, toDomainId |-> to, resourceID |-> "R", accountId |-> account]
MCColumns == <<Token(1, 2, "X"), Token(1, 2, "Y"), [Token(2, 1, "X") EXCEPT !.resourceID = "M"]>>
MCType == <<"fungible", "fungible", "gmp">>
MCTime == <<1, 2, 2>>

\* Every query of the API once, over filters that are stable and one that is not.
MCWheres == {
  FindAllTransfers(Undefined),
  FindTransfersByAccountAddress("X", "executed"),
  FindTransfersByResourceID("R", "pending"),
  FindTransfersBySourceDomainToDestinationDomain(1, 2),
  FindTransfersByResourceBetweenDomains("R", 1, 2),
  FindTransfersByDomain(2, "destination", "executed")}

MCOwner == {1, 2}
MCId == {"a", "b", "c"}
MCOf == [i \in MCId |-> IF i = "c" THEN 2 ELSE 1]
=============================================================================
