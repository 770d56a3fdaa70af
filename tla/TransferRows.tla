---------------------------- MODULE TransferRows ----------------------------
(***************************************************************************)
(* The tables as those see them who read them while they are written: the  *)
(* API and the fix scripts.  Of the indexers they may assume what          *)
(* TransferLifecycle promises, so that abstract specification is their     *)
(* environment.  A transfer's domains are part of its key; its other       *)
(* columns are there when its deposit has been indexed, and the deposit's  *)
(* row, with the timestamp of its block, comes later still.                *)
(***************************************************************************)
EXTENDS Naturals, FiniteSets

CONSTANTS
  Key,      \* the transfers
  Columns,  \* [Key -> [fromDomainId, toDomainId, resourceID, accountId]]
  Time,     \* [Key -> Nat], the timestamp of the deposit's row
  Null      \* a column without a value

ASSUME RowsAssumption ==
  /\ IsFiniteSet(Key)
  /\ Time \in [Key -> Nat]
  /\ \A k \in Key : Columns[k].resourceID # Null /\ Columns[k].accountId # Null

VARIABLES
  status,    \* Transfer: "absent" or the row's status
  known,     \* Transfer: the keys whose deposit details are filled in
  deposits   \* Deposit: the keys that have a row

tables == <<status, known, deposits>>

\* Fee and execution rows are handed out as they are and decide nothing.
Indexers == INSTANCE TransferLifecycle WITH fees <- {}, settled <- {}, tried <- {}

RowsInit == Indexers!Init

\* A listener writes to the tables.
Index(k) ==
  \/ Indexers!Deposited(k) \/ Indexers!Failed(k) \/ Indexers!Executed(k)
  \/ Indexers!FileDeposit(k)

RowsTypeOK ==
  /\ status \in [Key -> {"absent", "pending", "failed", "executed"}]
  /\ known \subseteq Key
  /\ deposits \subseteq Key
  /\ \A k \in Key : status[k] = "absent" => k \notin known

Rows == {k \in Key : status[k] # "absent"}

\* What the row of k says in a column.
Column(k, column) ==
  CASE column = "status" -> status[k]
    [] column \in {"resourceID", "accountId"} /\ k \notin known -> Null
    [] OTHER -> Columns[k][column]
=============================================================================
