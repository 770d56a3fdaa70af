------------------------------- MODULE Readers -------------------------------
(***************************************************************************)
(* The processes that share the database with the indexers: the API, and   *)
(* the fix scripts, of which src/scripts/index.ts starts the one its       *)
(* argument names.  None of them sees what another writes in its own       *)
(* columns: the price script writes usdValue, which no query of the API    *)
(* asks for, and the duplicate remover deletes rows of one transfer only   *)
(* where another is left.  So each is checked by itself beside the         *)
(* indexers, with `reader` saying which.                                   *)
(***************************************************************************)
EXTENDS TransfersApi, PriceCalculation, DuplicateRemover

VARIABLE reader

vars == <<tables, api, usd, script, removerVars, reader>>

\* The first process is Dockerfile.api's, the others are getObject's.
Reader == {"api", "price-calculations", "remove-duplicates"}

\* Every variable of the process at hand holds a value of its kind, what is held of
\* a page or a table is still there, and nothing is under way that was not begun.
TypeOK ==
  /\ reader \in Reader
  /\ RowsTypeOK /\ ApiTypeOK /\ PriceTypeOK /\ RemoverTypeOK

Init ==
  /\ reader \in Reader
  /\ RowsInit /\ ApiInit /\ PriceInit
  /\ IF reader = "remove-duplicates"
       THEN RemoverInit
       ELSE /\ rows = Nothing /\ dated = Nothing /\ owned = Nothing
            /\ documents = {} /\ stamped = {}
            /\ RemoverIdle

\* What the processes leave alone.
Others(r) ==
  /\ reader = r
  /\ UNCHANGED reader
  /\ r # "api" => UNCHANGED api
  /\ r # "price-calculations" => UNCHANGED <<usd, script>>
  /\ r # "remove-duplicates" => UNCHANGED removerVars

Api == Others("api") /\ ApiNext
FixPrices == Others("price-calculations") /\ PriceNext
FixDuplicates == Others("remove-duplicates") /\ RemoverNext /\ UNCHANGED tables

Next == Api \/ FixPrices \/ FixDuplicates

\* What is asked is answered and what is started goes on; nobody has to ask or start.
Fairness ==
  /\ WF_vars(Others("api") /\ Answer /\ UNCHANGED tables)
  /\ WF_vars(Others("price-calculations") /\ PriceScript /\ UNCHANGED tables)
  /\ WF_vars(Others("remove-duplicates") /\ RemoverScript /\ UNCHANGED tables)

Spec == Init /\ [][Next]_vars
FairSpec == Spec /\ Fairness

-----------------------------------------------------------------------------
(* Properties, besides those of the modules. *)

\* A run of either script comes to its end: the pages are counted up while transfers
\* are added, and errors end or pass over, but do not repeat, what failed.
RunsEnd == PriceRunsEnd /\ RemoverRunsEnd
=============================================================================
