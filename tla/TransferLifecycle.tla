------------------------- MODULE TransferLifecycle -------------------------
(***************************************************************************)
(* What the database promises about each transfer to those who read it     *)
(* (the API, the monitoring service), whatever order the indexers of its   *)
(* two domains run in and however often they start over.  The status only  *)
(* moves forward and "executed" is final; what the deposit told stays      *)
(* known; the deposit's row comes after the details and before the fee's;  *)
(* an execution row means that an execution was tried, and once it names   *)
(* the transaction that executed the transfer it keeps naming it.          *)
(***************************************************************************)
CONSTANT Key

VARIABLES
  status,     \* "absent" or the Transfer row's status
  known,      \* the keys whose deposit details are filled in
  deposits,   \* the keys that have a Deposit row
  fees,       \* the keys that have a Fee row
  settled,    \* the keys whose Execution row names the executing transaction
  tried       \* the keys that have an Execution row

vars == <<status, known, deposits, fees, settled, tried>>

Init ==
  /\ status = [k \in Key |-> "absent"]
  /\ known = {} /\ deposits = {} /\ fees = {} /\ settled = {} /\ tried = {}

\* A deposit was indexed: a transfer not heard of is pending from now on.
Deposited(k) ==
  /\ status' = [status EXCEPT ![k] = IF @ = "absent" THEN "pending" ELSE @]
  /\ known' = known \union {k}
  /\ UNCHANGED <<deposits, fees, settled, tried>>

\* An execution failed; it may be tried again.
Failed(k) ==
  /\ status[k] # "executed"
  /\ status' = [status EXCEPT ![k] = "failed"]
  /\ UNCHANGED <<known, deposits, fees, settled, tried>>

Executed(k) ==
  /\ status' = [status EXCEPT ![k] = "executed"]
  /\ UNCHANGED <<known, deposits, fees, settled, tried>>

FileDeposit(k) ==
  /\ k \in known \ deposits
  /\ deposits' = deposits \union {k}
  /\ UNCHANGED <<status, known, fees, settled, tried>>

FileFee(k) ==
  /\ k \in deposits \ fees
  /\ fees' = fees \union {k}
  /\ UNCHANGED <<status, known, deposits, settled, tried>>

\* The row of a failed execution, never in place of the executing one's.
FileFailure(k) ==
  /\ status[k] = "failed"
  /\ k \notin settled
  /\ tried' = tried \union {k}
  /\ UNCHANGED <<status, known, deposits, fees, settled>>

FileExecution(k) ==
  /\ status[k] = "executed"
  /\ settled' = settled \union {k}
  /\ tried' = tried \union {k}
  /\ UNCHANGED <<status, known, deposits, fees>>

Next ==
  \E k \in Key :
    \/ Deposited(k) \/ Failed(k) \/ Executed(k)
    \/ FileDeposit(k) \/ FileFee(k) \/ FileFailure(k) \/ FileExecution(k)

Spec == Init /\ [][Next]_vars
=============================================================================
