-------------------------- MODULE Monitoring_proofs --------------------------
(***************************************************************************)
(* Proofs about Monitoring, for every set of transfers and every number of *)
(* overlapping checks.  A deposit's row is never taken away and a transfer *)
(* that is pending has been so ever since it is in the database, so what a *)
(* check has read holds for as long as it works on it.                     *)
(***************************************************************************)
EXTENDS Monitoring, TLAPS

IInv ==
  /\ TypeOK
  /\ WarningsAreJustified
  /\ Pending \subseteq pended
  /\ overdue \subseteq deposits

LEMMA Initially == Init => IInv
  BY DEF Init, Indexers!Init, IInv, TypeOK, WarningsAreJustified, Pending

\* A write of a listener takes no deposit's row away.
LEMMA WritesKeepDeposits ==
  ASSUME TypeOK, NEW k \in Key, Index(k)
  PROVE  /\ status' \in [Key -> {"absent", "pending", "failed", "executed"}]
         /\ known' \subseteq Key
         /\ deposits' \subseteq Key
         /\ deposits \subseteq deposits'
         /\ up
<1>1. CASE Indexers!Deposited(k)
  BY <1>1 DEF Index, Indexers!Deposited, TypeOK
<1>2. CASE Indexers!Failed(k)
  BY <1>2 DEF Index, Indexers!Failed, TypeOK
<1>3. CASE Indexers!Executed(k)
  BY <1>3 DEF Index, Indexers!Executed, TypeOK
<1>4. CASE Indexers!FileDeposit(k)
  BY <1>4 DEF Index, Indexers!FileDeposit, TypeOK
<1> QED
  BY <1>1, <1>2, <1>3, <1>4 DEF Index

LEMMA ExitKeeps == IInv /\ Exit => IInv'
  BY DEF Exit, IInv, TypeOK, WarningsAreJustified, Pending, database

LEMMA Inductive == IInv /\ [Next]_vars => IInv'
<1> SUFFICES ASSUME IInv, [Next]_vars PROVE IInv'
  OBVIOUS
<1> USE DEF IInv, TypeOK, WarningsAreJustified, Pending, database, check
<1>1. CASE Start
  BY <1>1 DEF Start
<1>2. ASSUME NEW k \in Key, Index(k) PROVE IInv'
  <2>1. UNCHANGED <<overdue, left, bare, warned, up>>
    BY <1>2 DEF Index
  <2>2. pended' = pended \union {j \in Key : status'[j] = "pending"}
    BY <1>2 DEF Index
  <2> QED
    BY <1>2, <2>1, <2>2, WritesKeepDeposits
<1>3. ASSUME NEW k \in Key, Age(k) PROVE IInv'
  BY <1>3 DEF Age
<1>4. ASSUME NEW c \in Check, Fire(c) PROVE IInv'
  BY <1>4 DEF Fire
<1>5. ASSUME NEW c \in Check, NEW k \in Key, Skip(c, k) \/ SendFails(c, k) PROVE IInv'
  BY <1>5 DEF Skip, SendFails, Drop
<1>6. ASSUME NEW c \in Check, NEW k \in Key, Warn(c, k) PROVE IInv'
  BY <1>6 DEF Warn, Drop
<1>7. ASSUME NEW c \in Check, NEW k \in Key, Reject(c, k) PROVE IInv'
  BY <1>7, ExitKeeps DEF Reject
<1>8. CASE Crash
  BY <1>8, ExitKeeps DEF Crash
<1>9. CASE UNCHANGED vars
  BY <1>9 DEF vars
<1> QED
  BY <1>1, <1>2, <1>3, <1>4, <1>5, <1>6, <1>7, <1>8, <1>9 DEF Next, Step, Fault, Look

-----------------------------------------------------------------------------
(* The theorems. *)

\* Every variable keeps its type, and no check outlives the process.
THEOREM TypeCorrect == Spec => []TypeOK
<1>1. IInv => TypeOK
  BY DEF IInv
<1> QED
  BY <1>1, Initially, Inductive, PTL DEF Spec

\* Nobody is warned of a transfer that was never pending or is not overdue, in
\* any overlap of checks, listeners and restarts.
THEOREM WarningsJustified == Spec => []WarningsAreJustified
<1>1. IInv => WarningsAreJustified
  BY DEF IInv
<1> QED
  BY <1>1, Initially, Inductive, PTL DEF Spec
=============================================================================
