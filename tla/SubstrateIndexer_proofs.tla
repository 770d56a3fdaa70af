---------------------- MODULE SubstrateIndexer_proofs ----------------------
(***************************************************************************)
(* Proofs about SubstrateIndexer, for every set of domains and every       *)
(* content of the chains.                                                  *)
(*                                                                         *)
(* The argument: callbacks overlap with everything, so what one has read   *)
(* need not hold when it writes.  But no step takes back what is recorded  *)
(* of a transfer (RecordedStable), the map holds deposits only (MapSound), *)
(* and a callback that has written the status finds one it may add its     *)
(* execution's row to (CallbacksSound), whoever wrote it last.  Hence the  *)
(* tables agree, and every event of a block that was read is recorded, or  *)
(* dropped, or still at hand (BlockSound).                                 *)
(***************************************************************************)
EXTENDS SubstrateIndexer, TransferStore_proofs, TLAPS

\* The deposit about to be inserted has its details in the transfer's row.
DepositsInHand == \A d \in Domain : pc[d] = "insertDeposit" => transfer[event[d].key].filled

\* An entry of the map is a transfer whose deposit, emitted in that extrinsic, has
\* its row.
MapSound ==
  \A d \in Domain, t \in Tx :
    transferMap[d][t] # NoKey =>
      /\ transferMap[d][t] \in deposits
      /\ \E g \in Log : g.kind = "deposit" /\ g.tx = t /\ g.key = transferMap[d][t]

\* What the row of an event's transfer says once its callback has written to it.
Marked(e) ==
  /\ transfer[e.key].status \in Tried
  /\ e.kind = "executed" /\ ~Contested(e.key) => transfer[e.key].status = "executed"

CallbacksSound == \A e \in Log : running[e] = "upsertExecution" => Marked(e)

HandlerSound == DepositsInHand /\ MapSound /\ CallbacksSound

\* Nothing is left to be done for the event, or its callback does it.
Settled(e) ==
  running[e] = "idle" /\ e \notin dropped /\ ~(e.kind = "fee" /\ ShareExtrinsic(e)) => Recorded(e)

\* The events of a domain's blocks below b are settled.
SettledBelow(d, b) ==
  \A e \in Log : EmittedBy(e) = d /\ StartBlock <= e.block /\ e.block < b => Settled(e)

\* The row and the running loop have passed what they say they have; of the block
\* in progress each event is settled, in hand or still to do.
BlockSound(d) ==
  /\ lastIndexedBlock[d] > StartBlock => SettledBelow(d, lastIndexedBlock[d] + 1)
  /\ pc[d] \notin {"boot", "halted"} =>
       /\ SettledBelow(d, currentBlock[d])
       /\ lastIndexedBlock[d] <= StartBlock \/ lastIndexedBlock[d] < currentBlock[d]
  /\ pc[d] \in {"next", "updateBlock"} \union EventSteps =>
       \A e \in InBlock(d) :
         Settled(e) \/ e \in todo[d] \/ (pc[d] \in EventSteps /\ e = event[d])
  /\ pc[d] = "updateBlock" => todo[d] = {}
  /\ pc[d] = "insertFee" /\ event[d].kind = "deposit" => Settled(event[d])
BlocksSound == \A d \in Domain : BlockSound(d)

IInv == TypeOK /\ HandlerSound /\ TablesAgree /\ BlocksSound

USE RangeAssumption, StoreAssumption, LogAssumption

LEMMA EventType ==
  ASSUME NEW e \in Log
  PROVE  /\ e.kind \in Kind /\ e.key \in Key /\ e.block \in Nat /\ e.tx \in Tx
         /\ e.key.from \in Nat /\ e.key.to \in Nat
         /\ e # NoEvent
  OBVIOUS

LEMMA ResumeBlockType ==
  ASSUME NEW l \in Nat
  PROVE  ResumeBlock(l) \in Nat
  BY DEF ResumeBlock

-----------------------------------------------------------------------------
(* Type correctness. *)

LEMMA InitType == Init => TypeOK
<1> SUFFICES ASSUME Init PROVE TypeOK
  OBVIOUS
<1>1. StoreTypeOK
  BY DEF Init, StoreInit, StoreTypeOK
<1>2. \A d \in Domain : pc[d] = "boot" /\ todo[d] = {}
  BY DEF Init
<1>3. \A e \in Log : running[e] = "idle"
  BY DEF Init
<1> QED
  BY <1>1, <1>2, <1>3 DEF Init, TypeOK, EventSteps, DepositSteps, Location, Progress

\* Whatever became of the deposit, its fee or the next event is up.
LEMMA DepositDoneTypes ==
  ASSUME TypeOK, NEW d \in Domain, pc[d] \in DepositSteps, DepositDone(d)
  PROVE  /\ pc' \in [Domain -> Location]
         /\ event' \in [Domain -> Log \union {NoEvent}]
         /\ \A c \in Domain \ {d} : pc'[c] = pc[c] /\ event'[c] = event[c]
         /\ \/ pc'[d] = "insertFee" /\ event'[d] = event[d]
            \/ pc'[d] = "next"
<1>1. pc \in [Domain -> Location] /\ event \in [Domain -> Log \union {NoEvent}]
  BY DEF TypeOK
<1>2. CASE Goto(d, "insertFee") /\ UNCHANGED event
  BY <1>1, <1>2 DEF Goto, Location, EventSteps
<1>3. CASE EventDone(d)
  BY <1>1, <1>3 DEF EventDone, Goto, Location
<1> QED
  BY <1>2, <1>3 DEF DepositDone

LEMMA EventDoneTypes ==
  ASSUME TypeOK, NEW d \in Domain, EventDone(d)
  PROVE  /\ pc' \in [Domain -> Location]
         /\ event' \in [Domain -> Log \union {NoEvent}]
         /\ \A c \in Domain \ {d} : pc'[c] = pc[c] /\ event'[c] = event[c]
         /\ pc'[d] = "next"
  BY DEF TypeOK, EventDone, Goto, Location

LEMMA TypeStep == TypeOK /\ [Next]_vars => TypeOK'
<1> SUFFICES ASSUME TypeOK, [Next]_vars PROVE TypeOK'
  OBVIOUS
<1> USE DEF TypeOK, StoreTypeOK, Location, Progress, EventSteps, DepositSteps,
            loop, store, Goto
<1>1. ASSUME NEW d \in Domain, Resume(d) PROVE TypeOK'
  BY <1>1, ResumeBlockType DEF Resume
<1>2. ASSUME NEW d \in Domain, ReadBlock(d) PROVE TypeOK'
  BY <1>2 DEF ReadBlock, InBlock, Start
<1>3. ASSUME NEW d \in Domain, UpdateBlock(d) \/ UpdateBlockFails(d) PROVE TypeOK'
  BY <1>3 DEF UpdateBlock, UpdateBlockFails, LiveInterval
<1>4. ASSUME NEW d \in Domain, TakeEvent(d) PROVE TypeOK'
  BY <1>4 DEF TakeEvent, Foremost, Queue
<1>5. ASSUME NEW d \in Domain, LeaveBlock(d) PROVE TypeOK'
  BY <1>5 DEF LeaveBlock
<1>6. ASSUME NEW d \in Domain, StartFailures(d) PROVE TypeOK'
  <2>1. \A e \in todo[d] : e \in Log /\ e.kind \in {"failed", "executed"}
    BY <1>6, EventType DEF StartFailures, Queue, Kind
  <2> QED
    BY <1>6, <2>1 DEF StartFailures, Start
<1>7. ASSUME NEW d \in Domain, SaveAccount(d) PROVE TypeOK'
  BY <1>7, EventType DEF SaveAccount, InsertAccount
<1>8. ASSUME NEW d \in Domain, SaveTransfer(d) PROVE TypeOK'
  <2>1. event[d] \in Log /\ event[d].key \in Key
    BY <1>8, EventType DEF SaveTransfer
  <2>2. transfer' \in [Key -> Transfer \union {NoTransfer}]
    BY <1>8, <2>1 DEF SaveTransfer, UpsertDepositTransfer, Transfer, Message, Status, Exists
  <2> QED
    BY <1>8, <2>2 DEF SaveTransfer
<1>9. ASSUME NEW d \in Domain, SaveDeposit(d) PROVE TypeOK'
  <2>1. event[d].key \in Key /\ event[d].tx \in Tx
    BY <1>9, EventType DEF SaveDeposit
  <2>2. transferMap' \in [Domain -> [Tx -> Key \union {NoKey}]] /\ deposits' \subseteq Key
    BY <1>9, <2>1 DEF SaveDeposit, InsertDeposit
  <2> QED
    BY <1>9, <2>2, DepositDoneTypes DEF SaveDeposit
<1>10. ASSUME NEW d \in Domain, DepositExists(d) PROVE TypeOK'
  BY <1>10, DepositDoneTypes DEF DepositExists
<1>11. ASSUME NEW d \in Domain, SaveFee(d) PROVE TypeOK'
  <2>1. Payer(d) \in Key
    BY <1>11, EventType DEF SaveFee, Payer
  <2> QED
    BY <1>11, <2>1, EventDoneTypes DEF SaveFee, InsertFee
<1>12. ASSUME NEW d \in Domain, FeeRefused(d) PROVE TypeOK'
  BY <1>12, EventDoneTypes DEF FeeRefused
<1>13. ASSUME NEW d \in Domain, Halt(d) PROVE TypeOK'
  BY <1>13 DEF Halt
<1>14. ASSUME NEW d \in Domain, SavingFails(d) PROVE TypeOK'
  <2>1. CASE pc[d] \in DepositSteps /\ DepositDone(d)
    BY <1>14, <2>1, DepositDoneTypes DEF SavingFails
  <2>2. CASE pc[d] = "insertFee" /\ EventDone(d)
    BY <1>14, <2>2, EventDoneTypes DEF SavingFails
  <2> QED
    BY <1>14, <2>1, <2>2 DEF SavingFails
<1>15. ASSUME NEW e \in Log, Find(e) PROVE TypeOK'
  BY <1>15 DEF Find, Advance
<1>16. ASSUME NEW e \in Log, Mark(e) PROVE TypeOK'
  <2>1. e.key \in Key /\ e.kind \in {"failed", "executed"} /\ Reason(e) \in Message
    BY <1>16, EventType DEF Mark, Reason, Message
  <2>2. transfer' \in [Key -> Transfer \union {NoTransfer}]
    BY <1>16, <2>1, MarkedRowType DEF Mark
  <2> QED
    BY <1>16, <2>1, <2>2 DEF Mark, Advance
<1>17. ASSUME NEW e \in Log, SaveExecution(e) PROVE TypeOK'
  BY <1>17, EventType DEF SaveExecution, UpsertExecution, Advance
<1>18. ASSUME NEW e \in Log, InsertRefused(e) \/ CallbackFails(e) PROVE TypeOK'
  BY <1>18 DEF InsertRefused, CallbackFails, Advance
<1>19. CASE Restart
  BY <1>19 DEF Restart
<1>20. CASE UNCHANGED vars
  BY <1>20 DEF vars
<1> QED
  BY <1>1, <1>2, <1>3, <1>4, <1>5, <1>6, <1>7, <1>8, <1>9, <1>10, <1>11, <1>12, <1>13,
     <1>14, <1>15, <1>16, <1>17, <1>18, <1>19, <1>20
     DEF Next, Step, Fault, LoopStep, CallbackStep

\* Every variable keeps its type, and only executions and failures have callbacks.
THEOREM TypeCorrect == Spec => []TypeOK
  BY InitType, TypeStep, PTL DEF Spec

-----------------------------------------------------------------------------
(* What a step may do to the tables. *)

\* Nothing is taken back: rows stay, details stay, a transfer that was tried stays
\* so, and an execution that no failure contests keeps its status and its row.
Keeps ==
  /\ accounts \subseteq accounts' /\ deposits \subseteq deposits' /\ fees \subseteq fees'
  /\ \A k \in Key :
       /\ transfer[k].filled => transfer'[k].filled
       /\ transfer[k].status \in Tried => transfer'[k].status \in Tried
       /\ execution[k] # NoTx => execution'[k] # NoTx
  /\ \A e \in Log : e.kind = "executed" /\ ~Contested(e.key) =>
       /\ transfer[e.key].status = "executed" => transfer'[e.key].status = "executed"
       /\ execution[e.key] = e.tx => execution'[e.key] = e.tx

LEMMA Writers ==
  ASSUME [Next]_vars
  PROVE  \/ UNCHANGED store
         \/ \E d \in Domain : SaveAccount(d) \/ SaveTransfer(d) \/ SaveDeposit(d) \/ SaveFee(d)
         \/ \E e \in Log : Mark(e) \/ SaveExecution(e)
<1>1. ASSUME NEW d \in Domain, LoopStep(d)
      PROVE  UNCHANGED store \/ SaveAccount(d) \/ SaveTransfer(d) \/ SaveDeposit(d) \/ SaveFee(d)
  BY <1>1
  DEF LoopStep, Resume, ReadBlock, UpdateBlock, TakeEvent, LeaveBlock, StartFailures,
      DepositExists, FeeRefused
<1>2. ASSUME NEW e \in Log, CallbackStep(e)
      PROVE  UNCHANGED store \/ Mark(e) \/ SaveExecution(e)
  BY <1>2 DEF CallbackStep, Find, InsertRefused
<1>3. CASE Fault
  BY <1>3 DEF Fault, Restart, Halt, SavingFails, UpdateBlockFails, CallbackFails
<1>4. CASE UNCHANGED vars
  BY <1>4 DEF vars
<1> QED
  BY <1>1, <1>2, <1>3, <1>4 DEF Next, Step

\* A callback's write of the status.
LEMMA MarkWrite ==
  ASSUME TypeOK, NEW e \in Log, Mark(e)
  PROVE  /\ e.kind \in Tried /\ e.key \in Key
         /\ transfer'[e.key].status = e.kind
         /\ transfer'[e.key].message = Reason(e)
         /\ transfer'[e.key].filled = transfer[e.key].filled
         /\ \A j \in Key \ {e.key} : transfer'[j] = transfer[j]
         /\ UNCHANGED <<accounts, deposits, fees, execution, loop, dropped>>
<1>1. e.kind \in Tried /\ e.key \in Key
  BY EventType DEF Mark, TypeOK, Tried
<1>2. UpdateStatus(e.key, e.kind, Reason(e)) \/ InsertTransfer(e.key, e.kind, Reason(e))
  BY DEF Mark
<1> QED
  BY <1>1, <1>2, MarkEffect DEF TypeOK, StoreTypeOK, Mark

\* A listener's write of the details.
LEMMA DetailsWrite ==
  ASSUME TypeOK, NEW d \in Domain, SaveTransfer(d)
  PROVE  LET k == event[d].key
         IN  /\ k \in Key /\ k \in accounts
             /\ transfer'[k].filled
             /\ transfer'[k].message = ""
             /\ transfer'[k].status = IF transfer[k].status = "absent" THEN "pending"
                                      ELSE transfer[k].status
             /\ \A j \in Key \ {k} : transfer'[j] = transfer[j]
             /\ UNCHANGED <<accounts, deposits, fees, execution>>
<1>1. event[d].key \in Key
  BY EventType DEF SaveTransfer, TypeOK, EventSteps, DepositSteps
<1>2. UpsertDepositTransfer(event[d].key)
  BY DEF SaveTransfer
<1>3. event[d].key \in accounts
  BY <1>2 DEF UpsertDepositTransfer
<1> QED
  BY <1>1, <1>2, <1>3, UpsertEffect DEF TypeOK, StoreTypeOK, SaveTransfer

LEMMA Kept ==
  ASSUME TypeOK, [Next]_vars
  PROVE  Keeps
<1>1. CASE UNCHANGED store
  BY <1>1 DEF store, Keeps
<1>2. ASSUME NEW d \in Domain, SaveAccount(d) PROVE Keeps
  BY <1>2 DEF SaveAccount, InsertAccount, Keeps
<1>3. ASSUME NEW d \in Domain, SaveTransfer(d) PROVE Keeps
  <2>1. \A k \in Key :
          /\ transfer[k].filled => transfer'[k].filled
          /\ transfer[k].status \in Tried => transfer'[k].status = transfer[k].status
    BY <1>3, DetailsWrite DEF Tried
  <2>2. UNCHANGED <<accounts, deposits, fees, execution>>
    BY <1>3 DEF SaveTransfer
  <2> QED
    BY <2>1, <2>2, EventType DEF Keeps, Tried
<1>4. ASSUME NEW d \in Domain, SaveDeposit(d) PROVE Keeps
  BY <1>4 DEF SaveDeposit, InsertDeposit, Keeps
<1>5. ASSUME NEW d \in Domain, SaveFee(d) PROVE Keeps
  BY <1>5 DEF SaveFee, InsertFee, Keeps
<1>6. ASSUME NEW e \in Log, Mark(e) PROVE Keeps
  <2>1. \A k \in Key :
          /\ transfer[k].filled => transfer'[k].filled
          /\ transfer[k].status \in Tried => transfer'[k].status \in Tried
    BY <1>6, MarkWrite
  <2>2. UNCHANGED <<accounts, deposits, fees, execution>>
    BY <1>6, MarkWrite
  <2>3. ASSUME NEW f \in Log, f.kind = "executed", ~Contested(f.key),
               transfer[f.key].status = "executed"
        PROVE  transfer'[f.key].status = "executed"
    <3>1. CASE f.key = e.key
      <4>1. e.kind = "executed"
        BY <1>6, <2>3, <3>1, MarkWrite DEF Contested, Tried
      <4> QED BY <1>6, <3>1, <4>1, MarkWrite
    <3>2. CASE f.key # e.key
      BY <1>6, <2>3, <3>2, MarkWrite, EventType
    <3> QED BY <3>1, <3>2
  <2> QED
    BY <2>1, <2>2, <2>3 DEF Keeps
<1>7. ASSUME NEW e \in Log, SaveExecution(e) PROVE Keeps
  <2>1. e.key \in Key /\ e.tx \in Tx /\ e.kind \in Tried
    BY <1>7, EventType DEF SaveExecution, TypeOK, Tried
  <2>2. /\ UNCHANGED <<accounts, transfer, deposits, fees>>
        /\ execution' = [execution EXCEPT ![e.key] = e.tx]
        /\ execution \in [Key -> Tx \union {NoTx}]
    BY <1>7 DEF SaveExecution, UpsertExecution, TypeOK, StoreTypeOK
  <2>3. \A k \in Key : execution[k] # NoTx => execution'[k] # NoTx
    BY <2>1, <2>2
  <2>4. ASSUME NEW f \in Log, f.kind = "executed", ~Contested(f.key), execution[f.key] = f.tx
        PROVE  execution'[f.key] = f.tx
    <3>1. f.key \in Key
      BY EventType
    <3>2. CASE f.key = e.key
      <4>1. e.kind = "executed"
        BY <2>1, <2>4, <3>2 DEF Contested, Tried
      <4>2. e = f
        BY <2>4, <3>2, <4>1, ChainAssumption
      <4> QED BY <2>1, <2>2, <4>2
    <3>3. CASE f.key # e.key
      BY <2>2, <2>4, <3>1, <3>3
    <3> QED BY <3>2, <3>3
  <2> QED
    BY <2>2, <2>3, <2>4 DEF Keeps
<1> QED
  BY <1>1, <1>2, <1>3, <1>4, <1>5, <1>6, <1>7, Writers

\* What is recorded of an event stays.
LEMMA RecordedKept ==
  ASSUME Keeps, NEW e \in Log, Recorded(e)
  PROVE  Recorded(e)'
<1>1. e.key \in Key /\ e.kind \in Kind /\ e.tx \in Tx
  BY EventType
<1>2. Contested(e.key)' = Contested(e.key)
  BY DEF Contested
<1>3. CASE e.kind = "deposit" \/ e.kind = "fee"
  BY <1>1, <1>3 DEF Recorded, Keeps
<1>4. CASE e.kind = "failed"
  BY <1>1, <1>4 DEF Recorded, Keeps, Tried
<1>5. CASE e.kind = "executed"
  BY <1>1, <1>2, <1>5 DEF Recorded, Keeps, Tried
<1> QED
  BY <1>1, <1>3, <1>4, <1>5 DEF Kind

LEMMA RecordedStable ==
  ASSUME TypeOK, [Next]_vars, NEW e \in Log, Recorded(e)
  PROVE  Recorded(e)'
  BY Kept, RecordedKept

-----------------------------------------------------------------------------
(* What loops and callbacks know of the tables. *)

LEMMA DepositsStep == TypeOK /\ DepositsInHand /\ [Next]_vars => DepositsInHand'
<1> SUFFICES ASSUME TypeOK, DepositsInHand, [Next]_vars, NEW d \in Domain, pc'[d] = "insertDeposit"
             PROVE  transfer'[event'[d].key].filled
  BY DEF DepositsInHand
<1>1. Keeps
  BY Kept
<1>2. TypeOK'
  BY TypeStep
<1>3. event'[d] \in Log /\ event'[d].key \in Key
  BY <1>2, EventType DEF TypeOK, EventSteps, DepositSteps
<1>4. CASE pc[d] = "insertDeposit" /\ event'[d] = event[d]
  BY <1>1, <1>3, <1>4 DEF DepositsInHand, Keeps
<1>5. CASE SaveTransfer(d)
  BY <1>5, DetailsWrite DEF SaveTransfer
<1>6. ASSUME NEW c \in Domain, LoopStep(c) \/ Halt(c) \/ SavingFails(c) \/ UpdateBlockFails(c)
      PROVE  (pc[d] = "insertDeposit" /\ event'[d] = event[d]) \/ SaveTransfer(d)
  <2> USE DEF TypeOK, Goto, DepositDone, EventDone
  <2>1. CASE Resume(c) \/ ReadBlock(c) \/ UpdateBlock(c) \/ LeaveBlock(c) \/ StartFailures(c)
    BY <2>1 DEF Resume, ReadBlock, UpdateBlock, LeaveBlock, StartFailures
  <2>2. CASE TakeEvent(c)
    BY <2>2 DEF TakeEvent
  <2>3. CASE SaveAccount(c) \/ SaveTransfer(c)
    BY <2>3 DEF SaveAccount, SaveTransfer
  <2>4. CASE SaveDeposit(c) \/ DepositExists(c)
    BY <2>4 DEF SaveDeposit, DepositExists
  <2>5. CASE SaveFee(c) \/ FeeRefused(c)
    BY <2>5 DEF SaveFee, FeeRefused
  <2>6. CASE Halt(c) \/ SavingFails(c) \/ UpdateBlockFails(c)
    BY <2>6 DEF Halt, SavingFails, UpdateBlockFails
  <2> QED
    BY <1>6, <2>1, <2>2, <2>3, <2>4, <2>5, <2>6 DEF LoopStep
<1>7. ASSUME NEW e \in Log, CallbackStep(e) \/ CallbackFails(e)
      PROVE  pc[d] = "insertDeposit" /\ event'[d] = event[d]
  BY <1>7 DEF CallbackStep, Find, Mark, SaveExecution, InsertRefused, CallbackFails, loop
<1>8. CASE Restart
  BY <1>8 DEF Restart
<1>9. CASE UNCHANGED vars
  BY <1>4, <1>9 DEF vars, loop
<1> QED
  BY <1>4, <1>5, <1>6, <1>7, <1>8, <1>9 DEF Next, Step, Fault

LEMMA MapStep == TypeOK /\ MapSound /\ [Next]_vars => MapSound'
<1> SUFFICES ASSUME TypeOK, MapSound, [Next]_vars, NEW d \in Domain, NEW t \in Tx,
                    transferMap'[d][t] # NoKey
             PROVE  /\ transferMap'[d][t] \in deposits'
                    /\ \E g \in Log : g.kind = "deposit" /\ g.tx = t /\ g.key = transferMap'[d][t]
  BY DEF MapSound
<1>1. Keeps
  BY Kept
<1>2. CASE transferMap'[d] = transferMap[d]
  BY <1>1, <1>2 DEF MapSound, Keeps
<1>3. ASSUME NEW c \in Domain, ReadBlock(c) PROVE transferMap'[d] = transferMap[d]
  BY <1>3 DEF ReadBlock, TypeOK
<1>4. ASSUME NEW c \in Domain, SaveDeposit(c), transferMap'[d] # transferMap[d]
      PROVE  /\ transferMap'[d][t] \in deposits'
             /\ \E g \in Log : g.kind = "deposit" /\ g.tx = t /\ g.key = transferMap'[d][t]
  <2>1. /\ event[c] \in Log /\ event[c].kind = "deposit" /\ event[c].tx \in Tx
        /\ transferMap \in [Domain -> [Tx -> Key \union {NoKey}]]
        /\ transferMap' = [transferMap EXCEPT ![c][event[c].tx] = event[c].key]
        /\ deposits' = deposits \union {event[c].key}
    BY <1>4, EventType DEF SaveDeposit, InsertDeposit, TypeOK, EventSteps, DepositSteps
  <2>2. c = d
    BY <1>4, <2>1
  <2>3. transferMap'[d] = [transferMap[d] EXCEPT ![event[d].tx] = event[d].key]
    BY <2>1, <2>2
  <2>4. CASE t = event[d].tx
    BY <2>1, <2>2, <2>3, <2>4
  <2>5. CASE t # event[d].tx
    <3>1. transferMap'[d][t] = transferMap[d][t]
      BY <2>1, <2>3, <2>5
    <3> QED BY <1>1, <3>1 DEF MapSound, Keeps
  <2> QED BY <2>4, <2>5
<1>5. ASSUME NEW c \in Domain, LoopStep(c), ~ReadBlock(c), ~SaveDeposit(c)
      PROVE  transferMap' = transferMap
  BY <1>5
  DEF LoopStep, Resume, UpdateBlock, TakeEvent, LeaveBlock, StartFailures, SaveAccount,
      SaveTransfer, DepositExists, SaveFee, FeeRefused
<1>6. CASE \E e \in Log : CallbackStep(e)
  BY <1>2, <1>6 DEF CallbackStep, Find, Mark, SaveExecution, InsertRefused, loop
<1>7. CASE Restart
  BY <1>7 DEF Restart
<1>8. CASE Fault /\ ~Restart
  BY <1>2, <1>8 DEF Fault, Halt, SavingFails, UpdateBlockFails, CallbackFails, loop
<1>9. CASE UNCHANGED vars
  BY <1>2, <1>9 DEF vars, loop
<1>10. ASSUME NEW c \in Domain, ReadBlock(c)
       PROVE  /\ transferMap'[d][t] \in deposits'
              /\ \E g \in Log : g.kind = "deposit" /\ g.tx = t /\ g.key = transferMap'[d][t]
  BY <1>2, <1>3, <1>10
<1> QED
  BY <1>2, <1>4, <1>5, <1>6, <1>7, <1>8, <1>9, <1>10 DEF Next, Step

LEMMA CallbacksStep == TypeOK /\ CallbacksSound /\ [Next]_vars => CallbacksSound'
<1> SUFFICES ASSUME TypeOK, CallbacksSound, [Next]_vars, NEW e \in Log,
                    running'[e] = "upsertExecution"
             PROVE  Marked(e)'
  BY DEF CallbacksSound
<1>1. Keeps /\ e.key \in Key
  BY Kept, EventType
<1>2. Contested(e.key)' = Contested(e.key)
  BY DEF Contested
<1>3. CASE running[e] = "upsertExecution"
  BY <1>1, <1>2, <1>3 DEF CallbacksSound, Marked, Keeps
<1>4. CASE Mark(e)
  BY <1>2, <1>4, MarkWrite DEF Marked, Tried
<1>5. ASSUME NEW d \in Domain, LoopStep(d) PROVE running[e] = "upsertExecution"
  BY <1>5
  DEF LoopStep, Resume, ReadBlock, Start, UpdateBlock, TakeEvent, LeaveBlock, StartFailures,
      SaveAccount, SaveTransfer, SaveDeposit, DepositExists, SaveFee, FeeRefused
<1>6. ASSUME NEW f \in Log, CallbackStep(f) \/ CallbackFails(f)
      PROVE  running[e] = "upsertExecution" \/ Mark(e)
  <2> USE DEF Advance, TypeOK
  <2>1. CASE Find(f)
    BY <2>1 DEF Find
  <2>2. CASE Mark(f)
    BY <2>2 DEF Mark
  <2>3. CASE SaveExecution(f) \/ InsertRefused(f) \/ CallbackFails(f)
    BY <2>3 DEF SaveExecution, InsertRefused, CallbackFails
  <2> QED BY <1>6, <2>1, <2>2, <2>3 DEF CallbackStep
<1>7. ASSUME NEW d \in Domain, Halt(d) \/ SavingFails(d) \/ UpdateBlockFails(d)
      PROVE  running[e] = "upsertExecution"
  BY <1>7 DEF Halt, SavingFails, UpdateBlockFails
<1>8. CASE Restart
  BY <1>8 DEF Restart
<1>9. CASE UNCHANGED vars
  BY <1>3, <1>9 DEF vars
<1> QED
  BY <1>3, <1>4, <1>5, <1>6, <1>7, <1>8, <1>9 DEF Next, Step, Fault

LEMMA HandlerStep == TypeOK /\ HandlerSound /\ [Next]_vars => HandlerSound'
  BY DepositsStep, MapStep, CallbacksStep DEF HandlerSound

-----------------------------------------------------------------------------
(* The tables agree. *)

LEMMA InitTables == Init => TablesAgree
  BY NoTransferFields DEF Init, StoreInit, TablesAgree

LEMMA TablesStep == TypeOK /\ HandlerSound /\ TablesAgree /\ [Next]_vars => TablesAgree'
<1> SUFFICES ASSUME TypeOK, HandlerSound, TablesAgree, [Next]_vars PROVE TablesAgree'
  OBVIOUS
<1>1. Keeps
  BY Kept
<1>2. CASE UNCHANGED store
  BY <1>2 DEF store, TablesAgree
<1>3. ASSUME NEW d \in Domain, SaveAccount(d) PROVE TablesAgree'
  BY <1>3 DEF SaveAccount, InsertAccount, TablesAgree
<1>4. ASSUME NEW d \in Domain, SaveTransfer(d) PROVE TablesAgree'
  <2>1. UNCHANGED <<accounts, deposits, fees, execution>>
    BY <1>4 DEF SaveTransfer
  <2>2. \A k \in Key :
          /\ transfer'[k].filled => k \in accounts
          /\ transfer'[k].message # "" => transfer'[k].status = "failed"
    BY <1>4, DetailsWrite DEF TablesAgree
  <2> QED
    BY <1>1, <2>1, <2>2 DEF TablesAgree, Keeps, Tried
<1>5. ASSUME NEW d \in Domain, SaveDeposit(d) PROVE TablesAgree'
  <2>1. transfer[event[d].key].filled
    BY <1>5 DEF HandlerSound, DepositsInHand, SaveDeposit
  <2> QED
    BY <1>5, <2>1 DEF SaveDeposit, InsertDeposit, TablesAgree
<1>6. ASSUME NEW d \in Domain, SaveFee(d) PROVE TablesAgree'
  <2>1. event[d].tx \in Tx
    BY <1>6, EventType DEF SaveFee, TypeOK, EventSteps
  <2>2. Payer(d) \in deposits
    BY <1>6, <2>1 DEF SaveFee, Payer, HandlerSound, MapSound
  <2> QED
    BY <1>6, <2>2 DEF SaveFee, InsertFee, TablesAgree
<1>7. ASSUME NEW e \in Log, Mark(e) PROVE TablesAgree'
  <2>1. UNCHANGED <<accounts, deposits, fees, execution>>
    BY <1>7, MarkWrite
  <2>2. e.kind = "executed" => Reason(e) = ""
    BY DEF Reason
  <2>3. \A k \in Key :
          /\ transfer'[k].filled => transfer[k].filled
          /\ transfer'[k].message # "" => transfer'[k].status = "failed"
    <3> SUFFICES ASSUME NEW k \in Key
                 PROVE  /\ transfer'[k].filled => transfer[k].filled
                        /\ transfer'[k].message # "" => transfer'[k].status = "failed"
      OBVIOUS
    <3>1. CASE k = e.key
      BY <1>7, <2>2, <3>1, MarkWrite DEF Tried
    <3>2. CASE k # e.key
      <4>1. transfer'[k] = transfer[k]
        BY <1>7, <3>2, MarkWrite
      <4> QED BY <4>1 DEF TablesAgree
    <3> QED BY <3>1, <3>2
  <2> QED
    BY <1>1, <2>1, <2>3 DEF TablesAgree, Keeps, Tried
<1>8. ASSUME NEW e \in Log, SaveExecution(e) PROVE TablesAgree'
  <2>1. transfer[e.key].status \in Tried
    BY <1>8 DEF SaveExecution, HandlerSound, CallbacksSound, Marked
  <2>2. \A k \in Key \ {e.key} : execution'[k] = execution[k]
    BY <1>8 DEF SaveExecution, UpsertExecution, TypeOK, StoreTypeOK
  <2> QED
    BY <1>8, <2>1, <2>2 DEF SaveExecution, TablesAgree, Tried
<1> QED
  BY <1>2, <1>3, <1>4, <1>5, <1>6, <1>7, <1>8, Writers

-----------------------------------------------------------------------------
(* What the cursors have passed is settled. *)

\* A callback that ends has recorded its event, or the event is dropped.
LEMMA CallbackEnds ==
  ASSUME TypeOK, HandlerSound, [Next]_vars, NEW e \in Log,
         running[e] # "idle", running'[e] = "idle"
  PROVE  e \in dropped' \/ Recorded(e)'
<1>0. e.kind \in Kind /\ e.key \in Key /\ e.tx \in Tx /\ running \in [Log -> Progress]
  BY EventType DEF TypeOK
<1>c. Contested(e.key)' = Contested(e.key)
  BY DEF Contested
<1>1. CASE \E f \in Log : CallbackStep(f) \/ CallbackFails(f)
  <2>1. PICK f \in Log : CallbackStep(f) \/ CallbackFails(f)
    BY <1>1
  <2>2. f = e
    BY <1>0, <2>1
    DEF CallbackStep, Find, Mark, SaveExecution, InsertRefused, CallbackFails, Advance
  <2>3. CASE Find(e)
    <3>1. e.kind = "failed" /\ transfer[e.key].status = "executed" /\ transfer' = transfer
      BY <1>0, <2>3 DEF Find, Advance, store
    <3> QED BY <3>1 DEF Recorded
  <2>4. CASE Mark(e)
    BY <1>0, <2>4 DEF Mark, Advance
  <2>5. CASE SaveExecution(e)
    <3>1. Marked(e) /\ transfer' = transfer
      BY <2>5 DEF SaveExecution, HandlerSound, CallbacksSound
    <3>2. execution'[e.key] = e.tx /\ e.tx # NoTx
      BY <1>0, <2>5 DEF SaveExecution, UpsertExecution, TypeOK, StoreTypeOK
    <3>3. e.kind \in Tried
      BY <2>5 DEF SaveExecution, TypeOK, Tried
    <3> QED BY <1>c, <3>1, <3>2, <3>3 DEF Marked, Recorded, Tried
  <2>6. CASE InsertRefused(e) \/ CallbackFails(e)
    BY <2>6 DEF InsertRefused, CallbackFails
  <2> QED BY <2>1, <2>2, <2>3, <2>4, <2>5, <2>6 DEF CallbackStep
<1>2. ASSUME NEW d \in Domain, LoopStep(d) PROVE FALSE
  BY <1>2
  DEF LoopStep, Resume, ReadBlock, Start, UpdateBlock, TakeEvent, LeaveBlock, StartFailures,
      SaveAccount, SaveTransfer, SaveDeposit, DepositExists, SaveFee, FeeRefused
<1>3. ASSUME NEW d \in Domain, Halt(d) \/ SavingFails(d) \/ UpdateBlockFails(d) PROVE FALSE
  BY <1>3 DEF Halt, SavingFails, UpdateBlockFails
<1>4. CASE Restart
  BY <1>4 DEF Restart
<1>5. CASE UNCHANGED vars
  BY <1>5 DEF vars
<1> QED
  BY <1>1, <1>2, <1>3, <1>4, <1>5 DEF Next, Step, Fault

LEMMA SettledStable ==
  ASSUME TypeOK, HandlerSound, [Next]_vars, NEW e \in Log,
         e \in dropped => e \in dropped', Settled(e)
  PROVE  Settled(e)'
<1>1. ShareExtrinsic(e)' = ShareExtrinsic(e)
  BY DEF ShareExtrinsic
<1>2. running[e] # "idle" /\ running'[e] = "idle" => e \in dropped' \/ Recorded(e)'
  BY CallbackEnds
<1>3. Recorded(e) => Recorded(e)'
  BY RecordedStable
<1> QED
  BY <1>1, <1>2, <1>3 DEF Settled

\* A step of one listener leaves the others' local state alone, and what was
\* dropped on their chains.
Acts(d) == LoopStep(d) \/ Halt(d) \/ SavingFails(d) \/ UpdateBlockFails(d)

LEMMA OthersUntouched ==
  ASSUME TypeOK, NEW d \in Domain, Acts(d), NEW c \in Domain \ {d}
  PROVE  /\ pc'[c] = pc[c] /\ todo'[c] = todo[c] /\ event'[c] = event[c]
         /\ currentBlock'[c] = currentBlock[c]
         /\ lastIndexedBlock'[c] = lastIndexedBlock[c]
         /\ \A e \in Log : EmittedBy(e) = c => (e \in dropped => e \in dropped')
<1> USE DEF TypeOK, Goto, EventDone, DepositDone
<1>1. CASE ReadBlock(d)
  BY <1>1 DEF ReadBlock, InBlock
<1>2. CASE TakeEvent(d)
  BY <1>2 DEF TakeEvent
<1>3. CASE Resume(d) \/ UpdateBlock(d) \/ LeaveBlock(d) \/ StartFailures(d)
  BY <1>3 DEF Resume, UpdateBlock, LeaveBlock, StartFailures
<1>4. CASE SaveAccount(d) \/ SaveTransfer(d)
  BY <1>4 DEF SaveAccount, SaveTransfer
<1>5. CASE SaveDeposit(d) \/ DepositExists(d)
  BY <1>5 DEF SaveDeposit, DepositExists
<1>6. CASE SaveFee(d) \/ FeeRefused(d)
  BY <1>6 DEF SaveFee, FeeRefused
<1>7. CASE Halt(d) \/ SavingFails(d) \/ UpdateBlockFails(d)
  BY <1>7 DEF Halt, SavingFails, UpdateBlockFails
<1> QED
  BY <1>1, <1>2, <1>3, <1>4, <1>5, <1>6, <1>7 DEF Acts, LoopStep

LEMMA InitBlocks == Init => BlocksSound
  BY DEF Init, BlocksSound, BlockSound, EventSteps, DepositSteps

\* The fee of an extrinsic with one deposit is the fee of that deposit.
LEMMA FeeFindsDeposit ==
  ASSUME TypeOK, MapSound, NEW d \in Domain, NEW e \in Log, e = event[d],
         e.kind = "fee", ~ShareExtrinsic(e), Payer(d) # NoKey
  PROVE  Payer(d) = e.key
<1>1. e.tx \in Tx
  BY EventType
<1>2. PICK g \in Log : g.kind = "deposit" /\ g.tx = e.tx /\ g.key = Payer(d)
  BY <1>1 DEF MapSound, Payer
<1>3. PICK f \in Log : f.kind = "deposit" /\ f.key = e.key /\ f.tx = e.tx
  BY FeeAssumption
<1> QED
  BY <1>2, <1>3 DEF ShareExtrinsic

LEMMA BlocksStep ==
  TypeOK /\ HandlerSound /\ TablesAgree /\ BlocksSound /\ [Next]_vars => BlocksSound'
<1> SUFFICES ASSUME TypeOK, HandlerSound, TablesAgree, BlocksSound, [Next]_vars
             PROVE  BlocksSound'
  OBVIOUS
<1>t. TypeOK'
  BY TypeStep
<1>s. \A e \in Log : Settled(e) /\ (e \in dropped => e \in dropped') => Settled(e)'
  BY SettledStable
<1>1. ASSUME NEW d \in Domain, Acts(d), NEW c \in Domain \ {d} PROVE BlockSound(c)'
  <2>1. BlockSound(c)
    BY DEF BlocksSound
  <2>2. \A e \in Log : EmittedBy(e) = c /\ Settled(e) => Settled(e)'
    BY <1>1, <1>s, OthersUntouched
  <2>3. pc[c] \in EventSteps => event[c] \in Log /\ EmittedBy(event[c]) = c
    BY DEF TypeOK
  <2> QED
    BY <1>1, <2>1, <2>2, <2>3, OthersUntouched DEF BlockSound, SettledBelow, InBlock, EventSteps
<1>2. ASSUME NEW d \in Domain, Acts(d) PROVE BlockSound(d)'
  <2>0. BlockSound(d)
    BY DEF BlocksSound
  <2> USE DEF SettledBelow, InBlock, EventSteps, DepositSteps
  <2>e. pc[d] \in EventSteps => event[d] \in Log
    BY DEF TypeOK
  \* A step while the event is in hand.
  <2>a. ASSUME UNCHANGED <<lastIndexedBlock, currentBlock, todo>>, dropped \subseteq dropped',
               event'[d] = event[d], pc[d] \in EventSteps, pc'[d] \in EventSteps,
               pc'[d] = "insertFee" => \A e \in Log : e = event[d] => Settled(e)'
        PROVE  BlockSound(d)'
    BY <2>0, <2>a, <2>e, <1>s DEF BlockSound
  \* The event is put down.
  <2>b. ASSUME UNCHANGED <<lastIndexedBlock, currentBlock, todo>>, dropped \subseteq dropped',
               pc[d] \in EventSteps, pc'[d] = "next",
               \A e \in Log : e = event[d] => Settled(e)'
        PROVE  BlockSound(d)'
    BY <2>0, <2>b, <1>s DEF BlockSound
  \* The deposit is put down, or its legacy fee is up.
  <2>c. ASSUME UNCHANGED <<lastIndexedBlock, currentBlock, todo>>, dropped \subseteq dropped',
               pc[d] \in DepositSteps, DepositDone(d),
               \A e \in Log : e = event[d] => Settled(e)'
        PROVE  BlockSound(d)'
    BY <2>a, <2>b, <2>c, DepositDoneTypes
  <2>1. CASE Resume(d)
    BY <2>0, <2>1, <1>s, <1>t DEF Resume, Goto, BlockSound, ResumeBlock, TypeOK
  <2>2. CASE ReadBlock(d)
    <3>1. \A e \in Log : EmittedBy(e) = d /\ e.block < currentBlock[d] /\ Settled(e) => Settled(e)'
      BY <2>2, <1>s, EventType DEF ReadBlock, TypeOK
    <3>2. \A e \in InBlock(d) : Settled(e)' \/ e \in todo'[d]
      BY <2>2 DEF ReadBlock, Start, Settled, TypeOK
    <3>3. /\ pc'[d] = "next" /\ pc[d] = "top"
          /\ UNCHANGED <<lastIndexedBlock, currentBlock>>
      BY <2>2 DEF ReadBlock, Goto, TypeOK
    <3>4. /\ SettledBelow(d, currentBlock[d])
          /\ lastIndexedBlock[d] <= StartBlock \/ lastIndexedBlock[d] < currentBlock[d]
          /\ lastIndexedBlock[d] \in Nat /\ currentBlock[d] \in Nat
      BY <2>0, <3>3 DEF BlockSound, TypeOK
    <3>5. \A e \in Log : EmittedBy(e) = d /\ StartBlock <= e.block /\ e.block < currentBlock[d]
                          => Settled(e)'
      BY <3>1, <3>4
    <3>6. \A e \in Log : e.block < lastIndexedBlock[d] + 1 /\ StartBlock < lastIndexedBlock[d]
                          => e.block < currentBlock[d]
      BY <3>4, EventType
    <3>7. \A e \in Log : EmittedBy(e) = d /\ e.block = currentBlock[d] => Settled(e)' \/ e \in todo'[d]
      BY <3>2
    <3> QED
      BY <3>3, <3>4, <3>5, <3>6, <3>7 DEF BlockSound
  <2>d. ASSUME pc[d] = "updateBlock", NEW e \in Log, EmittedBy(e) = d,
               StartBlock <= e.block, e.block < currentBlock[d] + 1
        PROVE  Settled(e)
    <3>1. e.block \in Nat /\ currentBlock[d] \in Nat
      BY EventType DEF TypeOK
    <3>2. e.block < currentBlock[d] \/ e \in InBlock(d)
      BY <2>d, <3>1
    <3> QED
      BY <2>0, <2>d, <3>2 DEF BlockSound
  <2>3. CASE UpdateBlock(d)
    <3>1. \A e \in Log : EmittedBy(e) = d /\ StartBlock <= e.block /\ e.block < currentBlock[d] + 1
                          => Settled(e)'
      BY <2>3, <2>d, <1>s DEF UpdateBlock
    <3>2. /\ pc'[d] = "top" /\ lastIndexedBlock'[d] = currentBlock[d]
          /\ currentBlock'[d] = currentBlock[d] + 1
      BY <2>3 DEF UpdateBlock, Goto, LiveInterval, TypeOK
    <3> QED
      BY <3>1, <3>2 DEF BlockSound, TypeOK
  <2>4. CASE UpdateBlockFails(d)
    <3>1. \A e \in Log : EmittedBy(e) = d /\ StartBlock <= e.block /\ e.block < currentBlock[d] + 1
                          => Settled(e)'
      BY <2>4, <2>d, <1>s DEF UpdateBlockFails
    <3>2. /\ pc'[d] = "top" /\ lastIndexedBlock' = lastIndexedBlock /\ dropped' = dropped
          /\ currentBlock'[d] = currentBlock[d] + 1 /\ pc[d] = "updateBlock"
      BY <2>4 DEF UpdateBlockFails, Goto, LiveInterval, TypeOK
    <3> QED
      BY <2>0, <1>s, <3>1, <3>2 DEF BlockSound, TypeOK
  <2>5. CASE TakeEvent(d)
    <3>1. PICK e \in todo[d] :
            /\ e.kind \in {"deposit", "fee"}
            /\ todo' = [todo EXCEPT ![d] = @ \ {e}]
            /\ event' = [event EXCEPT ![d] = e]
            /\ Goto(d, IF e.kind = "deposit" THEN "insertAccount" ELSE "insertFee")
      BY <2>5 DEF TakeEvent, Foremost, Queue
    <3>2. /\ event'[d] = e /\ todo'[d] = todo[d] \ {e} /\ pc[d] = "next"
          /\ pc'[d] = IF e.kind = "deposit" THEN "insertAccount" ELSE "insertFee"
          /\ UNCHANGED <<lastIndexedBlock, currentBlock, dropped>>
      BY <2>5, <3>1 DEF TakeEvent, Goto, TypeOK
    <3> QED
      BY <2>0, <1>s, <3>1, <3>2 DEF BlockSound
  <2>6. CASE LeaveBlock(d)
    <3>1. /\ pc[d] = "next" /\ pc'[d] = "updateBlock" /\ todo'[d] = {}
          /\ dropped' = dropped \union todo[d] /\ UNCHANGED <<lastIndexedBlock, currentBlock>>
      BY <2>6 DEF LeaveBlock, Goto, TypeOK
    <3>2. \A e \in todo[d] : Settled(e)'
      BY <3>1 DEF Settled
    <3> QED
      BY <2>0, <1>s, <3>1, <3>2 DEF BlockSound
  <2>7. CASE StartFailures(d)
    <3>1. /\ pc[d] = "next" /\ pc'[d] = "updateBlock" /\ todo'[d] = {}
          /\ running' = Start(todo[d]) /\ UNCHANGED <<lastIndexedBlock, currentBlock, dropped>>
      BY <2>7 DEF StartFailures, Goto, TypeOK
    <3>2. \A e \in todo[d] : Settled(e)'
      BY <3>1 DEF Start, Settled, TypeOK
    <3> QED
      BY <2>0, <1>s, <3>1, <3>2 DEF BlockSound
  <2>8. CASE SaveAccount(d) \/ SaveTransfer(d)
    BY <2>8, <2>a DEF SaveAccount, SaveTransfer, Goto, TypeOK
  <2>9. CASE SaveDeposit(d)
    <3>1. /\ event[d].kind = "deposit" /\ event[d].key \in deposits'
          /\ transfer' = transfer /\ transfer[event[d].key].filled
      BY <2>9 DEF SaveDeposit, InsertDeposit, HandlerSound, DepositsInHand, TypeOK
    <3>2. \A e \in Log : e = event[d] => Settled(e)'
      BY <3>1 DEF Settled, Recorded
    <3> QED
      BY <2>9, <3>2, <2>c DEF SaveDeposit
  <2>10. CASE DepositExists(d)
    <3>1. /\ event[d].kind = "deposit" /\ event[d].key \in deposits /\ event[d].key \in Key
      BY <2>10, EventType DEF DepositExists, TypeOK
    <3>2. \A e \in Log : e = event[d] => Settled(e)'
      BY <2>10, <3>1 DEF DepositExists, store, TablesAgree, Recorded, Settled
    <3> QED
      BY <2>10, <3>2, <2>c DEF DepositExists
  <2>11. CASE SaveFee(d)
    <3>1. /\ event[d] \in Log /\ event[d].kind \in {"deposit", "fee"} /\ pc[d] = "insertFee"
          /\ dropped' = dropped /\ fees' = fees \union {Payer(d)} /\ Payer(d) # NoKey
      BY <2>11 DEF SaveFee, InsertFee, TypeOK
    <3>2. CASE event[d].kind = "deposit"
      <4>1. Settled(event[d])
        BY <2>0, <3>1, <3>2 DEF BlockSound
      <4>2. \A e \in Log : e = event[d] => Settled(e)'
        BY <1>s, <3>1, <4>1
      <4> QED
        BY <2>11, <2>b, <3>1, <4>2, EventDoneTypes DEF SaveFee
    <3>3. CASE event[d].kind = "fee"
      <4>1. ~ShareExtrinsic(event[d]) => Payer(d) = event[d].key
        BY <3>1, <3>3, FeeFindsDeposit DEF HandlerSound
      <4>2. \A e \in Log : e = event[d] => Settled(e)'
        BY <3>1, <3>3, <4>1 DEF Settled, Recorded, ShareExtrinsic
      <4> QED
        BY <2>11, <2>b, <3>1, <4>2, EventDoneTypes DEF SaveFee
    <3> QED BY <3>1, <3>2, <3>3
  <2>12. CASE FeeRefused(d)
    <3>1. event[d] \in dropped'
      BY <2>12 DEF FeeRefused
    <3>2. /\ pc[d] = "insertFee" /\ pc'[d] = "next" /\ dropped \subseteq dropped'
          /\ UNCHANGED <<lastIndexedBlock, currentBlock, todo>>
      BY <2>12, EventDoneTypes DEF FeeRefused
    <3>3. \A e \in Log : e = event[d] => Settled(e)'
      BY <3>1 DEF Settled
    <3> QED
      BY <2>0, <1>s, <3>2, <3>3 DEF BlockSound
  <2>13. CASE SavingFails(d)
    <3>1. event[d] \in dropped' /\ dropped \subseteq dropped'
          /\ UNCHANGED <<lastIndexedBlock, currentBlock, todo>>
      BY <2>13 DEF SavingFails
    <3>2. \A e \in Log : e = event[d] => Settled(e)'
      BY <3>1 DEF Settled
    <3>3. pc[d] \in EventSteps /\ (pc'[d] = "next" \/ (pc'[d] = "insertFee" /\ event'[d] = event[d]))
      <4>1. CASE pc[d] \in DepositSteps /\ DepositDone(d)
        BY <4>1, DepositDoneTypes
      <4>2. CASE pc[d] = "insertFee" /\ EventDone(d)
        BY <4>2, EventDoneTypes
      <4> QED BY <2>13, <4>1, <4>2 DEF SavingFails
    <3> QED
      BY <2>0, <2>e, <1>s, <3>1, <3>2, <3>3 DEF BlockSound
  <2>14. CASE Halt(d)
    BY <2>0, <2>14, <1>s DEF Halt, Goto, BlockSound, TypeOK
  <2> QED
    BY <1>2, <2>1, <2>2, <2>3, <2>4, <2>5, <2>6, <2>7, <2>8, <2>9, <2>10, <2>11, <2>12,
       <2>13, <2>14 DEF Acts, LoopStep
<1>3. ASSUME NEW e \in Log, CallbackStep(e) \/ CallbackFails(e) PROVE BlocksSound'
  <2>1. UNCHANGED loop /\ dropped \subseteq dropped'
    BY <1>3 DEF CallbackStep, Find, Mark, SaveExecution, InsertRefused, CallbackFails
  <2>2. \A f \in Log : Settled(f) => Settled(f)'
    BY <1>s, <2>1
  <2> QED
    BY <2>1, <2>2 DEF loop, BlocksSound, BlockSound, SettledBelow, InBlock, TypeOK, EventSteps
<1>4. CASE Restart
  BY <1>4, <1>s DEF Restart, BlocksSound, BlockSound, SettledBelow, EventSteps, DepositSteps
<1>5. CASE UNCHANGED vars
  BY <1>5, <1>s DEF vars, loop, BlocksSound, BlockSound, SettledBelow, InBlock, TypeOK, EventSteps
<1> QED
  BY <1>1, <1>2, <1>3, <1>4, <1>5 DEF BlocksSound, Next, Step, Fault, Acts

-----------------------------------------------------------------------------
(* The life cycle. *)

\* Of a transfer without a failure there are executions only, and one at most.
LEMMA UncontestedEvents ==
  ASSUME NEW e \in Log, e.kind \in Tried, e.key \in Uncontested
  PROVE  /\ e.kind = "executed"
         /\ \A f \in Log : f.kind = "executed" /\ f.key = e.key => f = e
  BY ChainAssumption DEF Uncontested, Contested, Tried

\* Every step is a step of TransferLifecycle for a transfer that no failure was
\* emitted for, or changes nothing it shows.
LEMMA LifecycleStep ==
  TypeOK /\ HandlerSound /\ TablesAgree /\ [Next]_vars => [Lifecycle!Next]_Lifecycle!vars
<1> SUFFICES ASSUME TypeOK, HandlerSound, TablesAgree, [Next]_vars
             PROVE  [Lifecycle!Next]_Lifecycle!vars
  OBVIOUS
<1> DEFINE status == [k \in Uncontested |-> transfer[k].status]
           known == {k \in Uncontested : transfer[k].filled}
           named == {k \in Uncontested : \E e \in Log :
                       e.kind = "executed" /\ e.key = k /\ execution[k] = e.tx}
           tried == {k \in Uncontested : execution[k] # NoTx}
<1>u. Uncontested \subseteq Key /\ Uncontested' = Uncontested
  BY DEF Uncontested, Contested
<1>1. execution' = execution => named' = named /\ tried' = tried
  BY <1>u
<1>2. transfer' = transfer => status' = status /\ known' = known
  BY <1>u
<1>3. CASE UNCHANGED <<transfer, deposits, fees, execution>>
  BY <1>u, <1>1, <1>2, <1>3 DEF Lifecycle!vars
<1>4. ASSUME NEW d \in Domain, SaveTransfer(d) PROVE [Lifecycle!Next]_Lifecycle!vars
  <2> DEFINE k == event[d].key
  <2>1. /\ k \in Key /\ transfer'[k].filled
        /\ transfer'[k].status = IF transfer[k].status = "absent" THEN "pending"
                                 ELSE transfer[k].status
        /\ \A j \in Key \ {k} : transfer'[j] = transfer[j]
        /\ UNCHANGED <<deposits, fees, execution>>
    BY <1>4, DetailsWrite
  <2>2. CASE k \in Uncontested
    <3>1. status' = [status EXCEPT ![k] = IF @ = "absent" THEN "pending" ELSE @]
      BY <1>u, <2>1, <2>2
    <3>2. known' = known \union {k}
      BY <1>u, <2>1, <2>2
    <3>3. UNCHANGED <<deposits \intersect Uncontested, fees \intersect Uncontested>>
      BY <1>u, <2>1
    <3> QED
      BY <1>1, <2>1, <2>2, <3>1, <3>2, <3>3 DEF Lifecycle!Next, Lifecycle!Deposited
  <2>3. CASE k \notin Uncontested
    <3>1. \A j \in Uncontested : transfer'[j] = transfer[j]
      BY <1>u, <2>1, <2>3
    <3>2. status' = status /\ known' = known
      BY <1>u, <3>1
    <3> QED
      BY <1>u, <1>1, <2>1, <3>2 DEF Lifecycle!vars
  <2> QED BY <2>2, <2>3
<1>5. ASSUME NEW e \in Log, Mark(e) PROVE [Lifecycle!Next]_Lifecycle!vars
  <2> DEFINE k == e.key
  <2>1. /\ e.kind \in Tried /\ k \in Key
        /\ transfer'[k].status = e.kind
        /\ transfer'[k].filled = transfer[k].filled
        /\ \A j \in Key \ {k} : transfer'[j] = transfer[j]
        /\ UNCHANGED <<deposits, fees, execution>>
    BY <1>5, MarkWrite
  <2>2. known' = known
    BY <1>u, <2>1
  <2>3. UNCHANGED <<deposits \intersect Uncontested, fees \intersect Uncontested>>
    BY <1>u, <2>1
  <2>4. CASE k \in Uncontested
    <3>1. e.kind = "executed"
      BY <2>1, <2>4, UncontestedEvents
    <3>2. status' = [status EXCEPT ![k] = "executed"]
      BY <1>u, <2>1, <2>4, <3>1
    <3> QED
      BY <1>1, <2>1, <2>2, <2>3, <2>4, <3>2 DEF Lifecycle!Next, Lifecycle!Executed
  <2>5. CASE k \notin Uncontested
    <3>1. status' = status
      BY <1>u, <2>1, <2>5
    <3> QED
      BY <1>u, <1>1, <2>1, <2>2, <2>3, <3>1 DEF Lifecycle!vars
  <2> QED BY <2>4, <2>5
<1>6. ASSUME NEW d \in Domain, SaveDeposit(d) PROVE [Lifecycle!Next]_Lifecycle!vars
  <2> DEFINE k == event[d].key
  <2>1. /\ transfer[k].filled /\ k \notin deposits /\ deposits' = deposits \union {k}
        /\ UNCHANGED <<transfer, fees, execution>>
    BY <1>6 DEF SaveDeposit, InsertDeposit, HandlerSound, DepositsInHand
  <2>2. CASE k \in Uncontested
    BY <1>u, <1>1, <1>2, <2>1, <2>2 DEF Lifecycle!Next, Lifecycle!FileDeposit
  <2>3. CASE k \notin Uncontested
    BY <1>u, <1>1, <1>2, <2>1, <2>3 DEF Lifecycle!vars
  <2> QED BY <2>2, <2>3
<1>7. ASSUME NEW d \in Domain, SaveFee(d) PROVE [Lifecycle!Next]_Lifecycle!vars
  <2> DEFINE k == Payer(d)
  <2>1. event[d].tx \in Tx
    BY <1>7, EventType DEF SaveFee, TypeOK, EventSteps
  <2>2. k \in deposits
    BY <1>7, <2>1 DEF SaveFee, Payer, HandlerSound, MapSound
  <2>3. k \notin fees /\ fees' = fees \union {k} /\ UNCHANGED <<transfer, deposits, execution>>
    BY <1>7 DEF SaveFee, InsertFee
  <2>4. CASE k \in Uncontested
    BY <1>u, <1>1, <1>2, <2>2, <2>3, <2>4 DEF Lifecycle!Next, Lifecycle!FileFee
  <2>5. CASE k \notin Uncontested
    BY <1>u, <1>1, <1>2, <2>3, <2>5 DEF Lifecycle!vars
  <2> QED BY <2>4, <2>5
<1>8. ASSUME NEW e \in Log, SaveExecution(e) PROVE [Lifecycle!Next]_Lifecycle!vars
  <2> DEFINE k == e.key
  <2>1. /\ k \in Key /\ e.tx \in Tx /\ e.tx # NoTx /\ e.kind \in Tried /\ Marked(e)
        /\ execution' = [execution EXCEPT ![k] = e.tx]
        /\ execution \in [Key -> Tx \union {NoTx}]
        /\ UNCHANGED <<transfer, deposits, fees>>
    BY <1>8, EventType
    DEF SaveExecution, UpsertExecution, TypeOK, StoreTypeOK, Tried, HandlerSound, CallbacksSound
  <2>2. UNCHANGED <<deposits \intersect Uncontested, fees \intersect Uncontested>>
    BY <1>u, <2>1
  <2>3. CASE k \in Uncontested
    <3>1. /\ e.kind = "executed"
          /\ \A f \in Log : f.kind = "executed" /\ f.key = k => f = e
      BY <2>1, <2>3, UncontestedEvents
    <3>2. status[k] = "executed"
      BY <2>1, <2>3, <3>1 DEF Marked, Uncontested
    <3>3. tried' = tried \union {k}
      BY <1>u, <2>1, <2>3
    <3>4. named' = named \union {k}
      BY <1>u, <2>1, <2>3, <3>1
    <3> QED
      BY <1>2, <2>1, <2>2, <2>3, <3>2, <3>3, <3>4 DEF Lifecycle!Next, Lifecycle!FileExecution
  <2>4. CASE k \notin Uncontested
    <3>1. \A j \in Uncontested : execution'[j] = execution[j]
      BY <1>u, <2>1, <2>4
    <3>2. named' = named /\ tried' = tried
      BY <1>u, <3>1
    <3> QED
      BY <1>2, <2>1, <2>2, <3>2 DEF Lifecycle!vars
  <2> QED BY <2>3, <2>4
<1>9. CASE UNCHANGED store \/ \E d \in Domain : SaveAccount(d)
  BY <1>3, <1>9 DEF store, SaveAccount
<1> QED
  BY <1>4, <1>5, <1>6, <1>7, <1>8, <1>9, Writers

-----------------------------------------------------------------------------
(* The loops and callbacks among others that write to the same tables.      *)

\* The transfers that executions are recorded of by these callbacks.
TriedHere == {k \in Key : \E e \in Log : e.kind \in Tried /\ e.key = k}

\* What others may do meanwhile.
Environment ==
  /\ Grows
  /\ DepositOnly(TriedHere)
  /\ UNCHANGED <<loop, running, dropped>>

\* What these loops and callbacks do to the transfers whose executions others record.
LEMMA Guarantee ==
  ASSUME TypeOK, [Next]_vars
  PROVE  Grows /\ DepositOnly(Key \ TriedHere)
<1>1. Grows
  BY Kept, TypeStep DEF Keeps, Grows, TypeOK
<1>2. UNCHANGED <<transfer, execution>> => DepositOnly(Key \ TriedHere)
  BY DEF DepositOnly
<1>3. ASSUME NEW d \in Domain, SaveTransfer(d) PROVE DepositOnly(Key \ TriedHere)
  BY <1>3, DetailsWrite DEF DepositOnly
<1>4. ASSUME NEW e \in Log, Mark(e) PROVE DepositOnly(Key \ TriedHere)
  BY <1>4, MarkWrite DEF DepositOnly, TriedHere
<1>5. ASSUME NEW e \in Log, SaveExecution(e) PROVE DepositOnly(Key \ TriedHere)
  <2>1. e.key \in TriedHere
    BY <1>5, EventType DEF SaveExecution, TypeOK, Tried, TriedHere
  <2> QED
    BY <1>5, <2>1 DEF SaveExecution, UpsertExecution, TypeOK, StoreTypeOK, DepositOnly
<1>6. ASSUME \/ UNCHANGED store
             \/ \E d \in Domain : SaveAccount(d) \/ SaveDeposit(d) \/ SaveFee(d)
      PROVE  DepositOnly(Key \ TriedHere)
  BY <1>2, <1>6 DEF store, SaveAccount, SaveDeposit, SaveFee
<1> QED
  BY <1>1, <1>3, <1>4, <1>5, <1>6, Writers

\* What loops and callbacks know, and what is recorded, survives them.
LEMMA EnvironmentKeeps == Environment => Keeps
<1> SUFFICES ASSUME Environment PROVE Keeps
  OBVIOUS
<1>1. ASSUME NEW e \in Log, e.kind = "executed"
      PROVE  /\ transfer[e.key].status = "executed" => transfer'[e.key].status = "executed"
             /\ execution[e.key] = e.tx => execution'[e.key] = e.tx
  <2>1. e.key \in TriedHere
    BY <1>1, EventType DEF TriedHere, Tried
  <2> QED
    BY <2>1 DEF Environment, DepositOnly
<1> QED
  BY <1>1 DEF Environment, Grows, Keeps

LEMMA EnvironmentStep ==
  ASSUME TypeOK, HandlerSound, BlocksSound, Environment
  PROVE  TypeOK' /\ HandlerSound' /\ BlocksSound'
<1>1. Keeps
  BY EnvironmentKeeps
<1> USE DEF loop
<1>2. TypeOK'
  BY DEF Environment, Grows, TypeOK
<1>3. DepositsInHand'
  <2> SUFFICES ASSUME NEW d \in Domain, pc[d] = "insertDeposit"
               PROVE  transfer'[event[d].key].filled
    BY DEF Environment, DepositsInHand
  <2>1. event[d].key \in Key /\ transfer[event[d].key].filled
    BY EventType DEF HandlerSound, DepositsInHand, TypeOK, EventSteps, DepositSteps
  <2> QED
    BY <1>1, <2>1 DEF Keeps
<1>4. MapSound'
  <2>1. deposits \subseteq deposits' /\ transferMap' = transferMap
    BY <1>1 DEF Environment, Keeps
  <2> QED
    BY <2>1 DEF HandlerSound, MapSound
<1>5. CallbacksSound'
  <2> SUFFICES ASSUME NEW e \in Log, running[e] = "upsertExecution"
               PROVE  Marked(e)'
    BY DEF Environment, CallbacksSound
  <2>1. e.key \in Key /\ Marked(e)
    BY EventType DEF HandlerSound, CallbacksSound
  <2>2. Contested(e.key)' = Contested(e.key)
    BY DEF Contested
  <2> QED
    BY <1>1, <2>1, <2>2 DEF Marked, Keeps
<1>6. BlocksSound'
  <2>1. \A e \in Log : ShareExtrinsic(e)' = ShareExtrinsic(e)
    BY DEF ShareExtrinsic
  <2>2. \A e \in Log : Settled(e) => Settled(e)'
    BY <1>1, <2>1, RecordedKept DEF Environment, Settled
  <2> QED
    BY <2>2 DEF Environment, BlocksSound, BlockSound, SettledBelow, InBlock, TypeOK, EventSteps
<1> QED
  BY <1>2, <1>3, <1>4, <1>5, <1>6 DEF HandlerSound

-----------------------------------------------------------------------------
(* The theorems. *)

LEMMA Initially == Init => IInv
<1>1. Init => HandlerSound
  BY DEF Init, HandlerSound, DepositsInHand, MapSound, CallbacksSound
<1> QED
  BY <1>1, InitType, InitTables, InitBlocks DEF IInv

LEMMA Inductive == IInv /\ [Next]_vars => IInv'
  BY TypeStep, HandlerStep, TablesStep, BlocksStep DEF IInv

\* The inductive invariant holds in every state.
THEOREM Invariance == Spec => []IInv
  BY Initially, Inductive, PTL DEF Spec

\* The tables agree with each other at every step of every loop and callback.
THEOREM TablesAlwaysAgree == Spec => []TablesAgree
<1>1. IInv => TablesAgree
  BY DEF IInv
<1> QED
  BY <1>1, Invariance, PTL

\* What the blocks below the cursors say, said of each event.
LEMMA Accounting == IInv => PassedEventsAreAccountedFor
<1> SUFFICES ASSUME IInv, NEW e \in Log, Passed(e) PROVE Settled(e)
  BY DEF PassedEventsAreAccountedFor, Settled
<1> DEFINE d == EmittedBy(e)
<1>1. /\ d \in Domain /\ StartBlock < lastIndexedBlock[d]
      /\ e.block \in StartBlock .. lastIndexedBlock[d]
  BY DEF Passed
<1>2. SettledBelow(d, lastIndexedBlock[d] + 1)
  BY <1>1 DEF IInv, BlocksSound, BlockSound, TypeOK
<1>3. e.block \in Nat /\ lastIndexedBlock[d] \in Nat
  BY <1>1, EventType DEF IInv, TypeOK
<1> QED
  BY <1>1, <1>2, <1>3 DEF SettledBelow

\* Every event the persisted cursor has passed is recorded, or its callback runs, or
\* its saving was not completed; fees of batched deposits excepted.
THEOREM PassedAreAccountedFor == Spec => []PassedEventsAreAccountedFor
  BY Accounting, Invariance, PTL

\* Of a transfer that no failure was emitted for, the tables change only as
\* TransferLifecycle says, in whatever order loops and callbacks write them.
THEOREM RefinesLifecycle == Spec => ImplementsLifecycle
<1>1. Init => Lifecycle!Init
  <2> SUFFICES ASSUME Init PROVE Lifecycle!Init
    OBVIOUS
  <2>1. \A k \in Uncontested : k \in Key /\ transfer[k] = NoTransfer /\ execution[k] = NoTx
    BY DEF Init, StoreInit, Uncontested
  <2>2. {k \in Uncontested : \E e \in Log :
          e.kind = "executed" /\ e.key = k /\ execution[k] = e.tx} = {}
    BY <2>1, EventType
  <2> QED
    BY <2>1, <2>2, NoTransferFields DEF Init, StoreInit, Lifecycle!Init
<1>2. IInv /\ [Next]_vars => [Lifecycle!Next]_Lifecycle!vars
  BY LifecycleStep DEF IInv
<1> QED
  BY <1>1, <1>2, Invariance, PTL DEF Spec, ImplementsLifecycle, Lifecycle!Spec
=============================================================================
