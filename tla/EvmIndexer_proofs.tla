-------------------------- MODULE EvmIndexer_proofs --------------------------
(***************************************************************************)
(* Proofs about EvmIndexer, for every set of domains, every content of the *)
(* chains, every choice of failing decodings and every query interval.     *)
(*                                                                         *)
(* The argument: a key's status is written by one listener only, the one   *)
(* of the domain the transfer goes to, apart from the row's creation.  So  *)
(* what that listener read before a write still holds at the write, which  *)
(* HandlerSound records for every step of a handler; the tables agree and  *)
(* the life cycle is respected because of it; nothing a handler recorded   *)
(* is ever taken back; hence the ranges below the cursors stay recorded.   *)
(***************************************************************************)
EXTENDS EvmIndexer, TransferStore_proofs, TLAPS

\* What a handler in progress knows about the rows of its event's transfer.
HandlerSound ==
  \A d \in Domain :
    LET k == event[d].key
    IN  /\ pc[d] \in {"findRows", "insertRows"} => transfer[k].filled
        /\ pc[d] = "insertRows" => /\ "deposit" \in seen[d] => k \in deposits
                                   /\ "fee" \in seen[d] => k \in fees
        /\ pc[d] = "markTransfer" => ~Overtaken(event[d])
        /\ pc[d] = "upsertExecution" => transfer[k].status = event[d].kind

\* No more is to be done for the event.
Done(e) == Ignored(e) \/ e \in lost \/ Recorded(e)

\* Nothing is left to be done below block b of a domain.
Passed(d, b) ==
  \A e \in Log : EmittedBy(e) = d /\ StartBlock <= e.block /\ e.block < b => Done(e)

\* The row and the running loop have passed what they say they have, and the
\* events of the range in progress are done, at hand, or still to do.
RangeSound(d) ==
  /\ lastIndexedBlock[d] > StartBlock => Passed(d, lastIndexedBlock[d] + 1)
  /\ pc[d] \notin {"boot", "halted"} =>
       /\ Passed(d, currentBlock[d])
       /\ lastIndexedBlock[d] <= StartBlock \/ lastIndexedBlock[d] < currentBlock[d]
  /\ pc[d] \in {"fetch", "next"} \union EventSteps => currentBlock[d] <= toBlock[d]
  /\ pc[d] \in {"next"} \union EventSteps =>
       \A e \in InRange(d) :
         Done(e) \/ e \in todo[d] \/ (pc[d] \in EventSteps /\ e = event[d])
RangesSound == \A d \in Domain : RangeSound(d)

IInv == TypeOK /\ HandlerSound /\ TablesAgree /\ RangesSound

USE RangeAssumption, StoreAssumption, LogAssumption

-----------------------------------------------------------------------------
(* Lemmas about events and about the block arithmetic. *)

LEMMA EventType ==
  ASSUME NEW e \in Log
  PROVE  /\ e.kind \in Kind /\ e.key \in Key /\ e.block \in Nat /\ e.tx \in Tx
         /\ e.key.from \in Nat /\ e.key.to \in Nat
         /\ e # NoEvent
  OBVIOUS

\* Two listeners never have an execution of the same transfer at hand.
LEMMA OneExecutor ==
  ASSUME TypeOK, NEW c \in Domain, NEW d \in Domain,
         pc[c] \in ExecutionSteps, pc[d] \in ExecutionSteps,
         event[c].key = event[d].key
  PROVE  c = d
  BY DEF TypeOK, EmittedBy, EventSteps

LEMMA QueryEndType ==
  ASSUME NEW c \in Nat, NEW l \in Nat
  PROVE  QueryEnd(c, l) \in Nat /\ c <= QueryEnd(c, l)
  BY DEF QueryEnd, LiveInterval

LEMMA ResumeBlockType ==
  ASSUME NEW l \in Nat
  PROVE  ResumeBlock(l) \in Nat
  BY DEF ResumeBlock

-----------------------------------------------------------------------------
(* Type correctness. *)

LEMMA InitType == Init => TypeOK
<1> SUFFICES ASSUME Init PROVE TypeOK
  OBVIOUS
<1>1. StoreTypeOK
  BY DEF Init, StoreInit, StoreTypeOK
<1>2. \A d \in Domain : pc[d] = "boot" /\ todo[d] = {}
  BY DEF Init
<1> QED
  BY <1>1, <1>2 DEF Init, TypeOK, EventSteps, DepositSteps, ExecutionSteps, Location

LEMMA TypeStep == TypeOK /\ [Next]_vars => TypeOK'
<1> SUFFICES ASSUME TypeOK, [Next]_vars PROVE TypeOK'
  OBVIOUS
<1> USE DEF TypeOK, StoreTypeOK, Location, EventSteps, DepositSteps, ExecutionSteps,
            cursors, work, store, Goto
<1>1. ASSUME NEW d \in Domain, Resume(d) PROVE TypeOK'
  BY <1>1, ResumeBlockType DEF Resume
<1>2. ASSUME NEW d \in Domain, ChooseRange(d) PROVE TypeOK'
  <2>1. PICK latest \in 1 .. MaxHead :
          toBlock' = [toBlock EXCEPT ![d] = QueryEnd(currentBlock[d], latest)]
    BY <1>2 DEF ChooseRange
  <2>2. QueryEnd(currentBlock[d], latest) \in Nat
    BY <2>1, QueryEndType
  <2> QED
    BY <1>2, <2>1, <2>2 DEF ChooseRange
<1>3. ASSUME NEW d \in Domain, FetchLogs(d) PROVE TypeOK'
  BY <1>3 DEF FetchLogs, InRange
<1>4. ASSUME NEW d \in Domain, TakeEvent(d) PROVE TypeOK'
  BY <1>4 DEF TakeEvent, FirstStep
<1>5. ASSUME NEW d \in Domain, UpdateBlock(d) PROVE TypeOK'
  BY <1>5 DEF UpdateBlock
<1>6. ASSUME NEW d \in Domain, SaveAccount(d) PROVE TypeOK'
  BY <1>6, EventType DEF SaveAccount, InsertAccount
<1>7. ASSUME NEW d \in Domain, SaveTransfer(d) PROVE TypeOK'
  BY <1>7, EventType DEF SaveTransfer, UpsertDepositTransfer, Transfer, Message, Status, Exists
<1>8. ASSUME NEW d \in Domain, FindRows(d) PROVE TypeOK'
  BY <1>8 DEF FindRows
<1>9. ASSUME NEW d \in Domain, SaveDeposit(d) PROVE TypeOK'
  BY <1>9, EventType DEF SaveDeposit, InsertDeposit
<1>10. ASSUME NEW d \in Domain, SaveFee(d) PROVE TypeOK'
  BY <1>10, EventType DEF SaveFee, InsertFee
<1>11. ASSUME NEW d \in Domain, DepositSaved(d) PROVE TypeOK'
  BY <1>11 DEF DepositSaved, EventDone
<1>12. ASSUME NEW d \in Domain, FindTransfer(d) PROVE TypeOK'
  BY <1>12 DEF FindTransfer, EventDone
<1>13. ASSUME NEW d \in Domain, MarkTransfer(d) PROVE TypeOK'
  <2>1. event[d] \in Log /\ event[d].key \in Key /\ event[d].kind \in {"failed", "executed"}
    BY <1>13, EventType DEF MarkTransfer, Kind
  <2>2. Reason(event[d]) \in Message
    BY DEF Reason, Message
  <2>3. transfer' \in [Key -> Transfer \union {NoTransfer}]
    BY <1>13, <2>1, <2>2, MarkedRowType DEF MarkTransfer
  <2> QED
    BY <1>13, <2>3 DEF MarkTransfer
<1>14. ASSUME NEW d \in Domain, SaveExecution(d) PROVE TypeOK'
  BY <1>14, EventType DEF SaveExecution, UpsertExecution, EventDone
<1>15. ASSUME NEW d \in Domain, UniqueViolation(d) PROVE TypeOK'
  BY <1>15 DEF UniqueViolation, Forget
<1>16. ASSUME NEW d \in Domain, BootFails(d) PROVE TypeOK'
  BY <1>16 DEF BootFails
<1>17. ASSUME NEW d \in Domain, Throw(d) PROVE TypeOK'
  BY <1>17 DEF Throw, Forget
<1>18. ASSUME NEW d \in Domain, UpdateBlockFails(d) PROVE TypeOK'
  BY <1>18 DEF UpdateBlockFails
<1>19. CASE Restart
  BY <1>19 DEF Restart
<1>20. CASE UNCHANGED vars
  BY <1>20 DEF vars
<1> QED
  BY <1>1, <1>2, <1>3, <1>4, <1>5, <1>6, <1>7, <1>8, <1>9, <1>10, <1>11, <1>12,
     <1>13, <1>14, <1>15, <1>16, <1>17, <1>18, <1>19, <1>20 DEF Next, Step, Fault
-----------------------------------------------------------------------------
(* What handlers know of the rows they are about to write stays true. *)

LEMMA HandlerStep == TypeOK /\ HandlerSound /\ [Next]_vars => HandlerSound'
<1> SUFFICES ASSUME TypeOK, HandlerSound, [Next]_vars PROVE HandlerSound'
  OBVIOUS
<1> USE DEF HandlerSound, Goto, cursors, work, store
<1>a. ASSUME NEW d \in Domain, UNCHANGED store,
             pc' = [pc EXCEPT ![d] = pc'[d]],
             pc'[d] \notin {"insertRows", "markTransfer", "upsertExecution", "findRows"},
             \A c \in Domain \ {d} : event'[c] = event[c] /\ seen'[c] = seen[c]
      PROVE  HandlerSound'
  BY <1>a DEF TypeOK, Overtaken
<1>1. ASSUME NEW d \in Domain, Resume(d) PROVE HandlerSound'
  BY <1>1, <1>a DEF Resume, TypeOK
<1>2. ASSUME NEW d \in Domain, ChooseRange(d) PROVE HandlerSound'
  BY <1>2, <1>a DEF ChooseRange, TypeOK
<1>3. ASSUME NEW d \in Domain, FetchLogs(d) PROVE HandlerSound'
  BY <1>3, <1>a DEF FetchLogs, TypeOK
<1>4. ASSUME NEW d \in Domain, TakeEvent(d) PROVE HandlerSound'
  <2>1. PICK e \in todo[d] : /\ event' = [event EXCEPT ![d] = e]
                             /\ pc' = [pc EXCEPT ![d] = FirstStep(e)]
    BY <1>4 DEF TakeEvent
  <2>2. FirstStep(e) \in {"insertAccount", "findTransfer"}
    BY DEF FirstStep
  <2> QED
    BY <1>4, <2>1, <2>2, <1>a DEF TakeEvent, TypeOK
<1>5. ASSUME NEW d \in Domain, UpdateBlock(d) PROVE HandlerSound'
  BY <1>5, <1>a DEF UpdateBlock, TypeOK
<1>6. ASSUME NEW d \in Domain, SaveAccount(d) PROVE HandlerSound'
  BY <1>6 DEF SaveAccount, TypeOK, Overtaken
<1>7. ASSUME NEW d \in Domain, SaveTransfer(d) PROVE HandlerSound'
  <2> DEFINE k == event[d].key
  <2>1. k \in Key /\ pc[d] = "upsertTransfer"
    BY <1>7, EventType DEF SaveTransfer, TypeOK, EventSteps, DepositSteps
  <2>2. /\ transfer'[k].filled
        /\ transfer'[k].status = IF transfer[k].status = "absent" THEN "pending"
                                 ELSE transfer[k].status
        /\ \A j \in Key \ {k} : transfer'[j] = transfer[j]
    BY <1>7, <2>1, UpsertEffect DEF SaveTransfer, TypeOK, StoreTypeOK
  <2>3. ASSUME NEW c \in Domain, pc[c] \in EventSteps
        PROVE  event[c] \in Log /\ event[c].key \in Key /\ event[c].kind # "absent"
    BY <2>3, EventType DEF TypeOK, Kind
  <2> QED
    BY <1>7, <2>1, <2>2, <2>3 DEF SaveTransfer, TypeOK, Overtaken, EventSteps, DepositSteps,
       ExecutionSteps
<1>8. ASSUME NEW d \in Domain, FindRows(d) PROVE HandlerSound'
  BY <1>8 DEF FindRows, TypeOK, Overtaken
<1>9. ASSUME NEW d \in Domain, SaveDeposit(d) PROVE HandlerSound'
  BY <1>9 DEF SaveDeposit, InsertDeposit, TypeOK, Overtaken
<1>10. ASSUME NEW d \in Domain, SaveFee(d) PROVE HandlerSound'
  BY <1>10 DEF SaveFee, InsertFee, TypeOK, Overtaken
<1>11. ASSUME NEW d \in Domain, DepositSaved(d) PROVE HandlerSound'
  BY <1>11, <1>a DEF DepositSaved, EventDone, TypeOK
<1>12. ASSUME NEW d \in Domain, FindTransfer(d) PROVE HandlerSound'
  <2>1. CASE Overtaken(event[d])
    BY <1>12, <2>1, <1>a DEF FindTransfer, EventDone, TypeOK
  <2>2. CASE ~Overtaken(event[d])
    BY <1>12, <2>2 DEF FindTransfer, TypeOK, Overtaken
  <2> QED
    BY <2>1, <2>2
<1>13. ASSUME NEW d \in Domain, MarkTransfer(d) PROVE HandlerSound'
  <2> DEFINE k == event[d].key
  <2>1. k \in Key /\ pc[d] = "markTransfer"
    BY <1>13, EventType DEF MarkTransfer, TypeOK, EventSteps, ExecutionSteps
  <2>2. /\ transfer'[k].status = event[d].kind
        /\ transfer'[k].filled = transfer[k].filled
        /\ \A j \in Key \ {k} : transfer'[j] = transfer[j]
    BY <1>13, <2>1, MarkEffect DEF MarkTransfer, TypeOK, StoreTypeOK
  <2>3. ASSUME NEW c \in Domain, pc[c] \in EventSteps
        PROVE  event[c].key \in Key
    BY <2>3, EventType DEF TypeOK
  <2>4. ASSUME NEW c \in Domain \ {d}, pc[c] \in {"markTransfer", "upsertExecution"}
        PROVE  event[c].key # k
    BY <2>1, <2>4, OneExecutor DEF ExecutionSteps
  <2> QED
    BY <1>13, <2>1, <2>2, <2>3, <2>4 DEF MarkTransfer, TypeOK, Overtaken, EventSteps,
       DepositSteps, ExecutionSteps
<1>14. ASSUME NEW d \in Domain, SaveExecution(d) PROVE HandlerSound'
  BY <1>14 DEF SaveExecution, EventDone, TypeOK, Overtaken
<1>15. ASSUME NEW d \in Domain, UniqueViolation(d) PROVE HandlerSound'
  BY <1>15, <1>a DEF UniqueViolation, Forget, TypeOK
<1>16. ASSUME NEW d \in Domain, BootFails(d) PROVE HandlerSound'
  BY <1>16, <1>a DEF BootFails, TypeOK
<1>17. ASSUME NEW d \in Domain, Throw(d) PROVE HandlerSound'
  BY <1>17, <1>a DEF Throw, Forget, TypeOK
<1>18. ASSUME NEW d \in Domain, UpdateBlockFails(d) PROVE HandlerSound'
  BY <1>18, <1>a DEF UpdateBlockFails, TypeOK
<1>19. CASE Restart
  BY <1>19 DEF Restart
<1>20. CASE UNCHANGED vars
  BY <1>20 DEF vars, Overtaken
<1> QED
  BY <1>1, <1>2, <1>3, <1>4, <1>5, <1>6, <1>7, <1>8, <1>9, <1>10, <1>11, <1>12,
     <1>13, <1>14, <1>15, <1>16, <1>17, <1>18, <1>19, <1>20 DEF Next, Step, Fault
-----------------------------------------------------------------------------
(* The tables agree. *)

\* The steps that write transfers, deposits, fees or executions.
LEMMA Writers ==
  ASSUME [Next]_vars
  PROVE  \/ UNCHANGED <<transfer, deposits, fees, execution>>
         \/ \E d \in Domain : \/ SaveTransfer(d) \/ MarkTransfer(d)
                            \/ SaveDeposit(d) \/ SaveFee(d) \/ SaveExecution(d)
  BY DEF Next, Step, Fault, vars, store, Resume, ChooseRange, FetchLogs, TakeEvent, UpdateBlock,
     SaveAccount, FindRows, DepositSaved, FindTransfer, UniqueViolation, BootFails, Throw,
     UpdateBlockFails, Restart

\* What the steps of a handler know when they write.
LEMMA TransferWrite ==
  ASSUME TypeOK, NEW d \in Domain, SaveTransfer(d)
  PROVE  /\ event[d].key \in Key
         /\ event[d].key \in accounts
         /\ transfer'[event[d].key].filled
         /\ transfer'[event[d].key].message = ""
         /\ transfer'[event[d].key].status =
              IF transfer[event[d].key].status = "absent" THEN "pending"
              ELSE transfer[event[d].key].status
         /\ \A j \in Key \ {event[d].key} : transfer'[j] = transfer[j]
         /\ UNCHANGED <<accounts, deposits, fees, execution>>
<1>1. event[d].key \in Key
  BY EventType DEF SaveTransfer, TypeOK, EventSteps, DepositSteps
<1> QED
  BY <1>1, UpsertEffect DEF SaveTransfer, UpsertDepositTransfer, TypeOK, StoreTypeOK

LEMMA MarkWrite ==
  ASSUME TypeOK, HandlerSound, NEW d \in Domain, MarkTransfer(d)
  PROVE  /\ event[d].key \in Key
         /\ event[d].kind \in {"failed", "executed"}
         /\ event[d].kind = "failed" => transfer[event[d].key].status # "executed"
         /\ transfer'[event[d].key].status = event[d].kind
         /\ transfer'[event[d].key].message = Reason(event[d])
         /\ transfer'[event[d].key].filled = transfer[event[d].key].filled
         /\ \A j \in Key \ {event[d].key} : transfer'[j] = transfer[j]
         /\ UNCHANGED <<accounts, deposits, fees, execution>>
<1>1. event[d].key \in Key /\ event[d].kind \in {"failed", "executed"} /\ pc[d] = "markTransfer"
  BY EventType DEF MarkTransfer, TypeOK, EventSteps, ExecutionSteps, Kind
<1>2. \/ UpdateStatus(event[d].key, event[d].kind, Reason(event[d]))
      \/ InsertTransfer(event[d].key, event[d].kind, Reason(event[d]))
  BY DEF MarkTransfer
<1>3. transfer \in [Key -> Transfer \union {NoTransfer}]
  BY DEF TypeOK, StoreTypeOK
<1>4. event[d].kind = "failed" => transfer[event[d].key].status # "executed"
  BY <1>1 DEF HandlerSound, Overtaken
<1>5. UNCHANGED <<accounts, deposits, fees, execution>>
  BY DEF MarkTransfer
<1> QED
  BY <1>1, <1>2, <1>3, <1>4, <1>5, MarkEffect

LEMMA RowWrite ==
  ASSUME TypeOK, HandlerSound, NEW d \in Domain, SaveDeposit(d) \/ SaveFee(d)
  PROVE  /\ event[d].key \in Key
         /\ transfer[event[d].key].filled
         /\ SaveFee(d) => event[d].key \in deposits
  BY EventType DEF SaveDeposit, SaveFee, TypeOK, HandlerSound, EventSteps, DepositSteps

LEMMA ExecutionWrite ==
  ASSUME TypeOK, HandlerSound, TablesAgree, NEW d \in Domain, SaveExecution(d)
  PROVE  /\ event[d] \in Log /\ event[d].key \in Key /\ event[d].tx \in Tx
         /\ event[d].kind \in {"failed", "executed"}
         /\ transfer[event[d].key].status = event[d].kind
         /\ execution' = [execution EXCEPT ![event[d].key] = event[d].tx]
         /\ event[d].kind = "failed" => event[d].key \notin Settled /\ Settled' = Settled
         /\ event[d].kind = "executed" => Settled' = Settled \union {event[d].key}
         /\ UNCHANGED <<accounts, transfer, deposits, fees>>
<1> DEFINE e == event[d]
<1>1. /\ pc[d] = "upsertExecution"
      /\ e \in Log /\ e.key \in Key /\ e.tx \in Tx /\ e.kind \in {"failed", "executed"}
  BY EventType DEF SaveExecution, TypeOK, EventSteps, ExecutionSteps, Kind
<1>2. transfer[e.key].status = e.kind
  BY <1>1 DEF HandlerSound
<1>3. /\ execution' = [execution EXCEPT ![e.key] = e.tx]
      /\ UNCHANGED <<accounts, transfer, deposits, fees>>
  BY DEF SaveExecution, UpsertExecution
<1>4. e.kind = "failed" => e.key \notin Settled
  BY <1>1, <1>2 DEF TablesAgree
<1>5. execution \in [Key -> Tx \union {NoTx}]
  BY DEF TypeOK, StoreTypeOK
<1>6. \A k \in Key \ {e.key} : k \in Settled' <=> k \in Settled
  BY <1>1, <1>3, <1>5 DEF Settled
<1>7. e.kind = "executed" => e.key \in Settled'
  BY <1>1, <1>3, <1>5 DEF Settled
<1>8. e.kind = "failed" => e.key \notin Settled'
  BY <1>1, <1>3, <1>5, ChainAssumption DEF Settled
<1>9. Settled \subseteq Key /\ Settled' \subseteq Key
  BY DEF Settled
<1> QED
  BY <1>1, <1>2, <1>3, <1>4, <1>6, <1>7, <1>8, <1>9

LEMMA InitTables == Init => TablesAgree
<1> SUFFICES ASSUME Init PROVE TablesAgree
  OBVIOUS
<1>1. \A k \in Key : transfer[k] = NoTransfer /\ execution[k] = NoTx
  BY DEF Init, StoreInit
<1>2. Settled = {}
  BY <1>1, EventType DEF Settled
<1> QED
  BY <1>1, <1>2, NoTransferFields DEF Init, StoreInit, TablesAgree

LEMMA TablesStep == TypeOK /\ HandlerSound /\ TablesAgree /\ [Next]_vars => TablesAgree'
<1> SUFFICES ASSUME TypeOK, HandlerSound, TablesAgree, [Next]_vars PROVE TablesAgree'
  OBVIOUS
<1>1. accounts \subseteq accounts'
  BY DEF Next, Step, Fault, vars, store, Resume, ChooseRange, FetchLogs, TakeEvent, UpdateBlock,
     SaveAccount, InsertAccount, SaveTransfer, FindRows, SaveDeposit, SaveFee, DepositSaved,
     FindTransfer, MarkTransfer, SaveExecution, UniqueViolation, BootFails, Throw,
     UpdateBlockFails, Restart
<1>2. execution' = execution => Settled' = Settled
  BY DEF Settled
<1>3. CASE UNCHANGED <<transfer, deposits, fees, execution>>
  BY <1>1, <1>2, <1>3 DEF TablesAgree
<1>4. ASSUME NEW d \in Domain, SaveTransfer(d) PROVE TablesAgree'
  <2> DEFINE k == event[d].key
  <2>1. \A j \in Key : transfer'[j].status \in {"failed", "executed"}
                         <=> transfer[j].status \in {"failed", "executed"}
    BY <1>4, TransferWrite
  <2>2. transfer[k].status = "executed" => transfer'[k].status = "executed"
    BY <1>4, TransferWrite
  <2> QED
    BY <1>2, <1>4, <2>1, <2>2, TransferWrite DEF TablesAgree
<1>5. ASSUME NEW d \in Domain, MarkTransfer(d) PROVE TablesAgree'
  <2> DEFINE k == event[d].key
  <2>1. Reason(event[d]) # "" => event[d].kind = "failed"
    BY DEF Reason
  <2>2. /\ fees' \subseteq deposits'
        /\ \A j \in Key : (j \in deposits' => transfer'[j].filled)
                           /\ (transfer'[j].filled => j \in accounts')
    BY <1>5, MarkWrite DEF TablesAgree
  <2>3. k \in Settled => event[d].kind = "executed"
    BY <1>5, MarkWrite DEF TablesAgree
  <2>4. \A j \in Key :
        /\ execution'[j] # NoTx => transfer'[j].status \in {"failed", "executed"}
        /\ j \in Settled' => transfer'[j].status = "executed"
        /\ transfer'[j].message # "" => transfer'[j].status = "failed"
    <3> SUFFICES ASSUME NEW j \in Key
                 PROVE  /\ execution[j] # NoTx => transfer'[j].status \in {"failed", "executed"}
                        /\ j \in Settled => transfer'[j].status = "executed"
                        /\ transfer'[j].message # "" => transfer'[j].status = "failed"
      BY <1>2, <1>5, MarkWrite
    <3>1. CASE j = k
      BY <1>5, <2>1, <2>3, <3>1, MarkWrite
    <3>2. CASE j # k
      <4>1. transfer'[j] = transfer[j]
        BY <1>5, <3>2, MarkWrite
      <4> QED
        BY <4>1 DEF TablesAgree
    <3> QED
      BY <3>1, <3>2
  <2> QED
    BY <2>2, <2>4 DEF TablesAgree
<1>6. ASSUME NEW d \in Domain, SaveDeposit(d) PROVE TablesAgree'
  BY <1>2, <1>6, RowWrite DEF SaveDeposit, InsertDeposit, TablesAgree
<1>7. ASSUME NEW d \in Domain, SaveFee(d) PROVE TablesAgree'
  BY <1>2, <1>7, RowWrite DEF SaveFee, InsertFee, TablesAgree
<1>8. ASSUME NEW d \in Domain, SaveExecution(d) PROVE TablesAgree'
  <2> DEFINE k == event[d].key
  <2>1. \A j \in Key \ {k} : execution'[j] = execution[j]
    BY <1>8, ExecutionWrite DEF TypeOK, StoreTypeOK
  <2>2. \A j \in Settled' : j \in Settled \/ (j = k /\ event[d].kind = "executed")
    BY <1>8, ExecutionWrite
  <2>3. \A j \in Key :
        /\ execution'[j] # NoTx => transfer'[j].status \in {"failed", "executed"}
        /\ j \in Settled' => transfer'[j].status = "executed"
    <3> SUFFICES ASSUME NEW j \in Key
                 PROVE  /\ execution'[j] # NoTx => transfer[j].status \in {"failed", "executed"}
                        /\ j \in Settled' => transfer[j].status = "executed"
      BY <1>8, ExecutionWrite
    <3>1. CASE j = k
      <4>1. transfer[k].status = event[d].kind /\ event[d].kind \in {"failed", "executed"}
        BY <1>8, ExecutionWrite
      <4>2. k \in Settled => transfer[k].status = "executed"
        BY <3>1 DEF TablesAgree
      <4> QED
        BY <2>2, <3>1, <4>1, <4>2
    <3>2. CASE j # k
      BY <2>1, <2>2, <3>2 DEF TablesAgree
    <3> QED
      BY <3>1, <3>2
  <2> QED
    BY <1>8, <2>3, ExecutionWrite DEF TablesAgree
<1> QED
  BY <1>3, <1>4, <1>5, <1>6, <1>7, <1>8, Writers

-----------------------------------------------------------------------------
(* The life cycle. *)

\* Every step is a step of TransferLifecycle or changes nothing it shows.
LEMMA LifecycleStep ==
  TypeOK /\ HandlerSound /\ TablesAgree /\ [Next]_vars => [Lifecycle!Next]_Lifecycle!vars
<1> SUFFICES ASSUME TypeOK, HandlerSound, TablesAgree, [Next]_vars
             PROVE  [Lifecycle!Next]_Lifecycle!vars
  OBVIOUS
<1> DEFINE status == [k \in Key |-> transfer[k].status]
           known == {k \in Key : transfer[k].filled}
           tried == {k \in Key : execution[k] # NoTx}
<1>1. execution' = execution => Settled' = Settled /\ tried' = tried
  BY DEF Settled
<1>2. transfer' = transfer => status' = status /\ known' = known
  OBVIOUS
<1>3. CASE UNCHANGED <<transfer, deposits, fees, execution>>
  BY <1>1, <1>2, <1>3 DEF Lifecycle!vars
<1>4. ASSUME NEW d \in Domain, SaveTransfer(d) PROVE Lifecycle!Next
  <2> DEFINE k == event[d].key
  <2>1. status' = [status EXCEPT ![k] = IF @ = "absent" THEN "pending" ELSE @]
    BY <1>4, TransferWrite
  <2>2. known' = known \union {k}
    BY <1>4, TransferWrite
  <2> QED
    BY <1>1, <1>4, <2>1, <2>2, TransferWrite DEF Lifecycle!Next, Lifecycle!Deposited
<1>5. ASSUME NEW d \in Domain, MarkTransfer(d) PROVE Lifecycle!Next
  <2> DEFINE k == event[d].key
  <2>1. status' = [status EXCEPT ![k] = event[d].kind]
    BY <1>5, MarkWrite
  <2>2. known' = known
    BY <1>5, MarkWrite
  <2>3. CASE event[d].kind = "failed"
    <3>1. k \in Key /\ status[k] # "executed"
      BY <1>5, <2>3, MarkWrite
    <3> QED
      BY <1>1, <1>5, <2>1, <2>2, <2>3, <3>1, MarkWrite DEF Lifecycle!Next, Lifecycle!Failed
  <2>4. CASE event[d].kind = "executed"
    BY <1>1, <1>5, <2>1, <2>2, <2>4, MarkWrite DEF Lifecycle!Next, Lifecycle!Executed
  <2> QED
    BY <1>5, <2>3, <2>4, MarkWrite
<1>6. ASSUME NEW d \in Domain, SaveDeposit(d) PROVE Lifecycle!Next
  BY <1>1, <1>2, <1>6, RowWrite
     DEF SaveDeposit, InsertDeposit, Lifecycle!Next, Lifecycle!FileDeposit
<1>7. ASSUME NEW d \in Domain, SaveFee(d) PROVE Lifecycle!Next
  BY <1>1, <1>2, <1>7, RowWrite DEF SaveFee, InsertFee, Lifecycle!Next, Lifecycle!FileFee
<1>8. ASSUME NEW d \in Domain, SaveExecution(d) PROVE Lifecycle!Next
  <2> DEFINE k == event[d].key
  <2>1. tried' = tried \union {k}
    BY <1>8, ExecutionWrite DEF TypeOK, StoreTypeOK
  <2>2. CASE event[d].kind = "failed"
    BY <1>2, <1>8, <2>1, <2>2, ExecutionWrite DEF Lifecycle!Next, Lifecycle!FileFailure
  <2>3. CASE event[d].kind = "executed"
    BY <1>2, <1>8, <2>1, <2>3, ExecutionWrite DEF Lifecycle!Next, Lifecycle!FileExecution
  <2> QED
    BY <1>8, <2>2, <2>3, ExecutionWrite
<1> QED
  BY <1>3, <1>4, <1>5, <1>6, <1>7, <1>8, Writers
-----------------------------------------------------------------------------
(* What has been recorded stays recorded. *)

LEMMA RecordedStable ==
  ASSUME TypeOK, HandlerSound, TablesAgree, [Next]_vars, NEW e \in Log, Recorded(e)
  PROVE  Recorded(e)'
<1>0. e.kind \in Kind /\ e.key \in Key
  BY EventType
<1> USE DEF Kind
<1>1. CASE UNCHANGED <<transfer, deposits, fees, execution>>
  BY <1>0, <1>1 DEF Recorded
<1>2. ASSUME NEW d \in Domain, SaveTransfer(d) PROVE Recorded(e)'
  <2>1. transfer[e.key].filled => transfer'[e.key].filled
    BY <1>0, <1>2, TransferWrite
  <2>2. transfer[e.key].status # "absent" => transfer'[e.key].status = transfer[e.key].status
    BY <1>0, <1>2, TransferWrite
  <2> QED
    BY <1>0, <1>2, <2>1, <2>2, TransferWrite DEF Recorded
<1>3. ASSUME NEW d \in Domain, MarkTransfer(d) PROVE Recorded(e)'
  <2>1. transfer'[e.key].filled = transfer[e.key].filled
    BY <1>0, <1>3, MarkWrite
  <2>2. transfer[e.key].status = "executed" => transfer'[e.key].status = "executed"
    BY <1>0, <1>3, MarkWrite
  <2>3. transfer[e.key].status = "failed" => transfer'[e.key].status \in {"failed", "executed"}
    BY <1>0, <1>3, MarkWrite
  <2> QED
    BY <1>0, <1>3, <2>1, <2>2, <2>3, MarkWrite DEF Recorded
<1>4. ASSUME NEW d \in Domain, SaveDeposit(d) \/ SaveFee(d) PROVE Recorded(e)'
  BY <1>0, <1>4 DEF Recorded, SaveDeposit, SaveFee, InsertDeposit, InsertFee
<1>5. ASSUME NEW d \in Domain, SaveExecution(d) PROVE Recorded(e)'
  <2>1. execution[e.key] # NoTx => execution'[e.key] # NoTx
    BY <1>0, <1>5, ExecutionWrite DEF TypeOK, StoreTypeOK
  <2>2. ASSUME e.kind = "executed"
        PROVE  execution'[e.key] = e.tx
    <3>1. CASE event[d].key = e.key
      <4>1. event[d].kind = "executed"
        BY <1>5, <2>2, <3>1, ExecutionWrite DEF Recorded
      <4>2. event[d] = e
        BY <1>5, <2>2, <3>1, <4>1, ExecutionWrite, ChainAssumption
      <4> QED
        BY <1>0, <1>5, <4>2, ExecutionWrite DEF TypeOK, StoreTypeOK
    <3>2. CASE event[d].key # e.key
      BY <1>0, <1>5, <2>2, <3>2, ExecutionWrite DEF TypeOK, StoreTypeOK, Recorded
    <3> QED
      BY <3>1, <3>2
  <2> QED
    BY <1>0, <1>5, <2>1, <2>2, ExecutionWrite DEF Recorded
<1> QED
  BY <1>1, <1>2, <1>3, <1>4, <1>5, Writers

\* A handler that returns has recorded its event.
LEMMA HandlerRecords ==
  ASSUME TypeOK, HandlerSound, TablesAgree, NEW d \in Domain, NEW e \in Log, e = event[d],
         \/ DepositSaved(d)
         \/ SaveExecution(d)
         \/ FindTransfer(d) /\ Overtaken(event[d])
  PROVE  Recorded(e)'
<1>0. e.kind \in Kind /\ e.key \in Key /\ e.tx \in Tx
  BY EventType
<1>1. CASE DepositSaved(d)
  <2>1. e.kind = "deposit"
    BY <1>1 DEF DepositSaved, TypeOK, DepositSteps
  <2>2. transfer[e.key].filled /\ e.key \in deposits /\ e.key \in fees
    BY <1>1 DEF DepositSaved, HandlerSound
  <2> QED
    BY <1>1, <2>1, <2>2 DEF DepositSaved, store, Recorded
<1>2. CASE SaveExecution(d)
  <2>1. execution'[e.key] = e.tx /\ e.tx # NoTx
    BY <1>0, <1>2, ExecutionWrite DEF TypeOK, StoreTypeOK
  <2>2. transfer'[e.key].status = e.kind /\ e.kind \in {"failed", "executed"}
    BY <1>2, ExecutionWrite
  <2> QED
    BY <2>1, <2>2 DEF Recorded
<1>3. CASE FindTransfer(d) /\ Overtaken(event[d])
  BY <1>3 DEF FindTransfer, Overtaken, store, Recorded
<1> QED
  BY <1>1, <1>2, <1>3

-----------------------------------------------------------------------------
(* The ranges the cursors have passed are done. *)

\* A step of one listener leaves the others' local state alone, and what was
\* noted as lost on their chains.
Acts(d) == Step(d) \/ BootFails(d) \/ Throw(d) \/ UpdateBlockFails(d)

LEMMA OthersUntouched ==
  ASSUME TypeOK, NEW d \in Domain, Acts(d), NEW c \in Domain \ {d}
  PROVE  /\ pc'[c] = pc[c] /\ todo'[c] = todo[c] /\ event'[c] = event[c]
         /\ currentBlock'[c] = currentBlock[c] /\ toBlock'[c] = toBlock[c]
         /\ lastIndexedBlock'[c] = lastIndexedBlock[c]
         /\ \A e \in Log : EmittedBy(e) = c => (e \in lost' <=> e \in lost)
<1> USE DEF TypeOK, Goto, Forget, EventDone, cursors, work
<1>1. CASE FetchLogs(d)
  BY <1>1 DEF FetchLogs, InRange
<1>2. CASE TakeEvent(d)
  BY <1>2 DEF TakeEvent
<1>3. CASE ChooseRange(d)
  BY <1>3 DEF ChooseRange
<1>4. CASE Resume(d) \/ UpdateBlock(d) \/ UpdateBlockFails(d) \/ BootFails(d) \/ Throw(d)
  BY <1>4 DEF Resume, UpdateBlock, UpdateBlockFails, BootFails, Throw
<1>5. CASE SaveAccount(d) \/ SaveTransfer(d) \/ FindRows(d) \/ SaveDeposit(d) \/ SaveFee(d)
  BY <1>5 DEF SaveAccount, SaveTransfer, FindRows, SaveDeposit, SaveFee
<1>6. CASE DepositSaved(d) \/ SaveExecution(d) \/ UniqueViolation(d)
  BY <1>6 DEF DepositSaved, SaveExecution, UniqueViolation
<1>7. CASE FindTransfer(d) \/ MarkTransfer(d)
  BY <1>7 DEF FindTransfer, MarkTransfer
<1> QED
  BY <1>1, <1>2, <1>3, <1>4, <1>5, <1>6, <1>7 DEF Acts, Step

LEMMA DoneStable ==
  ASSUME TypeOK, HandlerSound, TablesAgree, [Next]_vars, NEW e \in Log,
         e \in lost => e \in lost', Done(e)
  PROVE  Done(e)'
  BY RecordedStable DEF Done, Ignored

LEMMA InitRanges == Init => RangesSound
  BY DEF Init, RangesSound, RangeSound, EventSteps, DepositSteps, ExecutionSteps

LEMMA RangesStep ==
  TypeOK /\ HandlerSound /\ TablesAgree /\ RangesSound /\ [Next]_vars => RangesSound'
<1> SUFFICES ASSUME TypeOK, HandlerSound, TablesAgree, RangesSound, [Next]_vars
             PROVE  RangesSound'
  OBVIOUS
<1>t. TypeOK'
  BY TypeStep
<1>s. \A e \in Log : Done(e) /\ (e \in lost => e \in lost') => Done(e)'
  BY DoneStable
<1>1. ASSUME NEW d \in Domain, Acts(d), NEW c \in Domain \ {d} PROVE RangeSound(c)'
  <2>1. RangeSound(c)
    BY DEF RangesSound
  <2>2. \A e \in Log : EmittedBy(e) = c /\ Done(e) => Done(e)'
    BY <1>1, <1>s, OthersUntouched
  <2> QED
    BY <1>1, <2>1, <2>2, OthersUntouched DEF RangeSound, Passed, InRange
<1>2. ASSUME NEW d \in Domain, Acts(d) PROVE RangeSound(d)'
  <2>0. RangeSound(d)
    BY DEF RangesSound
  <2> USE DEF Goto, Forget, EventDone, cursors, work, Passed, InRange,
              EventSteps, DepositSteps, ExecutionSteps
  \* A step inside a handler.
  <2>a. ASSUME UNCHANGED <<cursors, todo, event, lost>>, pc[d] \in EventSteps, pc'[d] \in EventSteps
        PROVE  RangeSound(d)'
    BY <2>0, <2>a, <1>s DEF RangeSound
  \* A handler returns.
  <2>b. ASSUME UNCHANGED <<cursors, todo, lost>>, pc[d] \in EventSteps, pc'[d] = "next",
               \A e \in Log : e = event[d] => Recorded(e)'
        PROVE  RangeSound(d)'
    BY <2>0, <2>b, <1>s DEF RangeSound, Done
  \* The range is given up.
  <2>c. ASSUME UNCHANGED <<cursors, lost>>, pc[d] \notin {"boot", "halted"}, pc'[d] = "top"
        PROVE  RangeSound(d)'
    BY <2>0, <2>c, <1>s DEF RangeSound
  \* All of the range is done.
  <2>d. ASSUME pc[d] = "next", todo[d] = {}, NEW e \in Log, EmittedBy(e) = d,
               StartBlock <= e.block, e.block < toBlock[d] + 1
        PROVE  Done(e)
    <3>1. e.block \in Nat /\ currentBlock[d] \in Nat /\ toBlock[d] \in Nat
      BY EventType DEF TypeOK
    <3>2. CASE e.block < currentBlock[d]
      BY <2>0, <2>d, <3>2 DEF RangeSound
    <3>3. CASE e.block >= currentBlock[d]
      <4>1. e \in InRange(d)
        BY <2>d, <3>1, <3>3
      <4> QED
        BY <2>0, <2>d, <4>1 DEF RangeSound
    <3> QED
      BY <3>1, <3>2, <3>3
  <2>1. CASE Resume(d)
    BY <2>0, <2>1, <1>s, <1>t DEF Resume, RangeSound, ResumeBlock, TypeOK
  <2>2. CASE ChooseRange(d)
    <3>1. PICK latest \in 1 .. MaxHead :
            toBlock' = [toBlock EXCEPT ![d] = QueryEnd(currentBlock[d], latest)]
      BY <2>2 DEF ChooseRange
    <3>2. currentBlock[d] <= QueryEnd(currentBlock[d], latest)
      BY <3>1, QueryEndType DEF TypeOK
    <3> QED
      BY <2>0, <2>2, <3>1, <3>2, <1>s DEF ChooseRange, RangeSound, TypeOK
  <2>3. CASE FetchLogs(d)
    <3>1. \A e \in Log : EmittedBy(e) = d /\ e.block < currentBlock[d] /\ Done(e) => Done(e)'
      BY <2>3, <1>s, EventType DEF FetchLogs, TypeOK
    <3>2. \A e \in InRange(d) : Done(e)' \/ e \in todo'[d]
      BY <2>3 DEF FetchLogs, Done, TypeOK
    <3> QED
      BY <2>0, <2>3, <3>1, <3>2, EventType DEF FetchLogs, RangeSound, TypeOK
  <2>4. CASE TakeEvent(d)
    <3>1. PICK e \in todo[d] : /\ todo' = [todo EXCEPT ![d] = @ \ {e}]
                               /\ event' = [event EXCEPT ![d] = e]
                               /\ pc' = [pc EXCEPT ![d] = FirstStep(e)]
      BY <2>4 DEF TakeEvent
    <3>2. FirstStep(e) \in EventSteps
      BY DEF FirstStep
    <3> QED
      BY <2>0, <2>4, <3>1, <3>2, <1>s DEF TakeEvent, RangeSound, TypeOK
  <2>5. CASE UpdateBlock(d)
    <3>1. \A e \in Log : EmittedBy(e) = d /\ StartBlock <= e.block /\ e.block < toBlock[d] + 1
                          => Done(e)'
      BY <2>5, <2>d, <1>s DEF UpdateBlock
    <3> QED
      BY <2>5, <3>1, <1>t DEF UpdateBlock, RangeSound, TypeOK
  <2>6. CASE UpdateBlockFails(d)
    <3>1. \A e \in Log : EmittedBy(e) = d /\ StartBlock <= e.block /\ e.block < toBlock[d] + 1
                          => Done(e)'
      BY <2>6, <2>d, <1>s DEF UpdateBlockFails
    <3> QED
      BY <2>0, <2>6, <3>1, <1>s DEF UpdateBlockFails, RangeSound, TypeOK
  <2>7. CASE SaveAccount(d) \/ SaveTransfer(d) \/ MarkTransfer(d)
    BY <2>7, <2>a DEF SaveAccount, SaveTransfer, MarkTransfer, TypeOK
  <2>8. CASE FindRows(d) \/ SaveDeposit(d) \/ SaveFee(d)
    BY <2>8, <2>a DEF FindRows, SaveDeposit, SaveFee, TypeOK
  <2>9. CASE DepositSaved(d) \/ SaveExecution(d)
    BY <2>9, <2>b, HandlerRecords DEF DepositSaved, SaveExecution, TypeOK
  <2>10. CASE FindTransfer(d)
    <3>1. CASE Overtaken(event[d])
      BY <2>10, <3>1, <2>b, HandlerRecords DEF FindTransfer, TypeOK
    <3>2. CASE ~Overtaken(event[d])
      BY <2>10, <3>2, <2>a DEF FindTransfer, TypeOK
    <3> QED
      BY <3>1, <3>2
  <2>11. CASE Throw(d) \/ UniqueViolation(d)
    BY <2>11, <2>c DEF Throw, UniqueViolation, TypeOK
  <2>12. CASE BootFails(d)
    BY <2>0, <2>12, <1>s DEF BootFails, RangeSound, TypeOK
  <2> QED
    BY <1>2, <2>1, <2>2, <2>3, <2>4, <2>5, <2>6, <2>7, <2>8, <2>9, <2>10, <2>11, <2>12
       DEF Acts, Step
<1>3. CASE Restart
  BY <1>3, <1>s DEF Restart, RangesSound, RangeSound, Passed, EventSteps, DepositSteps,
     ExecutionSteps
<1>4. CASE UNCHANGED vars
  BY <1>4, <1>s DEF vars, cursors, work, RangesSound, RangeSound, Passed, InRange
<1> QED
  BY <1>1, <1>2, <1>3, <1>4 DEF RangesSound, Next, Fault, Acts

-----------------------------------------------------------------------------
(* The listeners among others that write to the same tables.                *)

\* The transfers that executions are recorded of by these listeners.
TriedHere == {k \in Key : \E e \in Log : e.kind # "deposit" /\ e.key = k}

\* What others may do meanwhile.
Environment ==
  /\ Grows
  /\ DepositOnly(TriedHere)
  /\ UNCHANGED <<cursors, work, pc, lost>>

\* What these listeners do to the transfers whose executions others record.
LEMMA Guarantee ==
  ASSUME TypeOK, HandlerSound, TablesAgree, [Next]_vars
  PROVE  Grows /\ DepositOnly(Key \ TriedHere)
<1> SUFFICES /\ accounts \subseteq accounts' /\ deposits \subseteq deposits' /\ fees \subseteq fees'
             /\ \A k \in Key :
                  /\ transfer[k].filled => transfer'[k].filled
                  /\ transfer[k].status \in Tried => transfer'[k].status \in Tried
                  /\ execution[k] # NoTx => execution'[k] # NoTx
                  /\ \/ k \in TriedHere
                     \/ /\ execution'[k] = execution[k]
                        /\ \/ transfer'[k].status = transfer[k].status
                           \/ transfer[k].status = "absent" /\ transfer'[k].status = "pending"
  BY TypeStep DEF Grows, DepositOnly, TypeOK
<1>1. accounts \subseteq accounts'
  BY DEF Next, Step, Fault, vars, store, Resume, ChooseRange, FetchLogs, TakeEvent, UpdateBlock,
     SaveAccount, InsertAccount, SaveTransfer, FindRows, SaveDeposit, SaveFee, DepositSaved,
     FindTransfer, MarkTransfer, SaveExecution, UniqueViolation, BootFails, Throw,
     UpdateBlockFails, Restart
<1>2. CASE UNCHANGED <<transfer, deposits, fees, execution>>
  BY <1>1, <1>2
<1>3. ASSUME NEW d \in Domain, SaveTransfer(d)
      PROVE  /\ UNCHANGED <<deposits, fees, execution>>
             /\ \A k \in Key : /\ transfer[k].filled => transfer'[k].filled
                               /\ \/ transfer'[k].status = transfer[k].status
                                  \/ transfer[k].status = "absent" /\ transfer'[k].status = "pending"
  BY <1>3, TransferWrite
<1>4. ASSUME NEW d \in Domain, MarkTransfer(d)
      PROVE  /\ UNCHANGED <<deposits, fees, execution>>
             /\ event[d].key \in TriedHere
             /\ transfer'[event[d].key].status \in Tried
             /\ \A k \in Key : /\ transfer'[k].filled = transfer[k].filled
                               /\ k # event[d].key => transfer'[k] = transfer[k]
  <2>1. event[d] \in Log /\ event[d].kind # "deposit"
    BY <1>4 DEF MarkTransfer, TypeOK, EventSteps, ExecutionSteps
  <2> QED
    BY <1>4, <2>1, MarkWrite DEF TriedHere, Tried
<1>5. ASSUME NEW d \in Domain, SaveDeposit(d) \/ SaveFee(d)
      PROVE  /\ UNCHANGED <<transfer, execution>>
             /\ deposits \subseteq deposits' /\ fees \subseteq fees'
  BY <1>5 DEF SaveDeposit, SaveFee, InsertDeposit, InsertFee
<1>6. ASSUME NEW d \in Domain, SaveExecution(d)
      PROVE  /\ UNCHANGED <<transfer, deposits, fees>>
             /\ event[d].key \in TriedHere
             /\ execution'[event[d].key] # NoTx
             /\ \A k \in Key \ {event[d].key} : execution'[k] = execution[k]
  BY <1>6, ExecutionWrite DEF TypeOK, StoreTypeOK, TriedHere
<1>7. CASE \E d \in Domain : SaveTransfer(d)
  BY <1>1, <1>3, <1>7 DEF Tried
<1>8. CASE \E d \in Domain : MarkTransfer(d)
  BY <1>1, <1>4, <1>8
<1>9. CASE \E d \in Domain : SaveDeposit(d) \/ SaveFee(d)
  BY <1>1, <1>5, <1>9
<1>10. CASE \E d \in Domain : SaveExecution(d)
  BY <1>1, <1>6, <1>10
<1> QED
  BY <1>2, <1>7, <1>8, <1>9, <1>10, Writers

\* What a handler knows, and what is recorded, survives them.
LEMMA EnvironmentRecorded ==
  ASSUME Environment, NEW e \in Log, Recorded(e)
  PROVE  Recorded(e)'
<1>1. e.kind \in Kind /\ e.key \in Key
  BY EventType
<1>2. e.kind # "deposit" => e.key \in TriedHere
  BY <1>1 DEF TriedHere
<1> QED
  BY <1>1, <1>2 DEF Environment, Grows, DepositOnly, Recorded, Kind

LEMMA EnvironmentStep ==
  ASSUME TypeOK, HandlerSound, RangesSound, Environment
  PROVE  TypeOK' /\ HandlerSound' /\ RangesSound'
<1> USE DEF cursors, work
<1>1. TypeOK'
  BY DEF Environment, Grows, TypeOK
<1>2. HandlerSound'
  <2> SUFFICES ASSUME NEW d \in Domain, pc[d] \in EventSteps
               PROVE  LET k == event[d].key
                      IN  /\ pc[d] \in {"findRows", "insertRows"} => transfer'[k].filled
                          /\ pc[d] = "insertRows" => /\ "deposit" \in seen[d] => k \in deposits'
                                                     /\ "fee" \in seen[d] => k \in fees'
                          /\ pc[d] = "markTransfer" => ~Overtaken(event[d])'
                          /\ pc[d] = "upsertExecution" => transfer'[k].status = event[d].kind
    BY DEF Environment, HandlerSound, EventSteps, DepositSteps, ExecutionSteps, Overtaken
  <2>1. event[d] \in Log /\ event[d].key \in Key /\ event[d].kind \in Kind
    BY EventType DEF TypeOK
  <2>2. pc[d] \in ExecutionSteps => event[d].key \in TriedHere
    BY <2>1 DEF TypeOK, TriedHere
  <2> QED
    BY <2>1, <2>2
    DEF HandlerSound, Environment, Grows, DepositOnly, Overtaken, ExecutionSteps, Kind
<1>3. RangesSound'
  <2>1. \A e \in Log : Done(e) => Done(e)'
    BY EnvironmentRecorded DEF Environment, Done, Ignored
  <2> QED
    BY <2>1 DEF Environment, RangesSound, RangeSound, Passed, InRange, TypeOK
<1> QED
  BY <1>1, <1>2, <1>3

\* The executions that are named stay so, and their transfers executed.
LEMMA EnvironmentSettles ==
  ASSUME TablesAgree, Environment
  PROVE  \A k \in Key : k \in Settled' => transfer'[k].status = "executed"
<1> SUFFICES ASSUME NEW k \in Key, NEW e \in Log, e.kind = "executed", e.key = k,
                    execution'[k] = e.tx
             PROVE  transfer'[k].status = "executed"
  BY DEF Settled
<1>1. k \in TriedHere
  BY DEF TriedHere
<1>2. execution[k] = e.tx
  BY <1>1 DEF Environment, DepositOnly
<1>3. transfer[k].status = "executed"
  BY <1>2 DEF TablesAgree, Settled
<1> QED
  BY <1>1, <1>3 DEF Environment, DepositOnly

-----------------------------------------------------------------------------
(* The theorems. *)

LEMMA Initially == Init => IInv
<1>1. Init => HandlerSound
  BY DEF Init, HandlerSound
<1> QED
  BY <1>1, InitType, InitTables, InitRanges DEF IInv

LEMMA Inductive == IInv /\ [Next]_vars => IInv'
  BY TypeStep, HandlerStep, TablesStep, RangesStep DEF IInv

\* The inductive invariant holds in every state.
THEOREM Invariance == Spec => []IInv
  BY Initially, Inductive, PTL DEF Spec

\* Every variable keeps its type, and every listener its own chain's events.
THEOREM TypeCorrect == Spec => []TypeOK
<1>1. IInv => TypeOK
  BY DEF IInv
<1> QED
  BY <1>1, Invariance, PTL

\* The tables agree with each other at every step.
THEOREM TablesAlwaysAgree == Spec => []TablesAgree
<1>1. IInv => TablesAgree
  BY DEF IInv
<1> QED
  BY <1>1, Invariance, PTL

\* What the persisted cursor has passed is recorded, or its decoding failed.
LEMMA Recording == IInv => IndexedEventsAreRecorded
<1> SUFFICES ASSUME IInv, NEW e \in Log, EmittedBy(e) \in Domain,
                    StartBlock < lastIndexedBlock[EmittedBy(e)],
                    e.block \in StartBlock .. lastIndexedBlock[EmittedBy(e)],
                    ~Ignored(e), e \notin lost
             PROVE  Recorded(e)
  BY DEF IndexedEventsAreRecorded
<1>1. Passed(EmittedBy(e), lastIndexedBlock[EmittedBy(e)] + 1)
  BY DEF IInv, RangesSound, RangeSound, TypeOK
<1>2. e.block \in Nat /\ lastIndexedBlock[EmittedBy(e)] \in Nat
  BY EventType DEF IInv, TypeOK
<1>3. Done(e)
  BY <1>1, <1>2 DEF Passed
<1> QED
  BY <1>3 DEF Done

\* Every event up to the persisted cursor is in the database, in all its tables.
THEOREM IndexedIsRecorded == Spec => []IndexedEventsAreRecorded
  BY Recording, Invariance, PTL

\* The indexers keep the promise of TransferLifecycle to their readers.
THEOREM RefinesLifecycle == Spec => ImplementsLifecycle
<1>1. Init => Lifecycle!Init
  <2> SUFFICES ASSUME Init PROVE Lifecycle!Init
    OBVIOUS
  <2>1. \A k \in Key : transfer[k] = NoTransfer /\ execution[k] = NoTx
    BY DEF Init, StoreInit
  <2>2. Settled = {}
    BY <2>1, EventType DEF Settled
  <2> QED
    BY <2>1, <2>2, NoTransferFields DEF Init, StoreInit, Lifecycle!Init
<1>2. IInv /\ [Next]_vars => [Lifecycle!Next]_Lifecycle!vars
  BY LifecycleStep DEF IInv
<1> QED
  BY <1>1, <1>2, Invariance, PTL DEF Spec, ImplementsLifecycle, Lifecycle!Spec
=============================================================================
