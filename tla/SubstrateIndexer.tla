-------------------------- MODULE SubstrateIndexer --------------------------
(***************************************************************************)
(* The Substrate indexers of src/indexer, one listener per domain, in one  *)
(* Node process and over the database of TransferStore.  They differ from  *)
(* the EVM ones in three ways.  A listener takes one block at a time, and  *)
(* no error while saving its events reaches the loop: each is logged, and  *)
(* the cursor passes the block all the same.  The executions and failures  *)
(* of a block are saved by callbacks nobody awaits, which run on beside    *)
(* the loop, the following blocks and each other.  And a fee finds its     *)
(* transfer through the extrinsic it shares with a deposit, in a map that  *)
(* saveDeposit fills.                                                      *)
(*                                                                         *)
(* Every await that reads or writes the database is a step.  The chain is  *)
(* read in one step before anything is saved; when that throws nothing has *)
(* changed.  Amounts, prices and the fee's token are left out.             *)
(***************************************************************************)
EXTENDS BlockRange, TransferStore, FiniteSets

CONSTANTS
  Domain,       \* the Substrate domains that are indexed
  Blacklisted,  \* BLACKLISTED_DOMAINS
  Log,          \* the bridge pallet's events on the chains
  MaxHead,      \* bound: no chain grows beyond this block
  NoEvent,      \* no event in progress
  NoKey         \* transferMap.get of an extrinsic it does not hold

Kind == {"deposit", "fee", "failed", "executed"}

\* `tx` is `${block}-${extrinsic index}`, `index` the position in the block.
ASSUME LogAssumption ==
  /\ Key \subseteq [nonce : Nat, from : Nat, to : Nat]
  /\ Log \subseteq [kind : Kind, key : Key, block : Nat, index : Nat, tx : Tx]
  /\ NoEvent \notin Log
  /\ NoKey \notin Key
  /\ Domain \subseteq Nat
  /\ MaxHead \in Nat

\* The domain whose chain has the event.
EmittedBy(e) == IF e.kind \in {"deposit", "fee"} THEN e.key.from ELSE e.key.to

\* The pallet executes a proposal at most once, in an extrinsic other than those
\* it failed in.
ASSUME ChainAssumption ==
  \A e, f \in Log :
    e.key = f.key /\ e.kind = "executed" =>
      (f.kind = "executed" => f = e) /\ (f.kind = "failed" => f.tx # e.tx)

\* A fee is collected in the extrinsic of the deposit it is paid for; its event
\* names no transfer, and its key here is that deposit's.
ASSUME FeeAssumption ==
  \A e \in Log : e.kind = "fee" =>
    \E f \in Log : f.kind = "deposit" /\ f.key = e.key /\ f.tx = e.tx

VARIABLES
  lastIndexedBlock,  \* Domain: the row's cursor, for each domain
  pc,                \* where each listener is
  currentBlock,      \* local: the block in progress or next
  todo,              \* local: events of the block the loops have not reached
  event,             \* local: the deposit or the fee being saved
  transferMap,       \* local: the transfer saved for each extrinsic
  running,           \* callbacks: where the one of each event is
  dropped            \* history: events whose last saving was not completed

loop == <<lastIndexedBlock, pc, currentBlock, todo, event, transferMap>>
vars == <<store, loop, running, dropped>>

DepositSteps == {"insertAccount", "upsertTransfer", "insertDeposit"}
EventSteps == DepositSteps \union {"insertFee"}
Location == {"boot", "halted", "top", "next", "updateBlock"} \union EventSteps
Progress == {"idle", "findTransfer", "updateStatus", "insertTransfer", "upsertExecution"}

\* Every variable holds a value of its kind; a loop has only deposits and fees of
\* its own chain at hand, and only executions and failures have callbacks.
TypeOK ==
  /\ StoreTypeOK
  /\ lastIndexedBlock \in [Domain -> Nat]
  /\ pc \in [Domain -> Location]
  /\ currentBlock \in [Domain -> Nat]
  /\ todo \in [Domain -> SUBSET Log]
  /\ event \in [Domain -> Log \union {NoEvent}]
  /\ transferMap \in [Domain -> [Tx -> Key \union {NoKey}]]
  /\ running \in [Log -> Progress]
  /\ dropped \subseteq Log
  /\ \A d \in Domain :
       /\ \A e \in todo[d] : EmittedBy(e) = d
       /\ pc[d] \in EventSteps =>
            event[d] \in Log /\ event[d].kind \in {"deposit", "fee"} /\ EmittedBy(event[d]) = d
       /\ pc[d] \in DepositSteps => event[d].kind = "deposit"
  /\ \A e \in Log : running[e] # "idle" => e.kind \in {"failed", "executed"}

\* The database after insertDomains has run for the first time.
Init ==
  /\ StoreInit
  /\ lastIndexedBlock = [d \in Domain |-> StartBlock]
  /\ pc = [d \in Domain |-> "boot"]
  /\ currentBlock = [d \in Domain |-> StartBlock]
  /\ todo = [d \in Domain |-> {}]
  /\ event = [d \in Domain |-> NoEvent]
  /\ transferMap = [d \in Domain |-> [t \in Tx |-> NoKey]]
  /\ running = [e \in Log |-> "idle"]
  /\ dropped = {}

Goto(d, l) == pc' = [pc EXCEPT ![d] = l]

-----------------------------------------------------------------------------
(* listenToEvents. *)

Resume(d) ==
  /\ pc[d] = "boot"
  /\ currentBlock' = [currentBlock EXCEPT ![d] = ResumeBlock(lastIndexedBlock[d])]
  /\ Goto(d, "top")
  /\ UNCHANGED <<store, lastIndexedBlock, todo, event, transferMap, running, dropped>>

InBlock(d) == {e \in Log : EmittedBy(e) = d /\ e.block = currentBlock[d]}
Start(events) == [e \in Log |-> IF e \in events THEN "findTransfer" ELSE running[e]]

\* The block is deep enough and read; saveEvents starts a callback for every
\* execution and has an empty map.
ReadBlock(d) ==
  LET executions == {e \in InBlock(d) : e.kind = "executed"}
  IN  /\ pc[d] = "top"
      /\ ~CaughtUp(currentBlock[d], MaxHead)
      /\ todo' = [todo EXCEPT ![d] = InBlock(d) \ executions]
      /\ running' = Start(executions)
      /\ transferMap' = [transferMap EXCEPT ![d] = [t \in Tx |-> NoKey]]
      /\ dropped' = dropped \ InBlock(d)
      /\ Goto(d, "next")
      /\ UNCHANGED <<store, lastIndexedBlock, currentBlock, event>>

\* updateBlock; the local cursor moves on.
UpdateBlock(d) ==
  /\ pc[d] = "updateBlock"
  /\ lastIndexedBlock' = [lastIndexedBlock EXCEPT ![d] = currentBlock[d]]
  /\ currentBlock' = [currentBlock EXCEPT ![d] = @ + LiveInterval]
  /\ Goto(d, "top")
  /\ UNCHANGED <<store, todo, event, transferMap, running, dropped>>

-----------------------------------------------------------------------------
(* saveEvents: the deposits, then the fees, in the order of the block. *)

Before(e, f) ==
  \/ e.kind = "deposit" /\ f.kind = "fee"
  \/ e.kind = f.kind /\ e.index < f.index

\* A mutation: the fees are left to callbacks, like the failures.
QueueOfDeposits(d) == {e \in todo[d] : e.kind = "deposit"}

Queue(d) == {e \in todo[d] : e.kind \in {"deposit", "fee"}}
Foremost(d, e) == e \in Queue(d) /\ \A f \in Queue(d) : ~Before(f, e)

TakeEvent(d) ==
  /\ pc[d] = "next"
  /\ \E e \in todo[d] :
       /\ Foremost(d, e)
       /\ e.key.to \notin Blacklisted
       /\ todo' = [todo EXCEPT ![d] = @ \ {e}]
       /\ event' = [event EXCEPT ![d] = e]
       /\ Goto(d, IF e.kind = "deposit" THEN "insertAccount" ELSE "insertFee")
  /\ UNCHANGED <<store, lastIndexedBlock, currentBlock, transferMap, running, dropped>>

\* An event to a blacklisted domain makes saveEvents return: the rest of the
\* block is left, its failures included.
LeaveBlock(d) ==
  /\ pc[d] = "next"
  /\ \E e \in todo[d] : Foremost(d, e) /\ e.key.to \in Blacklisted
  /\ todo' = [todo EXCEPT ![d] = {}]
  /\ dropped' = dropped \union todo[d]
  /\ Goto(d, "updateBlock")
  /\ UNCHANGED <<store, lastIndexedBlock, currentBlock, event, transferMap, running>>

\* A mutation: the failures are not looked at.
StartFailuresForgotten(d) ==
  /\ pc[d] = "next"
  /\ Queue(d) = {}
  /\ todo' = [todo EXCEPT ![d] = {}]
  /\ Goto(d, "updateBlock")
  /\ UNCHANGED <<store, lastIndexedBlock, currentBlock, event, transferMap, running, dropped>>

\* Only failures are left: a callback is started for each, and saveEvents returns.
StartFailures(d) ==
  /\ pc[d] = "next"
  /\ Queue(d) = {}
  /\ running' = Start(todo[d])
  /\ todo' = [todo EXCEPT ![d] = {}]
  /\ Goto(d, "updateBlock")
  /\ UNCHANGED <<store, lastIndexedBlock, currentBlock, event, transferMap, dropped>>

-----------------------------------------------------------------------------
(* saveDeposit and saveFee. *)

\* Blocks from before the fee event: their deposits get a fee of their own.
Count(kind, e) ==
  Cardinality({f \in Log : f.kind = kind /\ EmittedBy(f) = EmittedBy(e) /\ f.block = e.block})
Legacy(e) == e.kind = "deposit" /\ Count("fee", e) # Count("deposit", e)

EventDone(d) ==
  /\ event' = [event EXCEPT ![d] = NoEvent]
  /\ Goto(d, "next")

\* saveDepositToDb returns, whatever became of the deposit.
DepositDone(d) ==
  \/ Legacy(event[d]) /\ Goto(d, "insertFee") /\ UNCHANGED event
  \/ ~Legacy(event[d]) /\ EventDone(d)

SaveAccount(d) ==
  /\ pc[d] = "insertAccount"
  /\ InsertAccount(event[d].key)
  /\ Goto(d, "upsertTransfer")
  /\ UNCHANGED <<transfer, deposits, fees, execution, lastIndexedBlock, currentBlock,
                 todo, event, transferMap, running, dropped>>

\* A mutation: the map is filled before the deposit is inserted.
SaveTransferFillsMap(d) ==
  /\ pc[d] = "upsertTransfer"
  /\ UpsertDepositTransfer(event[d].key)
  /\ transferMap' = [transferMap EXCEPT ![d][event[d].tx] = event[d].key]
  /\ Goto(d, "insertDeposit")
  /\ UNCHANGED <<accounts, deposits, fees, execution, lastIndexedBlock, currentBlock,
                 todo, event, running, dropped>>

SaveTransfer(d) ==
  /\ pc[d] = "upsertTransfer"
  /\ UpsertDepositTransfer(event[d].key)
  /\ Goto(d, "insertDeposit")
  /\ UNCHANGED <<accounts, deposits, fees, execution, lastIndexedBlock, currentBlock,
                 todo, event, transferMap, running, dropped>>

\* Nothing looks for the row first, unlike in the EVM indexer.
SaveDeposit(d) ==
  /\ pc[d] = "insertDeposit"
  /\ InsertDeposit(event[d].key)
  /\ transferMap' = [transferMap EXCEPT ![d][event[d].tx] = event[d].key]
  /\ DepositDone(d)
  /\ UNCHANGED <<accounts, transfer, fees, execution, lastIndexedBlock, currentBlock,
                 todo, running, dropped>>

\* The row is there from before a restart: transferId is unique, the insert
\* throws, and the map is not filled.
DepositExists(d) ==
  /\ pc[d] = "insertDeposit"
  /\ event[d].key \in deposits
  /\ DepositDone(d)
  /\ UNCHANGED <<store, lastIndexedBlock, currentBlock, todo, transferMap, running, dropped>>

\* What transferMap.get returns for the fee, or the deposit's legacy fee.
Payer(d) == transferMap[d][event[d].tx]

SaveFee(d) ==
  /\ pc[d] = "insertFee"
  /\ Payer(d) # NoKey
  /\ InsertFee(Payer(d))
  /\ EventDone(d)
  /\ UNCHANGED <<accounts, transfer, deposits, execution, lastIndexedBlock, currentBlock,
                 todo, transferMap, running, dropped>>

\* "" is no ObjectId, and transferId is unique: the insert throws.
FeeRefused(d) ==
  /\ pc[d] = "insertFee"
  /\ Payer(d) = NoKey \/ Payer(d) \in fees
  /\ EventDone(d)
  /\ dropped' = dropped \union {event[d]}
  /\ UNCHANGED <<store, lastIndexedBlock, currentBlock, todo, transferMap, running>>

-----------------------------------------------------------------------------
(* saveProposalExecution and saveFailedHandlerExecution, one callback for    *)
(* each event.                                                               *)

Advance(e, l) == running' = [running EXCEPT ![e] = l]

\* A failure of a transfer that is executed already is passed over.
Find(e) ==
  /\ running[e] = "findTransfer"
  /\ Advance(e, CASE e.kind = "failed" /\ transfer[e.key].status = "executed" -> "idle"
                  [] Exists(e.key) -> "updateStatus"
                  [] OTHER -> "insertTransfer")
  /\ UNCHANGED <<store, loop, dropped>>

Reason(e) == IF e.kind = "failed" THEN "error" ELSE ""

Mark(e) ==
  /\ \/ running[e] = "updateStatus" /\ UpdateStatus(e.key, e.kind, Reason(e))
     \/ running[e] = "insertTransfer" /\ InsertTransfer(e.key, e.kind, Reason(e))
  /\ Advance(e, "upsertExecution")
  /\ UNCHANGED <<accounts, deposits, fees, execution, loop, dropped>>

SaveExecution(e) ==
  /\ running[e] = "upsertExecution"
  /\ UpsertExecution(e.key, e.tx)
  /\ Advance(e, "idle")
  /\ UNCHANGED <<accounts, transfer, deposits, fees, loop, dropped>>

\* The transfer appeared after it was looked for: the insert throws, which is
\* logged, and the event is not looked at again.
InsertRefused(e) ==
  /\ running[e] = "insertTransfer"
  /\ Exists(e.key)
  /\ Advance(e, "idle")
  /\ dropped' = dropped \union {e}
  /\ UNCHANGED <<store, loop>>

-----------------------------------------------------------------------------
(* Faults. *)

\* init or getLastIndexedBlock fails, or stop() was called.
Halt(d) ==
  /\ pc[d] \in {"boot", "top"}
  /\ Goto(d, "halted")
  /\ UNCHANGED <<store, lastIndexedBlock, currentBlock, todo, event, transferMap, running, dropped>>

\* A call made for a deposit or a fee throws: it is logged, the rest of that
\* deposit or fee is skipped, and the loop goes on with the next.
SavingFails(d) ==
  /\ \/ pc[d] \in DepositSteps /\ DepositDone(d)
     \/ pc[d] = "insertFee" /\ EventDone(d)
  /\ dropped' = dropped \union {event[d]}
  /\ UNCHANGED <<store, lastIndexedBlock, currentBlock, todo, transferMap, running>>

\* A call made by a callback throws.
CallbackFails(e) ==
  /\ running[e] # "idle"
  /\ Advance(e, "idle")
  /\ dropped' = dropped \union {e}
  /\ UNCHANGED <<store, loop>>

\* updateBlock catches its own error and the loop goes on.
UpdateBlockFails(d) ==
  /\ pc[d] = "updateBlock"
  /\ currentBlock' = [currentBlock EXCEPT ![d] = @ + LiveInterval]
  /\ Goto(d, "top")
  /\ UNCHANGED <<store, lastIndexedBlock, todo, event, transferMap, running, dropped>>

\* The process ends, with its callbacks, and its container is restarted.
Restart ==
  /\ pc' = [d \in Domain |-> "boot"]
  /\ currentBlock' = [d \in Domain |-> StartBlock]
  /\ todo' = [d \in Domain |-> {}]
  /\ event' = [d \in Domain |-> NoEvent]
  /\ transferMap' = [d \in Domain |-> [t \in Tx |-> NoKey]]
  /\ running' = [e \in Log |-> "idle"]
  /\ dropped' = dropped \union {e \in Log : running[e] # "idle"}
  /\ UNCHANGED <<store, lastIndexedBlock>>

LoopStep(d) ==
  \/ Resume(d) \/ ReadBlock(d) \/ UpdateBlock(d)
  \/ TakeEvent(d) \/ LeaveBlock(d) \/ StartFailures(d)
  \/ SaveAccount(d) \/ SaveTransfer(d) \/ SaveDeposit(d) \/ DepositExists(d)
  \/ SaveFee(d) \/ FeeRefused(d)

CallbackStep(e) == Find(e) \/ Mark(e) \/ SaveExecution(e) \/ InsertRefused(e)

Step == (\E d \in Domain : LoopStep(d)) \/ (\E e \in Log : CallbackStep(e))

Fault ==
  \/ Restart
  \/ \E d \in Domain : Halt(d) \/ SavingFails(d) \/ UpdateBlockFails(d)
  \/ \E e \in Log : CallbackFails(e)

Next == Step \/ Fault

\* The event loop runs every callback that is ready.
Fairness ==
  /\ \A d \in Domain : WF_vars(LoopStep(d))
  /\ \A e \in Log : WF_vars(CallbackStep(e))

Spec == Init /\ [][Next]_vars
FairSpec == Spec /\ Fairness

\* Nothing fails but the process: every call is answered.
CrashSpec == Init /\ [][Step \/ Restart]_vars

-----------------------------------------------------------------------------
(* Properties. *)

\* A failure of the same transfer was emitted as well: its callback may have
\* looked for the transfer before the execution was saved, and then marks the
\* transfer failed after that.
Contested(k) == \E e \in Log : e.kind = "failed" /\ e.key = k

\* All the database can be relied on to hold once an event has been saved.
Recorded(e) ==
  LET k == e.key
      row == transfer[k]
  IN  CASE e.kind = "deposit" -> row.filled /\ k \in deposits
        [] e.kind = "fee" -> k \in fees
        [] e.kind = "failed" -> row.status \in {"failed", "executed"}
        [] e.kind = "executed" ->
             IF Contested(k) THEN row.status \in {"failed", "executed"} /\ execution[k] # NoTx
                             ELSE row.status = "executed" /\ execution[k] = e.tx

\* The block of the event is at or below the row's cursor.
Passed(e) ==
  LET d == EmittedBy(e)
  IN  d \in Domain /\ StartBlock < lastIndexedBlock[d] /\ e.block \in StartBlock .. lastIndexedBlock[d]

\* The two deposits share their extrinsic, and so their entry in the map.
ShareExtrinsic(e) ==
  \E f, g \in Log :
    f # g /\ f.kind = "deposit" /\ g.kind = "deposit" /\ f.tx = e.tx /\ g.tx = e.tx

\* The cursor vouches for an event only if its callback is not running any more
\* and nothing went wrong when it was saved.  For such an event it does, and
\* what was recorded stays, whatever callbacks, listeners and restarts come later.
\* (A fee is vouched for if its extrinsic holds one deposit.)
PassedEventsAreAccountedFor ==
  \A e \in Log :
    Passed(e) /\ running[e] = "idle" /\ e \notin dropped /\ ~(e.kind = "fee" /\ ShareExtrinsic(e))
      => Recorded(e)

\* The rows of a transfer never contradict each other, at any step and in any
\* overlap of loops and callbacks: a fee comes with a deposit, a deposit with
\* the details and the account of its transfer, an execution row with a status
\* that knows of it, and a failure's message with the status failed.
TablesAgree ==
  /\ fees \subseteq deposits
  /\ \A k \in Key :
       /\ k \in deposits => transfer[k].filled
       /\ transfer[k].filled => k \in accounts
       /\ execution[k] # NoTx => transfer[k].status \in {"failed", "executed"}
       /\ transfer[k].message # "" => transfer[k].status = "failed"

\* What readers of the database rely on, see TransferLifecycle, holds of every
\* transfer that no failure was emitted for.
Uncontested == {k \in Key : ~Contested(k)}
Lifecycle == INSTANCE TransferLifecycle WITH
  Key <- Uncontested,
  status <- [k \in Uncontested |-> transfer[k].status],
  known <- {k \in Uncontested : transfer[k].filled},
  deposits <- deposits \intersect Uncontested,
  fees <- fees \intersect Uncontested,
  settled <- {k \in Uncontested : \E e \in Log :
                e.kind = "executed" /\ e.key = k /\ execution[k] = e.tx},
  tried <- {k \in Uncontested : execution[k] # NoTx}
ImplementsLifecycle == Lifecycle!Spec

\* Once nothing fails any more, every event deep enough in its chain has been
\* saved or dropped for good: no callback is left behind, and neither bad events
\* nor blacklisted ones keep a listener from moving on.
Convergence ==
  \/ []<><<Fault /\ ~Step>>_vars
  \/ \A e \in Log :
       EmittedBy(e) \in Domain /\ e.block + BlockDelay < MaxHead =>
         <>[](Recorded(e) \/ e \in dropped \/ pc[EmittedBy(e)] = "halted")

\* What tests/e2e/indexing.spec.ts expects of the indexed transfers: a transfer's
\* deposit comes with the fee that was collected for it.  Here of the blocks the
\* cursor has passed.
DepositsHaveTheirFees ==
  \A e \in Log : e.kind = "fee" /\ Passed(e) /\ e.key \in deposits => e.key \in fees
=============================================================================
