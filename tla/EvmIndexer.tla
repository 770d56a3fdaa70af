----------------------------- MODULE EvmIndexer -----------------------------
(***************************************************************************)
(* The EVM indexers of src/indexer, one listener per domain, all in one    *)
(* Node process and over one database.  A transfer has two of them at      *)
(* work: the domain it leaves indexes its deposit, the domain it goes to   *)
(* its failed and final executions, in no particular order.                *)
(*                                                                         *)
(* Every await that reads or writes the database is a step, so the         *)
(* listeners interleave there, a call may throw there (the range is then   *)
(* started over), and the process may end there (everything local is lost).*)
(* Calls that only reach the chain (getBlockNumber; getLogs and the        *)
(* decoding) are one step each, the sleeps take no step, and the price and *)
(* the compliance status of a deposit, whose failures are caught, are left *)
(* out with the columns they fill.  EvmListener has the start-up and the   *)
(* shutdown of the loop in detail.                                         *)
(***************************************************************************)
EXTENDS BlockRange, TransferStore, FiniteSets

CONSTANTS
  Domain,       \* the EVM domains that are indexed
  Destination,  \* the domains getDomainsToIndex chose, whatever their type
  Blacklisted,  \* BLACKLISTED_DOMAINS
  Log,          \* the bridge events on the chains
  Flaky,        \* bound: the events whose decoding may fail
  MaxHead,      \* bound: no chain grows beyond this block
  NoEvent       \* no event in progress

Kind == {"deposit", "failed", "executed"}

ASSUME LogAssumption ==
  /\ Key \subseteq [nonce : Nat, from : Nat, to : Nat]
  /\ Log \subseteq [kind : Kind, key : Key, block : Nat, tx : Tx]
  /\ Flaky \subseteq Log
  /\ NoEvent \notin Log
  /\ Domain \subseteq Nat
  /\ MaxHead \in Nat

\* The contract of a chain's bridge executes a proposal at most once, and in a
\* transaction other than those it failed in.
ASSUME ChainAssumption ==
  \A e, f \in Log :
    e.key = f.key /\ e.kind = "executed" =>
      (f.kind = "executed" => f = e) /\ (f.kind = "failed" => f.tx # e.tx)

\* The domain whose chain has the event.
EmittedBy(e) == IF e.kind = "deposit" THEN e.key.from ELSE e.key.to

VARIABLES
  lastIndexedBlock,  \* Domain: the row's cursor, for each domain
  pc,                \* where each listener is
  currentBlock,      \* local: first block of the range in progress or next
  toBlock,           \* local: last block of the range in progress
  todo,              \* local: decoded events of the range not yet saved
  event,             \* local: the event being saved
  seen,              \* local: the rows of its transfer that lookups found
  lost               \* history: events whose last decoding was not kept

cursors == <<lastIndexedBlock, currentBlock, toBlock>>
work == <<todo, event, seen>>
vars == <<store, cursors, work, pc, lost>>

DepositSteps == {"insertAccount", "upsertTransfer", "findRows", "insertRows"}
ExecutionSteps == {"findTransfer", "markTransfer", "upsertExecution"}
EventSteps == DepositSteps \union ExecutionSteps
Location == {"boot", "halted", "top", "fetch", "next"} \union EventSteps

\* Every variable holds a value of its kind; a listener saves only events of
\* its own chain, each along the steps of its kind.
TypeOK ==
  /\ StoreTypeOK
  /\ lastIndexedBlock \in [Domain -> Nat]
  /\ pc \in [Domain -> Location]
  /\ currentBlock \in [Domain -> Nat]
  /\ toBlock \in [Domain -> Nat]
  /\ todo \in [Domain -> SUBSET Log]
  /\ event \in [Domain -> Log \union {NoEvent}]
  /\ seen \in [Domain -> SUBSET {"transfer", "deposit", "fee"}]
  /\ lost \subseteq Log
  /\ \A d \in Domain :
       /\ \A e \in todo[d] : EmittedBy(e) = d
       /\ pc[d] \in EventSteps => event[d] \in Log /\ EmittedBy(event[d]) = d
       /\ pc[d] \in DepositSteps => event[d].kind = "deposit"
       /\ pc[d] \in ExecutionSteps => event[d].kind # "deposit"

\* The database after insertDomains has run for the first time.
Init ==
  /\ StoreInit
  /\ lastIndexedBlock = [d \in Domain |-> StartBlock]
  /\ pc = [d \in Domain |-> "boot"]
  /\ currentBlock = [d \in Domain |-> StartBlock]
  /\ toBlock = [d \in Domain |-> StartBlock]
  /\ todo = [d \in Domain |-> {}]
  /\ event = [d \in Domain |-> NoEvent]
  /\ seen = [d \in Domain |-> {}]
  /\ lost = {}

Goto(d, l) == pc' = [pc EXCEPT ![d] = l]
Forget(d) ==
  /\ todo' = [todo EXCEPT ![d] = {}]
  /\ event' = [event EXCEPT ![d] = NoEvent]
  /\ seen' = [seen EXCEPT ![d] = {}]

-----------------------------------------------------------------------------
(* listenToEvents. *)

Resume(d) ==
  /\ pc[d] = "boot"
  /\ currentBlock' = [currentBlock EXCEPT ![d] = ResumeBlock(lastIndexedBlock[d])]
  /\ Goto(d, "top")
  /\ UNCHANGED <<store, lastIndexedBlock, toBlock, work, lost>>

\* The chain's node answers with some head: not always its own last answer or
\* a later one, since requests are spread over nodes.
ChooseRange(d) ==
  /\ pc[d] = "top"
  /\ \E latest \in 1 .. MaxHead :
       /\ ~CaughtUp(currentBlock[d], latest)
       /\ toBlock' = [toBlock EXCEPT ![d] = QueryEnd(currentBlock[d], latest)]
  /\ Goto(d, "fetch")
  /\ UNCHANGED <<store, lastIndexedBlock, currentBlock, work, lost>>

\* saveEvents returns; updateBlock; the local cursor moves past the range.
UpdateBlock(d) ==
  /\ pc[d] = "next"
  /\ todo[d] = {}
  /\ lastIndexedBlock' = [lastIndexedBlock EXCEPT ![d] = toBlock[d]]
  /\ currentBlock' = [currentBlock EXCEPT ![d] = toBlock[d] + 1]
  /\ Goto(d, "top")
  /\ UNCHANGED <<store, toBlock, work, lost>>

-----------------------------------------------------------------------------
(* saveEvents. *)

InRange(d) == {e \in Log : EmittedBy(e) = d /\ e.block \in currentBlock[d] .. toBlock[d]}

\* getDecodedLogs returns before a deposit is kept whose destination the list
\* includes.  The list is split from a text; ethers decodes the uint8 of the log
\* to a bigint, whatever `as string` says; includes compares without conversion.
Blacklist == {[type |-> "string", id |-> d] : d \in Blacklisted}
Ignored(e) == e.kind = "deposit" /\ [type |-> "bigint", id |-> e.key.to] \in Blacklist

\* parseDestination fails on a deposit whose destination is not in `domains`.
Undecodable(e) == e.kind = "deposit" /\ e.key.to \notin Destination

\* getLogs and decodeLogs.  Whatever fails for one log (a node that does not
\* answer, a receipt it does not have) is caught and the log left out.
FetchLogs(d) ==
  LET logs == {e \in InRange(d) : ~Ignored(e)}
  IN  /\ pc[d] = "fetch"
      /\ \E dropped \in SUBSET logs :
           /\ \A e \in logs : IF e \in dropped THEN e \in Flaky \/ Undecodable(e)
                                             ELSE ~Undecodable(e)
           /\ todo' = [todo EXCEPT ![d] = logs \ dropped]
           /\ lost' = (lost \ logs) \union dropped
      /\ Goto(d, "next")
      /\ UNCHANGED <<store, cursors, event, seen>>

\* The three loops: deposits, then failures, then executions.  Within a kind
\* the order is that in which Promise.all's callbacks came to their push.
Before(e, f) ==
  \/ e.kind = "deposit" /\ f.kind # "deposit"
  \/ e.kind = "failed" /\ f.kind = "executed"

\* A mutation: the executions go down the path of the deposits.
FirstStepMixedUp(e) == IF e.kind = "failed" THEN "findTransfer" ELSE "insertAccount"

FirstStep(e) == IF e.kind = "deposit" THEN "insertAccount" ELSE "findTransfer"

TakeEvent(d) ==
  /\ pc[d] = "next"
  /\ \E e \in todo[d] :
       /\ \A f \in todo[d] : ~Before(f, e)
       /\ todo' = [todo EXCEPT ![d] = @ \ {e}]
       /\ event' = [event EXCEPT ![d] = e]
       /\ Goto(d, FirstStep(e))
  /\ UNCHANGED <<store, cursors, seen, lost>>

EventDone(d) ==
  /\ event' = [event EXCEPT ![d] = NoEvent]
  /\ seen' = [seen EXCEPT ![d] = {}]
  /\ Goto(d, "next")

-----------------------------------------------------------------------------
(* saveDepositLogs. *)

SaveAccount(d) ==
  /\ pc[d] = "insertAccount"
  /\ InsertAccount(event[d].key)
  /\ Goto(d, "upsertTransfer")
  /\ UNCHANGED <<transfer, deposits, fees, execution, cursors, work, lost>>

SaveTransfer(d) ==
  /\ pc[d] = "upsertTransfer"
  /\ UpsertDepositTransfer(event[d].key)
  /\ Goto(d, "findRows")
  /\ UNCHANGED <<accounts, deposits, fees, execution, cursors, work, lost>>

\* A mutation: the rows are inserted without looking for them first.
FindRowsSkipped(d) ==
  /\ pc[d] = "findRows"
  /\ Goto(d, "insertRows")
  /\ UNCHANGED <<store, cursors, work, lost>>

\* findDeposit and findFee, in one step: nobody but this listener writes these
\* rows of this transfer.
FindRows(d) ==
  /\ pc[d] = "findRows"
  /\ seen' = [seen EXCEPT ![d] = {r \in {"deposit", "fee"} :
                event[d].key \in (IF r = "deposit" THEN deposits ELSE fees)}]
  /\ Goto(d, "insertRows")
  /\ UNCHANGED <<store, cursors, todo, event, lost>>

SaveDeposit(d) ==
  /\ pc[d] = "insertRows"
  /\ "deposit" \notin seen[d]
  /\ InsertDeposit(event[d].key)
  /\ seen' = [seen EXCEPT ![d] = @ \union {"deposit"}]
  /\ UNCHANGED <<accounts, transfer, fees, execution, cursors, todo, event, pc, lost>>

SaveFee(d) ==
  /\ pc[d] = "insertRows"
  /\ "deposit" \in seen[d]
  /\ "fee" \notin seen[d]
  /\ InsertFee(event[d].key)
  /\ seen' = [seen EXCEPT ![d] = @ \union {"fee"}]
  /\ UNCHANGED <<accounts, transfer, deposits, execution, cursors, todo, event, pc, lost>>

DepositSaved(d) ==
  /\ pc[d] = "insertRows"
  /\ {"deposit", "fee"} \subseteq seen[d]
  /\ EventDone(d)
  /\ UNCHANGED <<store, cursors, todo, lost>>

-----------------------------------------------------------------------------
(* saveFailedHandlerExecutionLogs and saveProposalExecutionLogs. *)

\* A mutation: an execution too is passed over when its status is there.
OvertakenAnyKind(e) == transfer[e.key].status = "executed"

\* Another: no failure is passed over.
OvertakenNever(e) == FALSE

\* A failure of a transfer that has been executed since is passed over.
Overtaken(e) == e.kind = "failed" /\ transfer[e.key].status = "executed"

FindTransfer(d) ==
  /\ pc[d] = "findTransfer"
  /\ \/ /\ Overtaken(event[d])
        /\ EventDone(d)
     \/ /\ ~Overtaken(event[d])
        /\ seen' = [seen EXCEPT ![d] = IF Exists(event[d].key) THEN {"transfer"} ELSE {}]
        /\ Goto(d, "markTransfer")
        /\ UNCHANGED event
  /\ UNCHANGED <<store, cursors, todo, lost>>

Reason(e) == IF e.kind = "failed" THEN "error" ELSE ""

\* updateStatus, or the insert when the lookup found no transfer.
MarkTransfer(d) ==
  /\ pc[d] = "markTransfer"
  /\ LET e == event[d]
     IN  \/ "transfer" \in seen[d] /\ UpdateStatus(e.key, e.kind, Reason(e))
         \/ "transfer" \notin seen[d] /\ InsertTransfer(e.key, e.kind, Reason(e))
  /\ Goto(d, "upsertExecution")
  /\ UNCHANGED <<accounts, deposits, fees, execution, cursors, work, lost>>

SaveExecution(d) ==
  /\ pc[d] = "upsertExecution"
  /\ UpsertExecution(event[d].key, event[d].tx)
  /\ EventDone(d)
  /\ UNCHANGED <<accounts, transfer, deposits, fees, cursors, todo, lost>>

\* The transfer was not there when it was looked for and is there when it is
\* inserted: the other domain's listener came in between, and @@unique throws.
UniqueViolation(d) ==
  /\ pc[d] = "markTransfer"
  /\ "transfer" \notin seen[d]
  /\ Exists(event[d].key)
  /\ Forget(d)
  /\ Goto(d, "top")
  /\ UNCHANGED <<store, cursors, lost>>

-----------------------------------------------------------------------------
(* Faults. *)

\* getLastIndexedBlock fails: outside the loop's try, so this listener is over.
BootFails(d) ==
  /\ pc[d] = "boot"
  /\ Goto(d, "halted")
  /\ UNCHANGED <<store, cursors, work, lost>>

\* A call of the iteration throws: the range is abandoned as it is and, after
\* the sleep, chosen again from the same currentBlock.
Throw(d) ==
  /\ pc[d] \in {"fetch"} \union EventSteps
  /\ Forget(d)
  /\ Goto(d, "top")
  /\ UNCHANGED <<store, cursors, lost>>

\* updateBlock catches its own error and the loop goes on.
UpdateBlockFails(d) ==
  /\ pc[d] = "next"
  /\ todo[d] = {}
  /\ currentBlock' = [currentBlock EXCEPT ![d] = toBlock[d] + 1]
  /\ Goto(d, "top")
  /\ UNCHANGED <<store, lastIndexedBlock, toBlock, work, lost>>

\* The process ends and its container is restarted: the tables are left.
Restart ==
  /\ pc' = [d \in Domain |-> "boot"]
  /\ currentBlock' = [d \in Domain |-> StartBlock]
  /\ toBlock' = [d \in Domain |-> StartBlock]
  /\ todo' = [d \in Domain |-> {}]
  /\ event' = [d \in Domain |-> NoEvent]
  /\ seen' = [d \in Domain |-> {}]
  /\ UNCHANGED <<store, lastIndexedBlock, lost>>

Step(d) ==
  \/ Resume(d) \/ ChooseRange(d) \/ FetchLogs(d) \/ TakeEvent(d) \/ UpdateBlock(d)
  \/ SaveAccount(d) \/ SaveTransfer(d) \/ FindRows(d)
  \/ SaveDeposit(d) \/ SaveFee(d) \/ DepositSaved(d)
  \/ FindTransfer(d) \/ MarkTransfer(d) \/ SaveExecution(d) \/ UniqueViolation(d)

Fault ==
  \/ Restart
  \/ \E d \in Domain : BootFails(d) \/ Throw(d) \/ UpdateBlockFails(d)

Next == (\E d \in Domain : Step(d)) \/ Fault

\* The event loop runs every callback that is ready.
Fairness == \A d \in Domain : WF_vars(Step(d))

Spec == Init /\ [][Next]_vars
FairSpec == Spec /\ Fairness

-----------------------------------------------------------------------------
(* Properties. *)

\* All the database holds of an event once its handler has returned.
Recorded(e) ==
  LET k == e.key
      row == transfer[k]
  IN  CASE e.kind = "deposit" -> row.filled /\ k \in deposits /\ k \in fees
        [] e.kind = "failed" ->
             row.status = "executed" \/ (row.status = "failed" /\ execution[k] # NoTx)
        [] e.kind = "executed" -> row.status = "executed" /\ execution[k] = e.tx

\* A row says that the event is indexed only when it is: every event up to the
\* domain's persisted cursor is in the database, in all its tables, unless its
\* decoding failed.  Neither crashes between two writes, ranges done over (in
\* part, or with another end), unique violations against the other domain's
\* listener nor late deposits take any of it away.
IndexedEventsAreRecorded ==
  \A e \in Log :
    LET d == EmittedBy(e)
    IN  /\ d \in Domain
        /\ StartBlock < lastIndexedBlock[d]
        /\ e.block \in StartBlock .. lastIndexedBlock[d]
        /\ ~Ignored(e)
        /\ e \notin lost
        => Recorded(e)

\* The keys whose execution row names the transaction that executed them.
Settled ==
  {k \in Key : \E e \in Log : e.kind = "executed" /\ e.key = k /\ execution[k] = e.tx}

\* The tables agree with each other at every step of every handler: a fee comes
\* with a deposit, a deposit with the details and the account of its transfer,
\* an execution row with a status that knows of it, an executing transaction
\* with the status executed, and a failure's message with the status failed.
TablesAgree ==
  /\ fees \subseteq deposits
  /\ \A k \in Key :
       /\ k \in deposits => transfer[k].filled
       /\ transfer[k].filled => k \in accounts
       /\ execution[k] # NoTx => transfer[k].status \in {"failed", "executed"}
       /\ k \in Settled => transfer[k].status = "executed"
       /\ transfer[k].message # "" => transfer[k].status = "failed"

\* What readers of the database rely on: see TransferLifecycle.
Lifecycle == INSTANCE TransferLifecycle WITH
  status <- [k \in Key |-> transfer[k].status],
  known <- {k \in Key : transfer[k].filled},
  settled <- Settled,
  tried <- {k \in Key : execution[k] # NoTx}
ImplementsLifecycle == Lifecycle!Spec

\* Once calls stop failing, every event deep enough in its chain is recorded for
\* good, unless its decoding was given up or its listener did not start.
Convergence ==
  \/ []<><<Fault /\ ~\E d \in Domain : Step(d)>>_vars
  \/ \A e \in Log :
       EmittedBy(e) \in Domain /\ e.block + BlockDelay < MaxHead =>
         <>[](Ignored(e) \/ Recorded(e) \/ e \in lost \/ pc[EmittedBy(e)] = "halted")

\* What getDecodedLogs means to do with BLACKLISTED_DOMAINS: a deposit to such a
\* domain leaves nothing in the database.
BlacklistedDepositsAreIgnored ==
  \A e \in Log :
    e.kind = "deposit" /\ e.key.to \in Blacklisted => ~transfer[e.key].filled
=============================================================================
