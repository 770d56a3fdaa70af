-------------------------- MODULE Indexers_proofs --------------------------
(***************************************************************************)
(* Proofs about Indexers, for every set of domains of either kind and      *)
(* every content of their chains.                                          *)
(*                                                                         *)
(* The argument: the conjunction of the two kinds' inductive invariants    *)
(* is inductive.  A step of one kind keeps its own invariant, as proved    *)
(* of that kind alone, and is to the other kind nothing but its            *)
(* Environment: it adds rows and details, and records no execution of a    *)
(* transfer whose executions the other kind records, because a transfer's  *)
(* executions are on one chain and a chain is of one kind.                 *)
(*                                                                         *)
(* EvmP and SubP are the instances Evm and Substrate of Indexers together  *)
(* with what is proved about them.                                         *)
(***************************************************************************)
EXTENDS Indexers, TransferStore_proofs, TLAPS

EvmP == INSTANCE EvmIndexer_proofs WITH
  Domain <- EvmDomain, Destination <- EvmDomain \union SubstrateDomain, Log <- EvmLog,
  lastIndexedBlock <- evmRow, pc <- evmPc, currentBlock <- evmBlock, toBlock <- evmToBlock,
  todo <- evmTodo, event <- evmEvent, seen <- evmSeen, lost <- evmLost

SubP == INSTANCE SubstrateIndexer_proofs WITH
  Domain <- SubstrateDomain, Log <- SubstrateLog,
  lastIndexedBlock <- subRow, pc <- subPc, currentBlock <- subBlock, todo <- subTodo,
  event <- subEvent, transferMap <- subMap, running <- subRunning, dropped <- subDropped

IInv == EvmP!IInv /\ SubP!IInv

USE DEF EvmP!Kind, SubP!Kind

\* What EvmIndexer and SubstrateIndexer assume of their constants.
LEMMA EvmAssumptions ==
  /\ /\ Key \subseteq [nonce : Nat, from : Nat, to : Nat]
     /\ EvmLog \subseteq [kind : EvmP!Kind, key : Key, block : Nat, tx : Tx]
     /\ Flaky \subseteq EvmLog
     /\ NoEvent \notin EvmLog
     /\ EvmDomain \subseteq Nat
     /\ MaxHead \in Nat
  /\ \A e, f \in EvmLog :
       e.key = f.key /\ e.kind = "executed" =>
         (f.kind = "executed" => f = e) /\ (f.kind = "failed" => f.tx # e.tx)
  BY LogsAssumption, ProposalsAssumption DEF Evm!Kind

LEMMA SubstrateAssumptions ==
  /\ /\ Key \subseteq [nonce : Nat, from : Nat, to : Nat]
     /\ SubstrateLog \subseteq [kind : SubP!Kind, key : Key, block : Nat, index : Nat, tx : Tx]
     /\ NoEvent \notin SubstrateLog
     /\ NoKey \notin Key
     /\ SubstrateDomain \subseteq Nat
     /\ MaxHead \in Nat
  /\ \A e, f \in SubstrateLog :
       e.key = f.key /\ e.kind = "executed" =>
         (f.kind = "executed" => f = e) /\ (f.kind = "failed" => f.tx # e.tx)
  /\ \A e \in SubstrateLog : e.kind = "fee" =>
       \E f \in SubstrateLog : f.kind = "deposit" /\ f.key = e.key /\ f.tx = e.tx
  BY LogsAssumption, ProposalsAssumption, FeesAssumption DEF Substrate!Kind

USE RangeAssumption, StoreAssumption, EvmAssumptions, SubstrateAssumptions

-----------------------------------------------------------------------------
(* The same definitions by their two names.                                 *)

LEMMA EvmNames ==
  ASSUME NEW d \in EvmDomain
  PROVE  /\ Evm!Step(d) => EvmP!Step(d)
         /\ Evm!BootFails(d) => EvmP!BootFails(d)
         /\ Evm!Throw(d) => EvmP!Throw(d)
         /\ Evm!UpdateBlockFails(d) => EvmP!UpdateBlockFails(d)
  BY DEF
     Evm!Step, EvmP!Step, Evm!BootFails, EvmP!BootFails, Evm!Throw, EvmP!Throw,
     Evm!UpdateBlockFails, EvmP!UpdateBlockFails, Evm!Resume, EvmP!Resume, Evm!ChooseRange,
     EvmP!ChooseRange, Evm!FetchLogs, EvmP!FetchLogs, Evm!TakeEvent, EvmP!TakeEvent,
     Evm!UpdateBlock, EvmP!UpdateBlock, Evm!SaveAccount, EvmP!SaveAccount, Evm!SaveTransfer,
     EvmP!SaveTransfer, Evm!FindRows, EvmP!FindRows, Evm!SaveDeposit, EvmP!SaveDeposit,
     Evm!SaveFee, EvmP!SaveFee, Evm!DepositSaved, EvmP!DepositSaved, Evm!FindTransfer,
     EvmP!FindTransfer, Evm!MarkTransfer, EvmP!MarkTransfer, Evm!SaveExecution,
     EvmP!SaveExecution, Evm!UniqueViolation, EvmP!UniqueViolation, Evm!Goto, EvmP!Goto,
     Evm!Forget, EvmP!Forget, Evm!EventDone, EvmP!EventDone, Evm!ResumeBlock,
     EvmP!ResumeBlock, Evm!CaughtUp, EvmP!CaughtUp, Evm!QueryEnd, EvmP!QueryEnd,
     Evm!LiveInterval, EvmP!LiveInterval, Evm!InRange, EvmP!InRange, Evm!EmittedBy,
     EvmP!EmittedBy, Evm!Ignored, EvmP!Ignored, Evm!Blacklist, EvmP!Blacklist,
     Evm!Undecodable, EvmP!Undecodable, Evm!Before, EvmP!Before, Evm!FirstStep,
     EvmP!FirstStep, Evm!InsertAccount, EvmP!InsertAccount, Evm!UpsertDepositTransfer,
     EvmP!UpsertDepositTransfer, Evm!InsertDeposit, EvmP!InsertDeposit, Evm!InsertFee,
     EvmP!InsertFee, Evm!UpdateStatus, EvmP!UpdateStatus, Evm!InsertTransfer,
     EvmP!InsertTransfer, Evm!UpsertExecution, EvmP!UpsertExecution, Evm!Exists,
     EvmP!Exists, Evm!NoTransfer, EvmP!NoTransfer, Evm!Overtaken, EvmP!Overtaken,
     Evm!Reason, EvmP!Reason, Evm!EventSteps, EvmP!EventSteps, Evm!DepositSteps,
     EvmP!DepositSteps, Evm!ExecutionSteps, EvmP!ExecutionSteps, Evm!store, EvmP!store,
     Evm!cursors, EvmP!cursors, Evm!work, EvmP!work

LEMMA LoopNames ==
  ASSUME NEW d \in SubstrateDomain
  PROVE  /\ Substrate!LoopStep(d) => SubP!LoopStep(d)
         /\ Substrate!Halt(d) => SubP!Halt(d)
         /\ Substrate!SavingFails(d) => SubP!SavingFails(d)
         /\ Substrate!UpdateBlockFails(d) => SubP!UpdateBlockFails(d)
  BY DEF
     Substrate!LoopStep, SubP!LoopStep, Substrate!Halt, SubP!Halt, Substrate!SavingFails,
     SubP!SavingFails, Substrate!UpdateBlockFails, SubP!UpdateBlockFails, Substrate!Resume,
     SubP!Resume, Substrate!ReadBlock, SubP!ReadBlock, Substrate!UpdateBlock,
     SubP!UpdateBlock, Substrate!TakeEvent, SubP!TakeEvent, Substrate!LeaveBlock,
     SubP!LeaveBlock, Substrate!StartFailures, SubP!StartFailures, Substrate!SaveAccount,
     SubP!SaveAccount, Substrate!SaveTransfer, SubP!SaveTransfer, Substrate!SaveDeposit,
     SubP!SaveDeposit, Substrate!DepositExists, SubP!DepositExists, Substrate!SaveFee,
     SubP!SaveFee, Substrate!FeeRefused, SubP!FeeRefused, Substrate!Goto, SubP!Goto,
     Substrate!ResumeBlock, SubP!ResumeBlock, Substrate!CaughtUp, SubP!CaughtUp,
     Substrate!LiveInterval, SubP!LiveInterval, Substrate!InBlock, SubP!InBlock,
     Substrate!Start, SubP!Start, Substrate!EmittedBy, SubP!EmittedBy, Substrate!Before,
     SubP!Before, Substrate!Queue, SubP!Queue, Substrate!Foremost, SubP!Foremost,
     Substrate!Count, SubP!Count, Substrate!Legacy, SubP!Legacy, Substrate!Cardinality,
     SubP!Cardinality, Substrate!EventDone, SubP!EventDone, Substrate!DepositDone,
     SubP!DepositDone, Substrate!Payer, SubP!Payer, Substrate!InsertAccount,
     SubP!InsertAccount, Substrate!UpsertDepositTransfer, SubP!UpsertDepositTransfer,
     Substrate!InsertDeposit, SubP!InsertDeposit, Substrate!InsertFee, SubP!InsertFee,
     Substrate!Exists, SubP!Exists, Substrate!DepositSteps, SubP!DepositSteps,
     Substrate!NoTransfer, SubP!NoTransfer, Substrate!store, SubP!store, Substrate!loop,
     SubP!loop

LEMMA CallbackNames ==
  ASSUME NEW e \in SubstrateLog
  PROVE  /\ Substrate!CallbackStep(e) => SubP!CallbackStep(e)
         /\ Substrate!CallbackFails(e) => SubP!CallbackFails(e)
  BY DEF
     Substrate!CallbackStep, SubP!CallbackStep, Substrate!CallbackFails, SubP!CallbackFails,
     Substrate!Find, SubP!Find, Substrate!Mark, SubP!Mark, Substrate!SaveExecution,
     SubP!SaveExecution, Substrate!InsertRefused, SubP!InsertRefused, Substrate!Advance,
     SubP!Advance, Substrate!Reason, SubP!Reason, Substrate!UpdateStatus, SubP!UpdateStatus,
     Substrate!InsertTransfer, SubP!InsertTransfer, Substrate!UpsertExecution,
     SubP!UpsertExecution, Substrate!Exists, SubP!Exists, Substrate!NoTransfer,
     SubP!NoTransfer, Substrate!store, SubP!store, Substrate!loop, SubP!loop

\* Every step of the process is one of the kind that makes it, or stutters there.
LEMMA EvmTurns ==
  ASSUME EvmStep \/ EvmFault
  PROVE  EvmP!Next /\ UNCHANGED substrate
  BY EvmNames DEF EvmStep, EvmFault, EvmP!Next, EvmP!Fault

LEMMA SubstrateTurns ==
  ASSUME SubstrateStep \/ SubstrateFault
  PROVE  SubP!Next /\ UNCHANGED evm
  BY LoopNames, CallbackNames DEF SubstrateStep, SubstrateFault, SubP!Next, SubP!Step, SubP!Fault

LEMMA Restarts ==
  ASSUME Restart
  PROVE  EvmP!Next /\ SubP!Next /\ UNCHANGED store
<1>1. Evm!Restart => EvmP!Restart /\ UNCHANGED store
  BY DEF Evm!Restart, EvmP!Restart, Evm!store, EvmP!store, store
<1>2. Substrate!Restart => SubP!Restart
  BY DEF Substrate!Restart, SubP!Restart, Substrate!store, SubP!store
<1> QED
  BY <1>1, <1>2 DEF Restart, EvmP!Next, EvmP!Fault, SubP!Next, SubP!Fault

-----------------------------------------------------------------------------
(* The two kinds beside each other.                                         *)

\* No transfer has executions on chains of both kinds.
LEMMA Apart ==
  ASSUME NEW e \in EvmLog, NEW f \in SubstrateLog,
         e.kind # "deposit", f.kind \in {"failed", "executed"}
  PROVE  e.key # f.key
<1>1. Evm!EmittedBy(e) = e.key.to /\ Substrate!EmittedBy(f) = f.key.to
  BY DEF Evm!EmittedBy, Substrate!EmittedBy
<1> QED
  BY <1>1, ChainsAssumption

LEMMA TriedApart == EvmP!TriedHere \subseteq Key \ SubP!TriedHere
  BY Apart DEF EvmP!TriedHere, SubP!TriedHere, SubP!Tried

\* To the Substrate listeners a step of an EVM listener is their environment's.
LEMMA EvmIsEnvironment ==
  ASSUME EvmP!IInv, EvmP!Next, UNCHANGED substrate
  PROVE  SubP!Environment
<1>1. EvmP!Grows /\ EvmP!DepositOnly(Key \ EvmP!TriedHere)
  BY EvmP!Guarantee DEF EvmP!IInv
<1>2. SubP!Grows
  BY <1>1 DEF EvmP!Grows, SubP!Grows, EvmP!Tried, SubP!Tried, EvmP!StoreTypeOK, SubP!StoreTypeOK,
     EvmP!Transfer, SubP!Transfer, EvmP!NoTransfer, SubP!NoTransfer, EvmP!Status, SubP!Status,
     EvmP!Message, SubP!Message
<1>3. SubP!DepositOnly(SubP!TriedHere)
  <2>1. SubP!TriedHere \subseteq Key \ EvmP!TriedHere
    BY TriedApart DEF SubP!TriedHere
  <2> QED
    BY <1>1, <2>1 DEF EvmP!DepositOnly, SubP!DepositOnly
<1> QED
  BY <1>2, <1>3 DEF SubP!Environment, SubP!loop, substrate

LEMMA SubstrateIsEnvironment ==
  ASSUME SubP!IInv, SubP!Next, UNCHANGED evm
  PROVE  EvmP!Environment
<1>1. SubP!Grows /\ SubP!DepositOnly(Key \ SubP!TriedHere)
  BY SubP!Guarantee DEF SubP!IInv
<1>2. EvmP!Grows
  BY <1>1 DEF EvmP!Grows, SubP!Grows, EvmP!Tried, SubP!Tried, EvmP!StoreTypeOK, SubP!StoreTypeOK,
     EvmP!Transfer, SubP!Transfer, EvmP!NoTransfer, SubP!NoTransfer, EvmP!Status, SubP!Status,
     EvmP!Message, SubP!Message
<1>3. EvmP!DepositOnly(EvmP!TriedHere)
  BY <1>1, TriedApart DEF EvmP!DepositOnly, SubP!DepositOnly
<1> QED
  BY <1>2, <1>3 DEF EvmP!Environment, EvmP!cursors, EvmP!work, evm

LEMMA EvmTurn ==
  ASSUME IInv, EvmP!Next, UNCHANGED substrate
  PROVE  IInv'
<1>1. EvmP!IInv'
  BY EvmP!Inductive DEF IInv
<1>2. SubP!TypeOK' /\ SubP!HandlerSound' /\ SubP!BlocksSound'
  BY EvmIsEnvironment, SubP!EnvironmentStep DEF IInv, SubP!IInv
<1>3. SubP!TablesAgree'
  BY <1>1 DEF EvmP!IInv, EvmP!TablesAgree, SubP!TablesAgree
<1> QED
  BY <1>1, <1>2, <1>3 DEF IInv, SubP!IInv

LEMMA SubstrateTurn ==
  ASSUME IInv, SubP!Next, UNCHANGED evm
  PROVE  IInv'
<1>1. SubP!IInv'
  BY SubP!Inductive DEF IInv
<1>e. EvmP!Environment
  BY SubstrateIsEnvironment DEF IInv
<1>2. EvmP!TypeOK' /\ EvmP!HandlerSound' /\ EvmP!RangesSound'
  BY <1>e, EvmP!EnvironmentStep DEF IInv, EvmP!IInv
<1>3. \A k \in Key : k \in EvmP!Settled' => transfer'[k].status = "executed"
  BY <1>e, EvmP!EnvironmentSettles DEF IInv, EvmP!IInv
<1>4. EvmP!TablesAgree'
  BY <1>1, <1>3 DEF SubP!IInv, EvmP!TablesAgree, SubP!TablesAgree
<1> QED
  BY <1>1, <1>2, <1>4 DEF IInv, EvmP!IInv

LEMMA Initially == Init => IInv
<1>1. Evm!Init => EvmP!Init
  BY DEF Evm!Init, EvmP!Init, Evm!StoreInit, EvmP!StoreInit, Evm!NoTransfer, EvmP!NoTransfer
<1>2. Substrate!Init => SubP!Init
  BY DEF Substrate!Init, SubP!Init, Substrate!StoreInit, SubP!StoreInit, Substrate!NoTransfer,
     SubP!NoTransfer
<1> QED
  BY <1>1, <1>2, EvmP!Initially, SubP!Initially DEF Init, IInv

LEMMA Inductive == IInv /\ [Next]_vars => IInv'
<1> SUFFICES ASSUME IInv, [Next]_vars PROVE IInv'
  OBVIOUS
<1>1. CASE EvmStep \/ EvmFault
  BY <1>1, EvmTurns, EvmTurn
<1>2. CASE SubstrateStep \/ SubstrateFault
  BY <1>2, SubstrateTurns, SubstrateTurn
<1>3. CASE Restart
  BY <1>3, Restarts, EvmP!Inductive, SubP!Inductive DEF IInv
<1>4. CASE UNCHANGED vars
  <2>1. UNCHANGED EvmP!vars /\ UNCHANGED SubP!vars
    BY <1>4 DEF vars, evm, substrate, store, EvmP!vars, EvmP!store, EvmP!cursors, EvmP!work,
       SubP!vars, SubP!store, SubP!loop
  <2> QED
    BY <2>1, EvmP!Inductive, SubP!Inductive DEF IInv
<1> QED
  BY <1>1, <1>2, <1>3, <1>4 DEF Next

-----------------------------------------------------------------------------
(* The life cycle: what a write to the tables is to their readers.          *)

\* The transfers in K that an execution row names the executing transaction of.
Named(K) ==
  {k \in K : \E e \in EvmLog \union SubstrateLog :
     e.kind = "executed" /\ e.key = k /\ execution[k] = e.tx}

LEMMA SteadyKeys ==
  /\ Steady \subseteq Key
  /\ Steady' = Steady
  /\ \A e \in SubstrateLog : e.kind = "failed" => e.key \notin Steady
  BY DEF Steady, Substrate!Uncontested, Substrate!Contested

\* The columns shown, unless their tables are written.
LEMMA ShownColumns ==
  /\ transfer' = transfer =>
       /\ [k \in Steady |-> transfer[k].status]' = [k \in Steady |-> transfer[k].status]
       /\ {k \in Steady : transfer[k].filled}' = {k \in Steady : transfer[k].filled}
  /\ execution' = execution =>
       /\ Named(Steady)' = Named(Steady)
       /\ {k \in Steady : execution[k] # NoTx}' = {k \in Steady : execution[k] # NoTx}
  /\ deposits' = deposits => (deposits \intersect Steady)' = deposits \intersect Steady
  /\ fees' = fees => (fees \intersect Steady)' = fees \intersect Steady
  BY SteadyKeys DEF Named

LEMMA NothingShown ==
  ASSUME UNCHANGED <<transfer, deposits, fees, execution>>
  PROVE  UNCHANGED Lifecycle!vars
  BY ShownColumns DEF Lifecycle!vars, Named

\* A deposit's upsert.
LEMMA DetailsShown ==
  ASSUME NEW k \in Key,
         UNCHANGED <<deposits, fees, execution>>,
         transfer'[k].filled,
         transfer'[k].status = IF transfer[k].status = "absent" THEN "pending"
                               ELSE transfer[k].status,
         \A j \in Key \ {k} : transfer'[j] = transfer[j]
  PROVE  [Lifecycle!Next]_Lifecycle!vars
<1> DEFINE status == [j \in Steady |-> transfer[j].status]
           known == {j \in Steady : transfer[j].filled}
<1>1. CASE k \in Steady
  <2>1. status' = [status EXCEPT ![k] = IF @ = "absent" THEN "pending" ELSE @]
    BY <1>1, SteadyKeys
  <2>2. known' = known \union {k}
    BY <1>1, SteadyKeys
  <2> QED
    BY <1>1, <2>1, <2>2, ShownColumns DEF Named, Lifecycle!Next, Lifecycle!Deposited
<1>2. CASE k \notin Steady
  <2>1. \A j \in Steady : transfer'[j] = transfer[j]
    BY <1>2, SteadyKeys
  <2>2. status' = status /\ known' = known
    BY <2>1, SteadyKeys
  <2> QED
    BY <2>2, ShownColumns DEF Named, Lifecycle!vars
<1> QED
  BY <1>1, <1>2

\* An execution's write of the status.
LEMMA MarkShown ==
  ASSUME NEW k \in Key, NEW kind \in {"failed", "executed"},
         k \in Steady /\ kind = "failed" => transfer[k].status # "executed",
         UNCHANGED <<deposits, fees, execution>>,
         transfer'[k].status = kind,
         transfer'[k].filled = transfer[k].filled,
         \A j \in Key \ {k} : transfer'[j] = transfer[j]
  PROVE  [Lifecycle!Next]_Lifecycle!vars
<1> DEFINE status == [j \in Steady |-> transfer[j].status]
           known == {j \in Steady : transfer[j].filled}
<1>1. known' = known
  BY SteadyKeys
<1>2. CASE k \in Steady
  <2>1. status' = [status EXCEPT ![k] = kind]
    BY <1>2, SteadyKeys
  <2>2. CASE kind = "failed"
    BY <1>1, <1>2, <2>1, <2>2, ShownColumns DEF Named, Lifecycle!Next, Lifecycle!Failed
  <2>3. CASE kind = "executed"
    BY <1>1, <1>2, <2>1, <2>3, ShownColumns DEF Named, Lifecycle!Next, Lifecycle!Executed
  <2> QED
    BY <2>2, <2>3
<1>3. CASE k \notin Steady
  <2>1. status' = status
    BY <1>3, SteadyKeys
  <2> QED
    BY <1>1, <2>1, ShownColumns DEF Named, Lifecycle!vars
<1> QED
  BY <1>2, <1>3

\* The inserts of a deposit and of a fee.
LEMMA RowShown ==
  ASSUME NEW k,
         UNCHANGED <<transfer, execution>>,
         \/ /\ transfer[k].filled /\ k \notin deposits
            /\ deposits' = deposits \union {k} /\ fees' = fees
         \/ /\ k \in deposits /\ k \notin fees
            /\ fees' = fees \union {k} /\ deposits' = deposits
  PROVE  [Lifecycle!Next]_Lifecycle!vars
<1>1. CASE k \notin Steady
  BY <1>1, SteadyKeys, ShownColumns DEF Named, Lifecycle!vars
<1>2. CASE k \in Steady /\ fees' = fees /\ deposits' = deposits \union {k}
  BY <1>2, SteadyKeys, ShownColumns DEF Named, Lifecycle!Next, Lifecycle!FileDeposit
<1>3. CASE k \in Steady /\ deposits' = deposits /\ fees' = fees \union {k}
  BY <1>3, SteadyKeys, ShownColumns DEF Named, Lifecycle!Next, Lifecycle!FileFee
<1> QED
  BY <1>1, <1>2, <1>3

\* The upsert of an execution.
LEMMA ExecutionShown ==
  ASSUME execution \in [Key -> Tx \union {NoTx}],
         NEW e \in EvmLog \union SubstrateLog,
         e.kind \in {"failed", "executed"}, e.key \in Key, e.tx \in Tx,
         e.key \in Steady => transfer[e.key].status = e.kind,
         e.key \in Steady /\ e.kind = "failed" => e.key \notin Named(Steady),
         execution' = [execution EXCEPT ![e.key] = e.tx],
         UNCHANGED <<transfer, deposits, fees>>
  PROVE  [Lifecycle!Next]_Lifecycle!vars
<1> DEFINE k == e.key
           tried == {j \in Steady : execution[j] # NoTx}
<1>1. execution'[k] = e.tx /\ e.tx # NoTx /\ \A j \in Key \ {k} : execution'[j] = execution[j]
  OBVIOUS
<1>2. Named(Steady) \subseteq Steady /\ Named(Steady)' \subseteq Steady
  BY SteadyKeys DEF Named
<1>3. \A j \in Steady \ {k} : j \in Named(Steady)' <=> j \in Named(Steady)
  BY <1>1, SteadyKeys DEF Named
<1>4. CASE k \notin Steady
  <2>1. \A j \in Steady : execution'[j] = execution[j]
    BY <1>1, <1>4, SteadyKeys
  <2>2. tried' = tried
    BY <2>1, SteadyKeys
  <2>3. Named(Steady)' = Named(Steady)
    BY <1>2, <1>3, <1>4
  <2> QED
    BY <2>2, <2>3, ShownColumns DEF Named, Lifecycle!vars
<1>5. ASSUME k \in Steady PROVE tried' = tried \union {k}
  BY <1>1, <1>5, SteadyKeys
<1>6. CASE k \in Steady /\ e.kind = "failed"
  <2>1. k \notin Named(Steady)' /\ k \notin Named(Steady)
    BY <1>1, <1>6, ProposalsAssumption DEF Named
  <2>2. \A j \in Steady : j \in Named(Steady)' <=> j \in Named(Steady)
    BY <1>3, <2>1
  <2>3. Named(Steady)' = Named(Steady)
    BY <1>2, <2>2
  <2> QED
    BY <1>5, <1>6, <2>1, <2>3, ShownColumns DEF Named, Lifecycle!Next, Lifecycle!FileFailure
<1>7. CASE k \in Steady /\ e.kind = "executed"
  <2>1. k \in Named(Steady)'
    BY <1>1, <1>7, SteadyKeys DEF Named
  <2>2. Named(Steady)' = Named(Steady) \union {k}
    BY <1>2, <1>3, <1>7, <2>1
  <2> QED
    BY <1>5, <1>7, <2>2, ShownColumns DEF Named, Lifecycle!Next, Lifecycle!FileExecution
<1> QED
  BY <1>4, <1>6, <1>7

\* The steps of either kind are steps of TransferLifecycle or show nothing.
LEMMA EvmShown ==
  ASSUME IInv, EvmP!Next
  PROVE  [Lifecycle!Next]_Lifecycle!vars
<1>i. EvmP!TypeOK /\ EvmP!HandlerSound /\ EvmP!TablesAgree
  BY DEF IInv, EvmP!IInv
<1>1. ASSUME NEW d \in EvmDomain, EvmP!SaveTransfer(d) PROVE [Lifecycle!Next]_Lifecycle!vars
  <2> DEFINE k == evmEvent[d].key
  <2>1. /\ k \in Key /\ UNCHANGED <<deposits, fees, execution>>
        /\ transfer'[k].filled
        /\ transfer'[k].status = IF transfer[k].status = "absent" THEN "pending"
                                 ELSE transfer[k].status
        /\ \A j \in Key \ {k} : transfer'[j] = transfer[j]
    BY <1>i, <1>1, EvmP!TransferWrite
  <2> QED
    BY <2>1, DetailsShown
<1>2. ASSUME NEW d \in EvmDomain, EvmP!MarkTransfer(d) PROVE [Lifecycle!Next]_Lifecycle!vars
  BY <1>i, <1>2, EvmP!MarkWrite, MarkShown
<1>3. ASSUME NEW d \in EvmDomain, EvmP!SaveDeposit(d) \/ EvmP!SaveFee(d)
      PROVE  [Lifecycle!Next]_Lifecycle!vars
  BY <1>i, <1>3, EvmP!RowWrite, RowShown
     DEF EvmP!SaveDeposit, EvmP!SaveFee, EvmP!InsertDeposit, EvmP!InsertFee
<1>4. ASSUME NEW d \in EvmDomain, EvmP!SaveExecution(d) PROVE [Lifecycle!Next]_Lifecycle!vars
  <2> DEFINE e == evmEvent[d]
  <2>1. /\ e \in EvmLog /\ e.key \in Key /\ e.tx \in Tx /\ e.kind \in {"failed", "executed"}
        /\ transfer[e.key].status = e.kind
        /\ execution' = [execution EXCEPT ![e.key] = e.tx]
        /\ e.kind = "failed" => e.key \notin EvmP!Settled
        /\ UNCHANGED <<transfer, deposits, fees>>
    BY <1>i, <1>4, EvmP!ExecutionWrite
  <2>2. execution \in [Key -> Tx \union {NoTx}]
    BY <1>i DEF EvmP!TypeOK, EvmP!StoreTypeOK
  <2>3. e.kind = "failed" => e.key \notin Named(Steady)
    BY <2>1, Apart DEF Named, EvmP!Settled
  <2> QED
    BY <2>1, <2>2, <2>3, ExecutionShown
<1>5. CASE UNCHANGED <<transfer, deposits, fees, execution>>
  BY <1>5, NothingShown
<1> QED
  BY <1>1, <1>2, <1>3, <1>4, <1>5, EvmP!Writers

LEMMA SubstrateShown ==
  ASSUME IInv, SubP!Next
  PROVE  [Lifecycle!Next]_Lifecycle!vars
<1>i. SubP!TypeOK /\ SubP!HandlerSound /\ SubP!TablesAgree
  BY DEF IInv, SubP!IInv
<1>e. \A e \in SubstrateLog : e.key \in Steady /\ e.kind \in {"failed", "executed"} => e.kind = "executed"
  BY SteadyKeys
<1>1. ASSUME NEW d \in SubstrateDomain, SubP!SaveTransfer(d) PROVE [Lifecycle!Next]_Lifecycle!vars
  <2> DEFINE k == subEvent[d].key
  <2>1. /\ k \in Key /\ UNCHANGED <<deposits, fees, execution>>
        /\ transfer'[k].filled
        /\ transfer'[k].status = IF transfer[k].status = "absent" THEN "pending"
                                 ELSE transfer[k].status
        /\ \A j \in Key \ {k} : transfer'[j] = transfer[j]
    BY <1>i, <1>1, SubP!DetailsWrite
  <2> QED
    BY <2>1, DetailsShown
<1>2. ASSUME NEW e \in SubstrateLog, SubP!Mark(e) PROVE [Lifecycle!Next]_Lifecycle!vars
  BY <1>i, <1>e, <1>2, SubP!MarkWrite, MarkShown DEF SubP!Tried
<1>3. ASSUME NEW d \in SubstrateDomain, SubP!SaveDeposit(d) PROVE [Lifecycle!Next]_Lifecycle!vars
  BY <1>i, <1>3, RowShown
     DEF SubP!SaveDeposit, SubP!InsertDeposit, SubP!HandlerSound, SubP!DepositsInHand
<1>4. ASSUME NEW d \in SubstrateDomain, SubP!SaveFee(d) PROVE [Lifecycle!Next]_Lifecycle!vars
  <2>1. subEvent[d].tx \in Tx
    BY <1>i, <1>4, SubP!EventType DEF SubP!SaveFee, SubP!TypeOK, SubP!EventSteps
  <2>2. SubP!Payer(d) \in deposits
    BY <1>i, <1>4, <2>1 DEF SubP!SaveFee, SubP!Payer, SubP!HandlerSound, SubP!MapSound
  <2> QED
    BY <1>4, <2>2, RowShown DEF SubP!SaveFee, SubP!InsertFee
<1>5. ASSUME NEW e \in SubstrateLog, SubP!SaveExecution(e) PROVE [Lifecycle!Next]_Lifecycle!vars
  <2>1. /\ e.key \in Key /\ e.tx \in Tx /\ e.kind \in {"failed", "executed"} /\ SubP!Marked(e)
        /\ execution' = [execution EXCEPT ![e.key] = e.tx]
        /\ execution \in [Key -> Tx \union {NoTx}]
        /\ UNCHANGED <<transfer, deposits, fees>>
    BY <1>i, <1>5, SubP!EventType
    DEF SubP!SaveExecution, SubP!UpsertExecution, SubP!TypeOK, SubP!StoreTypeOK,
        SubP!HandlerSound, SubP!CallbacksSound
  <2>2. e.key \in Steady => transfer[e.key].status = e.kind
    BY <1>e, <2>1 DEF SubP!Marked, SubP!Contested, Steady, Substrate!Uncontested, Substrate!Contested
  <2>3. e.key \in Steady => e.kind # "failed"
    BY <1>e, <2>1
  <2> QED
    BY <2>1, <2>2, <2>3, ExecutionShown
<1>6. CASE UNCHANGED store \/ \E d \in SubstrateDomain : SubP!SaveAccount(d)
  BY <1>6, NothingShown DEF store, SubP!SaveAccount
<1>7. SubP!store = store
  BY DEF SubP!store, store
<1> QED
  BY <1>1, <1>2, <1>3, <1>4, <1>5, <1>6, <1>7, SubP!Writers DEF SubP!store, store

LEMMA LifecycleStep == IInv /\ [Next]_vars => [Lifecycle!Next]_Lifecycle!vars
<1>1. Restart \/ UNCHANGED vars => UNCHANGED <<transfer, deposits, fees, execution>>
  BY Restarts DEF vars, store
<1> QED
  BY <1>1, EvmTurns, SubstrateTurns, EvmShown, SubstrateShown, NothingShown DEF Next

-----------------------------------------------------------------------------
(* The theorems. *)

\* The inductive invariants of both kinds hold in every state.
THEOREM Invariance == Spec => []IInv
  BY Initially, Inductive, PTL DEF Spec

\* The rows of a transfer agree, whichever kinds of listeners wrote them.
THEOREM TablesAlwaysAgree == Spec => []TablesAgree
<1>1. IInv => TablesAgree
  BY DEF IInv, SubP!IInv, SubP!TablesAgree, TablesAgree, Substrate!TablesAgree
<1> QED
  BY <1>1, Invariance, PTL

\* What an EVM row vouches for is recorded, whatever the Substrate listeners and
\* their callbacks do to the same transfers.
THEOREM EvmEventsRecorded == Spec => []EvmEventsAreRecorded
<1>1. EvmP!IndexedEventsAreRecorded => EvmEventsAreRecorded
  BY DEF EvmEventsAreRecorded, Evm!IndexedEventsAreRecorded, EvmP!IndexedEventsAreRecorded,
     Evm!EmittedBy, EvmP!EmittedBy, Evm!Ignored, EvmP!Ignored, Evm!Blacklist, EvmP!Blacklist,
     Evm!Recorded, EvmP!Recorded
<1>2. IInv => EvmEventsAreRecorded
  BY <1>1, EvmP!Recording DEF IInv
<1> QED
  BY <1>2, Invariance, PTL

\* What a Substrate row vouches for is recorded or was dropped, whatever the EVM
\* listeners do to the same transfers.
THEOREM SubstrateEventsAccountedFor == Spec => []SubstrateEventsAreAccountedFor
<1>1. SubP!PassedEventsAreAccountedFor => SubstrateEventsAreAccountedFor
  BY DEF SubstrateEventsAreAccountedFor, Substrate!PassedEventsAreAccountedFor,
     SubP!PassedEventsAreAccountedFor, Substrate!Passed, SubP!Passed, Substrate!EmittedBy,
     SubP!EmittedBy, Substrate!ShareExtrinsic, SubP!ShareExtrinsic, Substrate!Recorded,
     SubP!Recorded, Substrate!Contested, SubP!Contested
<1>2. IInv => SubstrateEventsAreAccountedFor
  BY <1>1, SubP!Accounting DEF IInv
<1> QED
  BY <1>2, Invariance, PTL

\* The two kinds together keep the promise of TransferLifecycle to their readers, of
\* every transfer that no failure was emitted for on a Substrate domain.
THEOREM RefinesLifecycle == Spec => ImplementsLifecycle
<1>1. Init => Lifecycle!Init
  <2> SUFFICES ASSUME Init PROVE Lifecycle!Init
    OBVIOUS
  <2>1. /\ \A k \in Key : transfer[k] = NoTransfer /\ execution[k] = NoTx
        /\ deposits = {} /\ fees = {}
    BY DEF Init, Evm!Init, Evm!StoreInit, Evm!NoTransfer, NoTransfer
  <2>2. Named(Steady) = {}
    BY <2>1, SteadyKeys DEF Named
  <2>3. \A k \in Steady :
          transfer[k].status = "absent" /\ transfer[k].filled = FALSE /\ execution[k] = NoTx
    BY <2>1, SteadyKeys, NoTransferFields
  <2>4. [k \in Steady |-> transfer[k].status] = [k \in Steady |-> "absent"]
    BY <2>3
  <2> QED
    BY <2>1, <2>2, <2>3, <2>4 DEF Named, Lifecycle!Init
<1>2. IInv /\ [Next]_vars => [Lifecycle!Next]_Lifecycle!vars
  BY LifecycleStep
<1> QED
  BY <1>1, <1>2, Invariance, PTL DEF Spec, ImplementsLifecycle, Lifecycle!Spec

-----------------------------------------------------------------------------
(* The readers take TransferRows for their surroundings: its tables, which    *)
(* only its Index changes.  The process gives them these surroundings, of     *)
(* the same transfers, whatever the columns and timestamps are.               *)

CONSTANTS Columns, Time, Null

Shown == INSTANCE TransferRows WITH
  Key <- Steady,
  status <- [k \in Steady |-> transfer[k].status],
  known <- {k \in Steady : transfer[k].filled},
  deposits <- deposits \intersect Steady

\* Of what the life cycle allows, the readers' tables show the columns they read.
LEMMA LifecycleIsShown ==
  [Lifecycle!Next]_Lifecycle!vars => [\E k \in Steady : Shown!Index(k)]_Shown!tables
<1>1. ASSUME UNCHANGED Lifecycle!vars PROVE UNCHANGED Shown!tables
  BY <1>1 DEF Lifecycle!vars, Shown!tables
<1>2. ASSUME NEW k \in Steady, Lifecycle!Deposited(k) PROVE Shown!Index(k)
  BY <1>2 DEF Lifecycle!Deposited, Shown!Index, Shown!Indexers!Deposited
<1>3. ASSUME NEW k \in Steady, Lifecycle!Failed(k) PROVE Shown!Index(k)
  BY <1>3 DEF Lifecycle!Failed, Shown!Index, Shown!Indexers!Failed
<1>4. ASSUME NEW k \in Steady, Lifecycle!Executed(k) PROVE Shown!Index(k)
  BY <1>4 DEF Lifecycle!Executed, Shown!Index, Shown!Indexers!Executed
<1>5. ASSUME NEW k \in Steady, Lifecycle!FileDeposit(k) PROVE Shown!Index(k)
  BY <1>5 DEF Lifecycle!FileDeposit, Shown!Index, Shown!Indexers!FileDeposit
<1>6. ASSUME NEW k \in Steady,
             Lifecycle!FileFee(k) \/ Lifecycle!FileFailure(k) \/ Lifecycle!FileExecution(k)
      PROVE  UNCHANGED Shown!tables
  BY <1>6 DEF Lifecycle!FileFee, Lifecycle!FileFailure, Lifecycle!FileExecution, Shown!tables
<1> QED
  BY <1>1, <1>2, <1>3, <1>4, <1>5, <1>6 DEF Lifecycle!Next

\* What the API, the price script and the monitoring job assume of the tables while
\* they read them is what the process does, for every transfer that no failure was
\* emitted for on a Substrate domain.
THEOREM ReadersAreServed == Spec => Shown!RowsInit /\ [][\E k \in Steady : Shown!Index(k)]_Shown!tables
<1>1. Lifecycle!Init => Shown!RowsInit
  BY DEF Lifecycle!Init, Shown!RowsInit, Shown!Indexers!Init
<1> QED
  BY <1>1, LifecycleIsShown, RefinesLifecycle, PTL DEF ImplementsLifecycle, Lifecycle!Spec
=============================================================================
