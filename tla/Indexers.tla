------------------------------ MODULE Indexers ------------------------------
(***************************************************************************)
(* The indexer process (src/indexer/index.ts): the listeners of the EVM    *)
(* domains (EvmIndexer) and of the Substrate domains (SubstrateIndexer)    *)
(* beside each other, over one database (TransferStore).  A transfer       *)
(* between the two kinds has its deposit saved by one module's listener    *)
(* and its executions by the other's.  What the modules show of each kind  *)
(* alone is stated here of both together: neither kind takes away what the *)
(* other has recorded.                                                     *)
(***************************************************************************)
EXTENDS BlockRange, TransferStore, FiniteSets

CONSTANTS
  EvmDomain, SubstrateDomain,  \* the indexed domains of each kind
  Blacklisted,                 \* BLACKLISTED_DOMAINS
  EvmLog, SubstrateLog,        \* the bridge events on the chains of each kind
  Flaky,                       \* bound: the EVM events whose decoding may fail
  MaxHead,                     \* bound: no chain grows beyond this block
  NoEvent, NoKey

ASSUME DomainAssumption == EvmDomain \intersect SubstrateDomain = {}

VARIABLES
  evmRow, evmPc, evmBlock, evmToBlock, evmTodo, evmEvent, evmSeen, evmLost,
  subRow, subPc, subBlock, subTodo, subEvent, subMap, subRunning, subDropped

evm == <<evmRow, evmPc, evmBlock, evmToBlock, evmTodo, evmEvent, evmSeen, evmLost>>
substrate == <<subRow, subPc, subBlock, subTodo, subEvent, subMap, subRunning, subDropped>>
vars == <<store, evm, substrate>>

Evm == INSTANCE EvmIndexer WITH
  Domain <- EvmDomain, Destination <- EvmDomain \union SubstrateDomain, Log <- EvmLog,
  lastIndexedBlock <- evmRow, pc <- evmPc, currentBlock <- evmBlock, toBlock <- evmToBlock,
  todo <- evmTodo, event <- evmEvent, seen <- evmSeen, lost <- evmLost

Substrate == INSTANCE SubstrateIndexer WITH
  Domain <- SubstrateDomain, Log <- SubstrateLog,
  lastIndexedBlock <- subRow, pc <- subPc, currentBlock <- subBlock, todo <- subTodo,
  event <- subEvent, transferMap <- subMap, running <- subRunning, dropped <- subDropped

\* What each kind's module assumes of its chains, see there.
ASSUME LogsAssumption ==
  /\ Key \subseteq [nonce : Nat, from : Nat, to : Nat]
  /\ EvmLog \subseteq [kind : Evm!Kind, key : Key, block : Nat, tx : Tx]
  /\ SubstrateLog \subseteq [kind : Substrate!Kind, key : Key, block : Nat, index : Nat, tx : Tx]
  /\ Flaky \subseteq EvmLog
  /\ NoEvent \notin EvmLog \union SubstrateLog
  /\ NoKey \notin Key
  /\ EvmDomain \union SubstrateDomain \subseteq Nat
  /\ MaxHead \in Nat

ASSUME ProposalsAssumption ==
  \A e, f \in EvmLog \union SubstrateLog :
    e.key = f.key /\ e.kind = "executed" =>
      (f.kind = "executed" => f = e) /\ (f.kind = "failed" => f.tx # e.tx)

ASSUME FeesAssumption ==
  \A e \in SubstrateLog : e.kind = "fee" =>
    \E f \in SubstrateLog : f.kind = "deposit" /\ f.key = e.key /\ f.tx = e.tx

\* A chain is of one kind.
ASSUME ChainsAssumption ==
  \A e \in EvmLog, f \in SubstrateLog : Evm!EmittedBy(e) # Substrate!EmittedBy(f)

Init == Evm!Init /\ Substrate!Init

EvmStep ==
  /\ \E d \in EvmDomain : Evm!Step(d)
  /\ UNCHANGED substrate

SubstrateStep ==
  /\ \/ \E d \in SubstrateDomain : Substrate!LoopStep(d)
     \/ \E e \in SubstrateLog : Substrate!CallbackStep(e)
  /\ UNCHANGED evm

EvmFault ==
  /\ \E d \in EvmDomain : Evm!BootFails(d) \/ Evm!Throw(d) \/ Evm!UpdateBlockFails(d)
  /\ UNCHANGED substrate

SubstrateFault ==
  /\ \/ \E d \in SubstrateDomain :
          Substrate!Halt(d) \/ Substrate!SavingFails(d) \/ Substrate!UpdateBlockFails(d)
     \/ \E e \in SubstrateLog : Substrate!CallbackFails(e)
  /\ UNCHANGED evm

\* The one process ends, with the listeners and the callbacks of both kinds.
Restart == Evm!Restart /\ Substrate!Restart

Next == EvmStep \/ SubstrateStep \/ EvmFault \/ SubstrateFault \/ Restart

Spec == Init /\ [][Next]_vars

\* Every call is answered and the process does not end.
QuietSpec == Init /\ [][EvmStep \/ SubstrateStep]_vars

-----------------------------------------------------------------------------
(* Properties. *)

\* What an EVM row vouches for is recorded, whatever the Substrate listeners and
\* their callbacks do to the same transfers.
EvmEventsAreRecorded == Evm!IndexedEventsAreRecorded

\* What a Substrate row vouches for is recorded or was dropped, whatever the EVM
\* listeners do to the same transfers.
SubstrateEventsAreAccountedFor == Substrate!PassedEventsAreAccountedFor

\* The rows of a transfer never contradict each other, each of them written by
\* a listener of either kind.
TablesAgree == Substrate!TablesAgree

\* What readers of the database rely on, see TransferLifecycle, holds of every
\* transfer but those a failure was emitted for on a Substrate domain.
Steady == Substrate!Uncontested
Lifecycle == INSTANCE TransferLifecycle WITH
  Key <- Steady,
  status <- [k \in Steady |-> transfer[k].status],
  known <- {k \in Steady : transfer[k].filled},
  deposits <- deposits \intersect Steady,
  fees <- fees \intersect Steady,
  settled <- {k \in Steady : \E e \in EvmLog \union SubstrateLog :
                e.kind = "executed" /\ e.key = k /\ execution[k] = e.tx},
  tried <- {k \in Steady : execution[k] # NoTx}
ImplementsLifecycle == Lifecycle!Spec

\* What tests/e2e/indexing.spec.ts waits for: that every transfer comes to have
\* both its deposit and its execution.  Here, once the rows of its two domains
\* have passed the events and no callback is running.
TransfersAreComplete ==
  \A k \in Key :
    /\ \A e \in EvmLog :
         e.key = k => StartBlock < evmRow[Evm!EmittedBy(e)] /\ e.block <= evmRow[Evm!EmittedBy(e)]
    /\ \A e \in SubstrateLog : e.key = k => Substrate!Passed(e) /\ subRunning[e] = "idle"
    => k \in deposits /\ execution[k] # NoTx
=============================================================================
