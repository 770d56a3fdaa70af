----------------------------- MODULE EvmListener -----------------------------
(***************************************************************************)
(* The listener of one EVM domain: src/indexer/index.ts creates the domain *)
(* row and starts EvmIndexer.listenToEvents, which polls the chain head,   *)
(* saves a range of blocks and persists the end of the range.  Every await *)
(* is a step of its own, so a crash may fall between any two of them.      *)
(* saveEvents is one step here, which either saves the whole range or      *)
(* throws; EvmIndexer refines it to its single database operations.        *)
(***************************************************************************)
EXTENDS BlockRange

CONSTANT MaxHead   \* bound: the chain stops growing here

ASSUME HeadAssumption == MaxHead \in Nat

VARIABLES
  head,              \* the chain's latest block
  lastIndexedBlock,  \* the persisted cursor, NoRow before insertDomain
  pc,                \* where the process of this domain is
  currentBlock,      \* local: next block to index
  toBlock,           \* local: last block of the range in progress
  stopped,           \* EvmIndexer.stopped
  saved              \* history: the blocks whose events were written

vars == <<head, lastIndexedBlock, pc, currentBlock, toBlock, stopped, saved>>

Looping == {"top", "saving", "persisting", "sleeping"}
Location == Looping \union {"down", "starting", "exited", "halted"}

\* Every variable holds a value of its kind; listenToEvents saves no block below
\* the configured start and none the chain does not have.
TypeOK ==
  /\ head \in 0 .. MaxHead
  /\ lastIndexedBlock \in Nat \union {NoRow}
  /\ pc \in Location
  /\ currentBlock \in Nat
  /\ toBlock \in Nat
  /\ stopped \in BOOLEAN
  /\ saved \subseteq StartBlock .. MaxHead

Init ==
  /\ head \in 0 .. MaxHead
  /\ lastIndexedBlock = NoRow
  /\ pc = "down"
  /\ currentBlock = StartBlock
  /\ toBlock = StartBlock
  /\ stopped = FALSE
  /\ saved = {}

Goto(l) == pc' = l

-----------------------------------------------------------------------------
(* The environment. *)

\* The chain grows.
NewBlock ==
  /\ head < MaxHead
  /\ head' = head + 1
  /\ UNCHANGED <<lastIndexedBlock, pc, currentBlock, toBlock, stopped, saved>>

\* The process ends, wherever it is, and its container starts it again: all
\* that survives is the database.
Restart ==
  /\ pc # "down"
  /\ Goto("down")
  /\ currentBlock' = StartBlock
  /\ toBlock' = StartBlock
  /\ stopped' = FALSE
  /\ UNCHANGED <<head, lastIndexedBlock, saved>>

\* A signal reaches nodeCleanup's handler, which calls stop().
Stop ==
  /\ pc \in Looping \union {"starting"}
  /\ stopped' = TRUE
  /\ UNCHANGED <<head, lastIndexedBlock, pc, currentBlock, toBlock, saved>>

-----------------------------------------------------------------------------
(* Start-up. *)

\* init: insertDomain creates the row only if there is none.
InsertDomain ==
  /\ pc = "down"
  /\ lastIndexedBlock' = IF lastIndexedBlock = NoRow THEN StartBlock ELSE lastIndexedBlock
  /\ Goto("starting")
  /\ UNCHANGED <<head, currentBlock, toBlock, stopped, saved>>

\* listenToEvents reads the cursor, before the loop and outside its try.
Resume ==
  /\ pc = "starting"
  /\ currentBlock' = ResumeBlock(lastIndexedBlock)
  /\ Goto("top")
  /\ UNCHANGED <<head, lastIndexedBlock, toBlock, stopped, saved>>

\* A database error in init or in that first read is only logged: the process
\* stays up and healthy, and this domain is not indexed any more.
FailToStart ==
  /\ pc \in {"down", "starting"}
  /\ Goto("halted")
  /\ UNCHANGED <<head, lastIndexedBlock, currentBlock, toBlock, stopped, saved>>

-----------------------------------------------------------------------------
(* The loop. *)

\* The while condition.
Exit ==
  /\ pc = "top"
  /\ stopped
  /\ Goto("exited")
  /\ UNCHANGED <<head, lastIndexedBlock, currentBlock, toBlock, stopped, saved>>

\* getBlockNumber answers and there is nothing deep enough to index.
Wait ==
  /\ pc = "top"
  /\ ~stopped
  /\ CaughtUp(currentBlock, head)
  /\ Goto("sleeping")
  /\ UNCHANGED <<head, lastIndexedBlock, currentBlock, toBlock, stopped, saved>>

\* getBlockNumber answers and a range is chosen.
ChooseRange ==
  /\ pc = "top"
  /\ ~stopped
  /\ ~CaughtUp(currentBlock, head)
  /\ toBlock' = QueryEnd(currentBlock, head)
  /\ Goto("saving")
  /\ UNCHANGED <<head, lastIndexedBlock, currentBlock, stopped, saved>>

\* saveEvents returns.
SaveEvents ==
  /\ pc = "saving"
  /\ saved' = saved \union (currentBlock .. toBlock)
  /\ Goto("persisting")
  /\ UNCHANGED <<head, lastIndexedBlock, currentBlock, toBlock, stopped>>

\* updateBlock returns, then the local cursor moves past the range.
UpdateBlock ==
  /\ pc = "persisting"
  /\ lastIndexedBlock' = toBlock
  /\ currentBlock' = toBlock + 1
  /\ Goto("top")
  /\ UNCHANGED <<head, toBlock, stopped, saved>>

\* updateBlock catches its own error: the row stays behind, the loop goes on.
UpdateBlockFails ==
  /\ pc = "persisting"
  /\ currentBlock' = toBlock + 1
  /\ Goto("top")
  /\ UNCHANGED <<head, lastIndexedBlock, toBlock, stopped, saved>>

\* An RPC or database call of the iteration throws: log, sleep, try again.
Throw ==
  /\ \/ pc = "top" /\ ~stopped
     \/ pc = "saving"
  /\ Goto("sleeping")
  /\ UNCHANGED <<head, lastIndexedBlock, currentBlock, toBlock, stopped, saved>>

Wake ==
  /\ pc = "sleeping"
  /\ Goto("top")
  /\ UNCHANGED <<head, lastIndexedBlock, currentBlock, toBlock, stopped, saved>>

Next ==
  \/ NewBlock \/ Restart \/ Stop
  \/ InsertDomain \/ Resume \/ FailToStart
  \/ Exit \/ Wait \/ ChooseRange \/ SaveEvents
  \/ UpdateBlock \/ UpdateBlockFails \/ Throw \/ Wake

\* The event loop always runs what is ready (weak fairness); a call to the node
\* or to the database that is tried for ever succeeds in the end, whatever
\* restarts come in between (strong fairness of the successful outcomes).
Fairness ==
  /\ WF_vars(Wake) /\ WF_vars(Wait)
  /\ SF_vars(InsertDomain) /\ SF_vars(Resume)
  /\ SF_vars(ChooseRange) /\ SF_vars(SaveEvents) /\ SF_vars(UpdateBlock)

Spec == Init /\ [][Next]_vars
FairSpec == Spec /\ Fairness

-----------------------------------------------------------------------------
(* Properties. *)

\* No block is skipped: the persisted cursor has only saved blocks below it, up
\* to and including itself once it has left the value insertDomain gave it, and
\* so has the cursor of the running loop, across crashes between saveEvents and
\* updateBlock, swallowed updateBlock errors and resumes.
NoBlockSkipped ==
  /\ lastIndexedBlock > StartBlock => StartBlock .. lastIndexedBlock \subseteq saved
  /\ pc \in Looping => StartBlock .. (currentBlock - 1) \subseteq saved

\* A query never reaches past the chain's head (getLogs would answer with the
\* logs that exist so far, and the cursor would pass blocks not yet mined), and
\* it reaches into the last BlockDelay blocks only when it is a catch-up query
\* of the long interval: the one case in which the code reads blocks that have
\* fewer confirmations than BLOCK_DELAY.
QueriesMinedBlocks ==
  pc \in {"saving", "persisting"} =>
    /\ toBlock <= head
    /\ toBlock + BlockDelay > head => toBlock = currentBlock + PastInterval

\* The persisted cursor never moves down, not even when a restarted listener
\* works again through ranges whose updateBlock failed.
CursorNeverRegresses == [][lastIndexedBlock' >= lastIndexedBlock]_vars

\* The listener as a BlockCursor.
Cursor == INSTANCE BlockCursor WITH cursor <- lastIndexedBlock
ImplementsBlockCursor == Cursor!Spec

\* Every block that is BlockDelay deep is saved in the end, unless from some
\* time on the loop does not run: it was told to stop, or a failed start left
\* the process without it.
LoopAlive == pc \in Looping /\ ~stopped
DeepBlocksAreSaved ==
  \A b \in StartBlock .. MaxHead :
    []<>LoopAlive => ((b + BlockDelay < head) ~> (b \in saved))
=============================================================================
