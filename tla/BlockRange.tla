----------------------------- MODULE BlockRange -----------------------------
(***************************************************************************)
(* The block arithmetic of the listeners: where a restarted one resumes,   *)
(* when it waits for its chain, and how far one query reaches.  The text   *)
(* translated is EvmIndexer.listenToEvents; SubstrateIndexer.listenToEvents*)
(* has the same resume and the same wait, and takes one block at a time.   *)
(***************************************************************************)
EXTENDS Integers

CONSTANTS
  StartBlock,    \* domain.startBlock of the shared configuration
  PastInterval,  \* pastEventsQueryInterval: 1000 in the code, small in TLC
  BlockDelay     \* BLOCK_DELAY: confirmations the listener waits for

ASSUME RangeAssumption ==
  /\ StartBlock \in Nat
  /\ PastInterval \in Nat \ {0}
  /\ BlockDelay \in Nat

\* eventsQueryInterval, a literal of the class.
LiveInterval == 1

\* What lastIndexedBlock stands for before insertDomain has created the row.
NoRow == -1

\* Mutations of the three operators below, which the properties must detect:
\* the comparison made non-strict, the row ignored, the interval never cut at
\* the head, one confirmation too many asked for.
ResumeBlockNonStrict(last) == IF last >= StartBlock THEN last + 1 ELSE StartBlock
ResumeBlockIgnoresRow(last) == StartBlock
CaughtUpOneEarlier(current, latest) == current + BlockDelay + 1 >= latest
QueryEndUncut(current, latest) == current + PastInterval

\* The block a listener that reads `last` from the domain row starts with.  The
\* row is created holding StartBlock itself, before that block is indexed, hence
\* the strict comparison.
ResumeBlock(last) == IF last > StartBlock THEN last + 1 ELSE StartBlock

\* The listener sleeps instead of querying.
CaughtUp(current, latest) == current + BlockDelay >= latest

\* Last block, inclusive, of the query that starts at `current`.
QueryEnd(current, latest) ==
  current + (IF current + PastInterval > latest THEN LiveInterval ELSE PastInterval)
=============================================================================
