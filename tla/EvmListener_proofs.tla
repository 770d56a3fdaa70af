------------------------- MODULE EvmListener_proofs -------------------------
(***************************************************************************)
(* Proofs about EvmListener, for every start block, query interval,        *)
(* confirmation delay and chain length.                                    *)
(*                                                                         *)
(* NoBlockSkipped is not inductive: that UpdateBlock keeps it depends on   *)
(* what SaveEvents wrote, that depends on where the range began, and where *)
(* a restarted loop begins depends on the row.  IInv states those links.   *)
(***************************************************************************)
EXTENDS EvmListener, TLAPS

\* Only mined blocks are saved.
SavedMined == saved \subseteq StartBlock .. head

\* Between insertDomain and the loop the row exists and holds StartBlock, or
\* a block with everything below it saved.
RowSound ==
  lastIndexedBlock # NoRow =>
    /\ lastIndexedBlock >= StartBlock
    /\ lastIndexedBlock > StartBlock => StartBlock .. lastIndexedBlock \subseteq saved

\* The loop's own cursor is ahead of the row, with everything below it saved.
LoopSound ==
  /\ pc = "starting" => lastIndexedBlock # NoRow
  /\ pc \in Looping =>
       /\ lastIndexedBlock # NoRow
       /\ StartBlock <= currentBlock
       /\ lastIndexedBlock <= currentBlock
       /\ StartBlock .. (currentBlock - 1) \subseteq saved

\* The range in progress starts at the cursor and ends within the chain.
RangeSound ==
  /\ pc \in {"saving", "persisting"} =>
       /\ currentBlock <= toBlock
       /\ toBlock <= head
       /\ toBlock + BlockDelay > head => toBlock = currentBlock + PastInterval
  /\ pc = "persisting" => currentBlock .. toBlock \subseteq saved

\* The inductive invariant.
IInv == TypeOK /\ SavedMined /\ RowSound /\ LoopSound /\ RangeSound

USE RangeAssumption, HeadAssumption

-----------------------------------------------------------------------------
(* The inductive invariant. *)

LEMMA InitEstablishesIInv == Init => IInv
  BY DEF Init, IInv, TypeOK, SavedMined, RowSound, LoopSound, RangeSound,
         Looping, Location, NoRow

\* One step per action; an action that moves no cursor only has its control
\* state to account for.
LEMMA StepKeepsIInv == IInv /\ [Next]_vars => IInv'
<1> SUFFICES ASSUME IInv, [Next]_vars PROVE IInv'
  OBVIOUS
<1> USE DEF IInv, TypeOK, SavedMined, RowSound, LoopSound, RangeSound,
            Looping, Location, NoRow
<1>1. CASE NewBlock
  BY <1>1 DEF NewBlock
<1>2. CASE Restart
  BY <1>2 DEF Restart, Goto
<1>3. CASE Stop
  BY <1>3 DEF Stop
<1>4. CASE InsertDomain
  BY <1>4 DEF InsertDomain, Goto
<1>5. CASE Resume
  BY <1>5 DEF Resume, Goto, ResumeBlock
<1>6. CASE FailToStart
  BY <1>6 DEF FailToStart, Goto
<1>7. CASE Exit
  BY <1>7 DEF Exit, Goto
<1>8. CASE Wait
  BY <1>8 DEF Wait, Goto
<1>9. CASE ChooseRange
  BY <1>9 DEF ChooseRange, Goto, CaughtUp, QueryEnd, LiveInterval
<1>10. CASE SaveEvents
  BY <1>10 DEF SaveEvents, Goto
<1>11. CASE UpdateBlock
  BY <1>11 DEF UpdateBlock, Goto
<1>12. CASE UpdateBlockFails
  BY <1>12 DEF UpdateBlockFails, Goto
<1>13. CASE Throw
  BY <1>13 DEF Throw, Goto
<1>14. CASE Wake
  BY <1>14 DEF Wake, Goto
<1>15. CASE UNCHANGED vars
  BY <1>15 DEF vars
<1> QED
  BY <1>1, <1>2, <1>3, <1>4, <1>5, <1>6, <1>7, <1>8, <1>9, <1>10, <1>11,
     <1>12, <1>13, <1>14, <1>15 DEF Next

\* IInv holds in every state the listener reaches.
THEOREM Invariance == Spec => []IInv
  BY InitEstablishesIInv, StepKeepsIInv, PTL DEF Spec

-----------------------------------------------------------------------------
(* The properties of the run. *)

\* Every variable has its type; no block outside the chain is saved.
THEOREM TypeCorrect == Spec => []TypeOK
<1>1. IInv => TypeOK
  BY DEF IInv
<1> QED
  BY <1>1, Invariance, PTL

\* No crash, failed updateBlock or resume makes the listener skip a block.
THEOREM BlocksNotSkipped == Spec => []NoBlockSkipped
<1>1. IInv => NoBlockSkipped
  BY DEF IInv, TypeOK, RowSound, LoopSound, NoBlockSkipped, NoRow
<1> QED
  BY <1>1, Invariance, PTL

\* A query ends within the chain, and ends in its last BlockDelay blocks only
\* if it is a catch-up query.
THEOREM QueriesWithinChain == Spec => []QueriesMinedBlocks
<1>1. IInv => QueriesMinedBlocks
  BY DEF IInv, RangeSound, QueriesMinedBlocks
<1> QED
  BY <1>1, Invariance, PTL

\* The row's lastIndexedBlock never decreases.
THEOREM CursorMonotone == Spec => CursorNeverRegresses
<1>1. IInv /\ [Next]_vars => [lastIndexedBlock' >= lastIndexedBlock]_vars
  <2> SUFFICES ASSUME IInv, Next PROVE lastIndexedBlock' >= lastIndexedBlock
    OBVIOUS
  <2> USE DEF IInv, TypeOK, NoRow
  <2>1. CASE InsertDomain
    BY <2>1 DEF InsertDomain
  <2>2. CASE UpdateBlock
    BY <2>2 DEF UpdateBlock, LoopSound, RangeSound, Looping
  <2>3. CASE UNCHANGED lastIndexedBlock
    BY <2>3
  <2> QED
    BY <2>1, <2>2, <2>3 DEF Next, NewBlock, Restart, Stop, Resume, FailToStart,
       Exit, Wait, ChooseRange, SaveEvents, UpdateBlockFails, Throw, Wake
<1> QED
  BY <1>1, Invariance, PTL DEF Spec, CursorNeverRegresses

\* Initial states map to the abstract cursor's, and every step of the listener
\* is one of its steps or leaves it unchanged.
LEMMA StepSimulation == IInv /\ [Next]_vars => [Cursor!Next]_Cursor!vars
<1> SUFFICES ASSUME IInv, Next, ~UNCHANGED <<saved, lastIndexedBlock>>
             PROVE Cursor!Next
  BY DEF vars, Cursor!vars
<1> USE DEF IInv, TypeOK, NoRow
<1>1. CASE InsertDomain
  BY <1>1 DEF InsertDomain, Cursor!Next, Cursor!CreateRow
<1>2. CASE SaveEvents
  <2>1. StartBlock .. (currentBlock - 1) \subseteq saved /\ StartBlock <= currentBlock
    BY <1>2 DEF SaveEvents, LoopSound, Looping
  <2>2. currentBlock <= toBlock
    BY <1>2 DEF SaveEvents, RangeSound
  <2>3. saved' = saved \union (StartBlock .. toBlock)
    BY <1>2, <2>1, <2>2 DEF SaveEvents
  <2>4. toBlock \in saved'
    BY <2>1, <2>2, <2>3
  <2> QED
    BY <1>2, <2>3, <2>4 DEF SaveEvents, Cursor!Next, Cursor!SaveRange
<1>3. CASE UpdateBlock
  BY <1>3 DEF UpdateBlock, LoopSound, RangeSound, Looping, Cursor!Next, Cursor!Advance
<1> QED
  BY <1>1, <1>2, <1>3 DEF Next, NewBlock, Restart, Stop, Resume, FailToStart,
     Exit, Wait, ChooseRange, UpdateBlockFails, Throw, Wake

\* The listener implements the abstract block cursor.
THEOREM RefinesBlockCursor == Spec => ImplementsBlockCursor
<1>1. Init => Cursor!Init
  BY DEF Init, Cursor!Init, NoRow
<1> QED
  BY <1>1, StepSimulation, Invariance, PTL DEF Spec, ImplementsBlockCursor, Cursor!Spec
=============================================================================
