----------------------------- MODULE BlockCursor -----------------------------
(***************************************************************************)
(* What a domain listener promises about Domain.lastIndexedBlock, whatever *)
(* loop implements it: blocks are saved as a growing prefix of the chain,  *)
(* and the persisted cursor only ever moves up, to a block below which     *)
(* everything has been saved.  A restart, which forgets everything but the *)
(* row, is therefore never able to skip a block.                           *)
(***************************************************************************)
EXTENDS Integers

CONSTANT StartBlock

VARIABLES
  saved,   \* blocks whose events have all been written
  cursor   \* lastIndexedBlock of the domain row, -1 before it exists

vars == <<saved, cursor>>

Init == saved = {} /\ cursor = -1

\* insertDomain: the row starts at StartBlock, which nobody has saved yet.
CreateRow ==
  /\ cursor = -1
  /\ cursor' = StartBlock
  /\ UNCHANGED saved

\* A range that leaves no hole below it is saved (possibly again).
SaveRange ==
  /\ \E b \in saved' : saved' = saved \union (StartBlock .. b)
  /\ UNCHANGED cursor

\* The cursor moves up to a saved block with nothing unsaved below it.
Advance ==
  /\ cursor # -1
  /\ cursor' >= cursor
  /\ StartBlock .. cursor' \subseteq saved
  /\ UNCHANGED saved

Next == CreateRow \/ SaveRange \/ Advance

Spec == Init /\ [][Next]_vars
=============================================================================
