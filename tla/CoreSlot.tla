------------------------------ MODULE CoreSlot ------------------------------
(***************************************************************************)
(* What the daemon promises about core processes, without saying how: one  *)
(* slot for a core process.  A new core is launched only into an empty     *)
(* slot and never after the daemon has begun to halt, and a core leaves    *)
(* the slot only when its exit has been collected.                         *)
(***************************************************************************)
EXTENDS Integers

CONSTANT MaxLaunches  \* bound on the cores ever launched

VARIABLES cores,      \* cores whose exit has not been collected
          launched,   \* how many cores have been launched
          halted      \* the daemon is shutting down

slotVars == <<cores, launched, halted>>

SlotInit == cores = {} /\ launched = 0 /\ halted = FALSE

Launch ==
    /\ ~halted /\ cores = {} /\ launched < MaxLaunches
    /\ launched' = launched + 1
    /\ cores' = {launched + 1}
    /\ UNCHANGED halted

Collect ==
    /\ \E q \in cores : cores' = cores \ {q}
    /\ UNCHANGED <<launched, halted>>

Halt ==
    /\ ~halted /\ halted' = TRUE
    /\ UNCHANGED <<cores, launched>>

SlotNext == Launch \/ Collect \/ Halt

SlotSpec == SlotInit /\ [][SlotNext]_slotVars
=============================================================================
