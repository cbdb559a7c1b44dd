------------------------------ MODULE Schedule ------------------------------
(***************************************************************************)
(* What the collector loop promises to the metrics it publishes, without   *)
(* saying how: two periodic series of slots, due at multiples of their     *)
(* periods after the clock reading the series start from.  The slots of a  *)
(* series run in order, one at a time and never before they are due; the   *)
(* loop rests only when no slot is due; it stops only out of a rest and    *)
(* only when it was told to.                                               *)
(***************************************************************************)
EXTENDS Integers

CONSTANTS FivePeriod, SixtyPeriod

VARIABLES clock,      \* the wall clock
          dueFive,    \* when the next five-second slot is due
          dueSixty,   \* when the next sixty-second slot is due
          mode,       \* "busy", "resting" or "stopped"
          killed      \* whether the process was told to stop

svars == <<clock, dueFive, dueSixty, mode, killed>>

Init ==
    /\ clock = 0
    /\ dueFive = FivePeriod
    /\ dueSixty = SixtyPeriod
    /\ mode = "busy"
    /\ killed = FALSE

TimePasses == clock' >= clock

RunFive ==
    /\ mode = "busy"
    /\ clock >= dueFive
    /\ dueFive' = dueFive + FivePeriod
    /\ TimePasses
    /\ UNCHANGED <<dueSixty, mode, killed>>

RunSixty ==
    /\ mode = "busy"
    /\ clock >= dueSixty
    /\ dueSixty' = dueSixty + SixtyPeriod
    /\ TimePasses
    /\ UNCHANGED <<dueFive, mode, killed>>

Elapse ==
    /\ TimePasses
    /\ UNCHANGED <<dueFive, dueSixty, mode, killed>>

Rest ==
    /\ mode = "busy"
    /\ clock < dueFive
    /\ clock < dueSixty
    /\ mode' = "resting"
    /\ UNCHANGED <<clock, dueFive, dueSixty, killed>>

Wake ==
    /\ mode = "resting"
    /\ mode' = "busy"
    /\ clock' > clock
    /\ UNCHANGED <<dueFive, dueSixty, killed>>

Stop ==
    /\ mode = "resting"
    /\ killed
    /\ mode' = "stopped"
    /\ TimePasses
    /\ UNCHANGED <<dueFive, dueSixty, killed>>

Kill ==
    /\ killed' = TRUE
    /\ UNCHANGED <<clock, dueFive, dueSixty, mode>>

Next == RunFive \/ RunSixty \/ Elapse \/ Rest \/ Wake \/ Stop \/ Kill

Spec == Init /\ [][Next]_svars
=============================================================================
