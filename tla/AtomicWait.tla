----------------------------- MODULE AtomicWait -----------------------------
(***************************************************************************)
(* What terminator promises the loop that waits on it and the handlers     *)
(* that kill it: kill and the decision of a wait happen at one instant     *)
(* each.  A wait decides to go on only when no kill happened before that   *)
(* instant, and to end the loop only when one did.                         *)
(***************************************************************************)
VARIABLES killed,   \* whether a kill has happened
          loop      \* "running", "waiting" or "ended"

avars == <<killed, loop>>

Init == killed = FALSE /\ loop = "running"

Kill == killed' = TRUE /\ UNCHANGED loop

Begin == loop = "running" /\ loop' = "waiting" /\ UNCHANGED killed

GoOn == loop = "waiting" /\ ~killed /\ loop' = "running" /\ UNCHANGED killed

EndLoop == loop = "waiting" /\ killed /\ loop' = "ended" /\ UNCHANGED killed

Next == Kill \/ Begin \/ GoOn \/ EndLoop

Spec == Init /\ [][Next]_avars
=============================================================================
