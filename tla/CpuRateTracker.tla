--------------------------- MODULE CpuRateTracker ---------------------------
(***************************************************************************)
(* CpuRateTracker of cpu_rate_tracker.h as a value: the baseline of one    *)
(* CPU-time counter and the identity it was read under.  A percentage is   *)
(* kept as the pair the code divides: CPU time used and wall time passed.  *)
(***************************************************************************)
EXTENDS Integers

Fresh(id) == [valid |-> FALSE, id |-> id, counter |-> 0, at |-> 0]

\* Whether update() publishes: same identity, a counter that did not go
\* backward, and wall time since the baseline.
PublishesAnyIdentity(tracker, id, counter, now) ==
    tracker.valid /\ counter >= tracker.counter /\ now > tracker.at
PublishesAnyTime(tracker, id, counter, now) ==
    tracker.valid /\ id = tracker.id /\ counter >= tracker.counter
Publishes(tracker, id, counter, now) ==
    /\ tracker.valid
    /\ id = tracker.id
    /\ counter >= tracker.counter
    /\ now > tracker.at

Rate(tracker, counter, now) ==
    [cpu |-> counter - tracker.counter, wall |-> now - tracker.at]

\* The baseline every update() leaves behind, published or not.
RebaseTimeOnly(tracker, id, counter, now) ==
    [valid |-> TRUE, id |-> id, counter |-> tracker.counter, at |-> now]
Rebase(tracker, id, counter, now) ==
    [valid |-> TRUE, id |-> id, counter |-> counter, at |-> now]
=============================================================================
