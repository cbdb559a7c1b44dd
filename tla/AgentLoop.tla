----------------------------- MODULE AgentLoop ------------------------------
(***************************************************************************)
(* The collector loop every flavor of the agent runs (collect_system_      *)
(* metrics, collect_titus_metrics and collect_k8s_metrics are the same     *)
(* loop around different collectors): one iteration a second, the          *)
(* five-second and sixty-second collectors riding on the iterations that   *)
(* find them due, and terminator::wait_for between iterations.             *)
(*                                                                         *)
(* Times are ticks of the system clock, counted from the reading the       *)
(* schedule starts from (`now`, line 98); Second ticks make a second.  A   *)
(* gather takes any number of ticks up to a bound, a sleep can end late by *)
(* up to MaxLate ticks, and the system clock can be stepped by an amount   *)
(* in ClockSteps, at most MaxSteps times: the schedule is kept on          *)
(* system_clock while the condition variable sleeps on a steady one.       *)
(***************************************************************************)
EXTENDS Integers

CONSTANTS Second,       \* ticks in a second
          FiveSeconds,  \* seconds between five-second slots (5 in the code)
          SixtySeconds, \* seconds between sixty-second slots (60 in the code)
          MaxPeak,      \* bound: ticks the every-second collectors take
          MaxFive,      \* bound: ticks the five-second collectors take
          MaxSixty,     \* bound: ticks the sixty-second collectors take
          MaxLate,      \* bound: ticks a sleep overruns
          ClockSteps,   \* the amounts the system clock may be stepped by
          MaxSteps,     \* bound: how often it is stepped
          Horizon,      \* bound: no iteration starts later before a kill
          KilledHorizon \* bound: no iteration starts later after a kill

ASSUME LoopAssumption ==
    /\ Second \in Nat \ {0}
    /\ FiveSeconds \in Nat \ {0}
    /\ SixtySeconds \in Nat \ {0}
    /\ {MaxPeak, MaxFive, MaxSixty, MaxLate, MaxSteps, Horizon, KilledHorizon} \subseteq Nat
    /\ ClockSteps \subseteq Int

VARIABLES pc,          \* where the loop is
          time,        \* system_clock::now()
          nextRun,     \* next_run
          nextFive,    \* next_five_second_run
          nextSixty,   \* next_sixty_second_run
          fiveDue,     \* fiveSecondMetricsEnabled
          sixtyDue,    \* sixtySecondMetricsEnabled
          sleep,       \* time_to_sleep
          terminate,   \* terminator::terminate
          steps        \* how often the clock was stepped

sched == <<nextRun, nextFive, nextSixty>>
vars == <<pc, time, nextRun, nextFive, nextSixty, fiveDue, sixtyDue, sleep,
          terminate, steps>>

FivePeriod == FiveSeconds * Second
SixtyPeriod == SixtySeconds * Second

PCs == {"top", "peak", "five", "sixty", "end", "wait", "stopped"}

Init ==
    /\ pc = "top"
    /\ time = 0
    /\ nextRun = 0
    /\ nextFive = FivePeriod
    /\ nextSixty = SixtyPeriod
    /\ fiveDue = FALSE
    /\ sixtyDue = FALSE
    /\ sleep = 0
    /\ terminate = FALSE
    /\ steps = 0

-----------------------------------------------------------------------------
\* A collector that runs to completion in at most `max` ticks.
Gather(max) == time' \in time .. time + max

\* start >= next_five_second_run, start >= next_sixty_second_run
SlotDueAfter(slot) == time > slot
SlotDueEarly(slot) == time + Second >= slot
SlotDue(slot) == time >= slot

\* next_five_second_run += seconds(5), next_sixty_second_run += seconds(60)
NextSlotFromNow(slot, period) == time' + period
NextSlot(slot, period) == slot + period

WithinHorizon == time <= IF terminate THEN KilledHorizon ELSE Horizon

StartIteration ==
    /\ pc = "top"
    /\ WithinHorizon
    /\ fiveDue' = SlotDue(nextFive)
    /\ sixtyDue' = SlotDue(nextSixty)
    /\ pc' = "peak"
    /\ UNCHANGED <<time, sched, sleep, terminate, steps>>

\* Where the iteration goes after a gather.
AfterPeakAlways == "five"
AfterPeak == IF fiveDue THEN "five" ELSE IF sixtyDue THEN "sixty" ELSE "end"
AfterFive == IF sixtyDue THEN "sixty" ELSE "end"

GatherPeak ==
    /\ pc = "peak"
    /\ Gather(MaxPeak)
    /\ pc' = AfterPeak
    /\ UNCHANGED <<sched, fiveDue, sixtyDue, sleep, terminate, steps>>

GatherFive ==
    /\ pc = "five"
    /\ Gather(MaxFive)
    /\ nextFive' = NextSlot(nextFive, FivePeriod)
    /\ pc' = AfterFive
    /\ UNCHANGED <<nextRun, nextSixty, fiveDue, sixtyDue, sleep, terminate, steps>>

GatherSixty ==
    /\ pc = "sixty"
    /\ Gather(MaxSixty)
    /\ nextSixty' = NextSlot(nextSixty, SixtyPeriod)
    /\ pc' = "end"
    /\ UNCHANGED <<nextRun, nextFive, fiveDue, sixtyDue, sleep, terminate, steps>>

EndIterationInPlace ==
    /\ pc = "end"
    /\ sleep' = nextRun - time
    /\ pc' = "wait"
    /\ UNCHANGED <<time, sched, fiveDue, sixtyDue, terminate, steps>>
EndIteration ==
    /\ pc = "end"
    /\ nextRun' = nextRun + Second
    /\ sleep' = nextRun' - time
    /\ pc' = "wait"
    /\ UNCHANGED <<time, nextFive, nextSixty, fiveDue, sixtyDue, terminate, steps>>

-----------------------------------------------------------------------------
\* terminator::wait_for with no time left: true, whatever `terminate` says.
WaitZero ==
    /\ pc = "wait"
    /\ sleep <= 0
    /\ pc' = "top"
    /\ UNCHANGED <<time, sched, fiveDue, sixtyDue, sleep, terminate, steps>>

\* When a sleep nothing interrupted ends: not before time_to_sleep is over,
\* because the condition variable waits for a predicate.
SpuriousWake == time .. time + sleep + MaxLate
TimedOut == time + sleep .. time + sleep + MaxLate

\* What wait_for returns when cv.wait_for left the predicate at `pred`.
WaitResult(pred) == ~pred

WaitTimeout ==
    /\ pc = "wait"
    /\ sleep > 0
    /\ ~terminate
    /\ time' \in TimedOut
    /\ pc' = IF WaitResult(terminate) THEN "top" ELSE "stopped"
    /\ UNCHANGED <<sched, fiveDue, sixtyDue, sleep, terminate, steps>>

\* The predicate was true on entry, or became true during the sleep.
WaitKilled ==
    /\ pc = "wait"
    /\ sleep > 0
    /\ terminate
    /\ time' \in time .. time + sleep
    /\ pc' = IF WaitResult(terminate) THEN "top" ELSE "stopped"
    /\ UNCHANGED <<sched, fiveDue, sixtyDue, sleep, terminate, steps>>

WaitFor == WaitZero \/ WaitTimeout \/ WaitKilled

\* terminator::kill, called by the signal handler at any point of the loop.
Kill ==
    /\ pc # "stopped"
    /\ ~terminate
    /\ terminate' = TRUE
    /\ UNCHANGED <<pc, time, sched, fiveDue, sixtyDue, sleep, steps>>

\* An operator, or NTP, sets the system clock.
StepClock ==
    /\ pc # "stopped"
    /\ steps < MaxSteps
    /\ \E d \in ClockSteps : time' = time + d
    /\ steps' = steps + 1
    /\ UNCHANGED <<pc, sched, fiveDue, sixtyDue, sleep, terminate>>

\* The collecting function has returned, or the bound on time is reached.
Stopped ==
    /\ pc = "stopped" \/ (pc = "top" /\ ~WithinHorizon)
    /\ UNCHANGED vars

Loop == StartIteration \/ GatherPeak \/ GatherFive \/ GatherSixty
        \/ EndIteration \/ WaitFor

Next == Loop \/ Kill \/ StepClock \/ Stopped

Spec == Init /\ [][Next]_vars

\* The kernel schedules the collecting thread, and a condition variable's
\* timeout or notification wakes it: every enabled step of the loop is taken.
FairSpec == Spec /\ WF_vars(Loop)

-----------------------------------------------------------------------------
(***************************************************************************)
(* Every variable has its type, and a periodic gather runs only in an      *)
(* iteration that found its slot due.                                      *)
(***************************************************************************)
TypeOK ==
    /\ pc \in PCs
    /\ time \in Int
    /\ nextRun \in Int
    /\ nextFive \in Int
    /\ nextSixty \in Int
    /\ fiveDue \in BOOLEAN
    /\ sixtyDue \in BOOLEAN
    /\ pc = "five" => fiveDue
    /\ pc = "sixty" => sixtyDue
    /\ sleep \in Int
    /\ terminate \in BOOLEAN
    /\ steps \in Nat

(***************************************************************************)
(* An iteration serves at most one five-second slot, so a loop that fell   *)
(* behind must catch up before the next one comes due: no iteration ends   *)
(* with its schedule past a slot that was not served, however long the     *)
(* gathers took and however late the sleeps ended.                         *)
(***************************************************************************)
NoSlotOvertaken ==
    pc = "wait" => nextRun <= nextFive /\ nextRun <= nextSixty

(***************************************************************************)
(* When the loop goes to sleep, exactly the slots that are due have been   *)
(* served: the next one of each series is in the future, and the last one  *)
(* served is not.                                                          *)
(***************************************************************************)
CaughtUpWhenSleeping ==
    pc = "wait" /\ sleep > 0 =>
        /\ nextFive - FivePeriod <= time
        /\ nextSixty - SixtyPeriod <= time
        /\ nextRun - sleep < nextFive
        /\ nextRun - sleep < nextSixty

(***************************************************************************)
(* The loop never asks for more than a second of sleep: however an         *)
(* iteration came to start, it did not start before its own second, so the *)
(* next one is at most a second away.  A system clock that is set back     *)
(* during a gather would break it, and leave the agent silent for as long  *)
(* as the clock was set back.                                              *)
(***************************************************************************)
SleepsAtMostASecond == pc = "wait" => sleep <= Second

(***************************************************************************)
(* An iteration that runs the sixty-second collectors runs the five-second *)
(* ones too, whatever the clock does, when the one period is a multiple of *)
(* the other: the minute's maximum of the core utilization is published by *)
(* an iteration that has both only (proc.cpp:786-790).                     *)
(***************************************************************************)
SixtyOnlyWithFive ==
    pc \in {"peak", "five", "sixty", "end"} /\ sixtyDue => fiveDue

(***************************************************************************)
(* A kill stops the loop: the iterations that an overrun makes follow each *)
(* other without looking at `terminate` (atlas-agent.h:34-38, where the    *)
(* comment of line 30 has the wait return false) come to an end when the   *)
(* gathers catch up with the schedule.                                     *)
(***************************************************************************)
KillStopsLoop == terminate ~> pc = "stopped"

-----------------------------------------------------------------------------
\* What the loop promises, under the mapping that calls it resting when it
\* sleeps: see Schedule.
Promise == INSTANCE Schedule WITH
    clock <- time,
    dueFive <- nextFive,
    dueSixty <- nextSixty,
    mode <- IF pc = "stopped" THEN "stopped"
            ELSE IF pc = "wait" /\ sleep > 0 THEN "resting" ELSE "busy",
    killed <- terminate

\* The loop implements the schedule it promises.
ImplementsSchedule == Promise!Spec
=============================================================================
