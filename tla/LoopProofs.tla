----------------------------- MODULE LoopProofs -----------------------------
(***************************************************************************)
(* Proofs about the collector loop, the wait before it and the core        *)
(* utilization it drives, for every value of their constants: the schedule *)
(* of the loop, as long as the system clock is never set back, the start-up*)
(* delay, whatever lateness the wait has, and the minute's maximum.        *)
(***************************************************************************)
EXTENDS StartupDelay, CoreUtilization, DataInduction, TLAPS

(***************************************************************************)
(* The inductive invariant.  The three schedule points are whole seconds   *)
(* apart (Multiples), so one that is past another is a second past it;     *)
(* Phase says, for each place of the loop, which slots are still ahead of  *)
(* the iteration and which have been moved past it.                        *)
(***************************************************************************)
Multiple(t) == \E i \in Int : t = i * Second

Multiples == Multiple(nextRun) /\ Multiple(nextFive) /\ Multiple(nextSixty)

\* A slot the iteration has not looked at, or found due, or left for later.
Pending(slot, due) ==
    /\ nextRun <= slot
    /\ due => slot <= time
    /\ ~due => nextRun + Second <= slot

Phase ==
    /\ pc \in {"top", "peak", "five", "sixty", "end"} => nextRun <= time
    /\ pc = "top" => nextRun <= nextFive /\ nextRun <= nextSixty
    /\ pc \in {"peak", "five"} => Pending(nextFive, fiveDue)
    /\ pc \in {"peak", "five", "sixty"} => Pending(nextSixty, sixtyDue)
    /\ pc \in {"sixty", "end"} => nextRun + Second <= nextFive
    /\ pc = "end" => nextRun + Second <= nextSixty
    /\ pc = "wait" => /\ nextRun <= nextFive
                      /\ nextRun <= nextSixty
                      /\ nextRun - sleep <= time
                      /\ sleep <= Second

ServedNotEarly ==
    /\ nextFive - FivePeriod <= time
    /\ nextSixty - SixtyPeriod <= time

IInv == TypeOK /\ Multiples /\ Phase /\ ServedNotEarly

-----------------------------------------------------------------------------
(* Two multiples of a second that differ are at least a second apart.      *)
LEMMA MultiplesApart ==
    ASSUME NEW S \in Nat \ {0}, NEW a \in Int, NEW b \in Int, a * S < b * S
    PROVE  a * S + S <= b * S
<1>1. a < b
  <2>1. SUFFICES ASSUME b <= a PROVE b * S <= a * S
    OBVIOUS
  <2>2. a = b + (a - b) /\ a - b \in Nat
    BY <2>1
  <2>3. (a - b) * S \in Nat
    BY <2>2
  <2>4. a * S = b * S + (a - b) * S
    BY <2>2
  <2> QED BY <2>3, <2>4
<1>2. b = (a + 1) + (b - a - 1) /\ b - a - 1 \in Nat
  BY <1>1
<1>3. (b - a - 1) * S \in Nat
  BY <1>2
<1>4. b * S = (a * S + S) + (b - a - 1) * S
  BY <1>2
<1> QED BY <1>3, <1>4

LEMMA SlotAhead ==
    ASSUME NEW x \in Int, NEW y \in Int, Multiple(x), Multiple(y), x < y
    PROVE  x + Second <= y
BY LoopAssumption, MultiplesApart DEF Multiple

(* A period is a whole number of seconds, and at least one.                *)
LEMMA Periods ==
    /\ Second \in Nat /\ Second > 0
    /\ FivePeriod \in Nat /\ FivePeriod >= Second /\ Multiple(FivePeriod)
    /\ SixtyPeriod \in Nat /\ SixtyPeriod >= Second /\ Multiple(SixtyPeriod)
<1>1. ASSUME NEW n \in Nat \ {0}
      PROVE  n * Second \in Nat /\ n * Second >= Second /\ Multiple(n * Second)
  <2>1. n - 1 \in Nat /\ (n - 1) * Second \in Nat
    BY LoopAssumption
  <2>2. n * Second = (n - 1) * Second + Second
    BY LoopAssumption
  <2> QED BY <2>1, <2>2, LoopAssumption DEF Multiple
<1>2. FivePeriod \in Nat /\ FivePeriod >= Second /\ Multiple(FivePeriod)
  BY <1>1, LoopAssumption DEF FivePeriod
<1>3. SixtyPeriod \in Nat /\ SixtyPeriod >= Second /\ Multiple(SixtyPeriod)
  BY <1>1, LoopAssumption DEF SixtyPeriod
<1>4. Second \in Nat /\ Second > 0
  BY LoopAssumption
<1> QED BY <1>2, <1>3, <1>4

LEMMA MultipleSum ==
    ASSUME NEW x \in Int, NEW y \in Int, Multiple(x), Multiple(y)
    PROVE  Multiple(x + y)
<1>1. PICK i \in Int : x = i * Second
  BY DEF Multiple
<1>2. PICK j \in Int : y = j * Second
  BY DEF Multiple
<1>3. i + j \in Int /\ x + y = (i + j) * Second
  BY <1>1, <1>2, LoopAssumption
<1> QED BY <1>3 DEF Multiple

-----------------------------------------------------------------------------
LEMMA InitTyped == Init => TypeOK
<1> SUFFICES ASSUME Init PROVE TypeOK
  OBVIOUS
<1>1. /\ time \in Int /\ nextRun \in Int /\ nextFive \in Int
      /\ nextSixty \in Int /\ sleep \in Int /\ steps \in Nat
  BY Periods DEF Init
<1>2. fiveDue \in BOOLEAN /\ sixtyDue \in BOOLEAN /\ terminate \in BOOLEAN
  BY DEF Init
<1>3. pc \in PCs /\ pc # "five" /\ pc # "sixty"
  BY DEF Init, PCs
<1> QED BY <1>1, <1>2, <1>3 DEF TypeOK

(* Every variable keeps its type, and the periodic gathers run only in     *)
(* iterations that found them due (lines 107-108, 117 and 125).            *)
THEOREM LoopTyped == Spec => []TypeOK
<1> USE LoopAssumption
<1>0. FivePeriod \in Int /\ SixtyPeriod \in Int
  BY Periods
<1>2. TypeOK /\ [Next]_vars => TypeOK'
  <2> SUFFICES ASSUME TypeOK, [Next]_vars PROVE TypeOK'
    OBVIOUS
  <2>1. CASE StartIteration
    BY <2>1 DEF StartIteration, SlotDue, TypeOK, PCs, sched
  <2>2. CASE GatherPeak
    BY <2>2 DEF GatherPeak, Gather, AfterPeak, TypeOK, PCs, sched
  <2>3. CASE GatherFive
    BY <2>3, <1>0 DEF GatherFive, Gather, NextSlot, AfterFive, TypeOK, PCs
  <2>4. CASE GatherSixty
    BY <2>4, <1>0 DEF GatherSixty, Gather, NextSlot, TypeOK, PCs
  <2>5. CASE EndIteration
    BY <2>5 DEF EndIteration, TypeOK, PCs
  <2>6. CASE WaitZero
    BY <2>6 DEF WaitZero, TypeOK, PCs, sched
  <2>7. CASE WaitTimeout
    BY <2>7 DEF WaitTimeout, TimedOut, WaitResult, TypeOK, PCs, sched
  <2>8. CASE WaitKilled
    BY <2>8 DEF WaitKilled, WaitResult, TypeOK, PCs, sched
  <2>9. CASE Kill
    BY <2>9 DEF Kill, TypeOK, PCs, sched
  <2>10. CASE StepClock
    BY <2>10 DEF StepClock, TypeOK, PCs, sched
  <2>11. CASE UNCHANGED vars
    BY <2>11 DEF vars, TypeOK
  <2> QED
    BY <2>1, <2>2, <2>3, <2>4, <2>5, <2>6, <2>7, <2>8, <2>9, <2>10, <2>11
    DEF Next, Loop, WaitFor, Stopped
<1> QED BY InitTyped, <1>2, PTL DEF Spec

-----------------------------------------------------------------------------
LEMMA InitInvariant == Init => IInv
<1> SUFFICES ASSUME Init PROVE IInv
  OBVIOUS
<1>1. Multiple(0)
  <2>1. 0 = 0 * Second
    BY LoopAssumption
  <2> QED BY <2>1 DEF Multiple
<1>2. FivePeriod \in Nat /\ SixtyPeriod \in Nat
  BY Periods
<1>3. TypeOK
  BY InitTyped
<1>4. Multiples
  BY <1>1, Periods DEF Init, Multiples
<1>5. Phase /\ ServedNotEarly
  BY <1>2 DEF Init, Phase, ServedNotEarly
<1> QED BY <1>3, <1>4, <1>5 DEF IInv

(* Each step of the loop keeps the schedule, whatever time its gather took *)
(* and however late its sleep ended; a clock step does as long as it is    *)
(* not a step back.                                                        *)
LEMMA StepInvariant ==
    ASSUME ClockSteps \subseteq Nat, IInv, [Next]_vars, TypeOK'
    PROVE  IInv'
<1> USE DEF IInv
<1>0. /\ Second \in Nat /\ Second > 0
      /\ FivePeriod \in Nat /\ FivePeriod >= Second
      /\ SixtyPeriod \in Nat /\ SixtyPeriod >= Second
  BY Periods
<1>1. CASE StartIteration
  <2>1. Multiples' /\ ServedNotEarly'
    BY <1>1 DEF StartIteration, sched, Multiples, ServedNotEarly
  <2>2. time < nextFive => nextRun + Second <= nextFive
    BY <1>1, <1>0, SlotAhead DEF StartIteration, TypeOK, Multiples, Phase
  <2>3. time < nextSixty => nextRun + Second <= nextSixty
    BY <1>1, <1>0, SlotAhead DEF StartIteration, TypeOK, Multiples, Phase
  <2>4. /\ fiveDue' => nextFive <= time
        /\ ~fiveDue' => nextRun + Second <= nextFive
        /\ sixtyDue' => nextSixty <= time
        /\ ~sixtyDue' => nextRun + Second <= nextSixty
    <3>1. /\ fiveDue' <=> time >= nextFive
          /\ sixtyDue' <=> time >= nextSixty
      BY <1>1, Zenon DEF StartIteration, SlotDue
    <3>2. /\ time >= nextFive => nextFive <= time
          /\ ~(time >= nextFive) => time < nextFive
          /\ time >= nextSixty => nextSixty <= time
          /\ ~(time >= nextSixty) => time < nextSixty
      BY DEF TypeOK
    <3> QED BY <3>1, <3>2, <2>2, <2>3, Zenon
  <2>5. /\ pc' = "peak" /\ nextRun' = nextRun /\ nextFive' = nextFive
        /\ nextSixty' = nextSixty /\ time' = time
    BY <1>1 DEF StartIteration, sched
  <2>6. Pending(nextFive, fiveDue)' /\ Pending(nextSixty, sixtyDue)'
    BY <1>1, <2>4, <2>5 DEF StartIteration, Phase, Pending
  <2>7. Phase'
    BY <1>1, <2>5, <2>6 DEF StartIteration, Phase
  <2> QED BY <2>1, <2>7
<1>2. CASE GatherPeak
  <2>1. Multiples' /\ ServedNotEarly'
    BY <1>2, <1>0
    DEF GatherPeak, Gather, sched, TypeOK, Multiples, ServedNotEarly
  <2>2. Phase'
    BY <1>2, <1>0 DEF GatherPeak, Gather, AfterPeak, sched, TypeOK, Phase, Pending
  <2> QED BY <2>1, <2>2
<1>3. CASE GatherFive
  <2>1. Multiples'
    <3>1. Multiple(nextFive + FivePeriod)
      BY <1>0, Periods, MultipleSum DEF TypeOK, Multiples
    <3> QED BY <1>3, <3>1 DEF GatherFive, NextSlot, Multiples
  <2>2. ServedNotEarly'
    BY <1>3, <1>0
    DEF GatherFive, Gather, NextSlot, TypeOK, Phase, Pending, ServedNotEarly
  <2>3. Phase'
    BY <1>3, <1>0
    DEF GatherFive, Gather, NextSlot, AfterFive, TypeOK, Phase, Pending
  <2> QED BY <2>1, <2>2, <2>3
<1>4. CASE GatherSixty
  <2>1. Multiples'
    <3>1. Multiple(nextSixty + SixtyPeriod)
      BY <1>0, Periods, MultipleSum DEF TypeOK, Multiples
    <3> QED BY <1>4, <3>1 DEF GatherSixty, NextSlot, Multiples
  <2>2. ServedNotEarly'
    BY <1>4, <1>0
    DEF GatherSixty, Gather, NextSlot, TypeOK, Phase, Pending, ServedNotEarly
  <2>3. Phase'
    BY <1>4, <1>0 DEF GatherSixty, Gather, NextSlot, TypeOK, Phase, Pending
  <2> QED BY <2>1, <2>2, <2>3
<1>5. CASE EndIteration
  <2>1. Multiple(Second)
    <3>1. Second = 1 * Second
      BY <1>0
    <3> QED BY <3>1 DEF Multiple
  <2>2. Multiples'
    BY <1>5, <1>0, <2>1, MultipleSum DEF EndIteration, TypeOK, Multiples
  <2>3. ServedNotEarly'
    BY <1>5 DEF EndIteration, ServedNotEarly
  <2>4. Phase'
    BY <1>5, <1>0 DEF EndIteration, TypeOK, Phase
  <2> QED BY <2>2, <2>3, <2>4
<1>6. CASE WaitZero
  BY <1>6, <1>0
  DEF WaitZero, sched, TypeOK, Multiples, Phase, ServedNotEarly
<1>7. CASE WaitTimeout
  BY <1>7, <1>0, LoopAssumption
  DEF WaitTimeout, TimedOut, WaitResult, sched, TypeOK, Multiples,
      Phase, ServedNotEarly
<1>8. CASE WaitKilled
  BY <1>8, <1>0
  DEF WaitKilled, WaitResult, sched, TypeOK, Multiples, Phase,
      ServedNotEarly
<1>9. CASE Kill
  BY <1>9 DEF Kill, sched, Multiples, Phase, Pending, ServedNotEarly
<1>10. CASE StepClock
  <2>1. time' >= time
    BY <1>10 DEF StepClock, TypeOK
  <2>2. Multiples' /\ ServedNotEarly'
    BY <1>10, <1>0, <2>1
    DEF StepClock, sched, TypeOK, Multiples, ServedNotEarly
  <2>3. Phase'
    BY <1>10, <1>0, <2>1 DEF StepClock, sched, TypeOK, Phase, Pending
  <2> QED BY <2>2, <2>3
<1>11. CASE UNCHANGED vars
  BY <1>11 DEF vars, Multiples, Phase, Pending, ServedNotEarly
<1> QED
  BY <1>1, <1>2, <1>3, <1>4, <1>5, <1>6, <1>7, <1>8, <1>9, <1>10, <1>11
  DEF Next, Loop, WaitFor, Stopped

LEMMA ScheduleInvariant ==
    ASSUME ClockSteps \subseteq Nat
    PROVE  Spec => []IInv
<1>1. IInv /\ TypeOK' /\ [Next]_vars => IInv'
  BY StepInvariant
<1> QED BY <1>1, InitInvariant, LoopTyped, PTL DEF Spec

(* While the clock is never set back, no iteration ends past a slot that   *)
(* was not served (lines 107-108, 121, 139 and 142).                       *)
THEOREM SlotsServed ==
    ASSUME ClockSteps \subseteq Nat
    PROVE  Spec => []NoSlotOvertaken
<1>1. IInv => NoSlotOvertaken
  BY DEF IInv, Phase, NoSlotOvertaken
<1> QED BY <1>1, ScheduleInvariant, PTL

(* While the clock is never set back, the loop sleeps only when it has     *)
(* served exactly the slots that are due.                                  *)
THEOREM SleepsCaughtUp ==
    ASSUME ClockSteps \subseteq Nat
    PROVE  Spec => []CaughtUpWhenSleeping
<1>1. IInv => CaughtUpWhenSleeping
  BY Periods DEF IInv, TypeOK, Phase, ServedNotEarly, CaughtUpWhenSleeping
<1> QED BY <1>1, ScheduleInvariant, PTL

(* While the clock is never set back, no sleep is longer than a second     *)
(* (line 143).                                                             *)
THEOREM SleepsBounded ==
    ASSUME ClockSteps \subseteq Nat
    PROVE  Spec => []SleepsAtMostASecond
<1>1. IInv => SleepsAtMostASecond
  BY DEF IInv, Phase, SleepsAtMostASecond
<1> QED BY <1>1, ScheduleInvariant, PTL

-----------------------------------------------------------------------------
LEMMA StepRefines ==
    ASSUME ClockSteps \subseteq Nat, IInv, IInv', [Next]_vars
    PROVE  [Promise!Next]_(Promise!svars)
<1> USE DEF IInv, Promise!Next, Promise!svars
<1>0. /\ Second \in Nat /\ Second > 0
      /\ FivePeriod \in Nat /\ SixtyPeriod \in Nat
  BY Periods
<1>1. CASE StartIteration
  BY <1>1 DEF StartIteration, sched
<1>2. CASE GatherPeak
  <2>1. Promise!Elapse
    BY <1>2 DEF GatherPeak, Gather, AfterPeak, sched, TypeOK, Promise!Elapse,
                Promise!TimePasses
  <2> QED BY <2>1
<1>3. CASE GatherFive
  <2>1. Promise!RunFive
    BY <1>3 DEF GatherFive, Gather, NextSlot, AfterFive, TypeOK, Phase, Pending,
                Promise!RunFive, Promise!TimePasses
  <2> QED BY <2>1
<1>4. CASE GatherSixty
  <2>1. Promise!RunSixty
    BY <1>4 DEF GatherSixty, Gather, NextSlot, TypeOK, Phase, Pending,
                Promise!RunSixty, Promise!TimePasses
  <2> QED BY <2>1
<1>5. CASE EndIteration
  <2>1. CASE sleep' > 0
    <3>1. time < nextFive /\ time < nextSixty
      BY <1>5, <1>0, <2>1 DEF EndIteration, TypeOK, Phase
    <3>2. Promise!Rest
      BY <1>5, <2>1, <3>1 DEF EndIteration, Promise!Rest
    <3> QED BY <3>2
  <2>2. CASE ~(sleep' > 0)
    BY <1>5, <2>2 DEF EndIteration
  <2> QED BY <2>1, <2>2
<1>6. CASE WaitZero
  BY <1>6 DEF WaitZero, sched, TypeOK
<1>7. CASE WaitTimeout
  <2>1. time' > time
    BY <1>7, LoopAssumption DEF WaitTimeout, TimedOut, TypeOK
  <2>2. Promise!Wake
    BY <1>7, <2>1 DEF WaitTimeout, WaitResult, sched, Promise!Wake
  <2> QED BY <2>2
<1>8. CASE WaitKilled
  <2>1. Promise!Stop
    BY <1>8 DEF WaitKilled, WaitResult, sched, TypeOK, Promise!Stop,
                Promise!TimePasses
  <2> QED BY <2>1
<1>9. CASE Kill
  <2>1. Promise!Kill
    BY <1>9 DEF Kill, sched, Promise!Kill
  <2> QED BY <2>1
<1>10. CASE StepClock
  <2>1. Promise!Elapse
    BY <1>10 DEF StepClock, sched, TypeOK, Promise!Elapse, Promise!TimePasses
  <2> QED BY <2>1
<1>11. CASE UNCHANGED vars
  BY <1>11 DEF vars
<1> QED
  BY <1>1, <1>2, <1>3, <1>4, <1>5, <1>6, <1>7, <1>8, <1>9, <1>10, <1>11
  DEF Next, Loop, WaitFor, Stopped

(* While the clock is never set back, the loop implements Schedule: every  *)
(* step of it serves a slot that is due, lets time pass, or rests with     *)
(* nothing left to serve.                                                  *)
THEOREM LoopImplementsSchedule ==
    ASSUME ClockSteps \subseteq Nat
    PROVE  Spec => ImplementsSchedule
<1>1. Init => Promise!Init
  BY DEF Init, Promise!Init
<1>2. IInv /\ IInv' /\ [Next]_vars => [Promise!Next]_(Promise!svars)
  BY StepRefines
<1> QED
  BY <1>1, <1>2, ScheduleInvariant, PTL DEF Spec, ImplementsSchedule, Promise!Spec
-----------------------------------------------------------------------------
(***************************************************************************)
(* The two series together, whatever the clock does.  The five-second slot *)
(* is never past the sixty-second one, except between the two gathers of   *)
(* an iteration that runs both; both are multiples of five seconds, so     *)
(* when the five-second slot is before the other it is five seconds before.*)
(***************************************************************************)
FiveMultiple(t) == \E i \in Int : t = i * FivePeriod

Together ==
    /\ FiveMultiple(nextFive) /\ FiveMultiple(nextSixty)
    /\ pc # "sixty" => nextFive <= nextSixty
    /\ pc = "sixty" => nextFive <= nextSixty + FivePeriod
    /\ pc \in {"peak", "five"} /\ fiveDue /\ ~sixtyDue => nextFive < nextSixty

TInv == TypeOK /\ SixtyOnlyWithFive /\ Together

LEMMA FivePeriodPositive == FivePeriod \in Nat \ {0}
BY Periods

LEMMA FiveApart ==
    ASSUME NEW x \in Int, NEW y \in Int, FiveMultiple(x), FiveMultiple(y)
    PROVE  FiveMultiple(x + FivePeriod) /\ (x < y => x + FivePeriod <= y)
<1>1. PICK i \in Int : x = i * FivePeriod
  BY DEF FiveMultiple
<1>2. i + 1 \in Int /\ x + FivePeriod = (i + 1) * FivePeriod
  BY <1>1, FivePeriodPositive
<1>3. x < y => x + FivePeriod <= y
  BY MultiplesApart, FivePeriodPositive DEF FiveMultiple
<1> QED BY <1>2, <1>3 DEF FiveMultiple

LEMMA SixtyIsFives ==
    ASSUME NEW k \in Nat \ {0}, SixtySeconds = k * FiveSeconds,
           NEW x \in Int, FiveMultiple(x)
    PROVE  /\ SixtyPeriod \in Nat
           /\ FivePeriod <= SixtyPeriod
           /\ FiveMultiple(x + SixtyPeriod)
<1> DEFINE F == FivePeriod
<1>1. F \in Nat \ {0}
  BY FivePeriodPositive
<1>2. SixtyPeriod = k * F
  BY LoopAssumption DEF SixtyPeriod, FivePeriod
<1> HIDE DEF F
<1>3. k * F = (k - 1) * F + F /\ (k - 1) * F \in Nat
  BY <1>1
<1>4. PICK i \in Int : x = i * F
  BY DEF FiveMultiple, F
<1>5. i + k \in Int /\ x + k * F = (i + k) * F
  BY <1>1, <1>4
<1>6. k * F \in Nat /\ F <= k * F
  BY <1>1, <1>3
<1>7. FiveMultiple(x + SixtyPeriod)
  BY <1>2, <1>5 DEF FiveMultiple, F
<1> QED BY <1>2, <1>6, <1>7 DEF F

LEMMA TogetherStep ==
    ASSUME NEW k \in Nat \ {0}, SixtySeconds = k * FiveSeconds,
           TInv, TypeOK', [Next]_vars
    PROVE  SixtyOnlyWithFive' /\ Together'
<1> USE DEF TInv
<1>0. /\ time \in Int /\ nextFive \in Int /\ nextSixty \in Int /\ time' \in Int
      /\ FivePeriod \in Nat \ {0} /\ SixtyPeriod \in Nat
      /\ FivePeriod <= SixtyPeriod
      /\ FiveMultiple(nextFive + FivePeriod)
      /\ FiveMultiple(nextSixty + SixtyPeriod)
      /\ nextFive < nextSixty => nextFive + FivePeriod <= nextSixty
  BY FivePeriodPositive, FiveApart, SixtyIsFives DEF TypeOK, Together
<1>1. CASE StartIteration
  <2>1. nextFive <= nextSixty
    BY <1>1 DEF StartIteration, Together
  <2>2. fiveDue' = (time >= nextFive) /\ sixtyDue' = (time >= nextSixty)
    BY <1>1 DEF StartIteration, SlotDue
  <2>3. /\ sixtyDue' => time >= nextSixty
        /\ fiveDue' /\ ~sixtyDue' => time >= nextFive /\ ~(time >= nextSixty)
        /\ time >= nextFive => fiveDue'
    BY <2>2, Zenon
  <2>4. fiveDue' /\ ~sixtyDue' => nextFive < nextSixty
    <3>1. time >= nextFive /\ ~(time >= nextSixty) => nextFive < nextSixty
      BY <1>0
    <3> QED BY <2>3, <3>1, Zenon
  <2>5. sixtyDue' => fiveDue'
    <3>1. time >= nextSixty => time >= nextFive
      BY <1>0, <2>1
    <3> QED BY <2>3, <3>1, Zenon
  <2>6. pc' = "peak" /\ nextFive' = nextFive /\ nextSixty' = nextSixty
    BY <1>1 DEF StartIteration, sched
  <2>7. Together'
    BY <2>1, <2>4, <2>6 DEF Together
  <2> QED BY <2>5, <2>7 DEF SixtyOnlyWithFive
<1>2. CASE GatherPeak
  BY <1>2, <1>0 DEF GatherPeak, AfterPeak, sched, Together, SixtyOnlyWithFive, TypeOK
<1>3. CASE GatherFive
  <2>1. nextFive' = nextFive + FivePeriod /\ nextSixty' = nextSixty
    BY <1>3 DEF GatherFive, NextSlot
  <2>2. FiveMultiple(nextFive') /\ FiveMultiple(nextSixty')
    BY <1>0, <2>1 DEF Together
  <2>3. SixtyOnlyWithFive'
    BY <1>3 DEF GatherFive, AfterFive, SixtyOnlyWithFive
  <2>4. CASE sixtyDue
    BY <1>3, <1>0, <2>1, <2>2, <2>3, <2>4 DEF GatherFive, AfterFive, Together
  <2>5. CASE ~sixtyDue
    <3>1. nextFive < nextSixty
      BY <1>3, <2>5 DEF GatherFive, Together, TypeOK
    <3> QED
      BY <1>3, <1>0, <2>1, <2>2, <2>3, <2>5, <3>1 DEF GatherFive, AfterFive, Together
  <2> QED BY <2>4, <2>5
<1>4. CASE GatherSixty
  <2>1. nextSixty' = nextSixty + SixtyPeriod /\ nextFive' = nextFive
    BY <1>4 DEF GatherSixty, NextSlot
  <2>2. FiveMultiple(nextFive') /\ FiveMultiple(nextSixty')
    BY <1>0, <2>1 DEF Together
  <2>3. nextFive' <= nextSixty'
    BY <1>4, <1>0, <2>1 DEF GatherSixty, Together
  <2> QED
    BY <1>4, <2>2, <2>3 DEF GatherSixty, Together, SixtyOnlyWithFive
<1>5. CASE EndIteration
  BY <1>5, <1>0 DEF EndIteration, Together, SixtyOnlyWithFive
<1>6. CASE WaitFor
  BY <1>6, <1>0 DEF WaitFor, WaitZero, WaitTimeout, WaitKilled, WaitResult, sched,
                    Together, SixtyOnlyWithFive
<1>7. CASE Kill
  BY <1>7, <1>0 DEF Kill, sched, Together, SixtyOnlyWithFive
<1>8. CASE StepClock
  BY <1>8, <1>0 DEF StepClock, sched, Together, SixtyOnlyWithFive
<1>9. CASE UNCHANGED vars
  BY <1>9 DEF vars, Together, SixtyOnlyWithFive
<1> QED
  BY <1>1, <1>2, <1>3, <1>4, <1>5, <1>6, <1>7, <1>8, <1>9 DEF Next, Loop, Stopped

LEMMA InitTogether ==
    ASSUME NEW k \in Nat \ {0}, SixtySeconds = k * FiveSeconds
    PROVE  Init => SixtyOnlyWithFive /\ Together
<1> SUFFICES ASSUME Init PROVE SixtyOnlyWithFive /\ Together
  OBVIOUS
<1>1. FiveMultiple(0)
  BY FivePeriodPositive DEF FiveMultiple
<1>2. FiveMultiple(0 + FivePeriod) /\ FiveMultiple(0 + SixtyPeriod)
  BY <1>1, FiveApart, SixtyIsFives
<1>3. FivePeriod <= SixtyPeriod /\ FivePeriod \in Nat /\ SixtyPeriod \in Nat
  BY <1>1, SixtyIsFives, FivePeriodPositive
<1> QED
  BY <1>2, <1>3 DEF Init, SixtyOnlyWithFive, Together

(* When a minute is a whole number of five-second periods, a sixty-second  *)
(* iteration is always a five-second one too, with the system clock        *)
(* stepped by any amount in either direction (lines 107-108 and 121, 139). *)
THEOREM SixtyRunsWithFive ==
    ASSUME NEW k \in Nat \ {0}, SixtySeconds = k * FiveSeconds
    PROVE  Spec => []SixtyOnlyWithFive
<1>1. Init => SixtyOnlyWithFive /\ Together
  BY InitTogether
<1>2. TypeOK /\ TypeOK' /\ SixtyOnlyWithFive /\ Together /\ [Next]_vars
        => SixtyOnlyWithFive' /\ Together'
  BY TogetherStep DEF TInv
<1> QED
  BY <1>1, <1>2, LoopTyped, PTL DEF Spec

-----------------------------------------------------------------------------
(* The start-up delay.                                                     *)

\* What a delay drawn at second s promises.
DelayFits(s, d) ==
    /\ d \in 0 .. Minute - 1
    /\ (s + d) \in 10 .. 50 \/ (s + d) \in Minute + 10 .. Minute + 50

(* The delay leads to a second between 10 and 50 of this minute or of the  *)
(* next, and is 0 only when the agent starts between them (lines 71-85).   *)
THEOREM DelayLandsInside ==
    ASSUME NEW s \in SecondsOfMinute, NEW d \in InitialPollingDelays(s)
    PROVE  DelayFits(s, d)
<1>1. CASE s < 10
  BY <1>1 DEF SecondsOfMinute, Minute, InitialPollingDelays, DelayFits
<1>2. CASE s > 50
  BY <1>2 DEF SecondsOfMinute, Minute, InitialPollingDelays, DelayFits
<1>3. CASE ~(s < 10) /\ ~(s > 50)
  BY <1>3 DEF SecondsOfMinute, Minute, InitialPollingDelays, DelayFits
<1> QED BY <1>1, <1>2, <1>3

\* The inductive invariant: while it waits, the delay still fits the second.
DelayInv ==
    /\ stage \in {"delay", "waiting", "first", "loop"}
    /\ second \in SecondsOfMinute
    /\ stage = "waiting" => DelayFits(second, delay)
    /\ PublishesAwayFromBoundary

(* An agent that is not killed publishes first between seconds 10 and 50   *)
(* of a minute, plus the lateness of its wait (lines 85-96).               *)
THEOREM FirstPublishPlaced == AgentSpec => []PublishesAwayFromBoundary
<1> USE StartupAssumption
<1>1. AgentInit => DelayInv
  BY DEF AgentInit, DelayInv, SecondsOfMinute, PublishesAwayFromBoundary
<1>2. DelayInv /\ [AgentNext]_<<vars, startup>> => DelayInv'
  <2> SUFFICES ASSUME DelayInv, [AgentNext]_<<vars, startup>> PROVE DelayInv'
    OBVIOUS
  <2> USE DEF DelayInv, PublishesAwayFromBoundary, SecondsOfMinute, Minute
  <2>1. CASE ChooseDelay
    <3>1. DelayFits(second, delay')
      BY <2>1, DelayLandsInside DEF ChooseDelay
    <3>2. delay' \in 0 .. 59
      BY <3>1 DEF DelayFits
    <3>3. CASE delay' > 0
      <4>1. stage' = "waiting" /\ second' = second
        BY <2>1, <3>3 DEF ChooseDelay
      <4>2. DelayFits(second, delay)'
        BY <4>1, <3>1 DEF DelayFits
      <4> QED BY <4>1, <4>2
    <3>4. CASE ~(delay' > 0)
      <4>1. stage' = "first" /\ second' = second
        BY <2>1, <3>4 DEF ChooseDelay
      <4>2. delay' = 0
        BY <3>2, <3>4
      <4>3. second + 0 \in 10 .. 50 \/ second + 0 \in 70 .. 110
        BY <4>2, <3>1 DEF DelayFits
      <4>4. second \in 10 .. 50 + MaxDelayLate
        <5>1. second \in 0 .. 59
          OBVIOUS
        <5> QED BY <4>3, <5>1
      <4> QED BY <4>1, <4>4
    <3> QED BY <3>3, <3>4
  <2>2. CASE DelayTimeout
    <3>1. PICK late \in 0 .. MaxDelayLate : second' = (second + (delay + late)) % 60
      BY <2>2 DEF DelayTimeout, Sleep
    <3>2. second' \in 10 .. 50 + MaxDelayLate
      <4>1. delay \in 0 .. 59 /\ (second + delay \in 10 .. 50 \/ second + delay \in 70 .. 110)
        BY <2>2 DEF DelayTimeout, DelayFits
      <4>2. second \in 0 .. 59
        OBVIOUS
      <4>3. MaxDelayLate \in 0 .. 9
        BY DEF StartupAssumption
      <4> DEFINE x == second + (delay + late)
      <4>4. x \in 10 .. 50 + MaxDelayLate \/ x - 60 \in 10 .. 50 + MaxDelayLate
        BY <4>1, <4>2, <4>3
      <4>5. x \in Int
        BY <4>1, <4>2, <4>3
      <4> HIDE DEF x
      <4>6. x % 60 \in 10 .. 50 + MaxDelayLate
        BY <4>3, <4>4, <4>5
      <4> QED BY <4>6, <3>1 DEF x
    <3>3. second' \in 0 .. 59
      BY <3>2
    <3> QED BY <2>2, <3>2, <3>3 DEF DelayTimeout
  <2>3. CASE DelayKilled
    <3>1. stage' = "first" /\ terminate /\ terminate' = terminate
      BY <2>3 DEF DelayKilled, vars
    <3>2. PICK t \in 0 .. delay : second' = (second + t) % 60
      BY <2>3 DEF DelayKilled, Sleep
    <3>3. second' \in 0 .. 59
      BY <3>2, <2>3 DEF DelayKilled, DelayFits
    <3> QED BY <3>1, <3>3
  <2>4. CASE FirstGather
    BY <2>4 DEF FirstGather
  <2>5. CASE KillEarly
    <3>1. UNCHANGED <<stage, second, delay>> /\ terminate'
      BY <2>5, Zenon DEF KillEarly, Kill, startup
    <3> QED BY <3>1 DEF DelayFits
  <2>6. CASE InLoop(Next)
    <3>1. UNCHANGED <<stage, second, delay>> /\ stage = "loop"
      BY <2>6 DEF InLoop, startup
    <3> QED BY <3>1
  <2>7. CASE UNCHANGED <<vars, startup>>
    <3>1. UNCHANGED <<stage, second, delay, terminate>>
      BY <2>7 DEF vars, startup
    <3> QED BY <3>1 DEF DelayFits
  <2> QED BY <2>1, <2>2, <2>3, <2>4, <2>5, <2>6, <2>7 DEF AgentNext, Startup
<1>3. DelayInv => PublishesAwayFromBoundary
  BY DEF DelayInv
<1> QED BY <1>1, <1>2, <1>3, PTL DEF AgentSpec

-----------------------------------------------------------------------------
(* The agent's loop, entered after the delay, is the loop of AgentLoop:    *)
(* what is proved of it above holds of the whole agent (lines              *)
(* 87-145).                                                                *)
THEOREM AgentImplementsLoop == AgentSpec => Spec
<1>1. AgentInit => Init
  BY DEF AgentInit
<1>2. [AgentNext]_<<vars, startup>> => [Next]_vars
  <2> SUFFICES ASSUME [AgentNext]_<<vars, startup>> PROVE Next \/ UNCHANGED vars
    OBVIOUS
  <2>1. CASE Startup
    BY <2>1 DEF Startup, ChooseDelay, DelayTimeout, DelayKilled, FirstGather
  <2>2. CASE KillEarly
    BY <2>2 DEF KillEarly, Next
  <2>3. CASE InLoop(Next)
    BY <2>3 DEF InLoop
  <2>4. CASE UNCHANGED <<vars, startup>>
    BY <2>4
  <2> QED BY <2>1, <2>2, <2>3, <2>4 DEF AgentNext
<1> QED BY <1>1, <1>2, PTL DEF AgentSpec, Spec

-----------------------------------------------------------------------------
(***************************************************************************)
(* The minute's maximum.  What makes it right is that every five-second    *)
(* slot is read before the next one is due (ReadsOnTime): then Divisor     *)
(* reads, each at a later time than the one before, lie between two        *)
(* minutes.  That holds whatever the loop does, and it follows from bounds *)
(* on the gathers and on the lateness of a sleep (Unhurried).              *)
(***************************************************************************)
ReadsOnTime == pc = "peak" /\ fiveDue => time < nextFive + FivePeriod

Overrun == MaxPeak + MaxFive
Later == IF Overrun > MaxLate THEN Overrun ELSE MaxLate + 1

\* The clock is not set, a five-second iteration and the lateness of a sleep
\* fit in a period, and with a sixty-second iteration in two.
Unhurried ==
    /\ MaxSteps = 0
    /\ Overrun <= FivePeriod
    /\ MaxLate < FivePeriod
    /\ Later + Overrun + MaxSixty <= 2 * FivePeriod

\* Divisor five-second periods make a sixty-second one.
Aligned == SixtySeconds = Divisor * FiveSeconds

\* How far the loop is behind its next slot of five seconds.
InTime ==
    /\ pc \in {"top", "peak", "end", "wait"} =>
          /\ time < nextFive + FivePeriod
          /\ nextFive = nextSixty => time < nextFive + Later
    /\ pc = "wait" => sleep = nextRun - time
    /\ pc = "peak" /\ ~fiveDue => time < nextFive
    /\ pc = "five" => /\ time < nextFive + FivePeriod + MaxPeak
                      /\ sixtyDue => time < nextFive + Later + MaxPeak
    /\ pc = "sixty" => time < nextSixty + Later + Overrun

LEMMA BoundsTyped ==
    /\ MaxPeak \in Nat /\ MaxFive \in Nat /\ MaxSixty \in Nat /\ MaxLate \in Nat
    /\ Overrun \in Nat /\ Later \in Nat \ {0}
    /\ Overrun <= Later /\ MaxLate < Later
  BY LoopAssumption DEF LoopAssumption, Overrun, Later

\* A minute's iteration serves the five-second slot that is due with it.
OnSlot ==
    /\ pc = "five" /\ sixtyDue => nextFive = nextSixty
    /\ pc = "sixty" => nextFive = nextSixty + FivePeriod

LEMMA SixtyOnSlot ==
    ASSUME IInv, TInv, ReadsOnTime, pc = "peak", sixtyDue
    PROVE  nextFive = nextSixty
<1>1. /\ time \in Int /\ nextFive \in Int /\ nextSixty \in Int /\ FivePeriod \in Nat
  BY Periods DEF IInv, TypeOK
<1>2. nextSixty <= time
  BY DEF IInv, Phase, Pending
<1>3. fiveDue /\ nextFive <= nextSixty
  BY DEF TInv, SixtyOnlyWithFive, Together
<1>4. time < nextFive + FivePeriod
  BY <1>3 DEF ReadsOnTime
<1>5. nextFive < nextSixty => nextFive + FivePeriod <= nextSixty
  BY <1>1, FiveApart DEF TInv, Together
<1> QED
  BY <1>1, <1>2, <1>3, <1>4, <1>5

LEMMA OnSlotStep ==
    ASSUME IInv, TInv, ReadsOnTime, OnSlot, [Next]_vars
    PROVE  OnSlot'
<1>1. CASE StartIteration
  BY <1>1 DEF StartIteration, OnSlot
<1>2. CASE GatherPeak
  <2>1. sixtyDue => fiveDue /\ nextFive = nextSixty
    BY <1>2, SixtyOnSlot DEF GatherPeak, TInv, SixtyOnlyWithFive
  <2> QED
    BY <1>2, <2>1 DEF GatherPeak, AfterPeak, sched, OnSlot
<1>3. CASE GatherFive
  BY <1>3 DEF GatherFive, AfterFive, NextSlot, OnSlot
<1>4. CASE GatherSixty
  BY <1>4 DEF GatherSixty, OnSlot
<1>5. CASE EndIteration
  BY <1>5 DEF EndIteration, OnSlot
<1>6. CASE WaitFor
  BY <1>6 DEF WaitFor, WaitZero, WaitTimeout, WaitKilled, WaitResult, OnSlot
<1>7. CASE Kill \/ StepClock
  BY <1>7 DEF Kill, StepClock, sched, OnSlot
<1>8. CASE UNCHANGED vars
  BY <1>8 DEF vars, OnSlot
<1> QED
  BY <1>1, <1>2, <1>3, <1>4, <1>5, <1>6, <1>7, <1>8 DEF Next, Loop, Stopped

LEMMA TwoPeriods ==
    ASSUME Aligned, Divisor >= 2
    PROVE  /\ Divisor \in Nat \ {0}
           /\ FivePeriod \in Nat \ {0} /\ SixtyPeriod \in Nat
           /\ SixtyPeriod = Divisor * FivePeriod
           /\ SixtyPeriod >= 2 * FivePeriod
<1> DEFINE F == FivePeriod
<1>1. Divisor \in Nat \ {0} /\ F \in Nat \ {0} /\ SixtyPeriod \in Nat
  BY Periods, CoreAssumption
<1>2. SixtyPeriod = Divisor * F
  BY <1>1, LoopAssumption DEF SixtyPeriod, FivePeriod, Aligned
<1> HIDE DEF F
<1>3. Divisor * F = (Divisor - 2) * F + 2 * F /\ (Divisor - 2) * F \in Nat
  BY <1>1
<1> QED
  BY <1>1, <1>2, <1>3 DEF F

LEMMA InTimeStep ==
    ASSUME Unhurried, Aligned, Divisor >= 2,
           IInv, TInv, InTime, OnSlot, TypeOK', [Next]_vars
    PROVE  InTime'
<1> USE Unhurried, InTime
<1>0. /\ time \in Int /\ nextFive \in Int /\ nextSixty \in Int /\ nextRun \in Int
      /\ time' \in Int /\ sleep \in Int /\ steps \in Nat
      /\ FivePeriod \in Nat \ {0} /\ SixtyPeriod \in Nat /\ SixtyPeriod >= 2 * FivePeriod
  BY TwoPeriods DEF IInv, TypeOK
<1>a. ReadsOnTime
  BY DEF InTime, ReadsOnTime
<1>1. CASE StartIteration
  <2>1. /\ pc = "top" /\ pc' = "peak" /\ UNCHANGED <<time, nextFive, nextSixty>>
    BY <1>1 DEF StartIteration, sched
  <2>2. ~fiveDue' => time < nextFive
    <3>1. ~fiveDue' => ~(time >= nextFive)
      BY <1>1, Zenon DEF StartIteration, SlotDue
    <3>2. ~(time >= nextFive) => time < nextFive
      BY <1>0
    <3> QED BY <3>1, <3>2, Zenon
  <2> QED
    BY <2>1, <2>2 DEF InTime
<1>2. CASE GatherPeak
  <2>1. /\ pc = "peak" /\ time' \in time .. time + MaxPeak /\ pc' = AfterPeak
        /\ UNCHANGED <<nextFive, nextSixty, sixtyDue, fiveDue>>
    BY <1>2 DEF GatherPeak, Gather, sched
  <2>2. sixtyDue => fiveDue /\ nextFive = nextSixty
    BY <1>a, <2>1, SixtyOnSlot DEF TInv, SixtyOnlyWithFive
  <2>3. CASE fiveDue
    BY <1>0, <2>1, <2>2, <2>3, BoundsTyped DEF InTime, AfterPeak
  <2>4. CASE ~fiveDue
    <3>1. pc' = "end" /\ time < nextFive
      BY <2>1, <2>2, <2>4 DEF AfterPeak, InTime
    <3>2. MaxPeak <= Overrun
      BY BoundsTyped DEF Overrun
    <3> QED
      BY <1>0, <2>1, <3>1, <3>2, BoundsTyped DEF InTime, Unhurried
  <2> QED
    BY <2>3, <2>4
<1>3. CASE GatherFive
  <2>1. /\ pc = "five" /\ time' \in time .. time + MaxFive /\ pc' = AfterFive
        /\ nextFive' = nextFive + FivePeriod /\ UNCHANGED <<nextSixty, sixtyDue>>
    BY <1>3 DEF GatherFive, Gather, NextSlot
  <2>2. CASE sixtyDue
    BY <1>0, <2>1, <2>2, BoundsTyped DEF InTime, OnSlot, AfterFive, Overrun
  <2>3. CASE ~sixtyDue
    BY <1>0, <2>1, <2>3, BoundsTyped DEF InTime, AfterFive, Overrun, Unhurried
  <2> QED
    BY <2>2, <2>3
<1>4. CASE GatherSixty
  <2>1. /\ pc = "sixty" /\ time' \in time .. time + MaxSixty /\ pc' = "end"
        /\ nextSixty' = nextSixty + SixtyPeriod /\ nextFive' = nextFive
    BY <1>4 DEF GatherSixty, Gather, NextSlot
  <2>2. nextFive = nextSixty + FivePeriod
    BY <2>1 DEF OnSlot
  <2> QED
    BY <1>0, <2>1, <2>2, BoundsTyped DEF InTime, Unhurried
<1>5. CASE EndIteration
  <2>1. /\ pc = "end" /\ pc' = "wait" /\ sleep' = nextRun' - time
        /\ UNCHANGED <<time, nextFive, nextSixty>>
    BY <1>5 DEF EndIteration
  <2> QED
    BY <2>1 DEF InTime
<1>6. CASE WaitZero
  <2>1. pc = "wait" /\ pc' = "top" /\ UNCHANGED <<time, nextFive, nextSixty>>
    BY <1>6 DEF WaitZero, sched
  <2> QED
    BY <2>1 DEF InTime
<1>7. CASE WaitTimeout \/ WaitKilled
  <2>1. /\ pc = "wait" /\ pc' \in {"top", "stopped"}
        /\ time' <= time + sleep + MaxLate
        /\ UNCHANGED <<nextFive, nextSixty>>
    BY <1>0, <1>7, BoundsTyped DEF WaitTimeout, WaitKilled, TimedOut, WaitResult, sched
  <2>2. time + sleep = nextRun /\ nextRun <= nextFive
    BY <1>0, <2>1 DEF InTime, IInv, Phase
  <2> QED
    BY <1>0, <2>1, <2>2, BoundsTyped DEF InTime, Unhurried
<1>8. CASE Kill
  <2>1. UNCHANGED <<pc, time, nextRun, nextFive, nextSixty, fiveDue, sixtyDue, sleep>>
    BY <1>8 DEF Kill, sched
  <2> QED
    BY <2>1 DEF InTime
<1>9. CASE StepClock
  BY <1>0, <1>9 DEF StepClock, Unhurried
<1>10. CASE UNCHANGED vars
  BY <1>10 DEF vars, InTime
<1> QED
  BY <1>1, <1>2, <1>3, <1>4, <1>5, <1>6, <1>7, <1>8, <1>9, <1>10 DEF Next, Loop, WaitFor, Stopped

-----------------------------------------------------------------------------
(***************************************************************************)
(* The accounts of a minute: what was added up for a core is at most one   *)
(* for each slot read since the last minute's, and what failed reads kept  *)
(* from earlier minutes; for a busy core it is exactly that, once a minute *)
(* was published and when nothing failed.                                  *)
(***************************************************************************)
LastFive == IF pc = "five" THEN nextFive ELSE nextFive - FivePeriod
LastSixty == IF pc \in {"five", "sixty"} /\ sixtyDue THEN nextSixty ELSE nextSixty - SixtyPeriod
SoFar(c) == IF c \in DOMAIN usages THEN usages[c] ELSE 0

CoreTyped ==
    /\ DOMAIN stats \subseteq Cores /\ DOMAIN usages \subseteq Cores
    /\ \A c \in DOMAIN stats : stats[c] \in Int
    /\ \A c \in DOMAIN usages : usages[c] \in Nat
    /\ gaugeMax \in Nat /\ minutes \in Nat /\ failures \in Nat

Accounts ==
    \A c \in Cores : SoFar(c) * FivePeriod <= LastFive - LastSixty + failures * SixtyPeriod
ReadBefore == \A c \in DOMAIN stats : stats[c] < LastFive + FivePeriod
BusyExactly ==
    failures = 0 /\ minutes > 0 =>
        \A c \in Busy : c \in DOMAIN stats /\ SoFar(c) * FivePeriod = LastFive - LastSixty

CoreInv ==
    /\ CoreTyped /\ Accounts /\ ReadBefore /\ BusyExactly
    /\ BoundedByFailures /\ SteadyMinute

LEMMA Cancel ==
    ASSUME NEW P \in Nat \ {0}, NEW a \in Int, NEW b \in Int
    PROVE  (a * P <= b * P => a <= b) /\ (a * P = b * P => a = b)
<1>1. ASSUME NEW x \in Int, NEW y \in Int, x < y PROVE x * P < y * P
  <2>1. y = x + (y - x) /\ y - x \in Nat \ {0}
    BY <1>1
  <2>2. (y - x) * P = (y - x - 1) * P + P /\ (y - x - 1) * P \in Nat
    BY <2>1
  <2>3. y * P = x * P + (y - x) * P
    BY <2>1
  <2> QED
    BY <2>2, <2>3
<1>2. a * P \in Int /\ b * P \in Int
  OBVIOUS
<1>3. b < a => b * P < a * P
  BY <1>1
<1>4. a < b => a * P < b * P
  BY <1>1
<1> QED
  BY <1>2, <1>3, <1>4

LEMMA LargestOf ==
    ASSUME NEW sum, IsFiniteSet(DOMAIN sum), DOMAIN sum # {},
           \A c \in DOMAIN sum : sum[c] \in Nat
    PROVE  /\ \E c \in DOMAIN sum : Largest(sum) = sum[c]
           /\ \A c \in DOMAIN sum : sum[c] <= Largest(sum)
<1> DEFINE S == {sum[c] : c \in DOMAIN sum}
<1>1. IsFiniteSet(S)
  <2> DEFINE g == [c \in DOMAIN sum |-> sum[c]]
  <2>1. g \in Surjection(DOMAIN sum, S)
    BY DEF Surjection
  <2> HIDE DEF g, S
  <2> QED
    BY <2>1, FS_Surjection
<1>2. S # {} /\ S \in SUBSET Int
  OBVIOUS
<1>3. \E m \in S : \A n \in S : n <= m
  BY <1>1, <1>2, HasLargest
<1>4. \E m \in S : \A c \in DOMAIN sum : sum[c] <= m
  BY <1>3
<1> QED
  BY <1>4 DEF Largest

\* What a read makes of the two maps.
LEMMA ReadAddsUp ==
    ASSUME CoreTyped, time \in Int, NEW read \in SUBSET Cores
    PROVE  /\ DOMAIN Stats(read) = DOMAIN stats \cup read
           /\ \A c \in DOMAIN Stats(read) :
                 Stats(read)[c] = IF c \in read THEN time ELSE stats[c]
           /\ DOMAIN Sum(read) = DOMAIN usages \cup (read \cap DOMAIN stats)
           /\ \A c \in DOMAIN Sum(read) :
                 /\ Sum(read)[c] \in Nat
                 /\ Sum(read)[c] <= SoFar(c) + 1
                 /\ c \in Busy \cap read \cap DOMAIN stats /\ time > stats[c]
                       => Sum(read)[c] = SoFar(c) + 1
<1>1. \A c \in DOMAIN usages \cup (read \cap DOMAIN stats) :
        Sum(read)[c] = IF c \in read \cap DOMAIN stats THEN SoFar(c) + Usage(c) ELSE SoFar(c)
  BY DEF Sum, SoFar
<1>2. DOMAIN Sum(read) = DOMAIN usages \cup (read \cap DOMAIN stats)
  BY DEF Sum
<1>3. \A c : SoFar(c) \in Nat /\ Usage(c) \in {0, 1}
  BY DEF SoFar, Usage, CoreTyped
<1>4. \A c \in Busy : time > stats[c] => Usage(c) = 1
  BY DEF Usage
<1> QED
  BY <1>1, <1>2, <1>3, <1>4 DEF Stats

\* The slots read so far move with the read of an iteration, not with the
\* loop's own accounts of them.
LEMMA SlotsRead ==
    ASSUME TInv, OnSlot, TypeOK', [Next]_vars
    PROVE  /\ ~(GatherPeak /\ fiveDue) => UNCHANGED <<LastFive, LastSixty>>
           /\ GatherPeak /\ fiveDue =>
                 /\ LastFive' = LastFive + FivePeriod /\ LastFive' = nextFive
                 /\ LastSixty = nextSixty - SixtyPeriod
                 /\ LastSixty' = IF sixtyDue THEN nextSixty ELSE LastSixty
<1>0. /\ nextFive \in Int /\ nextSixty \in Int
      /\ FivePeriod \in Int /\ SixtyPeriod \in Int
  BY Periods DEF TInv, TypeOK
<1>1. CASE StartIteration
  BY <1>1 DEF StartIteration, GatherPeak, sched, LastFive, LastSixty
<1>2. CASE GatherPeak
  <2>1. /\ pc = "peak" /\ pc' = AfterPeak
        /\ UNCHANGED <<nextFive, nextSixty, sixtyDue, fiveDue>>
    BY <1>2 DEF GatherPeak, sched
  <2>2. sixtyDue => fiveDue
    BY <2>1 DEF TInv, SixtyOnlyWithFive
  <2> QED
    BY <1>0, <1>2, <2>1, <2>2 DEF AfterPeak, LastFive, LastSixty
<1>3. CASE GatherFive
  BY <1>0, <1>3 DEF GatherFive, GatherPeak, AfterFive, NextSlot, LastFive, LastSixty
<1>4. CASE GatherSixty
  <2>1. sixtyDue
    BY <1>4 DEF GatherSixty, TInv, TypeOK
  <2> QED
    BY <1>0, <1>4, <2>1 DEF GatherSixty, GatherPeak, NextSlot, LastFive, LastSixty
<1>5. CASE EndIteration
  BY <1>5 DEF EndIteration, GatherPeak, LastFive, LastSixty
<1>6. CASE WaitFor
  BY <1>6 DEF WaitFor, WaitZero, WaitTimeout, WaitKilled, WaitResult, GatherPeak, sched,
              LastFive, LastSixty
<1>7. CASE Kill \/ StepClock
  BY <1>7, <1>2 DEF Kill, StepClock, sched, LastFive, LastSixty
<1>8. CASE UNCHANGED vars
  BY <1>8, <1>2 DEF vars, LastFive, LastSixty
<1> QED
  BY <1>1, <1>2, <1>3, <1>4, <1>5, <1>6, <1>7, <1>8 DEF Next, Loop, Stopped

\* What an iteration with the five-second metrics finds.
LEMMA ReadFinds ==
    ASSUME Aligned, IInv, TInv, OnSlot, ReadsOnTime, TypeOK', CoreInv,
           GatherPeak, fiveDue
    PROVE  /\ {time, LastFive, LastSixty, LastFive', LastSixty'} \subseteq Int
           /\ FivePeriod \in Nat \ {0} /\ SixtyPeriod \in Nat
           /\ SixtyPeriod = Divisor * FivePeriod /\ Divisor \in Nat \ {0}
           /\ LastFive' = LastFive + FivePeriod
           /\ time < LastFive' + FivePeriod
           /\ \A c \in DOMAIN stats : stats[c] < time
           /\ ~sixtyDue => LastSixty' = LastSixty
           /\ sixtyDue => LastSixty' = LastFive' /\ LastSixty' = LastSixty + SixtyPeriod
           /\ \A c \in Cores : (SoFar(c) + 1) * FivePeriod <=
                 LastFive' - LastSixty + failures * SixtyPeriod
<1>1. FivePeriod \in Nat \ {0} /\ SixtyPeriod \in Nat /\ Divisor \in Nat \ {0}
  BY Periods, CoreAssumption
<1>2. SixtyPeriod = Divisor * FivePeriod
  BY <1>1, LoopAssumption DEF SixtyPeriod, FivePeriod, Aligned
<1>3. {time, nextFive, nextSixty} \subseteq Int
  BY DEF IInv, TypeOK
<1>4. {LastFive, LastSixty} \subseteq Int
  BY <1>1, <1>3 DEF LastFive, LastSixty
<1>5. /\ LastFive' = LastFive + FivePeriod /\ LastFive' = nextFive
      /\ LastSixty = nextSixty - SixtyPeriod
      /\ LastSixty' = IF sixtyDue THEN nextSixty ELSE LastSixty
  BY SlotsRead DEF Next, Loop
<1>6. pc = "peak"
  BY DEF GatherPeak
<1>7. nextFive <= time /\ time < nextFive + FivePeriod
  BY <1>6 DEF IInv, Phase, Pending, ReadsOnTime
<1>8. sixtyDue => nextFive = nextSixty
  BY <1>6, SixtyOnSlot
<1>9. \A c \in DOMAIN stats : stats[c] < time
  BY <1>1, <1>3, <1>4, <1>5, <1>7 DEF CoreInv, ReadBefore, CoreTyped
<1>10. ASSUME NEW c \in Cores
       PROVE  (SoFar(c) + 1) * FivePeriod <= LastFive' - LastSixty + failures * SixtyPeriod
  <2>1. SoFar(c) \in Nat /\ failures * SixtyPeriod \in Nat
    BY <1>1 DEF CoreInv, CoreTyped, SoFar
  <2>2. (SoFar(c) + 1) * FivePeriod = SoFar(c) * FivePeriod + FivePeriod
        /\ SoFar(c) * FivePeriod \in Nat
    BY <1>1, <2>1
  <2>3. SoFar(c) * FivePeriod <= LastFive - LastSixty + failures * SixtyPeriod
    BY <1>10 DEF CoreInv, Accounts
  <2> QED
    BY <1>1, <1>4, <1>5, <2>1, <2>2, <2>3
<1> QED
  BY <1>1, <1>2, <1>3, <1>4, <1>5, <1>7, <1>8, <1>9, <1>10

\* A read that fails, before it read anything or in the middle.
LEMMA FailedRead ==
    ASSUME Aligned, IInv, TInv, OnSlot, ReadsOnTime, TypeOK', CoreInv,
           GatherPeak, fiveDue, Fails, UNCHANGED <<gaugeMax, minutes>>, CoreTyped',
           \A c \in DOMAIN stats' : stats'[c] = time \/ (c \in DOMAIN stats /\ stats'[c] = stats[c]),
           \A c \in Cores : SoFar(c)' <= SoFar(c) + 1
    PROVE  CoreInv'
<1> DEFINE F == FivePeriod
           S == SixtyPeriod
           f == failures
<1>1. /\ {time, LastFive, LastSixty, LastFive', LastSixty'} \subseteq Int
      /\ F \in Nat \ {0} /\ S \in Nat /\ Divisor \in Nat \ {0}
      /\ LastFive' = LastFive + F
      /\ time < LastFive' + F
      /\ LastSixty' \in {LastSixty, LastSixty + S}
      /\ \A c \in Cores : (SoFar(c) + 1) * F <= LastFive' - LastSixty + f * S
      /\ \A c \in DOMAIN stats : stats[c] < time
  BY ReadFinds
<1>2. f \in Nat /\ failures' = f + 1 /\ f * S \in Nat /\ failures' * S = f * S + S
  BY <1>1 DEF Fails, CoreInv, CoreTyped
<1>3. Accounts'
  <2>1. ASSUME NEW c \in Cores
        PROVE  SoFar(c)' * F <= LastFive' - LastSixty' + failures' * S
    <3>1. SoFar(c) \in Nat /\ SoFar(c)' \in Nat
      BY DEF CoreInv, CoreTyped, SoFar
    <3> DEFINE a == SoFar(c)'
               b == SoFar(c) + 1
    <3>2. a \in Nat /\ b \in Nat /\ a <= b
      BY <2>1, <3>1
    <3> HIDE DEF a, b
    <3>3. a * F <= b * F
      <4>1. b = a + (b - a) /\ (b - a) * F \in Nat /\ b * F = a * F + (b - a) * F
        BY <1>1, <3>2
      <4> QED
        BY <1>1, <3>2, <4>1
    <3>4. a * F \in Nat /\ b * F \in Nat
      BY <1>1, <3>2
    <3>5. b * F <= LastFive' - LastSixty + f * S
      BY <1>1 DEF b
    <3>6. a * F <= LastFive' - LastSixty' + failures' * S
      BY <1>1, <1>2, <3>3, <3>4, <3>5
    <3> QED
      BY <3>6 DEF a
  <2> QED
    BY <2>1 DEF Accounts, FivePeriod, SixtyPeriod
<1>4. ReadBefore'
  <2>1. \A c \in DOMAIN stats' : stats'[c] <= time
    BY <1>1 DEF CoreInv, CoreTyped
  <2>2. \A c \in DOMAIN stats' : stats'[c] \in Int
    BY DEF CoreTyped
  <2> QED
    BY <1>1, <2>1, <2>2 DEF ReadBefore, FivePeriod
<1>5. BusyExactly' /\ SteadyMinute'
  BY <1>2 DEF BusyExactly, SteadyMinute
<1>6. BoundedByFailures'
  <2>1. gaugeMax' \in Nat /\ gaugeMax' <= (f + 1) * Divisor
    BY DEF CoreInv, CoreTyped, BoundedByFailures
  <2>2. (failures' + 1) * Divisor = (f + 1) * Divisor + Divisor /\ (f + 1) * Divisor \in Nat
    BY <1>1, <1>2
  <2> QED
    BY <1>1, <2>1, <2>2 DEF BoundedByFailures
<1> QED
  BY <1>3, <1>4, <1>5, <1>6 DEF CoreInv

\* A read of every core that is online.
LEMMA GoodRead ==
    ASSUME Aligned, IInv, TInv, OnSlot, ReadsOnTime, TypeOK', CoreInv,
           GatherPeak, fiveDue, UNCHANGED failures,
           NEW read \in SUBSET Cores, Busy \subseteq read, stats' = Stats(read), Publish(Sum(read))
    PROVE  CoreInv'
<1> DEFINE F == FivePeriod
           S == SixtyPeriod
           D == Divisor
           f == failures
           sum == Sum(read)
<1>1. /\ {time, LastFive, LastSixty, LastFive', LastSixty'} \subseteq Int
      /\ F \in Nat \ {0} /\ S \in Nat /\ S = D * F /\ D \in Nat \ {0}
      /\ LastFive' = LastFive + F
      /\ time < LastFive' + F
      /\ \A c \in DOMAIN stats : stats[c] < time
      /\ ~sixtyDue => LastSixty' = LastSixty
      /\ sixtyDue => LastSixty' = LastFive' /\ LastSixty' = LastSixty + S
      /\ \A c \in Cores : (SoFar(c) + 1) * F <= LastFive' - LastSixty + f * S
  BY ReadFinds
<1>2. /\ f \in Nat /\ failures' = f /\ f * S \in Nat
      /\ gaugeMax \in Nat /\ minutes \in Nat
      /\ DOMAIN stats \subseteq Cores /\ DOMAIN usages \subseteq Cores
      /\ Busy # {} /\ Busy \subseteq Cores /\ IsFiniteSet(Cores)
  BY <1>1, CoreAssumption DEF CoreInv, CoreTyped, CoreAssumption
<1>3. \A c \in Cores : SoFar(c) \in Nat
  BY DEF CoreInv, CoreTyped, SoFar
<1>4. /\ DOMAIN stats' = DOMAIN stats \cup read
      /\ \A c \in DOMAIN stats' : stats'[c] = IF c \in read THEN time ELSE stats[c]
      /\ DOMAIN sum = DOMAIN usages \cup (read \cap DOMAIN stats)
      /\ \A c \in DOMAIN sum : sum[c] \in Nat /\ sum[c] <= SoFar(c) + 1
      /\ \A c \in Busy \cap DOMAIN stats : c \in DOMAIN sum /\ sum[c] = SoFar(c) + 1
  BY <1>1, ReadAddsUp DEF CoreInv
<1>5. DOMAIN sum \subseteq Cores
  BY <1>2, <1>4
<1>6. ASSUME NEW n \in Nat, NEW c \in Cores, n <= SoFar(c) + 1
      PROVE  n * F <= LastFive' - LastSixty + f * S
  <2> DEFINE b == SoFar(c) + 1
  <2>1. b \in Nat /\ n <= b /\ b * F <= LastFive' - LastSixty + f * S
    BY <1>1, <1>3, <1>6
  <2> HIDE DEF b
  <2>2. b = n + (b - n) /\ (b - n) * F \in Nat /\ b * F = n * F + (b - n) * F
    BY <1>1, <2>1
  <2>3. n * F \in Nat /\ b * F \in Nat
    BY <1>1, <2>1
  <2> QED
    BY <1>1, <1>2, <2>1, <2>2, <2>3
<1>7. ReadBefore'
  <2>1. \A c \in DOMAIN stats' : stats'[c] \in Int /\ stats'[c] <= time
    BY <1>1, <1>4 DEF CoreInv, CoreTyped
  <2> QED
    BY <1>1, <2>1 DEF ReadBefore, FivePeriod
<1>8. \A c \in Busy : c \in DOMAIN stats'
  BY <1>4
<1>9. /\ DOMAIN stats' \subseteq Cores
      /\ \A c \in DOMAIN stats' : stats'[c] \in Int
  BY <1>1, <1>2, <1>4 DEF CoreInv, CoreTyped
<1>10. ASSUME f = 0, minutes > 0, NEW c \in Busy
       PROVE  c \in DOMAIN sum /\ sum[c] \in Nat /\ sum[c] * F = LastFive' - LastSixty
  <2>1. c \in DOMAIN stats /\ SoFar(c) * F = LastFive - LastSixty
    BY <1>10 DEF CoreInv, BusyExactly
  <2>2. c \in DOMAIN sum /\ sum[c] = SoFar(c) + 1 /\ SoFar(c) \in Nat
    BY <1>2, <1>3, <1>4, <2>1
  <2>3. (SoFar(c) + 1) * F = SoFar(c) * F + F
    BY <1>1, <2>2
  <2> QED
    BY <1>1, <2>1, <2>2, <2>3
<1>11. CASE sixtyDue /\ DOMAIN sum # {}
  <2>1. gaugeMax' = Largest(sum) /\ minutes' = minutes + 1 /\ usages' = <<>>
    BY <1>11 DEF Publish
  <2>2. IsFiniteSet(DOMAIN sum)
    BY <1>2, <1>5, FS_Subset
  <2>3. /\ \E c \in DOMAIN sum : Largest(sum) = sum[c]
        /\ \A c \in DOMAIN sum : sum[c] <= Largest(sum)
    <3> HIDE DEF sum
    <3> QED
      BY <1>4, <1>11, <2>2, LargestOf
  <2>4. DOMAIN usages' = {}
    BY <2>1
  <2>5. CoreTyped'
    BY <1>2, <1>4, <1>9, <2>1, <2>3, <2>4 DEF CoreTyped
  <2>6. \A c : SoFar(c)' = 0
    BY <2>4 DEF SoFar
  <2>7. Accounts' /\ BusyExactly'
    <3>1. 0 * F = 0 /\ LastFive' - LastSixty' = 0 /\ failures' * S \in Nat
      BY <1>1, <1>2, <1>11
    <3>2. Accounts'
      BY <2>6, <3>1 DEF Accounts, FivePeriod, SixtyPeriod
    <3>3. BusyExactly'
      BY <1>8, <2>6, <3>1 DEF BusyExactly, FivePeriod
    <3> QED
      BY <3>2, <3>3
  <2>8. \A c \in DOMAIN sum : sum[c] <= (f + 1) * D
    <3>1. SUFFICES ASSUME NEW c \in DOMAIN sum PROVE sum[c] <= (f + 1) * D
      OBVIOUS
    <3>2. sum[c] * F <= S + f * S
      BY <1>1, <1>2, <1>4, <1>5, <1>6, <1>11
    <3>3. S + f * S = ((f + 1) * D) * F /\ (f + 1) * D \in Int
      <4>1. S + f * S = (f + 1) * (D * F)
        BY <1>1, <1>2
      <4>2. (f + 1) * (D * F) = ((f + 1) * D) * F
        BY <1>1, <1>2
      <4> QED
        BY <1>1, <1>2, <4>1, <4>2
    <3> DEFINE a == sum[c]
               b == (f + 1) * D
    <3>4. a \in Int /\ b \in Int /\ a * F <= b * F
      BY <1>4, <3>2, <3>3
    <3> HIDE DEF a, b
    <3>5. a <= b
      BY <1>1, <3>4, Cancel
    <3> QED
      BY <3>5 DEF a, b
  <2>9. gaugeMax' <= (f + 1) * D
    BY <2>1, <2>3, <2>8
  <2>10. SteadyMinute'
    <3>1. SUFFICES ASSUME minutes > 0, f = 0 PROVE gaugeMax' = D
      BY <1>2, <2>1 DEF SteadyMinute
    <3>2. PICK c \in Busy : TRUE
      BY <1>2
    <3>3. c \in DOMAIN sum /\ sum[c] \in Nat /\ sum[c] * F = D * F
      BY <1>1, <1>10, <1>11, <3>1
    <3>4. sum[c] = D
      <4> DEFINE a == sum[c]
                 P == FivePeriod
                 b == Divisor
      <4>1. a \in Int /\ b \in Int /\ P \in Nat \ {0} /\ a * P = b * P
        BY <1>1, <3>3
      <4> HIDE DEF a, b, P
      <4>2. a = b
        BY <4>1, Cancel
      <4> QED
        BY <4>2 DEF a, b
    <3>5. gaugeMax' \in Nat /\ D <= gaugeMax'
      BY <2>1, <2>3, <2>5, <3>3, <3>4 DEF CoreTyped
    <3>6. (f + 1) * D = D
      BY <1>1, <3>1
    <3> QED
      BY <1>1, <2>9, <3>5, <3>6
  <2> QED
    BY <1>2, <1>7, <2>5, <2>7, <2>9, <2>10 DEF CoreInv, BoundedByFailures
<1>12. CASE ~(sixtyDue /\ DOMAIN sum # {})
  <2>1. usages' = sum /\ gaugeMax' = gaugeMax /\ minutes' = minutes
    BY <1>12 DEF Publish
  <2>2. CoreTyped'
    BY <1>2, <1>4, <1>5, <1>9, <2>1 DEF CoreTyped
  <2>3. BoundedByFailures' /\ SteadyMinute'
    BY <1>2, <2>1 DEF CoreInv, BoundedByFailures, SteadyMinute
  <2>4. \A c : SoFar(c)' = IF c \in DOMAIN sum THEN sum[c] ELSE 0
    BY <2>1 DEF SoFar
  <2>5. CASE sixtyDue
    <3>1. \A c : SoFar(c)' = 0
      BY <1>12, <2>4, <2>5
    <3>2. 0 * F = 0 /\ LastFive' - LastSixty' = 0 /\ failures' * S \in Nat
      BY <1>1, <1>2, <2>5
    <3>3. Accounts'
      BY <3>1, <3>2 DEF Accounts, FivePeriod, SixtyPeriod
    <3>4. BusyExactly'
      BY <1>8, <3>1, <3>2 DEF BusyExactly, FivePeriod
    <3> QED
      BY <1>7, <2>2, <2>3, <3>3, <3>4 DEF CoreInv
  <2>6. CASE ~sixtyDue
    <3>1. Accounts'
      <4>1. SUFFICES ASSUME NEW c \in Cores
                     PROVE  SoFar(c)' * F <= LastFive' - LastSixty' + failures' * S
        BY DEF Accounts, FivePeriod, SixtyPeriod
      <4>2. SoFar(c)' \in Nat /\ SoFar(c)' <= SoFar(c) + 1
        BY <1>3, <1>4, <2>4
      <4> DEFINE n == SoFar(c)'
      <4>3. n * F <= LastFive' - LastSixty + f * S
        <5>1. n \in Nat /\ n <= SoFar(c) + 1
          BY <4>2
        <5> HIDE DEF n
        <5> QED
          BY <1>6, <5>1
      <4> QED
        BY <1>1, <1>2, <2>6, <4>3
    <3>2. BusyExactly'
      <4>1. SUFFICES ASSUME f = 0, minutes > 0, NEW c \in Busy
                     PROVE  c \in DOMAIN stats' /\ SoFar(c)' * F = LastFive' - LastSixty'
        BY <1>2, <2>1 DEF BusyExactly, FivePeriod
      <4>2. c \in DOMAIN sum /\ sum[c] * F = LastFive' - LastSixty
        BY <1>10, <4>1
      <4> QED
        BY <1>1, <1>8, <2>4, <2>6, <4>2
    <3> QED
      BY <1>7, <2>2, <2>3, <3>1, <3>2 DEF CoreInv
  <2> QED
    BY <2>5, <2>6
<1> QED
  BY <1>11, <1>12

LEMMA CoreStep ==
    ASSUME Aligned, IInv, TInv, OnSlot, ReadsOnTime, TypeOK', CoreInv,
           [CoreNext]_<<vars, core>>
    PROVE  CoreInv'
<1>1. [Next]_vars
  BY DEF CoreNext, Next, Loop
<1>2. CASE GatherPeak /\ CpuStats /\ fiveDue
  <2>1. CASE UpdateCoreUtilization
    <3>1. UNCHANGED failures
      BY <2>1 DEF UpdateCoreUtilization
    <3>2. PICK read \in SUBSET Cores :
             Busy \subseteq read /\ stats' = Stats(read) /\ Publish(Sum(read))
      BY <2>1, Zenon DEF UpdateCoreUtilization
    <3> QED
      BY <1>2, <3>1, <3>2, GoodRead
  <2>2. CASE Unreadable
    <3>1. Fails /\ UNCHANGED <<stats, usages, gaugeMax, minutes>>
      BY <2>2 DEF Unreadable
    <3>2. CoreTyped'
      BY <3>1 DEF CoreTyped, CoreInv, Fails
    <3>3. \A c : SoFar(c)' = SoFar(c) /\ SoFar(c) \in Nat
      BY <3>1 DEF SoFar, CoreInv, CoreTyped
    <3> QED
      BY <1>2, <3>1, <3>2, <3>3, FailedRead
  <2>3. CASE Throws
    <3>1. Fails /\ UNCHANGED <<gaugeMax, minutes>>
      BY <2>3 DEF Throws
    <3>2. PICK read \in SUBSET Cores : stats' = Stats(read) /\ usages' = Sum(read)
      BY <2>3, Zenon DEF Throws
    <3>3. CoreTyped /\ time \in Int
      BY DEF CoreInv, IInv, TypeOK
    <3>4. /\ DOMAIN stats' = DOMAIN stats \cup read
          /\ \A c \in DOMAIN stats' : stats'[c] = IF c \in read THEN time ELSE stats[c]
          /\ DOMAIN usages' = DOMAIN usages \cup (read \cap DOMAIN stats)
          /\ \A c \in DOMAIN usages' : usages'[c] \in Nat /\ usages'[c] <= SoFar(c) + 1
      BY <3>2, <3>3, ReadAddsUp
    <3>5. CoreTyped'
      BY <3>1, <3>3, <3>4 DEF CoreTyped, Fails
    <3>6. \A c : SoFar(c) \in Nat
      BY <3>3 DEF SoFar, CoreTyped
    <3>7. \A c \in Cores : SoFar(c)' <= SoFar(c) + 1
      BY <3>4, <3>6 DEF SoFar
    <3>8. \A c \in DOMAIN stats' :
             stats'[c] = time \/ (c \in DOMAIN stats /\ stats'[c] = stats[c])
      BY <3>4
    <3> QED
      BY <1>2, <3>1, <3>5, <3>7, <3>8, FailedRead
  <2> QED
    BY <1>2, <2>1, <2>2, <2>3 DEF CpuStats, NotDue
<1>3. CASE ~(GatherPeak /\ CpuStats /\ fiveDue)
  <2>1. UNCHANGED core
    BY <1>3 DEF CoreNext, CpuStats, NotDue, UpdateCoreUtilization, Unreadable, Throws
  <2>2. ~(GatherPeak /\ fiveDue)
    BY <1>3 DEF CoreNext, CpuStats, NotDue, core, GatherPeak, StartIteration, GatherFive,
                GatherSixty, EndIteration, WaitFor, WaitZero, WaitTimeout, WaitKilled,
                Kill, StepClock, Stopped, vars, AfterPeak, WithinHorizon
  <2>3. UNCHANGED <<LastFive, LastSixty>>
    BY <1>1, <2>2, SlotsRead
  <2>4. \A c : SoFar(c)' = SoFar(c)
    BY <2>1 DEF core, SoFar
  <2> QED
    BY <2>1, <2>3, <2>4
    DEF core, CoreInv, CoreTyped, Accounts, ReadBefore, BusyExactly, BoundedByFailures,
        SteadyMinute, FivePeriod, SixtyPeriod
<1> QED
  BY <1>2, <1>3

LEMMA CoreStarts == CoreInit => OnSlot /\ InTime /\ CoreInv
<1> SUFFICES ASSUME CoreInit PROVE OnSlot /\ InTime /\ CoreInv
  OBVIOUS
<1>1. FivePeriod \in Nat \ {0} /\ SixtyPeriod \in Nat
  BY Periods
<1>2. OnSlot /\ InTime
  BY <1>1, BoundsTyped DEF CoreInit, Init, OnSlot, InTime
<1>3. DOMAIN stats = {} /\ DOMAIN usages = {}
  BY DEF CoreInit
<1>4. gaugeMax = 0 /\ minutes = 0 /\ failures = 0
  BY DEF CoreInit
<1>5. LastFive = 0 /\ LastSixty = 0
  BY <1>1 DEF CoreInit, Init, LastFive, LastSixty
<1>6. CoreTyped /\ ReadBefore /\ BusyExactly /\ SteadyMinute
  BY <1>3, <1>4 DEF CoreTyped, ReadBefore, BusyExactly, SteadyMinute
<1>7. Accounts
  <2>1. 0 * FivePeriod = 0 /\ 0 * SixtyPeriod = 0
    BY <1>1
  <2> QED
    BY <1>3, <1>4, <1>5, <2>1 DEF Accounts, SoFar
<1>8. BoundedByFailures
  BY <1>4, CoreAssumption DEF BoundedByFailures
<1> QED
  BY <1>2, <1>6, <1>7, <1>8 DEF CoreInv

LEMMA CoreIsLoop == CoreSpec => Spec
<1>1. CoreInit => Init
  BY DEF CoreInit
<1>2. [CoreNext]_<<vars, core>> => [Next]_vars
  BY DEF CoreNext, Next, Loop
<1> QED
  BY <1>1, <1>2, PTL DEF CoreSpec, Spec

LEMMA AlignedTogether == ASSUME Aligned PROVE Spec => []TInv
<1>1. Divisor \in Nat \ {0} /\ SixtySeconds = Divisor * FiveSeconds
  BY CoreAssumption DEF Aligned
<1>2. Init => SixtyOnlyWithFive /\ Together
  BY <1>1, InitTogether
<1>3. TypeOK /\ TypeOK' /\ SixtyOnlyWithFive /\ Together /\ [Next]_vars
        => SixtyOnlyWithFive' /\ Together'
  BY <1>1, TogetherStep DEF TInv
<1> QED
  BY <1>2, <1>3, LoopTyped, PTL DEF Spec, TInv

(* Where every five-second slot is read before the next one is due, the    *)
(* gauge of a machine with a busy core is at 100% from the second minute   *)
(* on when no read failed, and otherwise above it by no more than a minute *)
(* for each read that did (proc.cpp:637-638 and 686).                      *)
THEOREM MinuteAddsUp ==
    ASSUME Aligned, ClockSteps \subseteq Nat
    PROVE  CoreSpec /\ []ReadsOnTime => [](SteadyMinute /\ BoundedByFailures)
<1>1. IInv /\ TInv /\ OnSlot /\ ReadsOnTime /\ TypeOK' /\ [Next]_vars => OnSlot'
  BY OnSlotStep
<1>2. IInv /\ TInv /\ OnSlot /\ ReadsOnTime /\ TypeOK' /\ CoreInv /\ [CoreNext]_<<vars, core>>
        => CoreInv'
  BY CoreStep
<1>3. CoreInv => SteadyMinute /\ BoundedByFailures
  BY DEF CoreInv
<1>4. [CoreNext]_<<vars, core>> => [Next]_vars
  BY DEF CoreNext, Next, Loop
<1> QED
  BY <1>1, <1>2, <1>3, <1>4, CoreStarts, CoreIsLoop, AlignedTogether, ScheduleInvariant,
     LoopTyped, PTL DEF CoreSpec

(* A loop whose gathers take no longer than a five-second period, and with *)
(* the sixty-second ones not much longer than one, reads every slot before *)
(* the next one is due (lines 103-143).                                    *)
THEOREM SlotsReadOnTime ==
    ASSUME Unhurried, Aligned, Divisor >= 2, ClockSteps \subseteq Nat
    PROVE  CoreSpec => []ReadsOnTime
<1>1. InTime => ReadsOnTime
  BY DEF InTime, ReadsOnTime
<1>2. IInv /\ TInv /\ OnSlot /\ ReadsOnTime /\ TypeOK' /\ [Next]_vars => OnSlot'
  BY OnSlotStep
<1>3. IInv /\ TInv /\ InTime /\ OnSlot /\ TypeOK' /\ [Next]_vars => InTime'
  BY InTimeStep
<1>4. [CoreNext]_<<vars, core>> => [Next]_vars
  BY DEF CoreNext, Next, Loop
<1> QED
  BY <1>1, <1>2, <1>3, <1>4, CoreStarts, CoreIsLoop, AlignedTogether, ScheduleInvariant,
     LoopTyped, PTL DEF CoreSpec

(* Together: in an unhurried loop the busy core's minute is 100%, whatever *)
(* each gather and each wait took.                                         *)
THEOREM BusyCoreAtHundred ==
    ASSUME Unhurried, Aligned, Divisor >= 2, ClockSteps \subseteq Nat
    PROVE  CoreSpec => []SteadyMinute
BY MinuteAddsUp, SlotsReadOnTime, PTL

(* ... and each read that fails adds a minute's worth to it at most.       *)
THEOREM FailuresBounded ==
    ASSUME Unhurried, Aligned, Divisor >= 2, ClockSteps \subseteq Nat
    PROVE  CoreSpec => []BoundedByFailures
BY MinuteAddsUp, SlotsReadOnTime, PTL
=============================================================================
