--------------------------- MODULE CoreUtilization --------------------------
(***************************************************************************)
(* The minute's maximum of the core utilization, composed with the loop    *)
(* that drives it: Proc::UpdateCoreUtilization adds up a usage for each    *)
(* core in every iteration with the five-second metrics enabled, and in    *)
(* one with the sixty-second metrics too publishes the largest sum divided *)
(* by Divisor, and starts over.                                            *)
(*                                                                         *)
(* A core is busy all the time or idle all the time, so that a usage is 1  *)
(* (for 100%) or 0, and a busy core should be published as Divisor.        *)
(***************************************************************************)
EXTENDS AgentLoop, FiniteSets

CONSTANTS Cores,       \* the cores that may be online
          Busy,        \* those that are busy, and always online
          Divisor,     \* what the sum is divided by (12 in the code)
          MaxFailures  \* bound: reads of /proc/stat that fail

ASSUME CoreAssumption ==
    /\ IsFiniteSet(Cores)
    /\ Busy \subseteq Cores
    /\ Busy # {}
    /\ Divisor \in Nat \ {0}
    /\ MaxFailures \in Nat

VARIABLES stats,    \* previousCpuStats: when each core was last read
          usages,   \* previousCoreUsages: the sum for each core
          gaugeMax, \* what the gauge was last set to, times Divisor
          minutes,  \* how often it was set, a history variable
          failures  \* reads that failed

core == <<stats, usages, gaugeMax, minutes, failures>>

CoreInit ==
    /\ Init
    /\ stats = <<>>
    /\ usages = <<>>
    /\ gaugeMax = 0
    /\ minutes = 0
    /\ failures = 0

-----------------------------------------------------------------------------
\* The usage of a core since it was last read: none if no time has passed.
Usage(c) == IF c \in Busy /\ time > stats[c] THEN 1 ELSE 0

\* The two maps after the cores of `read`, those seen before counted.
Stats(read) == [c \in DOMAIN stats \cup read |-> IF c \in read THEN time ELSE stats[c]]

Sum(read) ==
    LET counted == read \cap DOMAIN stats
        Before(c) == IF c \in DOMAIN usages THEN usages[c] ELSE 0
    IN  [c \in DOMAIN usages \cup counted |->
            IF c \in counted THEN Before(c) + Usage(c) ELSE Before(c)]

Largest(sum) == CHOOSE n \in {sum[c] : c \in DOMAIN sum} :
                    \A c \in DOMAIN sum : sum[c] <= n

\* The end of UpdateCoreUtilization.
PublishAndKeep(sum) ==
    IF sixtyDue /\ DOMAIN sum # {}
    THEN gaugeMax' = Largest(sum) /\ minutes' = minutes + 1 /\ usages' = sum
    ELSE usages' = sum /\ UNCHANGED <<gaugeMax, minutes>>
Publish(sum) ==
    IF sixtyDue /\ DOMAIN sum # {}
    THEN gaugeMax' = Largest(sum) /\ minutes' = minutes + 1 /\ usages' = <<>>
    ELSE usages' = sum /\ UNCHANGED <<gaugeMax, minutes>>

\* Proc::CpuStats without the five-second metrics ...
NotDue ==
    /\ ~fiveDue
    /\ UNCHANGED core

\* ... and with them.
UpdateCoreUtilization ==
    /\ fiveDue
    /\ \E read \in SUBSET Cores :
          /\ Busy \subseteq read
          /\ stats' = Stats(read)
          /\ Publish(Sum(read))
    /\ UNCHANGED failures

Fails == failures < MaxFailures /\ failures' = failures + 1

\* /proc/stat cannot be read, or a line has too few fields: nothing happens.
Unreadable ==
    /\ fiveDue
    /\ Fails
    /\ UNCHANGED <<stats, usages, gaugeMax, minutes>>

\* A field of some core is not a number: those before it are counted, and the
\* exception ends the function.
Throws ==
    /\ fiveDue
    /\ Fails
    /\ \E read \in (SUBSET Cores) \ {Cores} : stats' = Stats(read) /\ usages' = Sum(read)
    /\ UNCHANGED <<gaugeMax, minutes>>

CpuStats == NotDue \/ UpdateCoreUtilization \/ Unreadable \/ Throws

-----------------------------------------------------------------------------
\* The loop, with CpuStats in its every-second gather.
CoreNext ==
    \/ GatherPeak /\ CpuStats
    \/ /\ \/ StartIteration \/ GatherFive \/ GatherSixty \/ EndIteration
          \/ WaitFor \/ Kill \/ StepClock \/ Stopped
       /\ UNCHANGED core

CoreSpec == CoreInit /\ [][CoreNext]_<<vars, core>>

-----------------------------------------------------------------------------
(***************************************************************************)
(* proc.cpp:686, "Divide the usage by 12 to get average over the minute":  *)
(* from the second minute on, the gauge of a machine with a busy core is   *)
(* at 100%, neither more nor less, when every read succeeds and the loop   *)
(* does not fall a five-second slot behind across a minute's.              *)
(***************************************************************************)
SteadyMinute == minutes > 1 /\ failures = 0 => gaugeMax = Divisor

(***************************************************************************)
(* proc.cpp:637-638, "the maximum average CPU usage across all cores over a*)
(* 60-second window": an average of percentages is not above 100%.         *)
(***************************************************************************)
NeverAboveHundred == gaugeMax <= Divisor

(***************************************************************************)
(* What a failed read can do to the gauge: each one keeps the sums of one  *)
(* minute at most for the next one.                                        *)
(***************************************************************************)
BoundedByFailures == gaugeMax <= (failures + 1) * Divisor
=============================================================================
