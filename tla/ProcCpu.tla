------------------------------ MODULE ProcCpu -------------------------------
(***************************************************************************)
(* The CPU percentages of Proc::CpuStats from the aggregate line of        *)
(* /proc/stat: a peak every second and a utilization every minute, each    *)
(* against a baseline of its own.  The kernel's counters only grow, except *)
(* iowait, which it may correct downward.                                  *)
(*                                                                         *)
(* `busy` stands for the five counters that are published and only grow    *)
(* (user, nice, system, irq and softirq, steal).  A percentage is kept as  *)
(* the pair the code divides; counters are unsigned integers of Width bits.*)
(***************************************************************************)
EXTENDS Integers

CONSTANTS Width,       \* bits of a counter (64 in the code)
          MaxJiffies,  \* bound: jiffies that pass
          MaxReads     \* bound: reads that are not every-second ones

ASSUME CpuAssumption ==
    /\ Width \in Nat \ {0}
    /\ {MaxJiffies, MaxReads, 2 ^ Width} \subseteq Nat
    /\ MaxJiffies < 2 ^ Width

VARIABLES kernel,       \* the counters
          jiffies,      \* how much time they have counted, before corrections
          peakStats,    \* previousAggregateStats of PeakCpuStats
          utilStats,    \* previousAggregateStats of UpdateUtilizationGauges
          peak,         \* peakUtilizationGauges, as last set
          utilization,  \* utilizationGauges, as last set
          slowReads,    \* reads with the sixty-second metrics enabled
          sinceSecond,  \* time counted since the last read, and ...
          lastSecond,   \* ... between the last two, history variables
          sinceMinute,  \* and of the reads with the sixty-second metrics
          lastMinute

cpuHistory == <<sinceSecond, lastSecond, sinceMinute, lastMinute>>
cpuVars == <<kernel, jiffies, peakStats, utilStats, peak, utilization, slowReads, cpuHistory>>

None == [read |-> FALSE]
Unset == [set |-> FALSE]
NoTime == [busy |-> 0, idle |-> 0, iowait |-> 0]

CpuInit ==
    /\ kernel = [read |-> TRUE, busy |-> 0, idle |-> 0, iowait |-> 0]
    /\ jiffies = 0
    /\ peakStats = None
    /\ utilStats = None
    /\ peak = Unset
    /\ utilization = Unset
    /\ slowReads = 0
    /\ sinceSecond = NoTime /\ lastSecond = NoTime
    /\ sinceMinute = NoTime /\ lastMinute = NoTime

-----------------------------------------------------------------------------
\* A jiffy is counted as one of the kinds.
Jiffy ==
    /\ jiffies < MaxJiffies
    /\ jiffies' = jiffies + 1
    /\ \E kind \in {"busy", "idle", "iowait"} :
          /\ kernel' = [kernel EXCEPT ![kind] = @ + 1]
          /\ sinceSecond' = [sinceSecond EXCEPT ![kind] = @ + 1]
          /\ sinceMinute' = [sinceMinute EXCEPT ![kind] = @ + 1]
    /\ UNCHANGED <<peakStats, utilStats, peak, utilization, slowReads, lastSecond, lastMinute>>

\* iowait is non-monotonic on SMP systems.
CorrectIowait ==
    /\ \E less \in 0 .. kernel.iowait - 1 : kernel' = [kernel EXCEPT !.iowait = less]
    /\ UNCHANGED <<jiffies, peakStats, utilStats, peak, utilization, slowReads, cpuHistory>>

-----------------------------------------------------------------------------
Minus(a, b) == (a - b) % 2 ^ Width

DeltaWaitUnclamped(prev, current) == Minus(current.iowait, prev.iowait)
DeltaWait(prev, current) ==
    IF current.iowait > prev.iowait THEN current.iowait - prev.iowait ELSE 0

\* Zeros when no time passed between the two reads.
ComputeGaugeValuesUnguarded(prev, current) ==
    LET busy == Minus(current.busy, prev.busy)
        wait == DeltaWait(prev, current)
    IN  [set |-> TRUE, busy |-> busy, wait |-> wait,
         total |-> (busy + Minus(current.idle, prev.idle) + wait) % 2 ^ Width]
ComputeGaugeValues(prev, current) ==
    LET busy == Minus(current.busy, prev.busy)
        wait == DeltaWait(prev, current)
        total == (busy + Minus(current.idle, prev.idle) + wait) % 2 ^ Width
    IN  IF total > 0
        THEN [set |-> TRUE, busy |-> busy, wait |-> wait, total |-> total]
        ELSE [set |-> TRUE, busy |-> 0, wait |-> 0, total |-> 1]

\* What an update leaves in a gauge, given its own baseline.
Updated(gauge, prev, current) ==
    IF prev.read THEN ComputeGaugeValues(prev, current) ELSE gauge

\* CpuStats; /proc/stat may be unreadable or malformed, and nothing happens.
CpuStatsOneBaseline(sixtySecondMetrics) ==
    /\ IF sixtySecondMetrics
       THEN /\ utilization' = Updated(utilization, peakStats, kernel)
            /\ utilStats' = kernel
            /\ peak' = Updated(peak, kernel, kernel)
       ELSE /\ UNCHANGED <<utilization, utilStats>>
            /\ peak' = Updated(peak, peakStats, kernel)
    /\ peakStats' = kernel
    /\ UNCHANGED <<kernel, jiffies>>
CpuStats(sixtySecondMetrics) ==
    /\ IF sixtySecondMetrics
       THEN /\ utilization' = Updated(utilization, utilStats, kernel)
            /\ utilStats' = kernel
       ELSE UNCHANGED <<utilization, utilStats>>
    /\ peak' = Updated(peak, peakStats, kernel)
    /\ peakStats' = kernel
    /\ UNCHANGED <<kernel, jiffies>>

EverySecond ==
    /\ CpuStats(FALSE)
    /\ sinceSecond' = NoTime
    /\ lastSecond' = sinceSecond
    /\ UNCHANGED <<slowReads, sinceMinute, lastMinute>>

EveryMinute ==
    /\ slowReads < MaxReads
    /\ slowReads' = slowReads + 1
    /\ CpuStats(TRUE)
    /\ sinceSecond' = NoTime
    /\ lastSecond' = sinceSecond
    /\ sinceMinute' = NoTime
    /\ lastMinute' = sinceMinute

CpuNext == Jiffy \/ CorrectIowait \/ EverySecond \/ EveryMinute

CpuSpec == CpuInit /\ [][CpuNext]_cpuVars

-----------------------------------------------------------------------------
Counters == [read : {TRUE}, busy : Nat, idle : Nat, iowait : Nat]
Percentages == [set : {TRUE}, busy : Nat, wait : Nat, total : Nat \ {0}]
CpuTimes == [busy : Nat, idle : Nat, iowait : Nat]

CpuTypeOK ==
    /\ kernel \in Counters
    /\ jiffies \in Nat
    /\ peakStats \in Counters \cup {None}
    /\ utilStats \in Counters \cup {None}
    /\ peak \in Percentages \cup {Unset}
    /\ utilization \in Percentages \cup {Unset}
    /\ slowReads \in 0 .. MaxReads
    /\ sinceSecond \in CpuTimes /\ lastSecond \in CpuTimes
    /\ sinceMinute \in CpuTimes /\ lastMinute \in CpuTimes

(***************************************************************************)
(* proc_cpu.h:74-75: a correction of iowait does not "inflate all          *)
(* percentages above 100%": what is published adds up to 100% at most.     *)
(***************************************************************************)
AtMostHundredPercent ==
    \A gauge \in {peak, utilization} : gauge.set => gauge.busy + gauge.wait <= gauge.total

\* A gauge tells the time that passed, but for the iowait that was taken back.
Exactly(gauge, passed) ==
    gauge.set =>
       LET total == passed.busy + passed.idle + gauge.wait
       IN  /\ gauge.busy = passed.busy
           /\ gauge.wait <= passed.iowait
           /\ gauge.total = IF total > 0 THEN total ELSE 1

(***************************************************************************)
(* proc.cpp:588-625 and 772-795: neither series disturbs the other's       *)
(* baseline.  In any order of reads the peak tells all the time since the  *)
(* last read of any kind, busy and in all, and the utilization all the     *)
(* time since the last read with the sixty-second metrics: of the kinds    *)
(* of time that only grow none is lost and none told twice.                *)
(***************************************************************************)
EachSeriesExact == Exactly(peak, lastSecond) /\ Exactly(utilization, lastMinute)
=============================================================================
