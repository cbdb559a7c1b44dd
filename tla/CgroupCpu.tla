----------------------------- MODULE CgroupCpu ------------------------------
(***************************************************************************)
(* CGroup::CpuStats: what a container used of its CPUs and could have used,*)
(* every five seconds, and its utilization every minute and every second,  *)
(* from cpu.stat, which is read once, and the clock, which each part reads *)
(* for itself.                                                             *)
(*                                                                         *)
(* usage_usec, user_usec, system_usec and throttled_usec go through the    *)
(* same code and are one counter here.  The clock is not stepped.          *)
(***************************************************************************)
EXTENDS Integers

CONSTANTS CpuCount,      \* TITUS_NUM_CPU, and what the container uses at most
          FirstInterval, \* the five seconds CpuProcessingCapacity starts with
          MinuteInterval,\* the sixty that CpuUtilizationV2 starts with
          MaxCpuDelay,   \* bound: ticks that a call of CpuStats takes
          MaxCpuTime,    \* bound: ticks
          MaxAborts      \* bound: times the agent aborts

ASSUME CgroupCpuAssumption ==
    /\ {CpuCount, FirstInterval, MinuteInterval, MaxCpuTime, MaxAborts} \subseteq Nat
    /\ MaxCpuDelay \in 0 .. FirstInterval

VARIABLES usage,        \* usage_usec
          wall,         \* absl::Now()
          stage,        \* "idle", "sixty", "five", "peak" or "aborted"
          due,          \* fiveSecondMetricsEnabled, sixtySecondMetricsEnabled
          stats,        \* usage_usec as read from cpu.stat, during a call
          readAt,       \* when, a history variable
          prevUsage,    \* the previous usage of each series
          updatedAt,    \* the last_updated of each
          skew,         \* from reading cpu.stat to that, a history variable
          processing,   \* cgroup.cpu.processingTime, published so far
          capacity,     \* cgroup.cpu.processingCapacity, likewise
          gauges,       \* of the two other series, as the last call set them
          aborts        \* a history variable

container == <<usage, wall>>
cpuCall == <<stage, due, stats, readAt>>
baselines == <<prevUsage, updatedAt, skew>>
cpuTimes == <<processing, capacity>>
cgroupCpuVars == <<container, cpuCall, baselines, cpuTimes, gauges, aborts>>

Series == {"sixty", "five", "peak"}
NeverUpdated == -1
Unread == -1
NoGauge == [set |-> FALSE]

CgroupCpuInit ==
    /\ usage \in 0 .. 1
    /\ wall = 0
    /\ stage = "idle"
    /\ due = {}
    /\ stats = 0
    /\ readAt = 0
    /\ prevUsage = [s \in Series |-> Unread]
    /\ updatedAt = [s \in Series |-> NeverUpdated]
    /\ skew = [s \in Series |-> 0]
    /\ processing = 0
    /\ capacity = 0
    /\ gauges = [s \in {"sixty", "peak"} |-> NoGauge]
    /\ aborts = 0

-----------------------------------------------------------------------------
\* Time passes and the container uses some of it.
UseCpu ==
    /\ wall < MaxCpuTime
    /\ stage \notin {"idle", "aborted"} => wall - readAt < MaxCpuDelay
    /\ wall' = wall + 1
    /\ \E u \in 0 .. CpuCount : usage' = usage + u
    /\ UNCHANGED <<cpuCall, baselines, cpuTimes, gauges, aborts>>

\* The series a call updates, in this order; the peak always.
Part(s, d) == IF s = "sixty" /\ "sixty" \in d THEN "sixty"
              ELSE IF s \in {"sixty", "five"} /\ "five" \in d THEN "five"
              ELSE "peak"

StartCpuStats ==
    /\ stage = "idle"
    /\ due' \in {{}, {"five"}, {"five", "sixty"}}
    /\ stage' = Part("sixty", due')
    /\ stats' = usage
    /\ readAt' = wall
    /\ gauges' = [s \in {"sixty", "peak"} |-> NoGauge]
    /\ UNCHANGED <<container, baselines, cpuTimes, aborts>>

\* stats.at throws in a noexcept function.
CpuStatUnreadable ==
    /\ stage = "idle"
    /\ aborts < MaxAborts
    /\ aborts' = aborts + 1
    /\ stage' = "aborted"
    /\ UNCHANGED <<container, due, stats, readAt, baselines, cpuTimes, gauges>>

\* delta_t, when `interval` stands in for the first.
Elapsed(series, interval) ==
    IF updatedAt[series] = NeverUpdated THEN interval ELSE wall - updatedAt[series]

\* What a series does to its baselines.
Advance(series) ==
    /\ stage = series
    /\ prevUsage' = [prevUsage EXCEPT ![series] = stats]
    /\ updatedAt' = [updatedAt EXCEPT ![series] = wall]
    /\ skew' = [skew EXCEPT ![series] = wall - readAt]

Gauge(series, interval) ==
    gauges' = IF prevUsage[series] = Unread THEN gauges
                   ELSE [gauges EXCEPT ![series] =
                           [set |-> TRUE,
                            used |-> stats - prevUsage[series],
                            available |-> Elapsed(series, interval) * CpuCount,
                            skew |-> skew[series]]]

\* CpuThrottleV2 and CpuUtilizationV2
SixtySeconds ==
    /\ Advance("sixty")
    /\ Gauge("sixty", MinuteInterval)
    /\ stage' = Part("five", due)
    /\ UNCHANGED <<container, due, stats, readAt, cpuTimes, aborts>>

\* CpuTimeV2 and CpuProcessingCapacity
UsedSinceBoot == stats - (IF prevUsage["five"] = Unread THEN 0 ELSE prevUsage["five"])
UsedSince == IF prevUsage["five"] = Unread THEN 0 ELSE stats - prevUsage["five"]
FiveSeconds ==
    /\ Advance("five")
    /\ processing' = processing + UsedSince
    /\ capacity' = capacity + Elapsed("five", FirstInterval) * CpuCount
    /\ stage' = "peak"
    /\ UNCHANGED <<container, due, stats, readAt, gauges, aborts>>

\* CpuPeakUtilizationV2: the first time counts from the epoch and is not set.
Peak ==
    /\ Advance("peak")
    /\ Gauge("peak", wall)
    /\ stage' = "idle"
    /\ due' = {}
    /\ stats' = 0
    /\ readAt' = 0
    /\ UNCHANGED <<container, cpuTimes, aborts>>

\* Whatever supervises the agent starts it again.
RestartAgent ==
    /\ stage = "aborted"
    /\ stage' = "idle"
    /\ prevUsage' = [s \in Series |-> Unread]
    /\ updatedAt' = [s \in Series |-> NeverUpdated]
    /\ skew' = [s \in Series |-> 0]
    /\ UNCHANGED <<container, due, stats, readAt, cpuTimes, gauges, aborts>>

CgroupCpuNext ==
    \/ UseCpu
    \/ StartCpuStats \/ SixtySeconds \/ FiveSeconds \/ Peak
    \/ CpuStatUnreadable \/ RestartAgent

CgroupCpuSpec == CgroupCpuInit /\ [][CgroupCpuNext]_cgroupCpuVars

-----------------------------------------------------------------------------
CgroupCpuTypeOK ==
    /\ {usage, wall, stats, readAt, processing, capacity, aborts} \subseteq Nat
    /\ stage \in Series \cup {"idle", "aborted"}
    /\ due \subseteq Series
    /\ prevUsage \in [Series -> Nat \cup {Unread}]
    /\ updatedAt \in [Series -> Nat \cup {NeverUpdated}]
    /\ skew \in [Series -> 0 .. MaxCpuDelay]
    /\ gauges \in [{"sixty", "peak"} -> {NoGauge} \cup
          [set : {TRUE}, used : Nat, available : Nat, skew : 0 .. MaxCpuDelay]]

(***************************************************************************)
(* cgroup.cpp:63-219: the CPU time published as used never exceeds what is *)
(* published as available, over any number of calls that are late, missed  *)
(* or taken up by another process: the counters because the first capacity *)
(* is given and the first use is not, the gauges up to the delay between   *)
(* reading cpu.stat and the clock, the call before.                        *)
(***************************************************************************)
UsedWithinAvailable ==
    /\ processing <= capacity
    /\ \A s \in {"sixty", "peak"} :
          LET g == gauges[s]
          IN  g.set => g.used <= g.available + CpuCount * g.skew
=============================================================================
