---------------------------- MODULE PerfMetrics -----------------------------
(***************************************************************************)
(* PerfMetrics: hardware events counted on every online CPU, read every    *)
(* minute, and reopened when the online CPUs have changed.                 *)
(*                                                                         *)
(* Three of the six counters stand for all: instructions, whose opening    *)
(* decides for the rest, and the two of a rate.  A descriptor is what the  *)
(* event's counter was when it was opened: it is read as the growth since. *)
(* Values are unsigned integers of PerfWidth bits.  An event is counted    *)
(* all the time, and the scaling of a delta by the time it was not is left *)
(* out.  The kernel refuses a counter on all CPUs or on none.              *)
(***************************************************************************)
EXTENDS Integers

CONSTANTS Cpus,         \* numbers from 0 on
          PerfWidth,    \* bits of a value (64 in the code)
          MaxEvents,    \* bound: events on a CPU
          MaxHotplugs   \* bound: changes of the online CPUs

ASSUME PerfAssumption ==
    /\ Cpus \subseteq Nat
    /\ {PerfWidth, MaxEvents, MaxHotplugs, 2 ^ PerfWidth} \subseteq Nat
    /\ MaxEvents < 2 ^ PerfWidth

Kinds == {"instructions", "misses", "refs"}

VARIABLES events,      \* on each CPU, of all kinds alike
          online,      \* sys/devices/system/cpu/online
          hotplugs,    \* a history variable
          state,       \* "new", "running", "disabled" or "aborted"
          onlineCpus,  \* online_cpus_
          counters,    \* the PerfCounters, see PerfCounter
          deltas       \* what read_delta returned of each, the last time

perfVars == <<events, online, hotplugs, state, onlineCpus, counters, deltas>>

Closed == -1

\* fds_ and prev_vals; and two history variables, the events at the reading
\* before and whether the CPU was opened since over a previous value.
PerfCounter ==
    [fds : [Cpus -> Nat \cup {Closed}], prevVals : [Cpus -> Nat],
     origin : [Cpus -> Nat], reopened : [Cpus -> BOOLEAN]]

Empty == [c \in {} |-> 0]   \* std::vector<uint64_t>()

PerfInit ==
    /\ events = [c \in Cpus |-> 0]
    /\ online \in (SUBSET Cpus) \ {{}}
    /\ hotplugs = 0
    /\ state = "new"
    /\ onlineCpus = {}
    /\ counters = [k \in Kinds |->
                     [fds |-> [c \in Cpus |-> Closed], prevVals |-> [c \in Cpus |-> 0],
                      origin |-> [c \in Cpus |-> 0], reopened |-> [c \in Cpus |-> FALSE]]]
    /\ deltas = [k \in Kinds |-> Empty]

-----------------------------------------------------------------------------
CountEvents ==
    /\ \E c \in online : events[c] < MaxEvents /\ events' = [events EXCEPT ![c] = @ + 1]
    /\ UNCHANGED <<online, hotplugs, state, onlineCpus, counters, deltas>>

Hotplug ==
    /\ hotplugs < MaxHotplugs
    /\ hotplugs' = hotplugs + 1
    /\ online' \in (SUBSET Cpus) \ {{}, online}
    /\ UNCHANGED <<events, state, onlineCpus, counters, deltas>>

-----------------------------------------------------------------------------
\* What open_events does to a counter: there are as many previous values as the
\* online CPUs need afterwards, unless the kernel refused.
OpenEvents(r, opened, refused) ==
    LET prev == [c \in Cpus |-> IF refused \/ \E n \in online : c <= n
                                THEN r.prevVals[c] ELSE 0]
    IN  [fds |-> [c \in Cpus |-> IF c \in opened THEN events[c] ELSE Closed],
         prevVals |-> prev,
         origin |-> [c \in Cpus |-> events[c]],
         reopened |-> [c \in Cpus |-> prev[c] # 0]]

NewVal(r, c) == IF r.fds[c] = Closed THEN 0 ELSE events[c] - r.fds[c]

\* What read_delta returns, as long as no read fails, and leaves in the counter.
ReadDelta(r, c) ==
    IF r.fds[c] = Closed THEN [value |-> 0, open |-> FALSE]
    ELSE [value |-> (NewVal(r, c) - r.prevVals[c]) % 2 ^ PerfWidth, open |-> TRUE,
          counted |-> events[c] - r.origin[c], reopened |-> r.reopened[c]]
Sampled(r) ==
    [r EXCEPT !.prevVals = [c \in Cpus |-> NewVal(r, c)], !.origin = events,
              !.reopened = [c \in Cpus |-> FALSE]]

\* A failed read leaves everything, and returns nothing.
ReadFailedForgets(r) == [r EXCEPT !.prevVals = [c \in Cpus |-> 0]]
ReadFailed(r) == r

\* open_perf_counters_if_needed, of counters r.  A refusal of the first counter
\* disables everything, and one of another is not looked at.  Bound: CPUs of one
\* counter at most are not opened for another reason.
OpenIfNeeded(r) ==
    /\ onlineCpus' = online
    /\ IF online = onlineCpus
       THEN counters' = r /\ state' = "running"
       ELSE \E refused \in SUBSET Kinds, other \in Kinds, unopened \in SUBSET online :
              LET first == "instructions" \in refused
                  opened == [k \in Kinds |-> IF k \in refused THEN {}
                                             ELSE IF k = other THEN online \ unopened
                                             ELSE online]
              IN  /\ state' = IF first THEN "disabled" ELSE "running"
                  /\ counters' = [k \in Kinds |->
                        IF first /\ k # "instructions" THEN r[k]
                        ELSE OpenEvents(r[k], opened[k], k \in refused)]

\* The constructor, with PMU metrics enabled and supported.
Construct ==
    /\ state = "new"
    /\ OpenIfNeeded(counters)
    /\ UNCHANGED <<events, online, hotplugs, deltas>>

IsOpen(k) == \E c \in Cpus : counters[k].fds[c] # Closed

\* The sizes that update_rate asserts to be equal.
SizesAgree(failed) == "misses" \in failed <=> "refs" \in failed

Collect ==
    /\ state = "running"
    /\ \E failed \in SUBSET {k \in Kinds : IsOpen(k)} :
          LET after == [k \in Kinds |-> IF k \in failed THEN ReadFailed(counters[k])
                                        ELSE Sampled(counters[k])]
          IN  /\ deltas' = [k \in Kinds |->
                     IF k \in failed THEN Empty
                     ELSE [c \in Cpus |-> ReadDelta(counters[k], c)]]
              /\ IF SizesAgree(failed)
                 THEN OpenIfNeeded(after)
                 ELSE /\ state' = "aborted"
                      /\ counters' = after
                      /\ UNCHANGED onlineCpus
    /\ UNCHANGED <<events, online, hotplugs>>

CollectDisabled == state = "disabled" /\ UNCHANGED perfVars

\* The agent is started again.
RestartPerf ==
    /\ state = "aborted"
    /\ state' = "new"
    /\ onlineCpus' = {}
    /\ counters' = [k \in Kinds |->
                     [fds |-> [c \in Cpus |-> Closed], prevVals |-> [c \in Cpus |-> 0],
                      origin |-> [c \in Cpus |-> 0], reopened |-> [c \in Cpus |-> FALSE]]]
    /\ deltas' = [k \in Kinds |-> Empty]
    /\ UNCHANGED <<events, online, hotplugs>>

PerfNext == CountEvents \/ Hotplug \/ Construct \/ Collect \/ CollectDisabled \/ RestartPerf

PerfSpec == PerfInit /\ [][PerfNext]_perfVars

-----------------------------------------------------------------------------
PerfTypeOK ==
    /\ events \in [Cpus -> Nat]
    /\ online \subseteq Cpus
    /\ onlineCpus \subseteq Cpus
    /\ hotplugs \in Nat
    /\ state \in {"new", "running", "disabled", "aborted"}
    /\ counters \in [Kinds -> PerfCounter]
    /\ DOMAIN deltas = Kinds

(***************************************************************************)
(* perf_metrics.h:160-192: a delta is of exactly the events counted since  *)
(* the last reading that succeeded, or since the CPU was opened when it    *)
(* has no previous value, however many reads failed, CPUs came and went,   *)
(* or were not opened.  One of a CPU that was opened since over a previous *)
(* value is not: perf_metrics.h:155 keeps the value of the descriptor that *)
(* was closed, and the difference wraps around.                            *)
(***************************************************************************)
DeltasExact ==
    \A k \in Kinds : \A c \in DOMAIN deltas[k] :
       LET d == deltas[k][c]
       IN  d.open /\ ~d.reopened => d.value = d.counted

(***************************************************************************)
(* perf_metrics.cpp:121, assert(a_values.size() == b_values.size()).       *)
(***************************************************************************)
SizesAsserted == state # "aborted"
=============================================================================
