--------------------------- MODULE ServiceMonitor ---------------------------
(***************************************************************************)
(* The service monitor: it lists the systemd units once (again after a     *)
(* failure), keeps the first ones that match, and once a minute reads the  *)
(* properties of each, its main process and its cgroup, while the units    *)
(* stop, start and use CPU time between any two of its reads.              *)
(*                                                                         *)
(* A unit runs one process at a time; its PID is the number of the         *)
(* generation, so it is never handed out again, and its cgroup has the     *)
(* same path in every generation.  While it does not run its control group *)
(* may be empty, which the monitor takes for the root cgroup.  The gauges  *)
(* of the state, memory, RSS and file descriptors matter here only by      *)
(* whether reading them failed.                                            *)
(***************************************************************************)
EXTENDS CpuRateTracker, SequencesExt

CONSTANTS Listings,      \* what list_all_units may return, in order, each unit once
          Matching,      \* the units some configured regex matches
          MaxServices,   \* the option, 0 when it is not given
          Default,       \* DefaultMonitoredServices (10 in the code)
          MatchThrows,   \* whether enrolling a unit may throw
          Active,        \* bound: the units that run, now and then; the others do not
          Cores,         \* CPU time the machine uses at most in a tick
          MaxTime,       \* bound: ticks
          MaxGeneration  \* bound: restarts of a unit

Units == UNION {Range(listing) : listing \in Listings}
Scopes == {"process", "service"}

ASSUME MonitorAssumption ==
    /\ Listings \subseteq Seq(Units)
    /\ \A listing \in Listings : IsInjective(listing)
    /\ Matching \cup Active \subseteq Units
    /\ {MaxServices, Cores, MaxTime, MaxGeneration} \subseteq Nat
    /\ Default \in Nat \ {0}
    /\ MatchThrows \in BOOLEAN

VARIABLES time,        \* steady_clock::now()
          unit,        \* each unit: whether it runs, generation, CPU time
          machine,     \* CPU time of the root cgroup
          initSuccess, \* initSuccess
          monitored,   \* monitoredServices_
          listed,      \* the listing initialization succeeded with, history
          interrupted, \* whether an exception ended an initialization, history
          cpuState,    \* cpuState_, the two trackers of each service
          pc,          \* where gather_metrics is
          next,        \* position of the service being read
          mainPid,     \* props.mainPid
          activeRunning, \* whether the states read are "active" and "running"
          controlGroup, \* props.controlGroup
          now,         \* `now` of the cycle
          success,     \* `success` of the cycle
          result,      \* what the last gather_metrics returned, or "none"
          skipped,     \* services found not running in this cycle, history
          base,        \* what was true at each baseline, history
          gauge        \* the percentage each last sample published

env == <<time, unit, machine>>
enrolled == <<initSuccess, monitored, listed, interrupted>>
samples == <<cpuState, base, gauge>>
props == <<mainPid, activeRunning, controlGroup>>
cycle == <<pc, next, props, now, success, result, skipped>>
vars == <<env, enrolled, samples, cycle>>

NoPid == -1
CgroupPath == 0
RootPath == -1   \* the empty control group
Nothing == [published |-> FALSE]

maxMonitoredServices == IF MaxServices = 0 THEN Default ELSE MaxServices

Init ==
    /\ time = 0
    /\ \E running \in [Active -> BOOLEAN] :
          unit = [s \in Units |-> [running |-> s \in Active /\ running[s],
                                   generation |-> 0, cpu |-> 0, used |-> 0]]
    /\ machine = 0
    /\ initSuccess = FALSE
    /\ monitored = <<>>
    /\ listed = <<>>
    /\ interrupted = FALSE
    /\ cpuState = [s \in Units |-> [c \in Scopes |-> Fresh(0)]]
    /\ pc = "idle"
    /\ next = 0
    /\ mainPid = NoPid
    /\ activeRunning = FALSE
    /\ controlGroup = RootPath
    /\ now = 0
    /\ success = TRUE
    /\ result = "none"
    /\ skipped = {}
    /\ base = [s \in Units |-> [c \in Scopes |->
                 [generation |-> 0, used |-> 0]]]
    /\ gauge = [s \in Units |-> [c \in Scopes |-> Nothing]]

-----------------------------------------------------------------------------
\* What the units and systemd do.
Tick ==
    /\ time < MaxTime
    /\ time' = time + 1
    /\ \E m \in 0 .. Cores : \E c \in [Active -> 0 .. m] :
          /\ machine' = machine + m
          /\ unit' = [s \in Units |->
                        IF s \in Active /\ unit[s].running
                        THEN [unit[s] EXCEPT !.cpu = @ + c[s], !.used = @ + c[s]]
                        ELSE unit[s]]
    /\ UNCHANGED <<enrolled, samples, cycle>>

Stop(s) ==
    /\ unit[s].running
    /\ unit' = [unit EXCEPT ![s].running = FALSE]
    /\ UNCHANGED <<time, machine, enrolled, samples, cycle>>

Start(s) ==
    /\ ~unit[s].running
    /\ unit[s].generation < MaxGeneration
    /\ unit' = [unit EXCEPT ![s].running = TRUE,
                            ![s].generation = @ + 1, ![s].cpu = 0]
    /\ UNCHANGED <<time, machine, enrolled, samples, cycle>>

-----------------------------------------------------------------------------
\* init_monitored_services.

\* The list after the first n units were looked at: a unit that matches is
\* added while there is room.
EnrollOneMore(list, units) ==
    LET after[n \in 0 .. Len(units)] ==
          IF n = 0 THEN list
          ELSE IF units[n] \in Matching /\ Len(after[n - 1]) <= maxMonitoredServices
               THEN Append(after[n - 1], units[n])
               ELSE after[n - 1]
    IN  after[Len(units)]
Enroll(list, units) ==
    LET after[n \in 0 .. Len(units)] ==
          IF n = 0 THEN list
          ELSE IF units[n] \in Matching /\ Len(after[n - 1]) < maxMonitoredServices
               THEN Append(after[n - 1], units[n])
               ELSE after[n - 1]
    IN  after[Len(units)]

\* sysconf or the D-Bus call fails, before any unit is looked at ...
InitFails ==
    /\ pc = "idle"
    /\ ~initSuccess
    /\ result' = "failed"
    /\ UNCHANGED <<env, enrolled, samples, pc, next, props, now, success,
                   skipped>>

\* ... or an exception ends the loop, and what was enrolled stays ...
InitThrows ==
    /\ MatchThrows
    /\ pc = "idle"
    /\ ~initSuccess
    /\ \E listing \in Listings : \E n \in 0 .. Len(listing) - 1 :
          monitored' = Enroll(monitored, SubSeq(listing, 1, n))
    /\ interrupted' = TRUE
    /\ result' = "failed"
    /\ UNCHANGED <<env, initSuccess, listed, samples, pc, next, props, now, success,
                   skipped>>

\* ... or every unit was looked at, and gather_metrics goes on.
InitSucceeds ==
    /\ pc = "idle"
    /\ ~initSuccess
    /\ listed' \in Listings
    /\ monitored' = Enroll(monitored, listed')
    /\ initSuccess' = TRUE
    /\ pc' = "begin"
    /\ UNCHANGED <<env, samples, interrupted, next, props, now, success, result,
                   skipped>>

-----------------------------------------------------------------------------
\* update_metrics, from the reading of the clock.
BeginCycle ==
    /\ initSuccess
    /\ pc \in {"idle", "begin"}
    /\ monitored # <<>>
    /\ now' = time
    /\ success' = TRUE
    /\ skipped' = {}
    /\ next' = 1
    /\ pc' = "pid"
    /\ UNCHANGED <<env, enrolled, samples, props, result>>

\* "No systemd services to monitor" is not a failure.
NothingToDo ==
    /\ initSuccess
    /\ pc \in {"idle", "begin"}
    /\ monitored = <<>>
    /\ result' = "ok"
    /\ pc' = "idle"
    /\ UNCHANGED <<env, enrolled, samples, next, props, now, success, skipped>>

Service == monitored[next]

\* What was read of a service is not kept.
ForgetProps == mainPid' = NoPid /\ activeRunning' = FALSE /\ controlGroup' = RootPath

\* On to the next service, or to the end of the cycle.
NextServicePastEnd ==
    /\ ForgetProps
    /\ \/ /\ next <= Len(monitored)
          /\ pc' = "pid"
          /\ next' = next + 1
          /\ UNCHANGED result
       \/ /\ next > Len(monitored)
          /\ pc' = "idle"
          /\ result' = IF success' THEN "ok" ELSE "failed"
          /\ UNCHANGED next
NextService ==
    /\ ForgetProps
    /\ \/ /\ next < Len(monitored)
          /\ pc' = "pid"
          /\ next' = next + 1
          /\ UNCHANGED result
       \/ /\ next >= Len(monitored)
          /\ pc' = "idle"
          /\ result' = IF success' THEN "ok" ELSE "failed"
          /\ UNCHANGED next

\* get_service_properties: four calls over D-Bus, one after the other.
ReadMainPid ==
    /\ pc = "pid"
    /\ mainPid' = IF unit[Service].running THEN unit[Service].generation ELSE NoPid
    /\ pc' = "active"
    /\ UNCHANGED <<env, enrolled, samples, next, activeRunning, controlGroup, now,
                   success, result, skipped>>

ReadActiveState ==
    /\ pc = "active"
    /\ activeRunning' = unit[Service].running
    /\ pc' = "sub"
    /\ UNCHANGED <<env, enrolled, samples, next, mainPid, controlGroup, now, success,
                   result, skipped>>

ReadSubState ==
    /\ pc = "sub"
    /\ activeRunning' = (activeRunning /\ unit[Service].running)
    /\ pc' = "group"
    /\ UNCHANGED <<env, enrolled, samples, next, mainPid, controlGroup, now, success,
                   result, skipped>>

\* systemd lets the cgroup of a unit that stopped go, sooner or later.
ReadControlGroup ==
    /\ pc = "group"
    /\ activeRunning
    /\ controlGroup' \in {CgroupPath} \cup (IF unit[Service].running THEN {} ELSE {RootPath})
    /\ pc' = "process"
    /\ UNCHANGED <<env, enrolled, samples, next, mainPid, activeRunning, now, success,
                   result, skipped>>

\* Of a unit that was not active and running nothing is collected.
SkipStopped ==
    /\ pc = "group"
    /\ ~activeRunning
    /\ skipped' = skipped \cup {Service}
    /\ UNCHANGED success
    /\ NextService
    /\ UNCHANGED <<env, enrolled, samples, now>>

PropertiesFail ==
    /\ pc \in {"pid", "active", "sub", "group"}
    /\ success' = FALSE
    /\ NextService
    /\ UNCHANGED <<env, enrolled, samples, now, skipped>>

-----------------------------------------------------------------------------
\* collect_process_metrics and collect_cgroup_metrics.
ScopeAt == IF pc = "process" THEN "process" ELSE "service"

\* What the scope's counter is read under, whether it is there to be read, and
\* the counter: the root cgroup's is always there.
IdentityOfService == IF pc = "process" THEN mainPid ELSE CgroupPath
Identity == IF pc = "process" THEN mainPid ELSE controlGroup
OfRoot == pc = "cgroup" /\ controlGroup = RootPath
Readable ==
    \/ OfRoot
    \/ /\ unit[Service].running
       /\ pc = "process" => mainPid = unit[Service].generation
CounterRead == IF OfRoot THEN machine ELSE unit[Service].cpu

Collected == IF pc = "process" THEN pc' = "cgroup" /\ UNCHANGED <<next, props, result>>
             ELSE NextService

\* cpu.update(...) of the scope's tracker, and the gauge it publishes.
UpdateTracker ==
    LET s == Service
        c == ScopeAt
        u == unit[s]
        t == cpuState[s][c]
    IN  /\ gauge' = [gauge EXCEPT ![s][c] =
                       IF Publishes(t, Identity, CounterRead, now)
                       THEN [published |-> TRUE,
                             own |-> ~OfRoot,
                             cpu |-> Rate(t, CounterRead, now).cpu,
                             wall |-> Rate(t, CounterRead, now).wall,
                             lag |-> time - now,
                             used |-> u.used - base[s][c].used,
                             oneGeneration |-> base[s][c].generation = u.generation]
                       ELSE Nothing]
        /\ cpuState' = [cpuState EXCEPT ![s][c] = Rebase(t, Identity, CounterRead, now)]
        /\ base' = [base EXCEPT ![s][c] = [generation |-> u.generation, used |-> u.used]]

\* The counter was read; some other metric of the scope may have failed.
Collect ==
    /\ pc \in {"process", "cgroup"}
    /\ Readable
    /\ UpdateTracker
    /\ success' \in {success, FALSE}
    /\ Collected
    /\ UNCHANGED <<env, enrolled, now, skipped>>

\* The counter was not there, or could not be parsed.
CollectFailsQuietly ==
    /\ pc \in {"process", "cgroup"}
    /\ UNCHANGED success
    /\ Collected
    /\ UNCHANGED <<env, enrolled, samples, now, skipped>>
CollectFails ==
    /\ pc \in {"process", "cgroup"}
    /\ success' = FALSE
    /\ Collected
    /\ UNCHANGED <<env, enrolled, samples, now, skipped>>

Environment == Tick \/ \E s \in Active : Stop(s) \/ Start(s)

GatherMetrics ==
    \/ InitFails
    \/ InitThrows
    \/ InitSucceeds
    \/ BeginCycle
    \/ NothingToDo
    \/ ReadMainPid
    \/ ReadActiveState
    \/ ReadSubState
    \/ ReadControlGroup
    \/ SkipStopped
    \/ PropertiesFail
    \/ Collect
    \/ CollectFails

Next == Environment \/ GatherMetrics

Spec == Init /\ [][Next]_vars

-----------------------------------------------------------------------------
(***************************************************************************)
(* Every variable has its type, and the service being read is on the list. *)
(***************************************************************************)
TypeOK ==
    /\ time \in 0 .. MaxTime
    /\ unit \in [Units -> [running : BOOLEAN, generation : Nat, cpu : Nat, used : Nat]]
    /\ machine \in Nat
    /\ initSuccess \in BOOLEAN
    /\ monitored \in Seq(Matching)
    /\ listed \in Listings \cup {<<>>}
    /\ interrupted \in BOOLEAN
    /\ cpuState \in [Units -> [Scopes ->
          [valid : BOOLEAN, id : Nat \cup {RootPath}, counter : Nat, at : 0 .. time]]]
    /\ pc \in {"idle", "begin", "pid", "active", "sub", "group", "process", "cgroup"}
    /\ pc \notin {"idle", "begin"} => next \in DOMAIN monitored
    /\ mainPid \in Nat \cup {NoPid}
    /\ activeRunning \in BOOLEAN
    /\ controlGroup \in {CgroupPath, RootPath}
    /\ now \in 0 .. time
    /\ success \in BOOLEAN
    /\ result \in {"none", "ok", "failed"}
    /\ skipped \subseteq Units

(***************************************************************************)
(* service_monitor.cpp:75-122: when no exception interrupts it,            *)
(* initialization ends with the first matching units, each once, in        *)
(* systemd's order, up to the limit, however often it was tried; and an    *)
(* attempt that was interrupted and repeated keeps within the limit, too.  *)
(***************************************************************************)
MonitorsFirstMatches ==
    /\ Len(monitored) <= maxMonitoredServices
    /\ initSuccess /\ ~interrupted =>
        /\ IsInjective(monitored)
        /\ Range(monitored) \subseteq Range(listed)
        /\ \A i \in DOMAIN listed :
              listed[i] \in Range(monitored) <=>
                  /\ listed[i] \in Matching
                  /\ Cardinality({j \in 1 .. i - 1 : listed[j] \in Matching})
                        < maxMonitoredServices

(***************************************************************************)
(* A cycle that reports success has left no monitored service out: each    *)
(* one was seen not running, or both its baselines are of this cycle and   *)
(* of its own counters.  A cycle that took the root cgroup's counter for a *)
(* service's (service_monitor_utils.cpp:64-69 and 314-319) has failed: the *)
(* service had stopped since its main PID was read, and the process had    *)
(* gone with it (service_monitor.cpp:144-149).                             *)
(***************************************************************************)
SuccessMeansSampled ==
    pc = "idle" /\ result = "ok" =>
        \A s \in Range(monitored) \ skipped, c \in Scopes :
            /\ cpuState[s][c].valid
            /\ cpuState[s][c].at = now
            /\ cpuState[s][c].id # RootPath

(***************************************************************************)
(* Each counter of each service is sampled as TrackedCounter says, main    *)
(* processes under an identity of their own for each generation, cgroups   *)
(* under one that a restart does not change, and the root cgroup's counter *)
(* under the empty path only: no read of the monitor mixes one             *)
(* generation's identity with another's counter, or a service's with the   *)
(* machine's, although the PID, the two states, the control group and the  *)
(* counter are read one after the other (service_monitor_utils.cpp:47-69). *)
(***************************************************************************)
Counter(s, c) == INSTANCE TrackedCounter WITH
    FreshIdentities <- (c = "process"),
    generation <- unit[s].generation,
    identity <- IF c = "process" THEN unit[s].generation ELSE CgroupPath,
    counter <- unit[s].cpu,
    used <- unit[s].used,
    tracker <- cpuState[s][c],
    base <- base[s][c],
    gauge <- gauge[s][c]

ImplementsTrackedCounters ==
    /\ \A s \in Units, c \in Scopes : Counter(s, c)!Init
    /\ [][\A s \in Units, c \in Scopes :
            [Counter(s, c)!Next]_(Counter(s, c)!vars)]_vars
=============================================================================
