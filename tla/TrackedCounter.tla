--------------------------- MODULE TrackedCounter ---------------------------
(***************************************************************************)
(* One CPU-time counter of a service that restarts, sampled through a      *)
(* CpuRateTracker.  The counter belongs to a generation of the service: a  *)
(* restart makes a new one, whose counter starts from 0 under an identity  *)
(* that is new (a PID, as long as the kernel does not hand an old one out) *)
(* or the old one (the path of a recreated cgroup).  A path may also be    *)
(* empty, when systemd has let the cgroup of a stopped service go: then it *)
(* is the root cgroup's counter that is read, of the whole machine.  A     *)
(* sample is what the monitor does when the read succeeded; a failed read  *)
(* changes nothing.                                                        *)
(* The time a sample is taken to be of is the start of the monitor's       *)
(* cycle, not the moment the counter is read.                              *)
(***************************************************************************)
EXTENDS CpuRateTracker

CONSTANTS Cores,           \* CPU time the machine gains at most in a tick
          FreshIdentities, \* whether each generation has an identity of its own
          MaxTime,         \* bound: ticks
          MaxGeneration    \* bound: restarts

ASSUME TrackedAssumption ==
    /\ Cores \in Nat
    /\ FreshIdentities \in BOOLEAN
    /\ MaxTime \in Nat
    /\ MaxGeneration \in Nat

VARIABLES time,       \* steady_clock::now()
          generation, \* of the service, a history variable
          identity,   \* what the counter is read under
          counter,    \* CPU time of this generation
          used,       \* CPU time of all generations, a history variable
          machine,    \* CPU time of the root cgroup
          now,        \* the start of the monitor's cycle
          tracker,    \* the CpuRateTracker
          base,       \* what was true at the baseline, a history variable
          gauge       \* the last sample's percentage, or Nothing

service == <<generation, identity, counter, used, machine>>
vars == <<time, service, now, tracker, base, gauge>>

Nothing == [published |-> FALSE]
RootPath == -1   \* the empty control group

Init ==
    /\ time = 0
    /\ generation = 0
    /\ identity = 0
    /\ counter = 0
    /\ used = 0
    /\ machine = 0
    /\ now = 0
    /\ tracker = Fresh(0)
    /\ base = [generation |-> 0, used |-> 0]
    /\ gauge = Nothing

\* Time passes and the service uses some of what the machine uses.
Tick ==
    /\ time < MaxTime
    /\ time' = time + 1
    /\ \E m \in 0 .. Cores : \E c \in 0 .. m :
          /\ counter' = counter + c
          /\ used' = used + c
          /\ machine' = machine + m
    /\ UNCHANGED <<generation, identity, now, tracker, base, gauge>>

Restart ==
    /\ generation < MaxGeneration
    /\ generation' = generation + 1
    /\ identity' \in IF FreshIdentities THEN {generation + 1}
                     ELSE {identity, generation + 1}
    /\ counter' = 0
    /\ UNCHANGED <<time, used, machine, now, tracker, base, gauge>>

\* The first line of update_metrics.
StartCycle ==
    /\ now' = time
    /\ UNCHANGED <<time, service, tracker, base, gauge>>

\* collect_process_metrics or collect_cgroup_metrics after a successful read of
\* a counter under an identity, its own or not.
SampleAs(id, value) ==
    /\ gauge' = IF Publishes(tracker, id, value, now)
                THEN [published |-> TRUE,
                      own |-> id # RootPath,
                      cpu |-> Rate(tracker, value, now).cpu,
                      wall |-> Rate(tracker, value, now).wall,
                      lag |-> time - now,
                      used |-> used - base.used,
                      oneGeneration |-> base.generation = generation]
                ELSE Nothing
    /\ tracker' = Rebase(tracker, id, value, now)
    /\ base' = [generation |-> generation, used |-> used]
    /\ UNCHANGED <<time, service, now>>

Sample == SampleAs(identity, counter)

\* A PID is never empty.
SampleRoot == ~FreshIdentities /\ SampleAs(RootPath, machine)

Next == Tick \/ Restart \/ StartCycle \/ Sample \/ SampleRoot

Spec == Init /\ [][Next]_vars

-----------------------------------------------------------------------------
(***************************************************************************)
(* Every variable has its type, the baseline is not ahead of the cycle nor *)
(* the cycle of the clock, and a published percentage is of CPU time that  *)
(* is not negative over wall time that is positive.                        *)
(***************************************************************************)
TypeOK ==
    /\ {time, generation, identity, counter, used, machine, now} \subseteq Nat
    /\ tracker \in [valid : BOOLEAN, id : Nat \cup {RootPath}, counter : Nat, at : Nat]
    /\ tracker.at <= now
    /\ now <= time
    /\ base \in [generation : Nat, used : Nat]
    /\ gauge \in {Nothing} \cup
          [published : {TRUE}, own : BOOLEAN, cpu : Nat, wall : Nat \ {0}, lag : Nat,
           used : Nat, oneGeneration : BOOLEAN]

(***************************************************************************)
(* A percentage published of the service never claims more CPU time than   *)
(* it used since the last sample, however often it restarted in between    *)
(* and whatever cgroup that sample was of: a restart the identity does not *)
(* show can hide CPU time, and cannot make a spike                         *)
(* (cpu_rate_tracker.h:33-40).  Two samples of the root cgroup in a row    *)
(* publish a percentage that is not of the service.                        *)
(***************************************************************************)
NeverOverestimates == gauge.published /\ gauge.own => gauge.cpu <= gauge.used

(***************************************************************************)
(* Within one generation nothing is lost or counted twice: a percentage of *)
(* the service is of exactly the CPU time used since the last successful   *)
(* sample, however many samples failed in between (cpu_rate_tracker.h:17-18*)
(* and 20-21).                                                             *)
(***************************************************************************)
ExactWithinGeneration ==
    gauge.published /\ gauge.own /\ gauge.oneGeneration => gauge.cpu = gauge.used

(***************************************************************************)
(* cpu_rate_tracker.h:10-12, "Bundling the identity with the baseline is   *)
(* what makes a restart safe": both samples of a percentage of the service *)
(* are of one generation.  service_monitor.cpp:170 says the same of the    *)
(* cgroup.                                                                 *)
(***************************************************************************)
OneGeneration == gauge.published /\ gauge.own => gauge.oneGeneration

(***************************************************************************)
(* On a machine of Cores cores a percentage, of the service or of the root *)
(* cgroup, is above Cores times 100% by no more than the delay between the *)
(* start of the cycle and the read of the counter (service_monitor.cpp:180 *)
(* against 136 and 163).                                                   *)
(***************************************************************************)
RateBounded ==
    gauge.published => gauge.cpu <= Cores * (gauge.wall + gauge.lag)
=============================================================================
