------------------------------- MODULE DiskIo -------------------------------
(***************************************************************************)
(* Disk::disk_stats, as far as the busy percentage goes: the timers are in *)
(* MonotonicTimer.  A device may be detached, and another attached under   *)
(* its name, whose counters start from 0.  A percentage is the pair the    *)
(* code divides.                                                           *)
(***************************************************************************)
EXTENDS Integers

CONSTANTS Devices,      \* names, but of loop, ram and multiple devices
          MaxDiskTime,  \* bound: ticks
          MaxAttached   \* bound: devices attached after the start

ASSUME DiskAssumption == {MaxDiskTime, MaxAttached} \subseteq Nat

VARIABLES busyTime,    \* ms_doing_io of each name in /proc/diskstats
          present,     \* names that are listed
          attached,    \* devices attached after the start, a history variable
          ticks,       \* real time, a history variable
          offset,      \* of the wall clock to real time
          gather,      \* "idle", "mounts" or "stats"
          start,       \* parameter of do_disk_stats, while a gather runs
          lastUpdated, \* last_updated_
          lastBusy,    \* last_ms_doing_io
          percentBusy, \* disk.percentBusy, as the gather that runs set it
          \* history variables:
          known,       \* names the last gather read, or attached after it
          inGathers,   \* ticks since the last gather read, while one ran
          stepped      \* whether the wall clock was stepped since the last gather

devices == <<busyTime, present, attached>>
clocks == <<ticks, offset>>
history == <<known, inGathers, stepped>>
diskVars == <<devices, clocks, gather, start, lastUpdated, lastBusy, percentBusy, history>>

Epoch == -1
NoPercentage == [set |-> FALSE]
Now == 1 + ticks + offset

DiskInit ==
    /\ busyTime \in [Devices -> 0 .. 1]
    /\ present = Devices
    /\ attached = 0
    /\ ticks = 0
    /\ offset = 0
    /\ gather = "idle"
    /\ start = 0
    /\ lastUpdated = Epoch
    /\ lastBusy = [d \in Devices |-> 0]
    /\ percentBusy = [d \in Devices |-> NoPercentage]
    /\ known = {}
    /\ inGathers = 0
    /\ stepped = FALSE

-----------------------------------------------------------------------------
(* The devices and the clock.                                              *)

\* A tick, with requests in flight at some devices.
DiskTick ==
    /\ ticks < MaxDiskTime
    /\ ticks' = ticks + 1
    /\ \E busy \in SUBSET present :
          busyTime' = [d \in Devices |-> busyTime[d] + (IF d \in busy THEN 1 ELSE 0)]
    /\ inGathers' = IF gather = "idle" THEN inGathers ELSE inGathers + 1
    /\ UNCHANGED <<present, attached, offset, gather, start, lastUpdated, lastBusy,
                   percentBusy, known, stepped>>

Detach(d) ==
    /\ d \in present
    /\ present' = present \ {d}
    /\ UNCHANGED <<busyTime, attached, clocks, gather, start, lastUpdated, lastBusy,
                   percentBusy, history>>

Attach(d) ==
    /\ d \notin present
    /\ attached < MaxAttached
    /\ attached' = attached + 1
    /\ present' = present \cup {d}
    /\ busyTime' = [busyTime EXCEPT ![d] = 0]
    /\ known' = known \cup {d}
    /\ UNCHANGED <<clocks, gather, start, lastUpdated, lastBusy, percentBusy, inGathers, stepped>>

\* Bound: by a tick, either way.
StepWall ==
    /\ offset' \in -1 .. 1 \ {offset}
    /\ stepped' = TRUE
    /\ UNCHANGED <<devices, ticks, gather, start, lastUpdated, lastBusy, percentBusy,
                   known, inGathers>>

-----------------------------------------------------------------------------
(* do_disk_stats                                                           *)

\* Until diskio_stats: statvfs of every mount point, which may take its time.
StartDiskStats ==
    /\ gather = "idle"
    /\ gather' = "mounts"
    /\ start' = Now
    /\ UNCHANGED <<devices, clocks, lastUpdated, lastBusy, percentBusy, history>>

\* The gauge of a device; the first gather does not set it.
PercentBusy(d) ==
    IF lastUpdated > Epoch /\ busyTime[d] >= lastBusy[d]
    THEN [set |-> TRUE, busy |-> busyTime[d] - lastBusy[d], interval |-> start - lastUpdated,
          inGathers |-> inGathers, sure |-> d \in known /\ ~stepped]
    ELSE NoPercentage

\* last_ms_doing_io, afterwards.
BusyBaselineOnceSet(d) == IF lastUpdated > Epoch THEN busyTime[d] ELSE lastBusy[d]
BusyBaseline(d) == busyTime[d]

DiskioStats ==
    /\ gather = "mounts"
    /\ gather' = "stats"
    /\ percentBusy' = [d \in Devices |-> IF d \in present THEN PercentBusy(d) ELSE NoPercentage]
    /\ lastBusy' = [d \in Devices |-> IF d \in present THEN BusyBaseline(d) ELSE lastBusy[d]]
    /\ known' = present
    /\ inGathers' = 0
    /\ UNCHANGED <<devices, clocks, start, lastUpdated, stepped>>

\* /proc/diskstats could not be opened: there is nothing to go through.
DiskstatsUnreadable ==
    /\ gather = "mounts"
    /\ gather' = "stats"
    /\ known' = {}
    /\ inGathers' = 0
    /\ UNCHANGED <<devices, clocks, start, lastUpdated, lastBusy, percentBusy, stepped>>

EndDiskStats ==
    /\ gather = "stats"
    /\ gather' = "idle"
    /\ start' = 0
    /\ lastUpdated' = Now
    /\ percentBusy' = [d \in Devices |-> NoPercentage]
    /\ stepped' = FALSE
    /\ UNCHANGED <<devices, clocks, lastBusy, known, inGathers>>

DiskNext ==
    \/ DiskTick \/ StepWall
    \/ \E d \in Devices : Detach(d) \/ Attach(d)
    \/ StartDiskStats \/ DiskioStats \/ DiskstatsUnreadable \/ EndDiskStats

DiskSpec == DiskInit /\ [][DiskNext]_diskVars

-----------------------------------------------------------------------------
DiskTypeOK ==
    /\ {busyTime, lastBusy} \subseteq [Devices -> Nat]
    /\ present \cup known \subseteq Devices
    /\ {attached, ticks, start, inGathers} \subseteq Nat
    /\ offset \in -1 .. 1
    /\ gather \in {"idle", "mounts", "stats"}
    /\ lastUpdated \in Nat \cup {Epoch}
    /\ percentBusy \in [Devices -> {NoPercentage} \cup
          [set : {TRUE}, busy : Nat, interval : Int, inGathers : Nat, sure : BOOLEAN]]
    /\ stepped \in BOOLEAN

(***************************************************************************)
(* disk.cpp:286-295: a device is published above 100% busy by no more than *)
(* the time the two gathers took, which the divisor leaves out; unless the *)
(* previous gather could not read it, or the clock was stepped.            *)
(***************************************************************************)
BusyWithinInterval ==
    \A d \in Devices : LET p == percentBusy[d]
                       IN  p.set /\ p.sure => p.busy <= p.interval + p.inGathers
=============================================================================
