------------------------------ MODULE CgroupIo ------------------------------
(***************************************************************************)
(* CGroup::IOStats: every five seconds, how much of its I/O limit a        *)
(* container used on each device, from io.stat and io.max.  A line that    *)
(* cannot be parsed takes all the others with it; a device without traffic *)
(* has a line of its name only; a device that comes back counts from 0.    *)
(*                                                                         *)
(* rbytes, wbytes, rios and wios go through the same code, each with its   *)
(* limit in io.max, and are one counter here.                              *)
(***************************************************************************)
EXTENDS Integers

CONSTANTS Disks,
          Limit,        \* of a device, for each tick, as the kernel enforces it
          Interval,     \* INTERVAL_SECONDS
          MaxIoTime,    \* bound: ticks
          MaxReadded    \* bound: times a device comes back

ASSUME IoAssumption ==
    /\ {Limit, Interval} \subseteq Nat \ {0}
    /\ {MaxIoTime, MaxReadded} \subseteq Nat

VARIABLES ioTime,        \* ticks
          io,            \* the counter of each device
          listed,        \* devices with a line in io.stat
          readded,       \* a history variable
          previousStats, \* previousStats, Unknown for devices not in it
          sampledAt,     \* when a device was last read, Unknown before, a history variable
          ioUnpublished, \* in disk.io.bytes, since the first sample of the device,
                         \* a history variable
          activity       \* the last cgroup.disk.io.throttleActivityBytes

ioVars == <<ioTime, io, listed, readded, previousStats, sampledAt, ioUnpublished, activity>>

Unknown == -1
NoActivity == [recorded |-> FALSE]

IoInit ==
    /\ ioTime = 0
    /\ io \in [Disks -> 0 .. 1]
    /\ listed \in SUBSET Disks
    /\ readded = 0
    /\ previousStats = [d \in Disks |-> Unknown]
    /\ sampledAt = [d \in Disks |-> Unknown]
    /\ ioUnpublished = [d \in Disks |-> 0]
    /\ activity = [d \in Disks |-> NoActivity]

-----------------------------------------------------------------------------
\* Time passes and devices move what their limit allows.
Transfer ==
    /\ ioTime < MaxIoTime
    /\ ioTime' = ioTime + 1
    /\ \E m \in [listed -> 0 .. Limit] :
          LET Moved(d) == IF d \in listed THEN m[d] ELSE 0
          IN  /\ io' = [d \in Disks |-> io[d] + Moved(d)]
              /\ ioUnpublished' = [d \in Disks |-> ioUnpublished[d] + Moved(d)]
    /\ UNCHANGED <<listed, readded, previousStats, sampledAt, activity>>

RemoveDevice(d) ==
    /\ d \in listed
    /\ listed' = listed \ {d}
    /\ UNCHANGED <<ioTime, io, readded, previousStats, sampledAt, ioUnpublished, activity>>

\* For a device that was known, what it had moved is lost from its counter.
Add(d) ==
    /\ d \notin listed
    /\ readded < MaxReadded
    /\ readded' = readded + 1
    /\ listed' = listed \cup {d}
    /\ io' = [io EXCEPT ![d] = 0]
    /\ UNCHANGED <<ioTime, previousStats, sampledAt, ioUnpublished, activity>>

-----------------------------------------------------------------------------
\* The devices ParseIOLines returns for the lines of those listed: `idle` have
\* no fields, `malformed` ones empty the result, and a file that cannot be read
\* has no lines.
ParseIOLinesButBad(idle, malformed) == listed \ (idle \cup malformed)
ParseIOLines(idle, malformed) ==
    IF malformed \ idle = {} THEN listed \ idle ELSE {}

\* UpdateIOMetrics for one device: `limits` are what io.max has of it.
Delta(d) == io[d] - previousStats[d]
UpdateActivity(d, limits) ==
    IF previousStats[d] # Unknown /\ limits
    THEN [recorded |-> TRUE, delta |-> Delta(d), allowed |-> Limit * Interval,
          span |-> ioTime - sampledAt[d]]
    ELSE activity[d]
Unpublished(d) ==
    IF sampledAt[d] = Unknown THEN 0
    ELSE ioUnpublished[d] - (IF previousStats[d] = Unknown THEN 0 ELSE Delta(d))

\* What previousStats becomes.
RememberOnly(stats) == [d \in Disks |-> IF d \in stats THEN io[d] ELSE Unknown]
Remember(stats) == [d \in Disks |-> IF d \in stats THEN io[d] ELSE previousStats[d]]

IOStats ==
    \E idle \in SUBSET listed, malformed \in SUBSET listed, limits \in BOOLEAN :
       LET stats == ParseIOLines(idle, malformed)
       IN  /\ activity' = [d \in Disks |-> IF d \in stats THEN UpdateActivity(d, limits)
                                           ELSE activity[d]]
           /\ ioUnpublished' = [d \in Disks |-> IF d \in stats THEN Unpublished(d)
                                              ELSE ioUnpublished[d]]
           /\ previousStats' = Remember(stats)
           /\ sampledAt' = [d \in Disks |-> IF d \in stats THEN ioTime ELSE sampledAt[d]]
           /\ UNCHANGED <<ioTime, io, listed, readded>>

IoNext == Transfer \/ (\E d \in Disks : RemoveDevice(d) \/ Add(d)) \/ IOStats

IoSpec == IoInit /\ [][IoNext]_ioVars

-----------------------------------------------------------------------------
IoTypeOK ==
    /\ {ioTime, readded} \subseteq Nat
    /\ io \in [Disks -> Nat]
    /\ listed \subseteq Disks
    /\ previousStats \in [Disks -> Nat \cup {Unknown}]
    /\ sampledAt \in [Disks -> {Unknown} \cup 0 .. ioTime]
    /\ ioUnpublished \in [Disks -> Int]
    /\ activity \in [Disks -> {NoActivity} \cup
          [recorded : {TRUE}, delta : Int, allowed : Nat \ {0}, span : Nat]]

(***************************************************************************)
(* cgroup.cpp:398-429 and 525-591: lines that cannot be parsed, devices    *)
(* that are idle, go away or come back make a sample late and never wrong. *)
(* What was not published yet of a device is what it moved since its last  *)
(* sample, until it is added again, and never less than nothing; and an    *)
(* activity is of no more than the limit allowed since that sample.  It is *)
(* above 100% only when that is longer than Interval.                      *)
(***************************************************************************)
IoAccounted ==
    \A d \in Disks :
       /\ ioUnpublished[d] >= 0
       /\ readded = 0 /\ previousStats[d] # Unknown =>
             ioUnpublished[d] = io[d] - previousStats[d]
       /\ activity[d].recorded => activity[d].delta <= Limit * activity[d].span
=============================================================================
