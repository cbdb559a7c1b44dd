---------------------------- MODULE DeviceProofs ----------------------------
(***************************************************************************)
(* What the collectors of devices and services promise, for every value of *)
(* their constants: timers, busy percentages and space of disks, the volumes *)
(* of EBS, the GPUs of AMD SMI, NVML and DCGM, and the age of the NTP sample. *)
(* The collectors share no state, so each has an invariant and a theorem of *)
(* its own; the last section is about all of them together.                *)
(***************************************************************************)
EXTENDS MCCollectors, KernelProofs

-----------------------------------------------------------------------------
(* MonotonicTimer: TimersNeverInvent is not inductive.  An update          *)
(* subtracts what the device counted since prev, so at least that much     *)
(* must be unpublished before, which is what Owed says.                    *)

Owed ==
    /\ unpublished.count >= 0 /\ unpublished.count >= device.count - prev.count
    /\ unpublished.time >= 0 /\ unpublished.time >= device.time - prev.time

TimerInv ==
    /\ TimerTypeOK
    /\ IF created THEN Owed ELSE prev = NoRequests /\ unpublished = NoRequests

\* Adding to a pair of counters.
LEMMA PlusTyped ==
    ASSUME NEW r \in [count : Int, time : Int], NEW c \in Int, NEW t \in Int
    PROVE  /\ Plus(r, c, t) \in [count : Int, time : Int]
           /\ Plus(r, c, t).count = r.count + c
           /\ Plus(r, c, t).time = r.time + t
    BY DEF Plus

LEMMA PlusTypedNat ==
    ASSUME NEW r \in [count : Nat, time : Nat], NEW c \in Nat, NEW t \in Nat
    PROVE  Plus(r, c, t) \in [count : Nat, time : Nat]
    BY DEF Plus

\* What monotonic_timer.cpp:15-27 publishes is nothing, or what the device
\* counted since the previous update.
LEMMA AddedSincePrev ==
    ASSUME TimerTypeOK
    PROVE  \/ Added = NoRequests
           \/ /\ prev.count > 0
              /\ Added.count = device.count - prev.count
              /\ Added.time = device.time - prev.time
              /\ Added \in [count : Int, time : Int]
    BY DEF TimerTypeOK, Added, Plus, NoRequests

LEMMA TimerInvInit == TimerInit => TimerInv
<1> SUFFICES ASSUME TimerInit PROVE TimerInv
    OBVIOUS
<1>1. device \in [count : Nat, time : Nat]
    BY TimerAssumption DEF TimerInit
<1>2. NoRequests \in [count : Nat, time : Nat] /\ NoRequests \in [count : Int, time : Int]
    BY DEF NoRequests
<1>3. TimerTypeOK
    BY <1>1, <1>2 DEF TimerInit, TimerTypeOK
<1> QED
    BY <1>3 DEF TimerInit, TimerInv

LEMMA TimerInvStep == TimerInv /\ [TimerNext]_timerVars => TimerInv'
<1> SUFFICES ASSUME TimerInv, [TimerNext]_timerVars PROVE TimerInv'
    OBVIOUS
<1> USE DEF TimerInv, NoRequests
<1>1. CASE Complete
  <2>1. PICK c \in 0 .. MaxRequests - device.count, t \in 0 .. MaxRequests - device.time :
          /\ device' = Plus(device, c, t)
          /\ unpublished' = IF created THEN Plus(unpublished, c, t) ELSE unpublished
      BY <1>1 DEF Complete
  <2>2. c \in Nat /\ t \in Nat
      BY TimerAssumption DEF TimerTypeOK
  <2>3. UNCHANGED <<replaced, created, prev>>
      BY <1>1 DEF Complete
  <2>4. TimerTypeOK'
      BY <2>1, <2>2, <2>3, PlusTypedNat, PlusTyped DEF TimerTypeOK
  <2>5. ASSUME created PROVE Owed'
    <3>1. unpublished' = Plus(unpublished, c, t)
        BY <2>1, <2>5
    <3> QED
        BY <2>1, <2>2, <2>3, <2>5, <3>1 DEF TimerTypeOK, Owed, Plus
  <2> QED
      BY <2>1, <2>3, <2>4, <2>5
<1>2. CASE Replace
  <2>1. TimerTypeOK'
      BY <1>2 DEF Replace, TimerTypeOK
  <2>2. Owed => Owed'
      BY <1>2 DEF Replace, TimerTypeOK, Owed
  <2> QED
      BY <1>2, <2>1, <2>2 DEF Replace
<1>3. CASE Update
  <2>1. /\ created' = TRUE
        /\ prev' = device
        /\ unpublished' = Plus(unpublished, -Added.count, -Added.time)
        /\ UNCHANGED <<device, replaced>>
      BY <1>3 DEF Update
  <2>2. Added.count \in Int /\ Added.time \in Int
      BY AddedSincePrev
  <2>3. TimerTypeOK'
      BY <2>1, <2>2, PlusTyped DEF TimerTypeOK
  <2>4. /\ unpublished'.count = unpublished.count - Added.count
        /\ unpublished'.time = unpublished.time - Added.time
      BY <2>1, <2>2, PlusTyped DEF TimerTypeOK
  <2>5. unpublished'.count >= 0 /\ unpublished'.time >= 0
    <3>1. CASE Added = NoRequests
        BY <2>4, <3>1 DEF TimerTypeOK, Owed
    <3>2. CASE prev.count > 0 /\ Added.count = device.count - prev.count
                 /\ Added.time = device.time - prev.time
        BY <2>4, <3>2 DEF TimerTypeOK, Owed
    <3> QED
        BY <3>1, <3>2, AddedSincePrev
  <2>6. Owed'
      BY <2>1, <2>3, <2>5 DEF TimerTypeOK, Owed
  <2> QED
      BY <2>1, <2>3, <2>6
<1>4. CASE UNCHANGED timerVars
    BY <1>4 DEF timerVars, TimerTypeOK, Owed
<1> QED
    BY <1>1, <1>2, <1>3, <1>4 DEF TimerNext

\* monotonic_timer.cpp:15-30: no timer ever publishes what did not happen since
\* it was created.
THEOREM TimersHonest == TimerSpec => []TimersNeverInvent
<1>1. TimerInv => TimersNeverInvent
    BY DEF TimerInv, TimersNeverInvent, Owed, NoRequests
<1> QED
    BY <1>1, TimerInvInit, TimerInvStep, PTL DEF TimerSpec

\* monotonic_timer.cpp:15-30: the totals of a timer are of numbers of requests.
LEMMA TimerTypes == TimerSpec => []TimerTypeOK
<1>1. TimerInv => TimerTypeOK
    BY DEF TimerInv
<1> QED
    BY <1>1, TimerInvInit, TimerInvStep, PTL DEF TimerSpec

-----------------------------------------------------------------------------
(* DiskIo: the busy time of a device since it was read is within the time  *)
(* since then, which is the interval that is divided by and the time the   *)
(* gathers took; a step of the clock matters until a gather has ended.     *)

SinceRead ==
    inGathers + (IF gather = "idle" THEN Now - lastUpdated
                 ELSE IF gather = "mounts" THEN start - lastUpdated ELSE 0)

DiskInv ==
    /\ busyTime \in [Devices -> Nat] /\ lastBusy \in [Devices -> Nat]
    /\ present \subseteq Devices /\ known \subseteq Devices
    /\ ticks \in Nat /\ inGathers \in Nat
    /\ offset \in Int /\ start \in Int /\ lastUpdated \in Int
    /\ gather \in {"idle", "mounts", "stats"}
    /\ DOMAIN percentBusy = Devices
    /\ gather = "stats" \/ ~stepped =>
          SinceRead >= 0 /\ \A d \in known : busyTime[d] - lastBusy[d] <= SinceRead
    /\ BusyWithinInterval

LEMMA DiskInvInit == DiskInit => DiskInv
<1> SUFFICES ASSUME DiskInit PROVE DiskInv
    OBVIOUS
<1>1. BusyWithinInterval
    BY DEF DiskInit, BusyWithinInterval, NoPercentage
<1>2. SinceRead >= 0 /\ known = {} /\ lastUpdated \in Int
    BY DEF DiskInit, SinceRead, Now, Epoch
<1>3. busyTime \in [Devices -> Nat] /\ lastBusy \in [Devices -> Nat] /\ DOMAIN percentBusy = Devices
    BY DEF DiskInit
<1> QED
    BY <1>1, <1>2, <1>3 DEF DiskInit, DiskInv

LEMMA SinceReadTyped == DiskInv => SinceRead \in Int
    BY DEF DiskInv, SinceRead, Now

LEMMA DiskTickStep == DiskInv /\ DiskTick => DiskInv'
<1> SUFFICES ASSUME DiskInv, DiskTick PROVE DiskInv'
    OBVIOUS
<1>1. /\ ticks' = ticks + 1
      /\ inGathers' = IF gather = "idle" THEN inGathers ELSE inGathers + 1
      /\ present' = present /\ offset' = offset /\ gather' = gather /\ start' = start
      /\ lastUpdated' = lastUpdated /\ lastBusy' = lastBusy /\ percentBusy' = percentBusy
      /\ known' = known /\ stepped' = stepped
    BY DEF DiskTick
<1>2. PICK busy \in SUBSET present :
        busyTime' = [d \in Devices |-> busyTime[d] + (IF d \in busy THEN 1 ELSE 0)]
    BY DEF DiskTick
<1>3. SinceRead' = SinceRead + 1
    BY <1>1 DEF DiskInv, SinceRead, Now
<1>4. /\ busyTime' \in [Devices -> Nat]
      /\ \A d \in Devices : busyTime'[d] <= busyTime[d] + 1
    BY <1>2 DEF DiskInv
<1>5. ASSUME gather' = "stats" \/ ~stepped'
      PROVE  SinceRead' >= 0 /\ \A d \in known' : busyTime'[d] - lastBusy'[d] <= SinceRead'
  <2>1. SinceRead \in Int /\ SinceRead >= 0
      BY <1>1, <1>5, SinceReadTyped DEF DiskInv
  <2>2. ASSUME NEW d \in known PROVE busyTime'[d] - lastBusy[d] <= SinceRead + 1
    <3>1. busyTime[d] - lastBusy[d] <= SinceRead /\ d \in Devices
        BY <1>1, <1>5 DEF DiskInv
    <3>2. busyTime[d] \in Nat /\ busyTime'[d] \in Nat /\ lastBusy[d] \in Nat
        BY <3>1, <1>4 DEF DiskInv
    <3> QED
        BY <3>1, <3>2, <2>1, <1>4
  <2> QED
      BY <2>1, <2>2, <1>1, <1>3
<1>6. ticks' \in Nat /\ inGathers' \in Nat
    BY <1>1 DEF DiskInv
<1>7. BusyWithinInterval'
    BY <1>1 DEF DiskInv, BusyWithinInterval
<1> QED
    BY <1>1, <1>4, <1>5, <1>6, <1>7 DEF DiskInv

LEMMA AttachStep == DiskInv /\ (\E d \in Devices : Attach(d)) => DiskInv'
<1> SUFFICES ASSUME DiskInv, NEW d \in Devices, Attach(d) PROVE DiskInv'
    OBVIOUS
<1>1. /\ present' = present \cup {d} /\ busyTime' = [busyTime EXCEPT ![d] = 0]
      /\ known' = known \cup {d}
      /\ ticks' = ticks /\ offset' = offset /\ gather' = gather /\ start' = start
      /\ lastUpdated' = lastUpdated /\ lastBusy' = lastBusy /\ percentBusy' = percentBusy
      /\ inGathers' = inGathers /\ stepped' = stepped
    BY DEF Attach, clocks
<1>2. SinceRead' = SinceRead
    BY <1>1 DEF SinceRead, Now
<1>3. /\ busyTime' \in [Devices -> Nat] /\ busyTime'[d] = 0
      /\ \A e \in Devices \ {d} : busyTime'[e] = busyTime[e]
    BY <1>1 DEF DiskInv
<1>4. ASSUME gather' = "stats" \/ ~stepped'
      PROVE  SinceRead' >= 0 /\ \A e \in known' : busyTime'[e] - lastBusy'[e] <= SinceRead'
  <2>1. SinceRead >= 0 /\ SinceRead \in Int /\ \A e \in known : busyTime[e] - lastBusy[e] <= SinceRead
      BY <1>1, <1>4, SinceReadTyped DEF DiskInv
  <2>2. lastBusy[d] \in Nat
      BY DEF DiskInv
  <2>3. busyTime'[d] - lastBusy[d] <= SinceRead
      BY <2>1, <2>2, <1>3
  <2> QED
      BY <2>1, <2>3, <1>1, <1>2, <1>3 DEF DiskInv
<1>5. BusyWithinInterval'
    BY <1>1 DEF DiskInv, BusyWithinInterval
<1> QED
    BY <1>1, <1>3, <1>4, <1>5 DEF DiskInv

LEMMA DiskioStatsStep == DiskInv /\ DiskioStats => DiskInv'
<1> SUFFICES ASSUME DiskInv, DiskioStats PROVE DiskInv'
    OBVIOUS
<1>1. /\ gather = "mounts" /\ gather' = "stats" /\ known' = present /\ inGathers' = 0
      /\ percentBusy' = [d \in Devices |-> IF d \in present THEN PercentBusy(d) ELSE NoPercentage]
      /\ lastBusy' = [d \in Devices |-> IF d \in present THEN busyTime[d] ELSE lastBusy[d]]
      /\ busyTime' = busyTime /\ present' = present /\ ticks' = ticks /\ offset' = offset
      /\ start' = start /\ lastUpdated' = lastUpdated /\ stepped' = stepped
    BY DEF DiskioStats, BusyBaseline, devices, clocks
<1>2. SinceRead' = 0 /\ \A d \in present : busyTime'[d] - lastBusy'[d] = 0
    BY <1>1 DEF DiskInv, SinceRead
<1>3. ASSUME NEW d \in Devices, percentBusy'[d].set, percentBusy'[d].sure
      PROVE  percentBusy'[d].busy <= percentBusy'[d].interval + percentBusy'[d].inGathers
  <2>1. percentBusy'[d] = [set |-> TRUE, busy |-> busyTime[d] - lastBusy[d],
                           interval |-> start - lastUpdated, inGathers |-> inGathers,
                           sure |-> d \in known /\ ~stepped]
      BY <1>1, <1>3 DEF PercentBusy, NoPercentage
  <2>2. d \in known /\ ~stepped
    <3>1. percentBusy'[d].sure = (d \in known /\ ~stepped)
        BY <2>1
    <3> QED
        BY <3>1, <1>3
  <2>3. busyTime[d] - lastBusy[d] <= inGathers + (start - lastUpdated)
      BY <1>1, <2>2 DEF DiskInv, SinceRead
  <2>4. inGathers \in Int /\ start \in Int /\ lastUpdated \in Int
      BY DEF DiskInv
  <2>5. inGathers + (start - lastUpdated) = (start - lastUpdated) + inGathers
      BY <2>4
  <2> QED
      BY <2>1, <2>3, <2>5
<1>4. BusyWithinInterval'
    BY <1>3 DEF BusyWithinInterval
<1>5. lastBusy' \in [Devices -> Nat] /\ DOMAIN percentBusy' = Devices
    BY <1>1 DEF DiskInv
<1> QED
    BY <1>1, <1>2, <1>4, <1>5 DEF DiskInv

LEMMA DiskInvStep == DiskInv /\ [DiskNext]_diskVars => DiskInv'
<1> SUFFICES ASSUME DiskInv, [DiskNext]_diskVars PROVE DiskInv'
    OBVIOUS
<1>1. CASE DiskTick
    BY <1>1, DiskTickStep
<1>2. CASE StepWall
  <2>1. /\ offset' \in Int /\ stepped' = TRUE
        /\ busyTime' = busyTime /\ present' = present /\ ticks' = ticks /\ gather' = gather
        /\ start' = start /\ lastUpdated' = lastUpdated /\ lastBusy' = lastBusy
        /\ percentBusy' = percentBusy /\ known' = known /\ inGathers' = inGathers
      BY <1>2 DEF StepWall, devices
  <2>2. gather = "stats" => SinceRead' = SinceRead
      BY <2>1 DEF SinceRead
  <2>3. BusyWithinInterval'
      BY <2>1 DEF DiskInv, BusyWithinInterval
  <2>4. gather' = "stats" \/ ~stepped' =>
           SinceRead' >= 0 /\ \A d \in known' : busyTime'[d] - lastBusy'[d] <= SinceRead'
      BY <2>1, <2>2 DEF DiskInv
  <2> QED
      BY <2>1, <2>3, <2>4 DEF DiskInv
<1>3. CASE \E d \in Devices : Detach(d)
    BY <1>3 DEF Detach, clocks, history, DiskInv, SinceRead, Now, BusyWithinInterval
<1>4. CASE \E d \in Devices : Attach(d)
    BY <1>4, AttachStep
<1>5. CASE StartDiskStats
  <2>1. /\ gather = "idle" /\ gather' = "mounts" /\ start' = Now
        /\ busyTime' = busyTime /\ present' = present /\ ticks' = ticks /\ offset' = offset
        /\ lastUpdated' = lastUpdated /\ lastBusy' = lastBusy /\ percentBusy' = percentBusy
        /\ known' = known /\ inGathers' = inGathers /\ stepped' = stepped
      BY <1>5 DEF StartDiskStats, devices, clocks, history
  <2>2. SinceRead' = SinceRead
      BY <2>1 DEF SinceRead
  <2>3. start' \in Int
      BY <2>1 DEF DiskInv, Now
  <2>4. BusyWithinInterval'
      BY <2>1 DEF DiskInv, BusyWithinInterval
  <2> QED
      BY <2>1, <2>2, <2>3, <2>4 DEF DiskInv
<1>6. CASE DiskioStats
    BY <1>6, DiskioStatsStep
<1>7. CASE DiskstatsUnreadable
    BY <1>7 DEF DiskstatsUnreadable, devices, clocks, DiskInv, SinceRead, BusyWithinInterval
<1>8. CASE EndDiskStats
  <2>1. /\ gather = "stats" /\ gather' = "idle" /\ start' = 0 /\ lastUpdated' = Now
        /\ percentBusy' = [d \in Devices |-> NoPercentage] /\ stepped' = FALSE
        /\ busyTime' = busyTime /\ present' = present /\ ticks' = ticks /\ offset' = offset
        /\ lastBusy' = lastBusy /\ known' = known /\ inGathers' = inGathers
      BY <1>8 DEF EndDiskStats, devices, clocks
  <2>2. SinceRead' = SinceRead /\ lastUpdated' \in Int
      BY <2>1 DEF DiskInv, SinceRead, Now
  <2>3. BusyWithinInterval'
      BY <2>1 DEF BusyWithinInterval, NoPercentage
  <2> QED
      BY <2>1, <2>2, <2>3 DEF DiskInv
<1>9. CASE UNCHANGED diskVars
    BY <1>9 DEF diskVars, devices, clocks, history, DiskInv, SinceRead, Now, BusyWithinInterval
<1> QED
    BY <1>1, <1>2, <1>3, <1>4, <1>5, <1>6, <1>7, <1>8, <1>9 DEF DiskNext

\* disk.cpp:286-295: the percentage is over a hundred by the gathers' own time at
\* most, however long they take.
THEOREM BusyHonest == DiskSpec => []BusyWithinInterval
<1>1. DiskInv => BusyWithinInterval
    BY DEF DiskInv
<1> QED
    BY <1>1, DiskInvInit, DiskInvStep, PTL DEF DiskSpec

LEMMA DiskTypesInit == DiskInit => DiskTypeOK
<1> SUFFICES ASSUME DiskInit PROVE DiskTypeOK
    OBVIOUS
<1>1. busyTime \in [Devices -> Nat] /\ lastBusy \in [Devices -> Nat]
    BY DEF DiskInit
<1>2. percentBusy \in [Devices -> {NoPercentage} \cup
          [set : {TRUE}, busy : Nat, interval : Int, inGathers : Nat, sure : BOOLEAN]]
    BY DEF DiskInit
<1>3. /\ present = Devices /\ known = {} /\ attached = 0 /\ ticks = 0 /\ start = 0
      /\ inGathers = 0 /\ offset = 0 /\ gather = "idle" /\ lastUpdated = Epoch /\ stepped = FALSE
    BY DEF DiskInit
<1>4. present \cup known \subseteq Devices /\ {attached, ticks, start, inGathers} \subseteq Nat
  <2>1. present \subseteq Devices /\ known \subseteq Devices
      BY <1>3
  <2>2. attached \in Nat /\ ticks \in Nat /\ start \in Nat /\ inGathers \in Nat
      BY <1>3
  <2> QED
      BY <2>1, <2>2, Zenon
<1>5. offset \in -1 .. 1
    BY <1>3
<1>6. gather \in {"idle", "mounts", "stats"} /\ stepped \in BOOLEAN
    BY <1>3, Zenon
<1>7. lastUpdated \in Nat \cup {Epoch}
    BY <1>3
<1> QED
    BY <1>1, <1>2, <1>4, <1>5, <1>6, <1>7 DEF DiskTypeOK

LEMMA DiskTypesStep == DiskInv /\ DiskTypeOK /\ [DiskNext]_diskVars => DiskTypeOK'
<1> SUFFICES ASSUME DiskInv, DiskTypeOK, [DiskNext]_diskVars PROVE DiskTypeOK'
    OBVIOUS
<1>1. /\ busyTime \in [Devices -> Nat] /\ lastBusy \in [Devices -> Nat]
      /\ present \subseteq Devices /\ known \subseteq Devices
      /\ attached \in Nat /\ ticks \in Nat /\ start \in Nat /\ inGathers \in Nat
      /\ offset \in -1 .. 1 /\ gather \in {"idle", "mounts", "stats"}
      /\ lastUpdated \in Nat \cup {Epoch} /\ stepped \in BOOLEAN
    BY DEF DiskTypeOK
<1>2. Now \in Nat
    BY <1>1 DEF Now
<1> DEFINE Busyness == {NoPercentage} \cup
              [set : {TRUE}, busy : Nat, interval : Int, inGathers : Nat, sure : BOOLEAN]
<1>3. percentBusy \in [Devices -> Busyness]
    BY DEF DiskTypeOK
<1>4. [d \in Devices |-> NoPercentage] \in [Devices -> Busyness]
    OBVIOUS
<1> HIDE DEF Busyness
<1> DEFINE Typed == /\ busyTime \in [Devices -> Nat] /\ lastBusy \in [Devices -> Nat]
                    /\ present \subseteq Devices /\ known \subseteq Devices
                    /\ attached \in Nat /\ ticks \in Nat /\ start \in Nat /\ inGathers \in Nat
                    /\ offset \in -1 .. 1 /\ gather \in {"idle", "mounts", "stats"}
                    /\ lastUpdated \in Nat \cup {Epoch} /\ stepped \in BOOLEAN
                    /\ percentBusy \in [Devices -> Busyness]
<1> SUFFICES Typed'
    BY DEF DiskTypeOK, Busyness
<1>5. CASE DiskTick
  <2>1. PICK busy \in SUBSET present :
           busyTime' = [d \in Devices |-> busyTime[d] + (IF d \in busy THEN 1 ELSE 0)]
      BY <1>5 DEF DiskTick
  <2>2. busyTime' \in [Devices -> Nat]
      BY <1>1, <2>1
  <2>3. ticks' \in Nat /\ inGathers' \in Nat
      BY <1>1, <1>5 DEF DiskTick
  <2> QED
      BY <1>1, <1>3, <1>5, <2>2, <2>3 DEF DiskTick
<1>6. CASE StepWall
    BY <1>1, <1>3, <1>6 DEF StepWall, devices
<1>7. ASSUME NEW d \in Devices, Detach(d) \/ Attach(d) PROVE Typed'
    BY <1>1, <1>3, <1>7 DEF Detach, Attach, devices, clocks, history
<1>8. CASE StartDiskStats
    BY <1>1, <1>2, <1>3, <1>8 DEF StartDiskStats, devices, clocks, history
<1>9. CASE DiskioStats
  <2>1. \A d \in Devices : BusyBaseline(d) \in Nat
      BY <1>1 DEF BusyBaseline
  <2>2. ASSUME NEW d \in Devices PROVE PercentBusy(d) \in Busyness
    <3>1. CASE lastUpdated > Epoch /\ busyTime[d] >= lastBusy[d]
      <4>1. busyTime[d] - lastBusy[d] \in Nat /\ start - lastUpdated \in Int
          BY <1>1, <3>1 DEF Epoch
      <4>2. (d \in known /\ ~stepped) \in BOOLEAN
          OBVIOUS
      <4> QED
          BY <1>1, <3>1, <4>1, <4>2 DEF PercentBusy, Busyness
    <3> QED
        BY <3>1 DEF PercentBusy, Busyness
  <2>3. percentBusy' \in [Devices -> Busyness] /\ lastBusy' \in [Devices -> Nat]
      BY <1>1, <1>4, <1>9, <2>1, <2>2 DEF DiskioStats
  <2> QED
      BY <1>1, <1>9, <2>3 DEF DiskioStats, devices, clocks
<1>10. CASE DiskstatsUnreadable
    BY <1>1, <1>3, <1>10 DEF DiskstatsUnreadable, devices, clocks
<1>11. CASE EndDiskStats
    BY <1>1, <1>2, <1>4, <1>11 DEF EndDiskStats, devices, clocks
<1>12. CASE UNCHANGED diskVars
    BY <1>1, <1>3, <1>12 DEF diskVars, devices, clocks, history
<1> QED
    BY <1>5, <1>6, <1>7, <1>8, <1>9, <1>10, <1>11, <1>12 DEF DiskNext

\* What a percentage is computed from has its type; a busy time is never negative.
LEMMA DiskTypes == DiskSpec => []DiskTypeOK
<1>1. DiskInit => DiskInv /\ DiskTypeOK
    BY DiskInvInit, DiskTypesInit
<1>2. DiskInv /\ DiskTypeOK /\ [DiskNext]_diskVars => DiskInv' /\ DiskTypeOK'
    BY DiskInvStep, DiskTypesStep
<1> QED
    BY <1>1, <1>2, PTL DEF DiskSpec

-----------------------------------------------------------------------------
(* DiskSpace: the candidates after each mount of the table.                *)

MountPoint == [fs : Filesystems, path : MountPaths \cup {<<>>}, whole : BOOLEAN]
CandidateMaps == UNION {[D -> MountPoint] : D \in SUBSET Filesystems}

\* The mounts of interest among the first n.
Among(mounts, unwanted, n) == {i \in 1 .. n : Interesting(mounts[i], unwanted)}

LEMMA PathLength == \A m \in MountPoint : m.path \in Seq(STRING) /\ Len(m.path) \in Nat
<1>1. \A p \in MountPaths : p \in Seq(STRING)
    BY SpaceAssumption, Zenon DEF SpaceAssumption
<1>2. <<>> \in Seq(STRING)
    OBVIOUS
<1>3. ASSUME NEW S PROVE \A p \in Seq(S) : Len(p) \in Nat
    OBVIOUS
<1>4. \A m \in MountPoint : m.path \in MountPaths \/ m.path = <<>>
    BY DEF MountPoint
<1>5. \A m \in MountPoint : m.path \in Seq(STRING)
    BY <1>1, <1>2, <1>4, Zenon
<1> QED
    BY <1>3, <1>5, Zenon

\* One mount more is a candidate where it was not, and the others are as before.
AddedTo(c, m) == [f \in DOMAIN c \cup {m.fs} |-> IF f = m.fs THEN m ELSE c[f]]

LEMMA CandidatesTyped ==
    ASSUME NEW c \in CandidateMaps, NEW m \in MountPoint, NEW unwanted
    PROVE  AfterMount(c, m, unwanted) \in CandidateMaps
<1>1. CASE AfterMount(c, m, unwanted) = c
    BY <1>1
<1>2. CASE AfterMount(c, m, unwanted) = AddedTo(c, m)
  <2>1. PICK D \in SUBSET Filesystems : c \in [D -> MountPoint]
      BY DEF CandidateMaps
  <2>2. m.fs \in Filesystems
      BY DEF MountPoint
  <2>3. AddedTo(c, m) \in [D \cup {m.fs} -> MountPoint]
      BY <2>1 DEF AddedTo
  <2>4. D \cup {m.fs} \in SUBSET Filesystems
      BY <2>2
  <2> QED
      BY <1>2, <2>3, <2>4 DEF CandidateMaps
<1> QED
    BY <1>1, <1>2 DEF AfterMount, AddedTo

LEMMA CandidatesRun ==
    ASSUME NEW mounts \in Seq(MountPoint), NEW unwanted
    PROVE  \E after : /\ after[0] = <<>>
                      /\ \A n \in 1 .. Len(mounts) :
                            after[n] = AfterMount(after[n - 1], mounts[n], unwanted)
                      /\ Candidates(mounts, unwanted) = after[Len(mounts)]
<1> DEFINE step == [x \in CandidateMaps \X MountPoint |-> AfterMount(x[1], x[2], unwanted)]
           One(g, n) == IF n = 0 THEN <<>> ELSE AfterMount(g[n - 1], mounts[n], unwanted)
           Filtering(g) == g = [n \in 0 .. Len(mounts) |-> One(g, n)]
<1>1. <<>> \in CandidateMaps
  <2>1. <<>> \in [{} -> MountPoint]
      OBVIOUS
  <2> QED
      BY <2>1 DEF CandidateMaps
<1>2. step \in [CandidateMaps \X MountPoint -> CandidateMaps]
    BY CandidatesTyped
<1>3. PICK g \in [0 .. Len(mounts) -> CandidateMaps] : Looping(step, <<>>, mounts, g)
  <2> HIDE DEF step
  <2> QED
      BY <1>1, <1>2, LoopOver
<1>4. ASSUME NEW n \in 0 .. Len(mounts), n # 0
      PROVE  step[<<g[n - 1], mounts[n]>>] = AfterMount(g[n - 1], mounts[n], unwanted)
  <2>1. g[n - 1] \in CandidateMaps /\ mounts[n] \in MountPoint
      BY <1>4
  <2> QED
      BY <2>1
<1>5. Filtering(g)
  <2> HIDE DEF step
  <2> QED
      BY <1>3, <1>4 DEF Looping
<1> DEFINE after == CHOOSE h : Filtering(h)
<1>6. Filtering(after)
  <2> HIDE DEF Filtering
  <2> QED
      BY <1>5
<1>7. Candidates(mounts, unwanted) = after[Len(mounts)]
    BY DEF Candidates
<1> HIDE DEF after
<1>8. \A n \in 0 .. Len(mounts) : after[n] = One(after, n)
  <2> HIDE DEF One
  <2> QED
      BY <1>6
<1>9. after[0] = <<>>
    BY <1>8
<1>10. \A n \in 1 .. Len(mounts) : after[n] = AfterMount(after[n - 1], mounts[n], unwanted)
    BY <1>8
<1> QED
    BY <1>7, <1>9, <1>10

\* One candidate for each filesystem of interest, of its shortest path.
Shortest(c, mounts, unwanted, n) ==
    /\ DOMAIN c = {mounts[i].fs : i \in Among(mounts, unwanted, n)}
    /\ \A f \in DOMAIN c : \E i \in Among(mounts, unwanted, n) : c[f] = mounts[i] /\ mounts[i].fs = f
    /\ \A i \in Among(mounts, unwanted, n) : Len(c[mounts[i].fs].path) <= Len(mounts[i].path)

LEMMA AfterMountShortest ==
    ASSUME NEW mounts \in Seq(MountPoint), NEW unwanted, NEW n \in Nat, n + 1 <= Len(mounts),
           NEW c, Shortest(c, mounts, unwanted, n)
    PROVE  Shortest(AfterMount(c, mounts[n + 1], unwanted), mounts, unwanted, n + 1)
<1> DEFINE m == mounts[n + 1]
           A == Among(mounts, unwanted, n)
           B == Among(mounts, unwanted, n + 1)
           d == AfterMount(c, m, unwanted)
<1>1. /\ \A i \in 1 .. n + 1 : mounts[i] \in MountPoint /\ Len(mounts[i].path) \in Nat
      /\ \A i \in A : mounts[i] \in MountPoint /\ Len(mounts[i].path) \in Nat
      /\ m \in MountPoint /\ Len(m.path) \in Nat
    BY PathLength DEF Among
<1>2. B = IF Interesting(m, unwanted) THEN A \cup {n + 1} ELSE A
  <2>1. 1 .. n + 1 = (1 .. n) \cup {n + 1}
      OBVIOUS
  <2> QED
      BY <2>1 DEF Among
<1>3. /\ DOMAIN c = {mounts[i].fs : i \in A}
      /\ \A f \in DOMAIN c : \E i \in A : c[f] = mounts[i] /\ mounts[i].fs = f
      /\ \A i \in A : Len(c[mounts[i].fs].path) <= Len(mounts[i].path)
    BY DEF Shortest
<1>4. d = IF \/ ~Interesting(m, unwanted)
             \/ m.fs \in DOMAIN c /\ ~(Len(m.path) < Len(c[m.fs].path))
          THEN c ELSE AddedTo(c, m)
    BY DEF AfterMount, Shorter, AddedTo
<1> HIDE DEF A, B, d, m
<1>5. \A f \in DOMAIN c : Len(c[f].path) \in Nat
    BY <1>1, <1>3
<1>6. CASE ~Interesting(m, unwanted)
    BY <1>2, <1>3, <1>4, <1>6 DEF Shortest, A, B, d, m
<1>7. CASE Interesting(m, unwanted) /\ m.fs \in DOMAIN c /\ ~(Len(m.path) < Len(c[m.fs].path))
  <2>1. d = c /\ B = A \cup {n + 1} /\ mounts[n + 1] = m
      BY <1>2, <1>4, <1>7 DEF m
  <2>2. Len(c[m.fs].path) <= Len(m.path)
      BY <1>1, <1>5, <1>7
  <2>3. DOMAIN d = {mounts[i].fs : i \in B}
      BY <1>3, <1>7, <2>1
  <2>4. \A f \in DOMAIN d : \E i \in B : d[f] = mounts[i] /\ mounts[i].fs = f
      BY <1>3, <2>1
  <2>5. \A i \in B : Len(d[mounts[i].fs].path) <= Len(mounts[i].path)
      BY <1>3, <2>1, <2>2
  <2> QED
      BY <2>3, <2>4, <2>5 DEF Shortest, B, d, m
<1>8. CASE Interesting(m, unwanted) /\ ~(m.fs \in DOMAIN c /\ ~(Len(m.path) < Len(c[m.fs].path)))
  <2>1. d = AddedTo(c, m) /\ B = A \cup {n + 1} /\ mounts[n + 1] = m
      BY <1>2, <1>4, <1>8 DEF m
  <2>2. /\ DOMAIN d = DOMAIN c \cup {m.fs}
        /\ \A f \in DOMAIN c \cup {m.fs} : d[f] = IF f = m.fs THEN m ELSE c[f]
      BY <2>1 DEF AddedTo
  <2>3. m.fs \in DOMAIN c => Len(m.path) <= Len(c[m.fs].path)
      BY <1>1, <1>5, <1>8
  <2>4. DOMAIN d = {mounts[i].fs : i \in B}
      BY <1>3, <2>1, <2>2
  <2>5. ASSUME NEW f \in DOMAIN d PROVE \E i \in B : d[f] = mounts[i] /\ mounts[i].fs = f
    <3>1. CASE f = m.fs
        BY <2>1, <2>2, <3>1
    <3>2. CASE f # m.fs
        BY <1>3, <2>1, <2>2, <3>2
    <3> QED
        BY <3>1, <3>2
  <2>6. ASSUME NEW i \in B PROVE Len(d[mounts[i].fs].path) <= Len(mounts[i].path)
    <3>1. CASE i = n + 1
        BY <1>1, <2>1, <2>2, <3>1
    <3>2. CASE i \in A /\ mounts[i].fs # m.fs
        BY <1>3, <2>2, <3>2
    <3>3. CASE i \in A /\ mounts[i].fs = m.fs
      <4>1. m.fs \in DOMAIN c /\ Len(c[m.fs].path) <= Len(mounts[i].path) /\ d[m.fs] = m
          BY <1>3, <2>2, <3>3
      <4> QED
          BY <1>1, <1>5, <2>3, <3>3, <4>1
    <3> QED
        BY <2>1, <3>1, <3>2, <3>3
  <2> QED
      BY <2>4, <2>5, <2>6 DEF Shortest, B, d, m
<1> QED
    BY <1>6, <1>7, <1>8

LEMMA CandidatesShortest ==
    ASSUME NEW mounts \in Seq(MountPoint), NEW unwanted
    PROVE  Shortest(Candidates(mounts, unwanted), mounts, unwanted, Len(mounts))
<1>1. PICK after : /\ after[0] = <<>>
                   /\ \A n \in 1 .. Len(mounts) :
                         after[n] = AfterMount(after[n - 1], mounts[n], unwanted)
                   /\ Candidates(mounts, unwanted) = after[Len(mounts)]
    BY CandidatesRun
<1> DEFINE T == {n \in Nat : n <= Len(mounts) => Shortest(after[n], mounts, unwanted, n)}
<1>2. 0 \in T
    BY <1>1 DEF Shortest, Among
<1>3. ASSUME NEW n \in Nat, n \in T PROVE n + 1 \in T
  <2>1. SUFFICES ASSUME n + 1 <= Len(mounts) PROVE Shortest(after[n + 1], mounts, unwanted, n + 1)
      OBVIOUS
  <2>2. n + 1 \in 1 .. Len(mounts) /\ (n + 1) - 1 = n /\ n <= Len(mounts)
      BY <2>1
  <2>3. after[n + 1] = AfterMount(after[n], mounts[n + 1], unwanted)
      BY <1>1, <2>2
  <2> QED
      BY <1>3, <2>1, <2>2, <2>3, AfterMountShortest
<1>4. Len(mounts) \in T
  <2>1. Nat \subseteq T
    <3> HIDE DEF T
    <3> QED
        BY <1>2, <1>3, NaturalsIn
  <2> QED
      BY <2>1
<1> QED
    BY <1>1, <1>4

(* A gather asks for candidates only, each once, and the mount that covers *)
(* a path is a later one than that of the path.                            *)
Chosen(m) ==
    /\ \E i \in Read : seen[i] = m
    /\ \A i \in Read : seen[i].fs = m.fs => Len(m.path) <= Len(seen[i].path)

SpaceInv ==
    /\ table \in Seq(MountPoint) /\ seen \in Seq(MountPoint)
    /\ \A m \in toStat : Chosen(m)
    /\ \A m, n \in toStat : m.fs = n.fs => m = n
    /\ \A m \in toStat, f \in figures : m.fs # f.mount.fs
    /\ \A f \in figures : Chosen(f.mount)
    /\ SpaceAttributed

LEMMA SpaceInvInit == SpaceInit => SpaceInv
<1> SUFFICES ASSUME SpaceInit PROVE SpaceInv
    OBVIOUS
<1>1. table \in Seq(MountPoint)
  <2>1. PICK f \in Filesystems : table = <<[fs |-> f, path |-> <<>>, whole |-> TRUE]>>
      BY DEF SpaceInit
  <2>2. [fs |-> f, path |-> <<>>, whole |-> TRUE] \in MountPoint
      BY DEF MountPoint
  <2> QED
      BY <2>1, <2>2
<1>2. seen = <<>> /\ toStat = {} /\ figures = {}
    BY DEF SpaceInit
<1>3. Read = {}
    BY <1>2 DEF Read
<1>4. SpaceAttributed
    BY <1>2, <1>3 DEF SpaceAttributed
<1> QED
    BY <1>1, <1>2, <1>4 DEF SpaceInv

\* The table changes: what the gather has read does not.
LEMMA RemountKeeps ==
    ASSUME SpaceInv, table' \in Seq(MountPoint), UNCHANGED <<seen, nodev, toStat, figures>>
    PROVE  SpaceInv'
<1>1. Read' = Read /\ \A m : Chosen(m)' = Chosen(m)
    BY DEF Read, Chosen
<1>2. SpaceAttributed'
  <2>1. seen' = seen /\ toStat' = toStat /\ figures' = figures
      OBVIOUS
  <2>2. /\ {f.mount.fs : f \in figures} \cup {m.fs : m \in toStat} = {seen[i].fs : i \in Read}
        /\ \A f, g \in figures : f.mount.fs = g.mount.fs => f = g
        /\ \A f \in figures, i \in Read : seen[i].fs = f.mount.fs => Len(f.mount.path) <= Len(seen[i].path)
        /\ \A f \in figures : f.asRead /\ f.of \notin {{}, {f.mount.fs}} =>
              \E i \in Read, j \in DOMAIN seen :
                 seen[i] = f.mount /\ i < j /\ IsPrefix(seen[j].path, f.mount.path)
      BY DEF SpaceInv, SpaceAttributed
  <2>3. {f.mount.fs : f \in figures'} \cup {m.fs : m \in toStat'} = {seen'[i].fs : i \in Read'}
      BY <1>1, <2>1, <2>2
  <2>4. \A f, g \in figures' : f.mount.fs = g.mount.fs => f = g
      BY <2>1, <2>2
  <2>5. \A f \in figures', i \in Read' :
           seen'[i].fs = f.mount.fs => Len(f.mount.path) <= Len(seen'[i].path)
      BY <1>1, <2>1, <2>2
  <2>6. \A f \in figures' : f.asRead /\ f.of \notin {{}, {f.mount.fs}} =>
           \E i \in Read', j \in DOMAIN seen' :
              seen'[i] = f.mount /\ i < j /\ IsPrefix(seen'[j].path, f.mount.path)
      BY <1>1, <2>1, <2>2
  <2> QED
      BY <2>3, <2>4, <2>5, <2>6, Zenon DEF SpaceAttributed
<1> QED
    BY <1>1, <1>2 DEF SpaceInv

LEMMA RemovedTyped ==
    ASSUME NEW S, NEW s \in Seq(S), NEW i \in 1 .. Len(s)
    PROVE  RemoveAt(s, i) \in Seq(S)
<1>1. SubSeq(s, 1, i - 1) \in Seq(S) /\ SubSeq(s, i + 1, Len(s)) \in Seq(S)
  <2>1. SubSeq(s, 1, i - 1) \in Seq(S)
    <3>1. \A j \in 1 .. i - 1 : s[j] \in S
        OBVIOUS
    <3> QED
        BY <3>1
  <2>2. SubSeq(s, i + 1, Len(s)) \in Seq(S)
    <3>1. \A j \in i + 1 .. Len(s) : s[j] \in S
        OBVIOUS
    <3> QED
        BY <3>1
  <2> QED
      BY <2>1, <2>2
<1> QED
    BY <1>1 DEF RemoveAt

LEMMA GatherSpaceStep == SpaceInv /\ GatherSpace => SpaceInv'
<1> SUFFICES ASSUME SpaceInv, GatherSpace PROVE SpaceInv'
    OBVIOUS
<1>1. PICK s, u : /\ seen' = s /\ nodev' = u /\ s \in {table, <<>>}
                  /\ toStat' = {Candidates(s, u)[f] : f \in DOMAIN Candidates(s, u)}
    BY DEF GatherSpace
<1>2. s \in Seq(MountPoint) /\ DOMAIN s = 1 .. Len(s)
  <2>1. <<>> \in Seq(MountPoint)
      OBVIOUS
  <2>2. table \in Seq(MountPoint)
      BY DEF SpaceInv
  <2>3. s \in Seq(MountPoint)
      BY <1>1, <2>1, <2>2
  <2> QED
      BY <2>3
<1> DEFINE c == Candidates(s, u)
           R == Among(s, u, Len(s))
<1>3. /\ DOMAIN c = {s[i].fs : i \in R}
      /\ \A f \in DOMAIN c : \E i \in R : c[f] = s[i] /\ s[i].fs = f
      /\ \A i \in R : Len(c[s[i].fs].path) <= Len(s[i].path)
    BY <1>2, CandidatesShortest DEF Shortest
<1>4. Read' = R
    BY <1>1, <1>2 DEF Read, Among
<1>5. toStat' = {c[f] : f \in DOMAIN c} /\ figures' = {} /\ table' = table
    BY <1>1 DEF GatherSpace
<1> HIDE DEF c, R
<1>6. \A f \in DOMAIN c : c[f].fs = f
    BY <1>3
<1>7. \A m \in toStat' : Chosen(m)'
  <2> SUFFICES ASSUME NEW f \in DOMAIN c PROVE Chosen(c[f])'
      BY <1>5
  <2>1. PICK i \in R : c[f] = s[i] /\ s[i].fs = f
      BY <1>3
  <2>2. \A j \in R : s[j].fs = f => Len(c[f].path) <= Len(s[j].path)
      BY <1>3
  <2>3. \A j \in R : s[j].fs = c[f].fs => Len(c[f].path) <= Len(s[j].path)
      BY <2>2, <1>6
  <2> QED
      BY <1>1, <1>4, <2>1, <2>3 DEF Chosen
<1>8. \A m, n \in toStat' : m.fs = n.fs => m = n
    BY <1>5, <1>6
<1>9. {m.fs : m \in toStat'} = {s[i].fs : i \in R}
  <2>1. \A m \in toStat' : m.fs \in DOMAIN c
      BY <1>5, <1>6
  <2>2. \A f \in DOMAIN c : \E m \in toStat' : m.fs = f
      BY <1>5, <1>6
  <2> QED
      BY <1>3, <2>1, <2>2
<1>10. SpaceAttributed'
    BY <1>1, <1>4, <1>5, <1>9 DEF SpaceAttributed
<1> QED
    BY <1>1, <1>2, <1>5, <1>7, <1>8, <1>10 DEF SpaceInv

\* The path of a mount leads to its filesystem, or to that of a later mount.
LEMMA ResolvedLater ==
    ASSUME table \in Seq(MountPoint), NEW i \in DOMAIN table
    PROVE  \/ Resolve(table[i].path) = table[i].fs
           \/ \E j \in DOMAIN table : i < j /\ IsPrefix(table[j].path, table[i].path)
<1> DEFINE path == table[i].path
           W == {j \in DOMAIN table : IsPrefix(table[j].path, path)}
<1>1. DOMAIN table = 1 .. Len(table) /\ Len(table) \in Nat
    OBVIOUS
<1>2. i \in W
  <2>1. table[i] \in MountPoint
      BY <1>1
  <2>2. Len(path) \in Nat
      BY <2>1, PathLength
  <2> QED
      BY <2>2 DEF IsPrefix
<1>3. W \in SUBSET Int /\ IsFiniteSet(W) /\ W # {}
  <2>1. W \subseteq 1 .. Len(table)
      BY <1>1
  <2>2. IsFiniteSet(1 .. Len(table))
      BY <1>1, FS_Interval
  <2> HIDE DEF W
  <2> QED
      BY <1>2, <2>1, <2>2, FS_Subset
<1> DEFINE k == CHOOSE k \in W : \A j \in W : j <= k
<1>4. k \in W /\ \A j \in W : j <= k
  <2>1. \E m \in W : \A j \in W : j <= m
    <3> HIDE DEF W
    <3> QED
        BY <1>3, HasLargest
  <2> HIDE DEF W
  <2> QED
      BY <2>1
<1>5. Resolve(path) = table[k].fs
    BY DEF Resolve
<1> HIDE DEF k
<1>6. i <= k /\ k \in Int /\ i \in Int
    BY <1>1, <1>2, <1>4
<1>7. CASE i = k
    BY <1>5, <1>7
<1>8. CASE i < k
    BY <1>4, <1>8
<1> QED
    BY <1>6, <1>7, <1>8

LEMMA StatFsStep == SpaceInv /\ (\E m \in toStat : StatFs(m)) => SpaceInv'
<1> SUFFICES ASSUME SpaceInv, NEW m \in toStat, StatFs(m) PROVE SpaceInv'
    OBVIOUS
<1>1. toStat' = toStat \ {m} /\ UNCHANGED <<table, remounts, seen, nodev>>
    BY DEF StatFs
<1>2. PICK of \in {{Resolve(m.path)}, {}} :
          figures' = figures \cup {[mount |-> m, of |-> of, asRead |-> table = seen]}
    BY DEF StatFs
<1> DEFINE new == [mount |-> m, of |-> of, asRead |-> table = seen]
<1>3. Read' = Read /\ \A n : Chosen(n)' = Chosen(n)
    BY <1>1 DEF Read, Chosen
<1>4. Chosen(m)
    BY DEF SpaceInv
<1>5. figures' = figures \cup {new} /\ new.mount = m /\ new.of = of
    BY <1>2
<1>6. new.asRead => table = seen
    OBVIOUS
<1> HIDE DEF new
<1>7. {f.mount.fs : f \in figures'} \cup {n.fs : n \in toStat'} = {seen[i].fs : i \in Read}
  <2>1. {f.mount.fs : f \in figures} \cup {n.fs : n \in toStat} = {seen[i].fs : i \in Read}
      BY DEF SpaceInv, SpaceAttributed
  <2>2. {f.mount.fs : f \in figures'} = {f.mount.fs : f \in figures} \cup {m.fs}
      BY <1>5
  <2>3. {n.fs : n \in toStat} = {n.fs : n \in toStat'} \cup {m.fs}
      BY <1>1
  <2> QED
      BY <2>1, <2>2, <2>3
<1>8. \A f, g \in figures' : f.mount.fs = g.mount.fs => f = g
  <2>1. \A f \in figures : f.mount.fs # m.fs
      BY DEF SpaceInv
  <2>2. \A f, g \in figures : f.mount.fs = g.mount.fs => f = g
      BY DEF SpaceInv, SpaceAttributed
  <2> QED
      BY <1>5, <2>1, <2>2
<1>9. \A f \in figures' : Chosen(f.mount)
    BY <1>4, <1>5 DEF SpaceInv
<1>10. ASSUME new.asRead, of \notin {{}, {m.fs}}
       PROVE  \E i \in Read, j \in DOMAIN seen :
                 seen[i] = m /\ i < j /\ IsPrefix(seen[j].path, m.path)
  <2>1. table = seen /\ table \in Seq(MountPoint)
      BY <1>6, <1>10 DEF SpaceInv
  <2>2. PICK i \in Read : seen[i] = m
      BY <1>4 DEF Chosen
  <2>3. i \in DOMAIN table /\ table[i] = m
      BY <2>1, <2>2 DEF Read
  <2>4. Resolve(m.path) # m.fs
      BY <1>2, <1>10
  <2>5. \E j \in DOMAIN table : i < j /\ IsPrefix(table[j].path, m.path)
      BY <2>1, <2>3, <2>4, ResolvedLater
  <2> QED
      BY <2>1, <2>2, <2>5
<1>11. \A f \in figures' : f.asRead /\ f.of \notin {{}, {f.mount.fs}} =>
          \E i \in Read, j \in DOMAIN seen :
             seen[i] = f.mount /\ i < j /\ IsPrefix(seen[j].path, f.mount.path)
  <2>1. \A f \in figures : f.asRead /\ f.of \notin {{}, {f.mount.fs}} =>
          \E i \in Read, j \in DOMAIN seen :
             seen[i] = f.mount /\ i < j /\ IsPrefix(seen[j].path, f.mount.path)
      BY DEF SpaceInv, SpaceAttributed
  <2> QED
      BY <1>5, <1>10, <2>1
<1>12. \A f \in figures', i \in Read : seen[i].fs = f.mount.fs => Len(f.mount.path) <= Len(seen[i].path)
    BY <1>9 DEF Chosen
<1>13. SpaceAttributed'
    BY <1>1, <1>3, <1>7, <1>8, <1>11, <1>12 DEF SpaceAttributed
<1>14. \A n \in toStat', f \in figures' : n.fs # f.mount.fs
    BY <1>1, <1>5 DEF SpaceInv
<1> QED
    BY <1>1, <1>3, <1>9, <1>13, <1>14 DEF SpaceInv

LEMMA SpaceInvStep == SpaceInv /\ [SpaceNext]_spaceVars => SpaceInv'
<1> SUFFICES ASSUME SpaceInv, [SpaceNext]_spaceVars PROVE SpaceInv'
    OBVIOUS
<1>1. ASSUME NEW m \in Mounts, Mount(m) PROVE SpaceInv'
  <2>1. m \in MountPoint
      BY DEF Mounts, MountPoint
  <2>2. table' = Append(table, m) /\ UNCHANGED <<seen, nodev, toStat, figures>>
      BY <1>1 DEF Mount
  <2>3. table' \in Seq(MountPoint)
      BY <2>1, <2>2 DEF SpaceInv
  <2> QED
      BY <2>2, <2>3, RemountKeeps
<1>2. ASSUME NEW i \in 2 .. Len(table), Unmount(i) PROVE SpaceInv'
  <2>1. table \in Seq(MountPoint) /\ i \in 1 .. Len(table)
      BY DEF SpaceInv
  <2>2. table' = RemoveAt(table, i) /\ UNCHANGED <<seen, nodev, toStat, figures>>
      BY <1>2 DEF Unmount
  <2>3. table' \in Seq(MountPoint)
      BY <2>1, <2>2, RemovedTyped
  <2> QED
      BY <2>2, <2>3, RemountKeeps
<1>3. CASE UNCHANGED spaceVars
    BY <1>3, RemountKeeps DEF spaceVars, SpaceInv
<1> QED
    BY <1>1, <1>2, <1>3, GatherSpaceStep, StatFsStep DEF SpaceNext

\* disk.cpp:128-129 and 314-327: for any filesystems, paths and mounts over each
\* other, a gather asks once for each filesystem of interest, by its shortest path.
THEOREM SpaceHonest == SpaceSpec => []SpaceAttributed
<1>1. SpaceInv => SpaceAttributed
    BY DEF SpaceInv
<1> QED
    BY <1>1, SpaceInvInit, SpaceInvStep, PTL DEF SpaceSpec

\* What the table lists: mounts, and that of the root.
Listed == Mounts \cup {[fs |-> f, path |-> <<>>, whole |-> TRUE] : f \in Filesystems}
TablesListed == table \in Seq(Listed) /\ seen \in Seq(Listed)

LEMMA SpaceTypesInit == SpaceInit => SpaceTypeOK /\ TablesListed
<1> SUFFICES ASSUME SpaceInit PROVE SpaceTypeOK /\ TablesListed
    OBVIOUS
<1>1. PICK f \in Filesystems : table = <<[fs |-> f, path |-> <<>>, whole |-> TRUE]>>
    BY DEF SpaceInit
<1>2. remounts = 0 /\ seen = <<>> /\ nodev = {} /\ toStat = {}
    BY DEF SpaceInit
<1>a. [fs |-> f, path |-> <<>>, whole |-> TRUE] \in Listed
    BY DEF Listed
<1>3. table \in Seq(Listed) /\ Len(table) = 1 /\ seen \in Seq(Listed) /\ Len(seen) = 0
  <2>1. \A m \in Listed : <<m>> \in Seq(Listed) /\ Len(<<m>>) = 1
      OBVIOUS
  <2> QED
      BY <1>1, <1>2, <1>a, <2>1
<1> QED
    BY <1>2, <1>3, SpaceAssumption DEF SpaceTypeOK, TablesListed

LEMMA SpaceTypesStep ==
    ASSUME SpaceInv, SpaceTypeOK, TablesListed, [SpaceNext]_spaceVars
    PROVE  SpaceTypeOK' /\ TablesListed'
<1>1. /\ table \in Seq(Listed) /\ seen \in Seq(Listed)
      /\ Len(table) \in 1 .. MaxMounts /\ Len(seen) <= MaxMounts
      /\ remounts \in 0 .. MaxRemounts /\ nodev \subseteq NoDev /\ toStat \subseteq Listed
      /\ MaxMounts \in Nat /\ MaxRemounts \in Nat
    BY SpaceAssumption DEF SpaceTypeOK, TablesListed, Listed
<1> SUFFICES /\ table' \in Seq(Listed) /\ seen' \in Seq(Listed)
             /\ Len(table') \in 1 .. MaxMounts /\ Len(seen') <= MaxMounts
             /\ remounts' \in 0 .. MaxRemounts /\ nodev' \subseteq NoDev /\ toStat' \subseteq Listed
    BY DEF SpaceTypeOK, TablesListed, Listed
<1>2. CASE \E m \in Mounts : Mount(m)
  <2>1. PICK m \in Mounts : Mount(m)
      BY <1>2
  <2>2. m \in Listed /\ table' = Append(table, m) /\ Len(table) < MaxMounts
      BY <2>1 DEF Mount, Listed
  <2>3. table' \in Seq(Listed) /\ Len(table') = Len(table) + 1
      BY <1>1, <2>2
  <2>4. remounts < MaxRemounts /\ remounts' = remounts + 1 /\ UNCHANGED <<seen, nodev, toStat>>
      BY <2>1 DEF Mount
  <2> QED
      BY <1>1, <2>2, <2>3, <2>4
<1>3. CASE \E i \in 2 .. Len(table) : Unmount(i)
  <2>1. PICK i \in 2 .. Len(table) : Unmount(i)
      BY <1>3
  <2>2. table' = RemoveAt(table, i) /\ i \in 1 .. Len(table)
      BY <2>1 DEF Unmount
  <2>3. table' \in Seq(Listed)
      BY <1>1, <2>2, RemovedTyped
  <2>4. Len(table') = Len(table) - 1
    <3>1. SubSeq(table, 1, i - 1) \in Seq(Listed) /\ Len(SubSeq(table, 1, i - 1)) = i - 1
        BY <1>1, <2>1
    <3>2. /\ SubSeq(table, i + 1, Len(table)) \in Seq(Listed)
          /\ Len(SubSeq(table, i + 1, Len(table))) = Len(table) - i
      <4>1. \A k \in (i + 1) .. Len(table) : table[k] \in Listed
          BY <1>1, <2>1
      <4>2. i + 1 \in Int /\ Len(table) \in Nat /\ i <= Len(table)
          BY <1>1, <2>1
      <4> QED
          BY <4>1, <4>2, <2>1
    <3> QED
        BY <1>1, <2>1, <2>2, <3>1, <3>2 DEF RemoveAt
  <2>5. remounts < MaxRemounts /\ remounts' = remounts + 1 /\ UNCHANGED <<seen, nodev, toStat>>
      BY <2>1 DEF Unmount
  <2> QED
      BY <1>1, <2>1, <2>3, <2>4, <2>5
<1>4. CASE GatherSpace
  <2>1. /\ UNCHANGED <<table, remounts>> /\ nodev' \subseteq NoDev
        /\ seen' \in {table, <<>>}
      BY <1>4 DEF GatherSpace
  <2>2. seen' \in Seq(Listed) /\ Len(seen') <= MaxMounts
    <3>1. Len(<<>>) = 0 /\ <<>> \in Seq(Listed)
        OBVIOUS
    <3>2. CASE seen' = table
        BY <1>1, <3>2
    <3>3. CASE seen' = <<>>
        BY <1>1, <3>1, <3>3
    <3> QED
        BY <2>1, <3>2, <3>3
  <2>3. \A m \in toStat' : Chosen(m)'
      BY <1>4, GatherSpaceStep DEF SpaceInv
  <2>4. \A m \in toStat' : \E i \in DOMAIN seen' : seen'[i] = m
      BY <2>3 DEF Chosen, Read
  <2>5. toStat' \subseteq Listed
      BY <2>2, <2>4
  <2> QED
      BY <1>1, <2>1, <2>2, <2>5
<1>5. CASE \E m \in toStat : StatFs(m)
    BY <1>1, <1>5 DEF StatFs
<1>6. CASE UNCHANGED spaceVars
    BY <1>1, <1>6 DEF spaceVars
<1> QED
    BY <1>2, <1>3, <1>4, <1>5, <1>6 DEF SpaceNext

\* What statvfs is called for is listed.
LEMMA SpaceTypes == SpaceSpec => []SpaceTypeOK
<1>1. SpaceInit => SpaceInv /\ SpaceTypeOK /\ TablesListed
    BY SpaceInvInit, SpaceTypesInit
<1>2. /\ SpaceInv /\ SpaceTypeOK /\ TablesListed /\ [SpaceNext]_spaceVars
      => SpaceInv' /\ SpaceTypeOK' /\ TablesListed'
    BY SpaceInvStep, SpaceTypesStep
<1> QED
    BY <1>1, <1>2, PTL DEF SpaceSpec

-----------------------------------------------------------------------------
(* Ebs: a device that is still to be queried has published nothing.        *)

EbsInv ==
    /\ configured \subseteq Paths
    /\ unqueried \subseteq configured
    /\ ebsSuccess \in BOOLEAN
    /\ DOMAIN ebsShown = Paths
    /\ \A p \in unqueried : ebsShown[p] = NoFigures
    /\ EbsAttributed

LEMMA EbsInvInit == EbsInit => EbsInv
<1> SUFFICES ASSUME EbsInit PROVE EbsInv
    OBVIOUS
<1>1. configured \subseteq Paths
    BY EbsAssumption DEF EbsInit, Config
<1>2. EbsAttributed
    BY DEF EbsInit, EbsAttributed, NoFigures
<1> QED
    BY <1>1, <1>2 DEF EbsInit, EbsInv

\* A query publishes the volume that is at the path, or nothing.
LEMMA QueryAttributed ==
    ASSUME NEW d \in Paths, NEW accepted \in BOOLEAN, QueryPage(d, accepted).magic
    PROVE  /\ QueryPage(d, accepted).volume = volumeAt[d]
           /\ volumeAt[d] \in Volumes
           /\ QueryPage(d, accepted).ops = ops[volumeAt[d]]
    BY DEF QueryPage, Buffer, BlankPage

LEMMA QueryDeviceStep == EbsInv /\ (\E d \in Paths : QueryDevice(d)) => EbsInv'
<1> SUFFICES ASSUME EbsInv, NEW d \in Paths, QueryDevice(d) PROVE EbsInv'
    OBVIOUS
<1>1. /\ d \in unqueried
      /\ unqueried' = unqueried \ {d}
      /\ configured' = configured
    BY DEF QueryDevice
<1>2. d \in configured /\ ebsShown[d] = NoFigures /\ d \in configured \ unqueried'
    BY <1>1 DEF EbsInv
<1>3. CASE ebsSuccess' = FALSE /\ UNCHANGED ebsShown
  <2>1. ebsShown'[d].parts # Parts
    <3>1. "counters" \in Parts /\ ebsShown'[d].parts = {}
        BY <1>2, <1>3 DEF NoFigures, Parts
    <3> QED
        BY <3>1
  <2>2. EbsAttributed'
      BY <1>1, <1>2, <1>3, <2>1 DEF EbsInv, EbsAttributed
  <2> QED
      BY <1>1, <1>3, <2>2 DEF EbsInv
<1>4. ASSUME NEW accepted \in BOOLEAN, NEW bad \in SUBSET (Parts \ {"counters"}),
             page' = QueryPage(d, accepted), page'.magic,
             ebsShown' = [ebsShown EXCEPT ![d] =
                 [parts |-> Parts \ bad, of |-> page'.volume, ops |-> page'.ops,
                  asked |-> volumeAt[d], least |-> IF volumeAt[d] \in Volumes
                                                   THEN ops[volumeAt[d]] ELSE 0]],
             ebsSuccess' = (ebsSuccess /\ bad = {})
      PROVE  EbsInv'
  <2>1. /\ page'.volume = volumeAt[d]
        /\ volumeAt[d] \in Volumes
        /\ page'.ops = ops[volumeAt[d]]
      BY <1>4, QueryAttributed
  <2>2. /\ ebsShown'[d].parts = Parts \ bad
        /\ ebsShown'[d].of = ebsShown'[d].asked
        /\ ebsShown'[d].ops = ebsShown'[d].least
      BY <1>4, <2>1 DEF EbsInv
  <2>3. \A p \in Paths \ {d} : ebsShown'[p] = ebsShown[p]
      BY <1>4 DEF EbsInv
  <2>4. (Parts \ bad = Parts) <=> (bad = {})
      OBVIOUS
  <2>5. EbsAttributed'
    <3>1. \A p \in Paths : ebsShown'[p].parts # {} =>
             ebsShown'[p].of = ebsShown'[p].asked /\ ebsShown'[p].ops = ebsShown'[p].least
        BY <2>2, <2>3 DEF EbsInv, EbsAttributed
    <3>2. ebsSuccess' <=> (ebsSuccess /\ ebsShown'[d].parts = Parts)
        BY <1>4, <2>2, <2>4
    <3>3. configured \ unqueried' = (configured \ unqueried) \cup {d}
        BY <1>1, <1>2
    <3>4. ebsSuccess' <=> \A p \in configured \ unqueried' : ebsShown'[p].parts = Parts
        BY <3>2, <3>3, <2>3, <1>1 DEF EbsInv, EbsAttributed
    <3> QED
        BY <3>1, <3>4, <1>1 DEF EbsAttributed
  <2>6. \A p \in unqueried' : ebsShown'[p] = NoFigures
      BY <1>1, <2>3 DEF EbsInv
  <2>7. DOMAIN ebsShown' = Paths /\ ebsSuccess' \in BOOLEAN
      BY <1>4 DEF EbsInv
  <2> QED
      BY <1>1, <2>5, <2>6, <2>7 DEF EbsInv
<1> QED
    BY <1>3, <1>4 DEF QueryDevice

LEMMA EbsInvStep == EbsInv /\ [EbsNext]_ebsVars => EbsInv'
<1> SUFFICES ASSUME EbsInv, [EbsNext]_ebsVars PROVE EbsInv'
    OBVIOUS
<1>1. ASSUME UNCHANGED <<configured, unqueried, ebsSuccess, ebsShown>> PROVE EbsInv'
    BY <1>1 DEF EbsInv, EbsAttributed
<1>2. CASE \E v \in Volumes : Operate(v)
    BY <1>1, <1>2 DEF Operate
<1>3. CASE \E p \in Paths : \E v \in Volumes \cup {Absent, InstanceStore} : Move(p, v)
    BY <1>1, <1>3 DEF Move
<1>4. CASE GatherEbs
    BY <1>4 DEF GatherEbs, EbsInv, EbsAttributed, NoFigures
<1>5. CASE \E d \in Paths : QueryDevice(d)
    BY <1>5, QueryDeviceStep
<1>6. CASE UNCHANGED ebsVars
    BY <1>1, <1>6 DEF ebsVars
<1> QED
    BY <1>2, <1>3, <1>4, <1>5, <1>6 DEF EbsNext

\* ebs.cpp:146-274: whatever refuses and whatever moves, what is published under a
\* path is of the volume that was there.
THEOREM VolumesAttributed == EbsSpec => []EbsAttributed
<1>1. EbsInv => EbsAttributed
    BY DEF EbsInv
<1> QED
    BY <1>1, EbsInvInit, EbsInvStep, PTL DEF EbsSpec

LEMMA EbsTypesInit == EbsInit => EbsTypeOK
<1> SUFFICES ASSUME EbsInit PROVE EbsTypeOK
    OBVIOUS
<1>1. configured \subseteq Paths
    BY EbsInvInit DEF EbsInv
<1> QED
    BY <1>1, EbsAssumption DEF EbsInit, EbsTypeOK

LEMMA EbsTypesStep == EbsTypeOK /\ [EbsNext]_ebsVars => EbsTypeOK'
<1> SUFFICES ASSUME EbsTypeOK, [EbsNext]_ebsVars PROVE EbsTypeOK'
    OBVIOUS
<1> USE EbsAssumption
<1>1. ASSUME NEW v \in Volumes, Operate(v) PROVE EbsTypeOK'
    BY <1>1 DEF Operate, EbsTypeOK
<1>2. ASSUME NEW p \in Paths, NEW v \in Volumes \cup {Absent, InstanceStore}, Move(p, v)
      PROVE  EbsTypeOK'
    BY <1>2 DEF Move, EbsTypeOK
<1>3. CASE GatherEbs
    BY <1>3 DEF GatherEbs, EbsTypeOK
<1>4. ASSUME NEW d \in Paths, QueryDevice(d) PROVE EbsTypeOK'
  <2>1. unqueried' \subseteq unqueried /\ UNCHANGED <<volumeAt, ops, moves, configured>>
      BY <1>4 DEF QueryDevice
  <2>2. ebsSuccess' \in BOOLEAN
      BY <1>4, Zenon DEF QueryDevice
  <2> QED
      BY <2>1, <2>2 DEF EbsTypeOK
<1>5. CASE UNCHANGED ebsVars
    BY <1>5 DEF ebsVars, EbsTypeOK
<1> QED
    BY <1>1, <1>2, <1>3, <1>4, <1>5 DEF EbsNext

\* What is to be queried is configured.
LEMMA EbsTypes == EbsSpec => []EbsTypeOK
    BY EbsTypesInit, EbsTypesStep, PTL DEF EbsSpec

-----------------------------------------------------------------------------
(* AmdGpu: what is refused now was never refused before, since it would    *)
(* not have been asked.                                                    *)

Items == Calls \cup Scalars \cup {"xgmi"}

AmdInv ==
    /\ found \subseteq Gpus /\ toRead \subseteq Gpus
    /\ latched \in [Gpus -> SUBSET Items]
    /\ logged \in [Gpus -> [Items -> Nat]]
    /\ refused \in [Gpus -> [Calls -> Nat]]
    /\ LatchedOnce

LEMMA AmdInvInit == AmdInit => AmdInv
<1> SUFFICES ASSUME AmdInit PROVE AmdInv
    OBVIOUS
<1>1. found \subseteq Gpus /\ toRead = {}
    BY DEF AmdInit, Discovered
<1>2. /\ latched = [g \in Gpus |-> {}]
      /\ logged = [g \in Gpus |-> [c \in Items |-> 0]]
      /\ refused = [g \in Gpus |-> [c \in Calls |-> 0]]
    BY DEF AmdInit, Items
<1>3. LatchedOnce
    BY <1>2 DEF LatchedOnce
<1> QED
    BY <1>1, <1>2, <1>3 DEF AmdInv

\* The calls that the firmware refuses are those the agent counts as unsupported.
LEMMA RefusedIsUnsupported ==
    ASSUME NEW s \in [{"total", "usage", "pcie", "metrics"} -> Statuses], NEW made \in SUBSET Calls,
           NEW answer,
           answer = [memory |-> ReadMemory(s["total"], s["usage"]),
                     pcie |-> Classify(s["pcie"]), metrics |-> Classify(s["metrics"])]
    PROVE  Refused(s, made) = {c \in made : answer[c] = "Unsupported"}
<1>1. \A x \in Statuses : /\ Classify(x) = "Unsupported" <=> x = "not supported"
                          /\ Classify(x) = "Ok" <=> x = "success"
    BY DEF Statuses, Classify
<1>2. answer["memory"] = "Unsupported" <=>
        s["total"] = "not supported" \/ (s["total"] = "success" /\ s["usage"] = "not supported")
    BY <1>1 DEF ReadMemory
<1>3. answer["pcie"] = "Unsupported" <=> s["pcie"] = "not supported"
    BY <1>1
<1>4. answer["metrics"] = "Unsupported" <=> s["metrics"] = "not supported"
    BY <1>1
<1> QED
    BY <1>2, <1>3, <1>4 DEF Refused, Calls

\* One refusal more for each call that is refused now, and no call of `items`
\* that is latched already.
LEMMA LatchStep ==
    ASSUME AmdInv, NEW g \in Gpus, NEW items \in SUBSET Items, NEW off \in SUBSET Calls,
           items \cap Calls = off, off \cap latched[g] = {},
           found' = found, toRead' \subseteq Gpus,
           Unsupported(g, items),
           refused' = [refused EXCEPT ![g] = [c \in Calls |-> @[c] + (IF c \in off THEN 1 ELSE 0)]]
    PROVE  AmdInv'
<1>1. /\ latched' = [latched EXCEPT ![g] = @ \cup items]
      /\ logged' = [logged EXCEPT ![g] =
                       [c \in Items |-> @[c] + (IF c \in items \ latched[g] THEN 1 ELSE 0)]]
    BY DEF Unsupported, AmdInv
<1>2. /\ latched' \in [Gpus -> SUBSET Items]
      /\ latched'[g] = latched[g] \cup items
      /\ \A h \in Gpus \ {g} : latched'[h] = latched[h]
    BY <1>1 DEF AmdInv
<1>3. /\ logged' \in [Gpus -> [Items -> Nat]]
      /\ \A c \in Items : logged'[g][c] = logged[g][c] + (IF c \in items \ latched[g] THEN 1 ELSE 0)
      /\ \A h \in Gpus \ {g} : logged'[h] = logged[h]
    BY <1>1 DEF AmdInv
<1>4. /\ refused' \in [Gpus -> [Calls -> Nat]]
      /\ \A c \in Calls : refused'[g][c] = refused[g][c] + (IF c \in off THEN 1 ELSE 0)
      /\ \A h \in Gpus \ {g} : refused'[h] = refused[h]
    BY DEF AmdInv
<1>5. ASSUME NEW c \in Calls
      PROVE  refused'[g][c] <= 1 /\ (c \in latched'[g] <=> refused'[g][c] = 1)
  <2>1. refused[g][c] \in Nat /\ refused[g][c] <= 1 /\ (c \in latched[g] <=> refused[g][c] = 1)
      BY DEF AmdInv, LatchedOnce
  <2>2. c \in items <=> c \in off
      BY <1>5
  <2>3. CASE c \in off
    <3>1. refused[g][c] = 0
        BY <2>1, <2>3
    <3>2. refused'[g][c] = 1
        BY <3>1, <2>3, <1>4
    <3> QED
        BY <3>2, <2>2, <2>3, <1>2
  <2>4. CASE c \notin off
    <3>1. refused'[g][c] = refused[g][c]
        BY <2>1, <2>4, <1>4
    <3> QED
        BY <3>1, <2>1, <2>2, <2>4, <1>2
  <2> QED
      BY <2>3, <2>4
<1>6. ASSUME NEW c \in Items PROVE logged'[g][c] = (IF c \in latched'[g] THEN 1 ELSE 0)
  <2>1. logged[g][c] = (IF c \in latched[g] THEN 1 ELSE 0)
      BY DEF AmdInv, LatchedOnce
  <2> QED
      BY <2>1, <1>2, <1>3
<1>7. LatchedOnce'
  <2>1. ASSUME NEW h \in Gpus, NEW c \in Calls
        PROVE  refused'[h][c] <= 1 /\ (c \in latched'[h] <=> refused'[h][c] = 1)
      BY <1>2, <1>4, <1>5 DEF AmdInv, LatchedOnce
  <2>2. ASSUME NEW h \in Gpus, NEW c \in DOMAIN logged'[h]
        PROVE  logged'[h][c] = (IF c \in latched'[h] THEN 1 ELSE 0)
    <3>1. CASE h = g
        BY <3>1, <2>2, <1>3, <1>6
    <3>2. CASE h # g
        BY <3>2, <2>2, <1>2, <1>3 DEF AmdInv, LatchedOnce
    <3> QED
        BY <3>1, <3>2
  <2> QED
      BY <2>1, <2>2 DEF LatchedOnce
<1> QED
    BY <1>2, <1>3, <1>4, <1>7 DEF AmdInv

LEMMA CollectGpuStep == AmdInv /\ (\E g \in Gpus : CollectGpu(g)) => AmdInv'
<1> SUFFICES ASSUME AmdInv, NEW g \in Gpus, CollectGpu(g) PROVE AmdInv'
    OBVIOUS
<1>1. found' = found /\ toRead' = toRead \ {g}
    BY DEF CollectGpu
<1>2. PICK s \in LibraryAnswers(MaxOdd - odd), lacking \in SUBSET Scalars, missing \in SUBSET Links :
        LET answer == [memory |-> ReadMemory(s["total"], s["usage"]),
                       pcie |-> Classify(s["pcie"]), metrics |-> Classify(s["metrics"])]
            fields == lacking \cup (IF missing # {} THEN {"xgmi"} ELSE {})
        IN  /\ Unsupported(g, {c \in Made(g) : answer[c] = "Unsupported"} \cup fields)
            /\ refused' = [refused EXCEPT ![g] =
                              [c \in Calls |-> @[c] + (IF c \in Refused(s, Made(g)) THEN 1 ELSE 0)]]
    BY DEF CollectGpu
<1> DEFINE answer == [memory |-> ReadMemory(s["total"], s["usage"]),
                      pcie |-> Classify(s["pcie"]), metrics |-> Classify(s["metrics"])]
           fields == lacking \cup (IF missing # {} THEN {"xgmi"} ELSE {})
           off == {c \in Made(g) : answer[c] = "Unsupported"}
<1>3. s \in [{"total", "usage", "pcie", "metrics"} -> Statuses]
    BY DEF LibraryAnswers
<1>4. off \in SUBSET Calls /\ off \cap latched[g] = {}
    BY DEF Made
<1>5. Refused(s, Made(g)) = off
    BY <1>3, RefusedIsUnsupported DEF Made
<1>6. fields \in SUBSET Items /\ fields \cap Calls = {}
    BY AmdAssumption DEF Items, Calls
<1>7. /\ Unsupported(g, off \cup fields)
      /\ refused' = [refused EXCEPT ![g] = [c \in Calls |-> @[c] + (IF c \in off THEN 1 ELSE 0)]]
    BY <1>2, <1>5
<1> HIDE DEF off, fields
<1>8. off \cup fields \in SUBSET Items /\ (off \cup fields) \cap Calls = off
    BY <1>4, <1>6 DEF Items
<1>9. toRead' \subseteq Gpus
    BY <1>1 DEF AmdInv
<1> QED
    BY <1>1, <1>4, <1>7, <1>8, <1>9, LatchStep

LEMMA AmdInvStep == AmdInv /\ [AmdNext]_amdVars => AmdInv'
<1> SUFFICES ASSUME AmdInv, [AmdNext]_amdVars PROVE AmdInv'
    OBVIOUS
<1>1. ASSUME found' = found, toRead' = toRead, latched' = latched, logged' = logged, refused' = refused
      PROVE  AmdInv'
    BY <1>1 DEF AmdInv, LatchedOnce
<1>2. CASE Traffic
    BY <1>1, <1>2 DEF Traffic
<1>3. CASE GPUMetrics
    BY <1>3 DEF GPUMetrics, AmdInv, LatchedOnce
<1>4. CASE \E g \in Gpus : Reset(g)
    BY <1>1, <1>4 DEF Reset
<1>5. CASE \E g \in Gpus : CollectGpu(g)
    BY <1>5, CollectGpuStep
<1>6. CASE UNCHANGED amdVars
    BY <1>1, <1>6 DEF amdVars
<1> QED
    BY <1>2, <1>3, <1>4, <1>5, <1>6 DEF AmdNext

\* gpumetrics.h:91-94: for any GPUs, fields and links, no call is refused twice,
\* and nothing is logged twice.
THEOREM RefusedOnce == AmdSpec => []LatchedOnce
<1>1. AmdInv => LatchedOnce
    BY DEF AmdInv
<1> QED
    BY <1>1, AmdInvInit, AmdInvStep, PTL DEF AmdSpec

-----------------------------------------------------------------------------
(* AmdGpu, the rate of xgmi: the links that were in the baseline have      *)
(* counted no more since then than was moved, since a count only grows by  *)
(* what is moved, or starts again from 0.                                  *)

XgmiTyped ==
    /\ gpuTime \in Nat /\ found \subseteq Gpus
    /\ acc \in [Gpus -> [Links -> Nat]]
    /\ moved \in [Gpus -> Nat]
    /\ DOMAIN lastXgmi = Gpus /\ DOMAIN xgmi = Gpus
    /\ \A g \in Gpus : lastXgmi[g].set =>
          lastXgmi[g].at \in Nat /\ lastXgmi[g].sum \in Nat /\ lastXgmi[g].missing \subseteq Links

CountedMoved ==
    \A g \in Gpus : lastXgmi[g].set =>
       SumOver(acc[g], Links \ lastXgmi[g].missing) <= lastXgmi[g].sum + moved[g]

XgmiInv == XgmiTyped /\ CountedMoved /\ XgmiNeverInvents

LEMMA XgmiInvInit == AmdInit => XgmiInv
<1> SUFFICES ASSUME AmdInit PROVE XgmiInv
    OBVIOUS
<1>1. found \subseteq Gpus
    BY DEF AmdInit, Discovered
<1>2. \A g \in Gpus : ~lastXgmi[g].set /\ ~xgmi[g].made
    BY DEF AmdInit, NoSample, NoIncrement
<1>3. DOMAIN lastXgmi = Gpus /\ DOMAIN xgmi = Gpus
    BY DEF AmdInit
<1>4. gpuTime = 0 /\ acc \in [Gpus -> [Links -> Nat]] /\ moved \in [Gpus -> Nat]
    BY DEF AmdInit
<1> QED
    BY <1>1, <1>2, <1>3, <1>4 DEF XgmiInv, XgmiTyped, CountedMoved, XgmiNeverInvents

\* A count of links that grows by one in one of them grows by one at most.
LEMMA OneMoreCounted ==
    ASSUME NEW count \in [Links -> Nat], NEW l \in Links, NEW S \in SUBSET Links
    PROVE  SumOver([count EXCEPT ![l] = @ + 1], S) <= SumOver(count, S) + 1
<1> DEFINE more == [count EXCEPT ![l] = @ + 1]
<1>1. IsFiniteSet(S) /\ IsFiniteSet(S \ {l})
    BY AmdAssumption, FS_Subset DEF AmdAssumption
<1>2. \A x \in S : count[x] \in Nat /\ more[x] \in Nat
    OBVIOUS
<1>3. \A x \in S \ {l} : more[x] = count[x]
    OBVIOUS
<1>4. more[l] = count[l] + 1
    OBVIOUS
<1> HIDE DEF more
<1>5. SumOver(more, S \ {l}) = SumOver(count, S \ {l})
    BY <1>1, <1>2, <1>3, SumSame
<1>6. SumOver(count, S) \in Nat /\ SumOver(count, S \ {l}) \in Nat
    BY <1>1, <1>2, SumNatural
<1>7. CASE l \in S
  <2>1. /\ SumOver(more, S) = more[l] + SumOver(more, S \ {l})
        /\ SumOver(count, S) = count[l] + SumOver(count, S \ {l})
      BY <1>1, <1>2, <1>7, SumWithout
  <2> QED
      BY <1>2, <1>4, <1>5, <1>6, <1>7, <2>1 DEF more
<1>8. CASE l \notin S
  <2>1. S \ {l} = S
      BY <1>8
  <2> QED
      BY <1>5, <1>6, <2>1 DEF more
<1> QED
    BY <1>7, <1>8

LEMMA TrafficStep == XgmiInv /\ Traffic => XgmiInv'
<1> SUFFICES ASSUME XgmiInv, Traffic PROVE XgmiInv'
    OBVIOUS
<1>1. /\ gpuTime' = gpuTime + 1 /\ UNCHANGED <<found, lastXgmi, xgmi>>
    BY DEF Traffic
<1>2. XgmiNeverInvents'
    BY <1>1 DEF XgmiInv, XgmiNeverInvents
<1>3. CASE UNCHANGED <<acc, moved>>
    BY <1>1, <1>2, <1>3 DEF XgmiInv, XgmiTyped, CountedMoved
<1>4. ASSUME NEW g \in found, NEW l \in Links,
             acc' = [acc EXCEPT ![g][l] = @ + 1], moved' = [moved EXCEPT ![g] = @ + 1]
      PROVE  XgmiInv'
  <2>1. g \in Gpus
      BY DEF XgmiInv, XgmiTyped
  <2>2. /\ acc[g] \in [Links -> Nat] /\ moved[g] \in Nat
        /\ acc' \in [Gpus -> [Links -> Nat]] /\ moved' \in [Gpus -> Nat]
      BY <1>4, <2>1 DEF XgmiInv, XgmiTyped
  <2>3. /\ acc'[g] = [acc[g] EXCEPT ![l] = @ + 1] /\ moved'[g] = moved[g] + 1
        /\ \A h \in Gpus \ {g} : acc'[h] = acc[h] /\ moved'[h] = moved[h]
      BY <1>4, <2>1 DEF XgmiInv, XgmiTyped
  <2>4. XgmiTyped'
      BY <1>1, <2>2 DEF XgmiInv, XgmiTyped
  <2>5. ASSUME lastXgmi[g].set
        PROVE  SumOver(acc'[g], Links \ lastXgmi[g].missing) <= lastXgmi[g].sum + moved'[g]
    <3> DEFINE S == Links \ lastXgmi[g].missing
    <3>1. S \in SUBSET Links /\ lastXgmi[g].sum \in Nat
        BY <2>1, <2>5 DEF XgmiInv, XgmiTyped
    <3>2. SumOver(acc[g], S) <= lastXgmi[g].sum + moved[g]
        BY <2>1, <2>5 DEF XgmiInv, CountedMoved
    <3> HIDE DEF S
    <3>3. SumOver(acc'[g], S) <= SumOver(acc[g], S) + 1
        BY <2>2, <2>3, <3>1, OneMoreCounted
    <3>4. SumOver(acc[g], S) \in Nat /\ SumOver(acc'[g], S) \in Nat
      <4>1. IsFiniteSet(S)
          BY <3>1, AmdAssumption, FS_Subset DEF AmdAssumption
      <4>2. \A x \in S : acc[g][x] \in Nat /\ acc'[g][x] \in Nat
          BY <2>1, <2>2, <3>1
      <4> QED
          BY <4>1, <4>2, SumNatural
    <3>5. SumOver(acc'[g], S) <= lastXgmi[g].sum + moved'[g]
        BY <2>2, <2>3, <3>1, <3>2, <3>3, <3>4
    <3> QED
        BY <3>5 DEF S
  <2>6. CountedMoved'
    <3>1. SUFFICES ASSUME NEW h \in Gpus, lastXgmi[h].set
                   PROVE  SumOver(acc'[h], Links \ lastXgmi[h].missing) <= lastXgmi[h].sum + moved'[h]
        BY <1>1 DEF CountedMoved
    <3>2. CASE h = g
        BY <2>5, <3>1, <3>2
    <3>3. CASE h # g
        BY <2>3, <3>1, <3>3 DEF XgmiInv, CountedMoved
    <3> QED
        BY <3>2, <3>3
  <2> QED
      BY <1>2, <2>4, <2>6 DEF XgmiInv
<1> QED
    BY <1>3, <1>4 DEF Traffic

LEMMA ResetStep == XgmiInv /\ (\E g \in Gpus : Reset(g)) => XgmiInv'
<1> SUFFICES ASSUME XgmiInv, NEW g \in Gpus, Reset(g) PROVE XgmiInv'
    OBVIOUS
<1>1. /\ acc' = [acc EXCEPT ![g] = [l \in Links |-> 0]]
      /\ UNCHANGED <<gpuTime, found, lastXgmi, xgmi, moved>>
    BY DEF Reset
<1>2. XgmiNeverInvents'
    BY <1>1 DEF XgmiInv, XgmiNeverInvents
<1>3. XgmiTyped'
    BY <1>1 DEF XgmiInv, XgmiTyped
<1>4. acc'[g] = [l \in Links |-> 0] /\ \A h \in Gpus \ {g} : acc'[h] = acc[h]
    BY <1>1 DEF XgmiInv, XgmiTyped
<1>5. ASSUME NEW S \in SUBSET Links PROVE SumOver(acc'[g], S) = 0
  <2>1. IsFiniteSet(S)
      BY AmdAssumption, FS_Subset DEF AmdAssumption
  <2>2. \A x \in S : acc'[g][x] = 0
      BY <1>4
  <2> QED
      BY <2>1, <2>2, SumOfZeros
<1>6. CountedMoved'
  <2>1. SUFFICES ASSUME NEW h \in Gpus, lastXgmi[h].set
                 PROVE  SumOver(acc'[h], Links \ lastXgmi[h].missing) <= lastXgmi[h].sum + moved[h]
      BY <1>1 DEF CountedMoved
  <2>2. lastXgmi[h].sum \in Nat /\ moved[h] \in Nat
      BY <2>1 DEF XgmiInv, XgmiTyped
  <2>3. CASE h = g
      BY <1>5, <2>2, <2>3
  <2>4. CASE h # g
      BY <1>4, <2>1, <2>4 DEF XgmiInv, CountedMoved
  <2> QED
      BY <2>3, <2>4
<1> QED
    BY <1>2, <1>3, <1>6 DEF XgmiInv

\* What one increment says: a delta that is rounded down to a rate, and the rate
\* multiplied again by the time, is not more than the delta.
LEMMA RateWithinDelta ==
    ASSUME NEW delta \in Nat, NEW dt \in Nat \ {0}, NEW conversion \in Nat, NEW within \in Nat,
           delta <= within
    PROVE  /\ (delta \div dt) * conversion \in Nat
           /\ ((delta \div dt) * conversion) * dt <= within * conversion
<1> DEFINE q == delta \div dt
           r == within - q * dt
<1>1. q \in Nat /\ q * dt <= delta
    OBVIOUS
<1> HIDE DEF q
<1>2. q * dt \in Nat
    BY <1>1
<1>3. r \in Nat /\ within = q * dt + r
    BY <1>1, <1>2
<1> HIDE DEF r
<1>4. q * conversion \in Nat /\ (q * conversion) * dt = (q * dt) * conversion
    BY <1>1
<1>5. within * conversion = (q * dt) * conversion + r * conversion
    BY <1>2, <1>3
<1>6. (q * dt) * conversion \in Nat /\ r * conversion \in Nat
    BY <1>2, <1>3
<1>7. (q * conversion) * dt <= within * conversion
    BY <1>4, <1>5, <1>6
<1> QED
    BY <1>4, <1>7 DEF q

\* The links populated now have counted what the baseline has, what was moved
\* since, and what those that returned had counted.
LEMMA DeltaWithin ==
    ASSUME XgmiInv, NEW g \in Gpus, lastXgmi[g].set, NEW missing \in SUBSET Links
    PROVE  /\ SumXgmiKb(g, missing) \in Nat /\ Returned(g, missing) \in Nat
           /\ XgmiDelta(g, SumXgmiKb(g, missing)) \in Nat
           /\ XgmiDelta(g, SumXgmiKb(g, missing)) <= moved[g] + Returned(g, missing)
<1> DEFINE old == lastXgmi[g].missing
           A == Links \ old
           B == old \ missing
           C == Links \ missing
           n == acc[g]
<1>1. /\ old \subseteq Links /\ lastXgmi[g].sum \in Nat /\ moved[g] \in Nat
      /\ \A l \in Links : n[l] \in Nat
    BY DEF XgmiInv, XgmiTyped
<1>2. /\ IsFiniteSet(A) /\ IsFiniteSet(B) /\ IsFiniteSet(C) /\ IsFiniteSet(A \cup B)
      /\ A \cup B \subseteq Links /\ C \subseteq A \cup B /\ A \cap B = {}
    BY <1>1, AmdAssumption, FS_Subset DEF AmdAssumption
<1>3. SumOver(n, A) <= lastXgmi[g].sum + moved[g]
    BY DEF XgmiInv, CountedMoved
<1>4. SumXgmiKb(g, missing) = SumOver(n, C) /\ Returned(g, missing) = SumOver(n, B)
    BY DEF SumXgmiKb, Returned
<1> HIDE DEF A, B, C, n
<1>5. (\A l \in A \cup B : n[l] \in Nat) /\ (\A l \in C : n[l] \in Nat)
    BY <1>1, <1>2
<1>6. SumOver(n, A) \in Nat /\ SumOver(n, B) \in Nat /\ SumOver(n, C) \in Nat
    BY <1>2, <1>5, SumNatural
<1>7. SumOver(n, C) <= SumOver(n, A \cup B)
    BY <1>2, <1>5, SumOverLess
<1>8. SumOver(n, A \cup B) = SumOver(n, A) + SumOver(n, B)
    BY <1>2, <1>5, SumDisjoint
<1>9. SumOver(n, C) <= lastXgmi[g].sum + moved[g] + SumOver(n, B)
    BY <1>1, <1>3, <1>6, <1>7, <1>8
<1> QED
    BY <1>1, <1>4, <1>6, <1>9 DEF XgmiDelta

LEMMA RecordStep ==
    ASSUME XgmiInv, NEW g \in Gpus, NEW missing \in SUBSET Links, RecordXgmi(g, missing),
           UNCHANGED <<gpuTime, acc, found>>
    PROVE  XgmiInv'
<1> DEFINE sum == SumXgmiKb(g, missing)
           sample == [set |-> TRUE, at |-> gpuTime, sum |-> sum, missing |-> missing]
           dt == gpuTime - lastXgmi[g].at
<1>1. sum \in Nat /\ sum = SumOver(acc[g], Links \ missing)
  <2>1. IsFiniteSet(Links \ missing) /\ \A l \in Links \ missing : acc[g][l] \in Nat
      BY AmdAssumption, FS_Subset DEF AmdAssumption, XgmiInv, XgmiTyped
  <2> QED
      BY <2>1, SumNatural DEF SumXgmiKb
<1>2. ASSUME lastXgmi' = [lastXgmi EXCEPT ![g] = sample], moved' = [moved EXCEPT ![g] = 0],
             DOMAIN xgmi' = Gpus
      PROVE  XgmiTyped' /\ CountedMoved'
  <2> HIDE DEF sum
  <2>1. /\ lastXgmi'[g].set /\ lastXgmi'[g].at = gpuTime /\ lastXgmi'[g].sum = sum
        /\ lastXgmi'[g].missing = missing /\ moved'[g] = 0 /\ DOMAIN lastXgmi' = Gpus
      BY <1>2 DEF XgmiInv, XgmiTyped
  <2>2. \A h \in Gpus \ {g} : lastXgmi'[h] = lastXgmi[h] /\ moved'[h] = moved[h]
      BY <1>2 DEF XgmiInv, XgmiTyped
  <2>3. moved' \in [Gpus -> Nat]
      BY <1>2 DEF XgmiInv, XgmiTyped
  <2>4. XgmiTyped'
      BY <1>1, <1>2, <2>1, <2>2, <2>3 DEF XgmiInv, XgmiTyped
  <2>5. CountedMoved'
    <3>1. SUFFICES ASSUME NEW h \in Gpus, lastXgmi'[h].set
                   PROVE  SumOver(acc[h], Links \ lastXgmi'[h].missing) <= lastXgmi'[h].sum + moved'[h]
        BY DEF CountedMoved
    <3>2. CASE h = g
        BY <1>1, <2>1, <3>2
    <3>3. CASE h # g
        BY <2>2, <3>1, <3>3 DEF XgmiInv, CountedMoved
    <3> QED
        BY <3>2, <3>3
  <2> QED
      BY <2>4, <2>5
<1>3. CASE /\ ~lastXgmi[g].set /\ lastXgmi' = [lastXgmi EXCEPT ![g] = sample]
           /\ moved' = [moved EXCEPT ![g] = 0] /\ xgmi' = xgmi
  <2>1. XgmiNeverInvents'
      BY <1>3 DEF XgmiInv, XgmiNeverInvents
  <2>2. DOMAIN xgmi' = Gpus
      BY <1>3 DEF XgmiInv, XgmiTyped
  <2> QED
      BY <1>2, <1>3, <2>1, <2>2 DEF XgmiInv
<1>4. CASE UNCHANGED <<lastXgmi, moved, xgmi>>
    BY <1>4 DEF XgmiInv, XgmiTyped, CountedMoved, XgmiNeverInvents
<1>5. CASE /\ lastXgmi[g].set /\ dt > 0
           /\ xgmi' = [xgmi EXCEPT ![g] =
                         [made |-> TRUE, bytes |-> (XgmiDelta(g, sum) \div dt) * BytesConversion,
                          span |-> dt, within |-> moved[g] + Returned(g, missing)]]
           /\ lastXgmi' = [lastXgmi EXCEPT ![g] = sample]
           /\ moved' = [moved EXCEPT ![g] = 0]
  <2> DEFINE delta == XgmiDelta(g, sum)
             within == moved[g] + Returned(g, missing)
  <2>1. delta \in Nat /\ within \in Nat /\ delta <= within
      BY <1>5, DeltaWithin DEF XgmiInv, XgmiTyped
  <2>2. dt \in Nat \ {0}
      BY <1>5 DEF XgmiInv, XgmiTyped
  <2>3. BytesConversion \in Nat
      BY AmdAssumption DEF AmdAssumption
  <2>4. /\ xgmi'[g].bytes = (delta \div dt) * BytesConversion
        /\ xgmi'[g].span = dt /\ xgmi'[g].within = within
        /\ \A h \in Gpus \ {g} : xgmi'[h] = xgmi[h]
        /\ DOMAIN xgmi' = Gpus
      BY <1>5 DEF XgmiInv, XgmiTyped
  <2> HIDE DEF delta, within, dt
  <2>5. /\ (delta \div dt) * BytesConversion \in Nat
        /\ ((delta \div dt) * BytesConversion) * dt <= within * BytesConversion
      BY <2>1, <2>2, <2>3, RateWithinDelta
  <2>6. xgmi'[g].bytes >= 0 /\ xgmi'[g].bytes * xgmi'[g].span <= xgmi'[g].within * BytesConversion
      BY <2>4, <2>5
  <2>7. XgmiNeverInvents'
      BY <2>4, <2>6 DEF XgmiInv, XgmiNeverInvents
  <2> QED
      BY <1>2, <1>5, <2>4, <2>7 DEF XgmiInv
<1> QED
    BY <1>3, <1>4, <1>5 DEF RecordXgmi

LEMMA XgmiInvStep == XgmiInv /\ [AmdNext]_amdVars => XgmiInv'
<1> SUFFICES ASSUME XgmiInv, [AmdNext]_amdVars PROVE XgmiInv'
    OBVIOUS
<1>1. CASE Traffic
    BY <1>1, TrafficStep
<1>2. CASE GPUMetrics
  <2>1. UNCHANGED <<gpuTime, acc, found, lastXgmi, moved>> /\ xgmi' = [g \in Gpus |-> NoIncrement]
      BY <1>2 DEF GPUMetrics
  <2>2. XgmiNeverInvents'
      BY <2>1 DEF XgmiNeverInvents, NoIncrement
  <2> QED
      BY <2>1, <2>2 DEF XgmiInv, XgmiTyped, CountedMoved
<1>3. CASE \E g \in Gpus : Reset(g)
    BY <1>3, ResetStep
<1>4. ASSUME NEW g \in Gpus, CollectGpu(g) PROVE XgmiInv'
  <2>1. UNCHANGED <<gpuTime, acc, found>>
      BY <1>4 DEF CollectGpu
  <2>2. \/ UNCHANGED <<lastXgmi, xgmi, moved>>
        \/ \E missing \in SUBSET Links : RecordXgmi(g, missing)
      BY <1>4 DEF CollectGpu
  <2>3. CASE UNCHANGED <<lastXgmi, xgmi, moved>>
      BY <2>1, <2>3 DEF XgmiInv, XgmiTyped, CountedMoved, XgmiNeverInvents
  <2>4. CASE \E missing \in SUBSET Links : RecordXgmi(g, missing)
      BY <2>1, <2>4, RecordStep
  <2> QED
      BY <2>2, <2>3, <2>4
<1>5. CASE UNCHANGED amdVars
    BY <1>5 DEF amdVars, XgmiInv, XgmiTyped, CountedMoved, XgmiNeverInvents
<1> QED
    BY <1>1, <1>2, <1>3, <1>4, <1>5 DEF AmdNext

\* gpumetrics.cpp:56-70 and 224-255: for any links, clock and conversion, an
\* increment is of no more than was moved and what returning links had counted.
THEOREM XgmiHonest == AmdSpec => []XgmiNeverInvents
<1>1. XgmiInv => XgmiNeverInvents
    BY DEF XgmiInv
<1> QED
    BY <1>1, XgmiInvInit, XgmiInvStep, PTL DEF AmdSpec

LEMMA AmdTypesInit == AmdInit => AmdTypeOK
<1> SUFFICES ASSUME AmdInit PROVE AmdTypeOK
    OBVIOUS
<1>1. gpuTime \in 0 .. MaxGpuTime /\ odd \in 0 .. MaxOdd
    BY AmdAssumption DEF AmdInit
<1>2. found \subseteq Gpus /\ latched \in [Gpus -> SUBSET Items]
    BY AmdInvInit DEF AmdInv
<1> QED
    BY <1>1, <1>2 DEF AmdInit, AmdTypeOK, Items

LEMMA AmdTypesStep == AmdInv /\ AmdTypeOK /\ [AmdNext]_amdVars => AmdTypeOK'
<1> SUFFICES ASSUME AmdInv, AmdTypeOK, [AmdNext]_amdVars PROVE AmdTypeOK'
    OBVIOUS
<1>1. found' \subseteq Gpus /\ latched' \in [Gpus -> SUBSET Items]
    BY AmdInvStep DEF AmdInv
<1>2. /\ gpuTime \in 0 .. MaxGpuTime /\ odd \in 0 .. MaxOdd /\ toRead \subseteq found
      /\ MaxGpuTime \in Nat /\ MaxOdd \in Nat
    BY AmdAssumption DEF AmdTypeOK
<1> SUFFICES gpuTime' \in 0 .. MaxGpuTime /\ odd' \in 0 .. MaxOdd /\ toRead' \subseteq found'
    BY <1>1 DEF AmdTypeOK, Items
<1>3. CASE Traffic
    BY <1>2, <1>3 DEF Traffic
<1>4. CASE GPUMetrics
    BY <1>2, <1>4 DEF GPUMetrics
<1>5. CASE \E g \in Gpus : Reset(g)
    BY <1>2, <1>5 DEF Reset
<1>6. CASE \E g \in Gpus : CollectGpu(g)
  <2>1. PICK g \in Gpus : CollectGpu(g)
      BY <1>6
  <2>2. toRead' \subseteq toRead /\ UNCHANGED <<gpuTime, found>>
      BY <2>1 DEF CollectGpu
  <2>3. PICK s \in LibraryAnswers(MaxOdd - odd), lacking \in SUBSET Scalars, missing \in SUBSET Links :
           /\ odd' = odd + Cardinality({c \in DOMAIN s : s[c] # "success"})
                         + Cardinality(lacking) + Cardinality(missing)
           /\ odd' <= MaxOdd
      BY <2>1 DEF CollectGpu
  <2>4. Cardinality(lacking) \in Nat /\ Cardinality(missing) \in Nat
      BY AmdAssumption, FS_Subset, FS_CardinalityType
  <2>5. Cardinality({c \in DOMAIN s : s[c] # "success"}) \in Nat
    <3>1. DOMAIN s = {"total", "usage", "pcie", "metrics"}
        BY DEF LibraryAnswers
    <3>2. IsFiniteSet({"total", "usage", "pcie", "metrics"})
      <4>1. IsFiniteSet({"total"})
          BY FS_Singleton
      <4>2. IsFiniteSet({"total"} \cup {"usage"})
          BY <4>1, FS_AddElement
      <4>3. IsFiniteSet(({"total"} \cup {"usage"}) \cup {"pcie"})
          BY <4>2, FS_AddElement
      <4>4. IsFiniteSet((({"total"} \cup {"usage"}) \cup {"pcie"}) \cup {"metrics"})
          BY <4>3, FS_AddElement
      <4>5. {"total", "usage", "pcie", "metrics"} =
               (({"total"} \cup {"usage"}) \cup {"pcie"}) \cup {"metrics"}
          BY Zenon
      <4> QED
          BY <4>4, <4>5, Zenon
    <3>3. {c \in DOMAIN s : s[c] # "success"} \subseteq {"total", "usage", "pcie", "metrics"}
        BY <3>1
    <3> QED
        BY <3>2, <3>3, FS_Subset, FS_CardinalityType
  <2>6. odd' \in 0 .. MaxOdd
      BY <1>2, <2>3, <2>4, <2>5
  <2> QED
      BY <1>2, <2>2, <2>6
<1>7. CASE UNCHANGED amdVars
    BY <1>2, <1>7 DEF amdVars
<1> QED
    BY <1>3, <1>4, <1>5, <1>6, <1>7 DEF AmdNext

\* The GPUs that a gather has still to read are among those found.
LEMMA AmdTypes == AmdSpec => []AmdTypeOK
<1>1. AmdInit => AmdInv /\ AmdTypeOK
    BY AmdInvInit, AmdTypesInit
<1>2. AmdInv /\ AmdTypeOK /\ [AmdNext]_amdVars => AmdInv' /\ AmdTypeOK'
    BY AmdInvStep, AmdTypesStep
<1> QED
    BY <1>1, <1>2, PTL DEF AmdSpec

-----------------------------------------------------------------------------
(* Nvml: of the GPU that the gather is at, what was asked and worked all   *)
(* the while is shown.                                                     *)

Wanted(g) == throughout[g] \cap symbols \cap Readings

NvmlInv ==
    /\ GpuCount \in Nat /\ gpuCount \in {0, GpuCount}
    /\ index \in GpuIds \cup {NoGpu}
    /\ index # NoGpu => gpuCount = GpuCount
    /\ toAsk \subseteq Readings
    /\ toAsk # {} => index # NoGpu
    /\ DOMAIN working = GpuIds /\ DOMAIN throughout = GpuIds
    /\ DOMAIN ever = GpuIds /\ DOMAIN shown = GpuIds
    /\ \A g \in GpuIds : throughout[g] \subseteq working[g] /\ working[g] \subseteq ever[g]
    /\ nvml = "loaded" => gpuCount = 0 /\ index = NoGpu /\ \A g \in GpuIds : shown[g] = {}
    /\ \A g \in GpuIds : toAsk # {} /\ g = index => Wanted(g) \ toAsk \subseteq shown[g]
    /\ GpusIndependent

LEMMA NvmlInvInit == NvmlInit => NvmlInv
<1> SUFFICES ASSUME NvmlInit PROVE NvmlInv
    OBVIOUS
<1>1. GpuCount \in Nat
    BY NvmlAssumption
<1>2. GpusIndependent
    BY DEF NvmlInit, GpusIndependent
<1>3. working \in [GpuIds -> {Readings \cup {"handle"}, {}}]
    BY DEF NvmlInit
<1> QED
    BY <1>1, <1>2, <1>3 DEF NvmlInit, NvmlInv

\* A fault takes from what worked all through, and adds to what ever worked.
LEMMA FaultStep == NvmlInv /\ Fault => NvmlInv'
<1> SUFFICES ASSUME NvmlInv, Fault PROVE NvmlInv'
    OBVIOUS
<1>1. /\ throughout' = [g \in GpuIds |-> throughout[g] \cap working'[g]]
      /\ ever' = [g \in GpuIds |-> ever[g] \cup working'[g]]
      /\ symbols' = symbols /\ nvml' = nvml /\ gpuCount' = gpuCount /\ index' = index
      /\ toAsk' = toAsk /\ shown' = shown
    BY DEF Fault
<1>2. DOMAIN working' = GpuIds
  <2>1. PICK g \in GpuIds, S \in {Readings \cup {"handle"}} \cup {{r} : r \in Readings} :
          working' \in {[working EXCEPT ![g] = @ \cup S], [working EXCEPT ![g] = @ \ S]}
      BY DEF Fault
  <2> QED
      BY <2>1 DEF NvmlInv
<1>3. \A g \in GpuIds :
        /\ throughout'[g] \subseteq working'[g] /\ working'[g] \subseteq ever'[g]
        /\ throughout'[g] \subseteq throughout[g] /\ ever[g] \subseteq ever'[g]
    BY <1>1
<1>4. \A g \in GpuIds : Wanted(g)' \subseteq Wanted(g)
    BY <1>1, <1>3 DEF Wanted
<1>5. GpusIndependent'
  <2>1. ASSUME NEW g \in GpuIds PROVE shown'[g] \subseteq ever'[g] \cap symbols'
      BY <1>1, <1>3 DEF NvmlInv, GpusIndependent
  <2>2. ASSUME NEW g \in GpuIds, index' = NoGpu \/ g < index', gpuCount' > 0,
               {"handle", "count"} \subseteq symbols', "handle" \in throughout'[g]
        PROVE  throughout'[g] \cap symbols' \cap Readings \subseteq shown'[g]
    <3>1. throughout[g] \cap symbols \cap Readings \subseteq shown[g]
        BY <1>1, <1>3, <2>2 DEF NvmlInv, GpusIndependent
    <3> QED
        BY <1>1, <1>3, <3>1
  <2> QED
      BY <2>1, <2>2 DEF GpusIndependent
<1>6. \A g \in GpuIds : toAsk' # {} /\ g = index' => Wanted(g)' \ toAsk' \subseteq shown'[g]
    BY <1>1, <1>4 DEF NvmlInv
<1> QED
    BY <1>1, <1>2, <1>3, <1>5, <1>6 DEF NvmlInv

LEMMA InitializeStep == NvmlInv /\ Initialize => NvmlInv'
<1> SUFFICES ASSUME NvmlInv, Initialize PROVE NvmlInv'
    OBVIOUS
<1>1. /\ nvml = "loaded" /\ nvml' # "loaded"
      /\ working' = working /\ throughout' = throughout /\ ever' = ever
      /\ gpuCount' = gpuCount /\ index' = index /\ toAsk' = toAsk /\ shown' = shown
    BY DEF Initialize
<1>2. gpuCount = 0 /\ index = NoGpu /\ toAsk = {} /\ \A g \in GpuIds : shown[g] = {}
    BY <1>1 DEF NvmlInv
<1>3. GpusIndependent'
    BY <1>1, <1>2 DEF GpusIndependent
<1> QED
    BY <1>1, <1>2, <1>3 DEF NvmlInv

LEMMA GetCountStep == NvmlInv /\ GetCount => NvmlInv'
<1> SUFFICES ASSUME NvmlInv, GetCount PROVE NvmlInv'
    OBVIOUS
<1>1. /\ nvml' = "on" /\ symbols' = symbols /\ working' = working
      /\ gpuCount' = GpuCount /\ index' = IF GpuCount > 0 THEN 0 ELSE NoGpu
      /\ toAsk' = {} /\ shown' = [g \in GpuIds |-> {}]
      /\ throughout' = working /\ ever' = working
    BY DEF GetCount
<1>2. GpuCount \in Nat
    BY NvmlAssumption
<1>3. index' \in GpuIds \cup {NoGpu}
    BY <1>1, <1>2 DEF GpuIds
<1>4. GpusIndependent'
    BY <1>1, <1>2 DEF GpusIndependent, GpuIds, NoGpu
<1> QED
    BY <1>1, <1>2, <1>3, <1>4 DEF NvmlInv

\* The walk goes to the next GPU: those done are those before it, and it.
LEMMA NextGpuDone ==
    ASSUME NvmlInv, index # NoGpu
    PROVE  /\ NextGpu(index) \in GpuIds \cup {NoGpu}
           /\ \A g \in GpuIds : NextGpu(index) = NoGpu \/ g < NextGpu(index) => g < index \/ g = index
<1>1. GpuCount \in Nat /\ gpuCount = GpuCount /\ index \in 0 .. GpuCount - 1
    BY DEF NvmlInv, GpuIds
<1> QED
    BY <1>1 DEF NextGpu, GpuIds, NoGpu

LEMMA SkipLostStep == NvmlInv /\ SkipLost => NvmlInv'
<1> SUFFICES ASSUME NvmlInv, SkipLost PROVE NvmlInv'
    OBVIOUS
<1>1. /\ index # NoGpu /\ toAsk = {} /\ ~("handle" \in symbols /\ "handle" \in working[index])
      /\ index' = NextGpu(index)
      /\ symbols' = symbols /\ nvml' = nvml /\ working' = working /\ gpuCount' = gpuCount
      /\ toAsk' = toAsk /\ shown' = shown /\ throughout' = throughout /\ ever' = ever
    BY DEF SkipLost, Answers
<1>2. GpusIndependent'
  <2>1. ASSUME NEW g \in GpuIds, index' = NoGpu \/ g < index', gpuCount' > 0,
               {"handle", "count"} \subseteq symbols', "handle" \in throughout'[g]
        PROVE  throughout'[g] \cap symbols' \cap Readings \subseteq shown'[g]
    <3>1. g # index
        BY <1>1, <2>1 DEF NvmlInv
    <3>2. g < index
        BY <1>1, <2>1, <3>1, NextGpuDone
    <3> QED
        BY <1>1, <2>1, <3>2 DEF NvmlInv, GpusIndependent
  <2>2. ASSUME NEW g \in GpuIds PROVE shown'[g] \subseteq ever'[g] \cap symbols'
      BY <1>1 DEF NvmlInv, GpusIndependent
  <2> QED
      BY <2>1, <2>2 DEF GpusIndependent
<1>3. index' \in GpuIds \cup {NoGpu}
    BY <1>1, NextGpuDone
<1>4. nvml' = "loaded" => index' = NoGpu
    BY <1>1 DEF NvmlInv
<1>5. index' # NoGpu => gpuCount' = GpuCount
    BY <1>1 DEF NvmlInv
<1> QED
    BY <1>1, <1>2, <1>3, <1>4, <1>5 DEF NvmlInv

LEMMA GetHandleStep == NvmlInv /\ GetHandle => NvmlInv'
<1> SUFFICES ASSUME NvmlInv, GetHandle PROVE NvmlInv'
    OBVIOUS
<1>1. /\ index # NoGpu /\ toAsk' = Readings
      /\ symbols' = symbols /\ nvml' = nvml /\ working' = working /\ gpuCount' = gpuCount
      /\ index' = index /\ shown' = shown /\ throughout' = throughout /\ ever' = ever
    BY DEF GetHandle
<1>2. GpusIndependent'
    BY <1>1 DEF NvmlInv, GpusIndependent
<1>3. \A g \in GpuIds : Wanted(g)' \ toAsk' = {}
    BY <1>1 DEF Wanted
<1> QED
    BY <1>1, <1>2, <1>3 DEF NvmlInv

LEMMA AskStep == NvmlInv /\ (\E r \in Readings : Ask(r)) => NvmlInv'
<1> SUFFICES ASSUME NvmlInv, NEW r \in Readings, Ask(r) PROVE NvmlInv'
    OBVIOUS
<1>1. /\ r \in toAsk /\ toAsk' = toAsk \ {r}
      /\ shown' = [shown EXCEPT ![index] = IF Answers(r, index) THEN @ \cup {r} ELSE @]
      /\ index' = IF toAsk' = {} THEN NextGpu(index) ELSE index
      /\ symbols' = symbols /\ nvml' = nvml /\ working' = working /\ gpuCount' = gpuCount
      /\ throughout' = throughout /\ ever' = ever
    BY DEF Ask
<1>2. index # NoGpu /\ index \in GpuIds
    BY <1>1 DEF NvmlInv
<1>3. /\ \A g \in GpuIds \ {index} : shown'[g] = shown[g]
      /\ shown[index] \subseteq shown'[index]
      /\ shown'[index] \subseteq shown[index] \cup {r}
      /\ r \in shown'[index] \ shown[index] => r \in symbols /\ r \in working[index]
      /\ r \in symbols /\ r \in throughout[index] => r \in shown'[index]
      /\ DOMAIN shown' = GpuIds
    BY <1>1, <1>2 DEF NvmlInv, Answers
<1>4. Wanted(index) \ toAsk' \subseteq shown'[index]
  <2>1. Wanted(index) \ toAsk \subseteq shown[index]
      BY <1>1, <1>2 DEF NvmlInv
  <2>2. r \in Wanted(index) => r \in shown'[index]
      BY <1>3 DEF Wanted
  <2> QED
      BY <2>1, <2>2, <1>1, <1>3
<1>5. \A g \in GpuIds : shown'[g] \subseteq ever'[g] \cap symbols'
  <2>1. ASSUME NEW g \in GpuIds PROVE shown[g] \subseteq ever[g] \cap symbols
      BY DEF NvmlInv, GpusIndependent
  <2>2. shown'[index] \subseteq ever[index] \cap symbols
      BY <2>1, <1>2, <1>3 DEF NvmlInv
  <2> QED
      BY <2>1, <2>2, <1>1, <1>3
<1>6. ASSUME NEW g \in GpuIds, index' = NoGpu \/ g < index', gpuCount' > 0,
             {"handle", "count"} \subseteq symbols', "handle" \in throughout'[g]
      PROVE  throughout'[g] \cap symbols' \cap Readings \subseteq shown'[g]
  <2>1. CASE g = index
    <3>1. toAsk' = {}
      <4>1. CASE toAsk' # {}
        <5>1. index' = index
            BY <1>1, <4>1
        <5>2. ~(g < index) /\ index # NoGpu
            BY <2>1, <1>2 DEF GpuIds
        <5> QED
            BY <5>1, <5>2, <1>6
      <4> QED
          BY <4>1
    <3> QED
        BY <2>1, <3>1, <1>1, <1>4 DEF Wanted
  <2>2. CASE g # index
    <3>1. g < index
        BY <1>1, <1>2, <1>6, <2>2, NextGpuDone
    <3>2. throughout[g] \cap symbols \cap Readings \subseteq shown[g]
        BY <3>1, <1>1, <1>6 DEF NvmlInv, GpusIndependent
    <3> QED
        BY <3>2, <2>2, <1>1, <1>3
  <2> QED
      BY <2>1, <2>2
<1>7. GpusIndependent'
    BY <1>5, <1>6 DEF GpusIndependent
<1>8. index' \in GpuIds \cup {NoGpu}
    BY <1>1, <1>2, NextGpuDone
<1>9. nvml' # "loaded"
    BY <1>1, <1>2 DEF NvmlInv
<1>10. ASSUME NEW g \in GpuIds, toAsk' # {}, g = index'
       PROVE  Wanted(g)' \ toAsk' \subseteq shown'[g]
    BY <1>1, <1>4, <1>10 DEF Wanted
<1>11. gpuCount' \in {0, GpuCount} /\ gpuCount' = GpuCount /\ toAsk' \subseteq Readings
    BY <1>1, <1>2 DEF NvmlInv
<1>12. toAsk' # {} => index' # NoGpu
    BY <1>1, <1>2
<1> QED
    BY <1>1, <1>3, <1>7, <1>8, <1>9, <1>10, <1>11, <1>12 DEF NvmlInv

LEMMA NvmlInvStep == NvmlInv /\ [NvmlNext]_nvmlVars => NvmlInv'
<1> SUFFICES ASSUME NvmlInv, [NvmlNext]_nvmlVars PROVE NvmlInv'
    OBVIOUS
<1>1. ASSUME UNCHANGED nvmlVars PROVE NvmlInv'
    BY <1>1 DEF nvmlVars, NvmlInv, GpusIndependent, Wanted
<1>2. CASE Fault
    BY <1>2, FaultStep
<1>3. CASE Initialize
    BY <1>3, InitializeStep
<1>4. CASE NothingToAsk
    BY <1>1, <1>4 DEF NothingToAsk
<1>5. CASE GetCount
    BY <1>5, GetCountStep
<1>6. CASE SkipLost
    BY <1>6, SkipLostStep
<1>7. CASE GetHandle
    BY <1>7, GetHandleStep
<1>8. CASE \E r \in Readings : Ask(r)
    BY <1>8, AskStep
<1> QED
    BY <1>1, <1>2, <1>3, <1>4, <1>5, <1>6, <1>7, <1>8 DEF NvmlNext

\* nvml/src/gpumetrics.h:75-120: for any number of GPUs and of faults, what is lost
\* of one GPU costs nothing else.
THEOREM LostGpuCostsItself == NvmlSpec => []GpusIndependent
<1>1. NvmlInv => GpusIndependent
    BY DEF NvmlInv
<1> QED
    BY <1>1, NvmlInvInit, NvmlInvStep, PTL DEF NvmlSpec

LEMMA NvmlTypesInit == NvmlInit => NvmlTypeOK
<1> SUFFICES ASSUME NvmlInit PROVE NvmlTypeOK
    OBVIOUS
<1>1. working \in [GpuIds -> SUBSET (Readings \cup {"handle"})]
    BY DEF NvmlInit
<1> QED
    BY <1>1 DEF NvmlInit, NvmlTypeOK

LEMMA NvmlTypesStep == NvmlInv /\ NvmlTypeOK /\ [NvmlNext]_nvmlVars => NvmlTypeOK'
<1> SUFFICES ASSUME NvmlInv, NvmlTypeOK, [NvmlNext]_nvmlVars PROVE NvmlTypeOK'
    OBVIOUS
<1>1. /\ gpuCount' \in {0, GpuCount} /\ index' \in GpuIds \cup {NoGpu} /\ toAsk' \subseteq Readings
    BY NvmlInvStep DEF NvmlInv
<1>2. /\ symbols \subseteq Functions /\ nvml \in {"loaded", "on", "off"}
      /\ working \in [GpuIds -> SUBSET (Readings \cup {"handle"})]
      /\ shown \in [GpuIds -> SUBSET Readings]
    BY DEF NvmlTypeOK
<1> SUFFICES /\ symbols' \subseteq Functions /\ nvml' \in {"loaded", "on", "off"}
             /\ working' \in [GpuIds -> SUBSET (Readings \cup {"handle"})]
             /\ shown' \in [GpuIds -> SUBSET Readings]
    BY <1>1 DEF NvmlTypeOK
<1>3. CASE Fault
  <2>1. PICK g \in GpuIds, S \in SUBSET (Readings \cup {"handle"}) :
           working' \in {[working EXCEPT ![g] = @ \cup S], [working EXCEPT ![g] = @ \ S]}
      BY <1>3 DEF Fault
  <2>2. working' \in [GpuIds -> SUBSET (Readings \cup {"handle"})]
      BY <1>2, <2>1
  <2> QED
      BY <1>2, <1>3, <2>2 DEF Fault
<1>4. CASE Initialize
    BY <1>2, <1>4 DEF Initialize
<1>5. CASE GetCount
    BY <1>2, <1>5 DEF GetCount
<1>6. CASE SkipLost \/ GetHandle
    BY <1>2, <1>6 DEF SkipLost, GetHandle
<1>7. ASSUME NEW r \in Readings, Ask(r)
      PROVE  /\ symbols' \subseteq Functions /\ nvml' \in {"loaded", "on", "off"}
             /\ working' \in [GpuIds -> SUBSET (Readings \cup {"handle"})]
             /\ shown' \in [GpuIds -> SUBSET Readings]
    BY <1>2, <1>7 DEF Ask
<1>8. CASE NothingToAsk \/ UNCHANGED nvmlVars
    BY <1>2, <1>8 DEF NothingToAsk, nvmlVars
<1> QED
    BY <1>3, <1>4, <1>5, <1>6, <1>7, <1>8 DEF NvmlNext

\* The gather is at a GPU of the machine, or at none, and shows readings.
LEMMA NvmlTypes == NvmlSpec => []NvmlTypeOK
<1>1. NvmlInit => NvmlInv /\ NvmlTypeOK
    BY NvmlInvInit, NvmlTypesInit
<1>2. NvmlInv /\ NvmlTypeOK /\ [NvmlNext]_nvmlVars => NvmlInv' /\ NvmlTypeOK'
    BY NvmlInvStep, NvmlTypesStep
<1> QED
    BY <1>1, <1>2, PTL DEF NvmlSpec

-----------------------------------------------------------------------------
(* Dcgm: what the lines parsed so far are, after each of them.             *)

DcgmLine == [gpu : DcgmGpus, values : Readable \cup {"short"}]
ParsedLines == [good : BOOLEAN, gpus : SUBSET DcgmGpus]

\* The first n lines give numbers, each for a GPU of its own.
Whole(lines, n) ==
    \A i \in 1 .. n : /\ lines[i].values = "numbers"
                      /\ \A j \in 1 .. n : lines[i].gpu = lines[j].gpu => i = j
Named(lines, n) == {lines[i].gpu : i \in 1 .. n}

LEMMA ParseRuns ==
    ASSUME NEW lines \in Seq(DcgmLine)
    PROVE  \E after \in [0 .. Len(lines) -> ParsedLines] :
              /\ after[0] = [good |-> lines # <<>>, gpus |-> {}]
              /\ \A n \in 1 .. Len(lines) : after[n] = ParseLine(after[n - 1], lines[n])
              /\ Parse(lines) = after[Len(lines)]
<1> DEFINE first == [good |-> lines # <<>>, gpus |-> {}]
           step == [x \in ParsedLines \X DcgmLine |-> ParseLine(x[1], x[2])]
           One(g, n) == IF n = 0 THEN first ELSE ParseLine(g[n - 1], lines[n])
           Parsing(g) == g = [n \in 0 .. Len(lines) |-> One(g, n)]
<1>1. first \in ParsedLines
    BY DEF ParsedLines
<1>2. \A p \in ParsedLines, l \in DcgmLine : ParseLine(p, l) \in ParsedLines
    BY DEF ParsedLines, DcgmLine, ParseLine
<1>3. step \in [ParsedLines \X DcgmLine -> ParsedLines]
    BY <1>2
<1>4. PICK g \in [0 .. Len(lines) -> ParsedLines] : Looping(step, first, lines, g)
  <2> HIDE DEF step, first
  <2> QED
      BY <1>1, <1>3, LoopOver
<1>5. ASSUME NEW n \in 0 .. Len(lines), n # 0
      PROVE  step[<<g[n - 1], lines[n]>>] = ParseLine(g[n - 1], lines[n])
  <2>1. g[n - 1] \in ParsedLines /\ lines[n] \in DcgmLine
      BY <1>5
  <2> QED
      BY <2>1
<1>6. Parsing(g)
  <2> HIDE DEF first, step
  <2> QED
      BY <1>4, <1>5 DEF Looping
<1> DEFINE after == CHOOSE h : Parsing(h)
<1>7. Parsing(after)
  <2> HIDE DEF Parsing
  <2> QED
      BY <1>6
<1>8. Parse(lines) = after[Len(lines)]
    BY DEF Parse
<1> HIDE DEF after
<1>9. ASSUME NEW h, Parsing(h) PROVE \A n \in 0 .. Len(lines) : h[n] = One(h, n)
  <2> HIDE DEF One
  <2> QED
      BY <1>9
<1> DEFINE T == {n \in Nat : n <= Len(lines) => after[n] = g[n]}
<1>10. 0 \in T
    BY <1>6, <1>7, <1>9
<1>11. ASSUME NEW n \in Nat, n \in T PROVE n + 1 \in T
  <2>1. SUFFICES ASSUME n + 1 <= Len(lines) PROVE after[n + 1] = g[n + 1]
      OBVIOUS
  <2>2. n + 1 \in 0 .. Len(lines) /\ after[n] = g[n] /\ (n + 1) - 1 = n /\ n + 1 # 0
      BY <1>11, <2>1
  <2>3. after[n + 1] = One(after, n + 1) /\ g[n + 1] = One(g, n + 1)
    <3> HIDE DEF Parsing, One
    <3> QED
        BY <1>6, <1>7, <1>9, <2>2
  <2> QED
      BY <2>2, <2>3
<1>12. Nat \subseteq T
  <2> HIDE DEF T
  <2> QED
      BY <1>10, <1>11, NaturalsIn
<1>13. \A n \in 0 .. Len(lines) : after[n] = g[n]
    BY <1>12
<1>14. g[0] = first /\ \A n \in 1 .. Len(lines) : g[n] = ParseLine(g[n - 1], lines[n])
  <2> HIDE DEF Parsing
  <2> QED
      BY <1>6, <1>9
<1>15. Parse(lines) = g[Len(lines)]
    BY <1>8, <1>13
<1> QED
    BY <1>14, <1>15

LEMMA ParsedWhole ==
    ASSUME NEW lines \in Seq(DcgmLine), Parse(lines).good
    PROVE  Whole(lines, Len(lines)) /\ Parse(lines).gpus = Named(lines, Len(lines))
<1>1. PICK after \in [0 .. Len(lines) -> ParsedLines] :
              /\ after[0] = [good |-> lines # <<>>, gpus |-> {}]
              /\ \A n \in 1 .. Len(lines) : after[n] = ParseLine(after[n - 1], lines[n])
              /\ Parse(lines) = after[Len(lines)]
    BY ParseRuns
<1> DEFINE Good(n) == after[n].good => Whole(lines, n) /\ after[n].gpus = Named(lines, n)
           T == {n \in Nat : n <= Len(lines) => Good(n)}
<1>2. 0 \in T
    BY <1>1 DEF Whole, Named
<1>3. ASSUME NEW n \in Nat, n \in T PROVE n + 1 \in T
  <2>1. SUFFICES ASSUME n + 1 <= Len(lines), after[n + 1].good
                 PROVE  Whole(lines, n + 1) /\ after[n + 1].gpus = Named(lines, n + 1)
      OBVIOUS
  <2>2. n + 1 \in 1 .. Len(lines) /\ (n + 1) - 1 = n /\ n \in 0 .. Len(lines)
      BY <2>1
  <2> DEFINE p == after[n]
             l == lines[n + 1]
  <2>3. after[n + 1] = ParseLine(p, l) /\ p \in ParsedLines /\ l \in DcgmLine
      BY <1>1, <2>2
  <2>4. Good(n)
      BY <1>3, <2>2
  <2>5. /\ p.good /\ l.values = "numbers" /\ l.gpu \notin p.gpus
        /\ after[n + 1].gpus = p.gpus \cup {l.gpu}
    <3> HIDE DEF p, l
    <3> QED
        BY <2>1, <2>3 DEF ParseLine, ParsedLines
  <2>6. Whole(lines, n) /\ p.gpus = Named(lines, n)
      BY <2>4, <2>5
  <2>7. Named(lines, n + 1) = Named(lines, n) \cup {l.gpu}
    <3>1. 1 .. n + 1 = (1 .. n) \cup {n + 1}
        OBVIOUS
    <3> QED
        BY <3>1 DEF Named
  <2>8. \A i \in 1 .. n : lines[i].gpu # l.gpu
      BY <2>5, <2>6 DEF Named
  <2>9. Whole(lines, n + 1)
      BY <2>5, <2>6, <2>8 DEF Whole
  <2> QED
      BY <2>5, <2>6, <2>7, <2>9
<1>4. Len(lines) \in T
  <2>1. Nat \subseteq T
    <3> HIDE DEF T
    <3> QED
        BY <1>2, <1>3, NaturalsIn
  <2> QED
      BY <2>1
<1> QED
    BY <1>1, <1>4

DcgmInv ==
    /\ dcgmStep \in {"idle", "execute", "parse"}
    /\ dcgmStep # "idle" => dcgmShown = {}
    /\ dcgmLines \in Seq(DcgmLine)
    /\ readings \in [DcgmGpus -> Readable \cup {"gone"}]
    /\ DcgmWhole

LEMMA DcgmInvInit == DcgmInit => DcgmInv
    BY DEF DcgmInit, DcgmInv, DcgmWhole

\* What dcgmi prints is lines.
LEMMA OutputTyped ==
    ASSUME readings \in [DcgmGpus -> Readable \cup {"gone"}], NEW out \in Outputs
    PROVE  out \in Seq(DcgmLine)
<1> DEFINE S == {g \in DcgmGpus : readings[g] \in Readable}
           order == SetToSeq(S)
           lines == [i \in DOMAIN order |-> [gpu |-> order[i], values |-> readings[order[i]]]]
<1>1. IsFiniteSet(S)
    BY DcgmAssumption, FS_Subset DEF DcgmAssumption
<1>2. Cardinality(S) \in Nat /\ \E f \in [1 .. Cardinality(S) -> S] : IsInjective(f)
  <2> HIDE DEF S
  <2>1. Cardinality(S) \in Nat
      BY <1>1, FS_CardinalityType
  <2>2. ExistsBijection(1 .. Cardinality(S), S)
      BY <1>1, FS_CardinalityType
  <2> QED
      BY <2>1, <2>2 DEF ExistsBijection, Bijection, Injection
<1>3. order \in [1 .. Cardinality(S) -> S]
  <2> HIDE DEF S
  <2> QED
      BY <1>2 DEF SetToSeq
<1>4. \A i \in 1 .. Cardinality(S) : order[i] \in DcgmGpus /\ readings[order[i]] \in Readable
    BY <1>3
<1> HIDE DEF order
<1>5. lines \in Seq(DcgmLine) /\ Len(lines) = Cardinality(S) /\ DOMAIN lines = 1 .. Len(lines)
  <2>1. lines \in [1 .. Cardinality(S) -> DcgmLine]
      BY <1>3, <1>4 DEF DcgmLine
  <2> HIDE DEF lines, S
  <2> QED
      BY <1>2, <2>1
<1>6. out \in {lines} \cup {Append(lines, lines[i]) : i \in DOMAIN lines}
              \cup {[lines EXCEPT ![i].values = "short"] : i \in DOMAIN lines \cap {Len(lines)}}
    BY DEF Outputs, order
<1> HIDE DEF lines, S
<1>7. CASE out = lines
    BY <1>5, <1>7
<1>8. ASSUME NEW i \in DOMAIN lines, out = Append(lines, lines[i]) PROVE out \in Seq(DcgmLine)
    BY <1>5, <1>8
<1>9. ASSUME NEW i \in DOMAIN lines, out = [lines EXCEPT ![i].values = "short"]
      PROVE  out \in Seq(DcgmLine)
  <2>1. lines \in [1 .. Len(lines) -> DcgmLine] /\ Len(lines) \in Nat
      BY <1>5
  <2>2. out \in [1 .. Len(lines) -> DcgmLine]
      BY <1>5, <1>9, <2>1 DEF DcgmLine
  <2> QED
      BY <2>1, <2>2
<1> QED
    BY <1>6, <1>7, <1>8, <1>9

LEMMA DcgmInvStep == DcgmInv /\ [DcgmNext]_dcgmVars => DcgmInv'
<1> SUFFICES ASSUME DcgmInv, [DcgmNext]_dcgmVars PROVE DcgmInv'
    OBVIOUS
<1>1. CASE ServiceChange
    BY <1>1 DEF ServiceChange, DcgmInv, DcgmWhole
<1>2. CASE CollectDcgm
  <2>1. dcgmShown' = {} /\ dcgmLines' = <<>> /\ dcgmStep' = "execute" /\ readings' = readings
      BY <1>2 DEF CollectDcgm
  <2> QED
      BY <2>1 DEF DcgmInv, DcgmWhole
<1>3. CASE ExecuteDcgmi
  <2>1. /\ dcgmShown' = {} /\ dcgmStep' = "parse" /\ readings' = readings
        /\ dcgmLines' = <<>> \/ dcgmLines' \in Outputs
      BY <1>3 DEF ExecuteDcgmi, DcgmInv
  <2>2. dcgmLines' \in Seq(DcgmLine)
    <3>1. \A out \in Outputs : out \in Seq(DcgmLine)
        BY OutputTyped DEF DcgmInv
    <3>2. <<>> \in Seq(DcgmLine)
        OBVIOUS
    <3>3. CASE dcgmLines' = <<>>
        BY <3>2, <3>3, Zenon
    <3>4. CASE dcgmLines' \in Outputs
        BY <3>1, <3>4, Zenon
    <3> QED
        BY <2>1, <3>3, <3>4
  <2> QED
      BY <2>1, <2>2 DEF DcgmInv, DcgmWhole
<1>4. CASE UpdateDcgm
  <2>1. /\ dcgmStep' = "idle" /\ UNCHANGED <<readings, dcgmLines>>
        /\ dcgmShown' = IF Parse(dcgmLines).good THEN Parse(dcgmLines).gpus ELSE {}
      BY <1>4 DEF UpdateDcgm
  <2>2. dcgmLines \in Seq(DcgmLine)
      BY DEF DcgmInv
  <2>3. CASE Parse(dcgmLines).good
    <3>1. /\ Whole(dcgmLines, Len(dcgmLines))
          /\ dcgmShown' = Named(dcgmLines, Len(dcgmLines))
        BY <2>1, <2>2, <2>3, ParsedWhole
    <3>2. DOMAIN dcgmLines = 1 .. Len(dcgmLines)
        BY <2>2
    <3> QED
        BY <2>1, <2>2, <3>1, <3>2 DEF DcgmInv, DcgmWhole, Whole, Named
  <2>4. CASE ~Parse(dcgmLines).good
      BY <2>1, <2>2, <2>4 DEF DcgmInv, DcgmWhole
  <2> QED
      BY <2>3, <2>4
<1>5. CASE UNCHANGED dcgmVars
    BY <1>5 DEF dcgmVars, DcgmInv, DcgmWhole
<1> QED
    BY <1>1, <1>2, <1>3, <1>4, <1>5 DEF DcgmNext, SkipDcgm

\* dcgm_stats.cpp:35-70 and 150-171: for any number of GPUs and any outputs, a
\* gather sets the values of all the GPUs that dcgmi printed or of none.
THEOREM AllOrNoGpus == DcgmSpec => []DcgmWhole
<1>1. DcgmInv => DcgmWhole
    BY DEF DcgmInv
<1> QED
    BY <1>1, DcgmInvInit, DcgmInvStep, PTL DEF DcgmSpec

LEMMA DcgmTypesInit == DcgmInit => DcgmTypeOK
<1> SUFFICES ASSUME DcgmInit PROVE DcgmTypeOK
    OBVIOUS
<1>1. restarts = 0 /\ 0 \in 0 .. MaxRestarts
    BY DcgmAssumption DEF DcgmInit
<1> QED
    BY <1>1 DEF DcgmInit, DcgmTypeOK

LEMMA DcgmTypesStep == DcgmInv /\ DcgmTypeOK /\ [DcgmNext]_dcgmVars => DcgmTypeOK'
<1> SUFFICES ASSUME DcgmInv, DcgmTypeOK, [DcgmNext]_dcgmVars PROVE DcgmTypeOK'
    OBVIOUS
<1>1. /\ dcgmi \in BOOLEAN /\ dcgmService \in BOOLEAN /\ restarts \in 0 .. MaxRestarts
      /\ MaxRestarts \in Nat /\ dcgmShown \subseteq DcgmGpus
    BY DcgmAssumption DEF DcgmTypeOK
<1>2. readings' \in [DcgmGpus -> Readable \cup {"gone"}] /\ dcgmStep' \in {"idle", "execute", "parse"}
    BY DcgmInvStep DEF DcgmInv
<1> SUFFICES /\ dcgmi' \in BOOLEAN /\ dcgmService' \in BOOLEAN
             /\ restarts' \in 0 .. MaxRestarts /\ dcgmShown' \subseteq DcgmGpus
    BY <1>2, Zenon DEF DcgmTypeOK
<1>3. CASE ServiceChange
    BY <1>1, <1>3 DEF ServiceChange
<1>4. CASE CollectDcgm \/ ExecuteDcgmi
    BY <1>1, <1>4 DEF CollectDcgm, ExecuteDcgmi
<1>5. CASE UpdateDcgm
  <2>1. Parse(dcgmLines) \in ParsedLines
    <3>1. dcgmLines \in Seq(DcgmLine)
        BY DEF DcgmInv
    <3>2. PICK after \in [0 .. Len(dcgmLines) -> ParsedLines] :
             Parse(dcgmLines) = after[Len(dcgmLines)]
        BY <3>1, ParseRuns
    <3> QED
        BY <3>1, <3>2
  <2>2. dcgmShown' \subseteq DcgmGpus
      BY <1>5, <2>1 DEF UpdateDcgm, ParsedLines
  <2> QED
      BY <1>1, <1>5, <2>2 DEF UpdateDcgm
<1>6. CASE SkipDcgm \/ UNCHANGED dcgmVars
    BY <1>1, <1>6 DEF SkipDcgm, dcgmVars
<1> QED
    BY <1>3, <1>4, <1>5, <1>6 DEF DcgmNext

\* The gauges that a gather sets are of GPUs that there are.
LEMMA DcgmTypes == DcgmSpec => []DcgmTypeOK
<1>1. DcgmInit => DcgmInv /\ DcgmTypeOK
    BY DcgmInvInit, DcgmTypesInit
<1>2. DcgmInv /\ DcgmTypeOK /\ [DcgmNext]_dcgmVars => DcgmInv' /\ DcgmTypeOK'
    BY DcgmInvStep, DcgmTypesStep
<1> QED
    BY <1>1, <1>2, PTL DEF DcgmSpec

-----------------------------------------------------------------------------
(* Ntp: the age on a line that sources printed is of the sample that the   *)
(* server had when it answered, and lastSampleTime_ is the time of a sample*)
(* by the wall clock of when it was found, but for the lag.                *)

NtpTyped ==
    /\ ntpTime \in 0 .. MaxNtpTime /\ wallOffset \in Offsets
    /\ sampled \in [Servers -> {Never} \cup 0 .. ntpTime]
    /\ answered.at \in 0 .. ntpTime
    /\ answered.sampled \in [Servers -> {Never} \cup 0 .. ntpTime]
    /\ basis.at \in 0 .. ntpTime /\ basis.offset \in Offsets
    /\ current \in Servers \cup {NoServer} /\ currentServer \in Servers \cup {NoServer}
    /\ command \in {"none", "tracking", "sources", "parsed", "ended"}
    /\ DOMAIN lastRx \subseteq Servers
    /\ lastSampleTime \in Int

Dated(s) ==
    /\ lastRx[s] \in Int
    /\ lastRx[s] \in Nat => answered.sampled[s] \in Nat /\ lastRx[s] = answered.at - answered.sampled[s]

NtpInv ==
    /\ NtpTyped
    /\ command \in {"sources", "parsed"} => ntpTime <= answered.at + MaxLag
    /\ command \in {"tracking", "sources", "parsed"} => ~lastSampleAge.set
    /\ \A s \in DOMAIN lastRx : Dated(s)
    /\ lastSampleTime - basis.offset \in basis.at .. basis.at + MaxLag
    /\ AgeHonest

LEMMA NtpNumbers ==
    NtpTyped => /\ ntpTime \in Nat /\ MaxNtpTime \in Nat /\ MaxLag \in Nat /\ wallOffset \in Int
                /\ answered.at \in Nat /\ basis.at \in Nat /\ basis.offset \in Int
                /\ lastSampleTime \in Int
<1> SUFFICES ASSUME NtpTyped
             PROVE  /\ ntpTime \in Nat /\ MaxNtpTime \in Nat /\ MaxLag \in Nat /\ wallOffset \in Int
                    /\ answered.at \in Nat /\ basis.at \in Nat /\ basis.offset \in Int
                    /\ lastSampleTime \in Int
    OBVIOUS
<1>1. wallOffset \in Int /\ basis.offset \in Int /\ lastSampleTime \in Int
    BY NtpAssumption DEF NtpTyped
<1>2. MaxNtpTime \in Nat /\ MaxLag \in Nat
    BY NtpAssumption
<1>3. ntpTime \in 0 .. MaxNtpTime /\ answered.at \in 0 .. ntpTime /\ basis.at \in 0 .. ntpTime
    BY DEF NtpTyped
<1> QED
    BY <1>1, <1>2, <1>3

LEMMA NtpInvInit == NtpInit => NtpInv
<1> SUFFICES ASSUME NtpInit PROVE NtpInv
    OBVIOUS
<1>1. /\ ntpTime = 1 /\ wallOffset \in Offsets /\ wallOffset \in Int
      /\ answered = [at |-> 0, sampled |-> sampled]
      /\ basis = [at |-> 1, offset |-> wallOffset]
      /\ lastSampleTime = 1 + wallOffset /\ command = "none"
      /\ current = NoServer /\ currentServer = NoServer
      /\ ~lastSampleAge.set /\ DOMAIN lastRx = {}
      /\ 1 \in 0 .. MaxNtpTime /\ MaxLag \in Nat
    BY NtpAssumption DEF NtpInit, Start, NoAge, NoLines, WallClock
<1>2. sampled \in [Servers -> {Never} \cup 0 .. ntpTime]
    BY <1>1 DEF NtpInit
<1>3. NtpTyped
    BY <1>1, <1>2 DEF NtpTyped
<1> QED
    BY <1>1, <1>3 DEF NtpInv, AgeHonest

\* Time passes, the clock is stepped, a sample comes, or chrony follows another.
LEMMA ChronyStep ==
    ASSUME NtpInv,
           \/ NtpTick \/ StepClock
           \/ \E s \in Servers : NtpSample(s)
           \/ \E s \in Servers \cup {NoServer} : Follow(s)
    PROVE  NtpInv'
<1>1. /\ command' = command /\ currentServer' = currentServer /\ lastRx' = lastRx
      /\ answered' = answered /\ lastSampleTime' = lastSampleTime /\ basis' = basis
      /\ lastSampleAge' = lastSampleAge
    BY DEF NtpTick, StepClock, NtpSample, Follow, ntpAgent
<1>2. /\ ntpTime \in Nat /\ ntpTime \in 0 .. MaxNtpTime /\ wallOffset \in Offsets
      /\ answered.at \in Nat /\ MaxLag \in Nat /\ MaxNtpTime \in Nat
    BY NtpNumbers DEF NtpInv, NtpTyped
<1>3. /\ ntpTime' \in 0 .. MaxNtpTime /\ ntpTime <= ntpTime' /\ wallOffset' \in Offsets
      /\ command \in {"sources", "parsed"} => ntpTime' <= answered.at + MaxLag
  <2>1. CASE NtpTick
      BY <1>2, <2>1 DEF NtpTick
  <2>2. CASE ntpTime' = ntpTime
    <3>1. wallOffset' \in Offsets
        BY <1>2 DEF NtpTick, StepClock, NtpSample, Follow
    <3> QED
        BY <1>2, <2>2, <3>1 DEF NtpInv
  <2> QED
      BY <2>1, <2>2 DEF StepClock, NtpSample, Follow
<1>4. sampled' \in [Servers -> {Never} \cup 0 .. ntpTime']
  <2>1. sampled \in [Servers -> {Never} \cup 0 .. ntpTime'] /\ ntpTime \in 0 .. ntpTime'
      BY <1>2, <1>3 DEF NtpInv, NtpTyped
  <2> QED
      BY <2>1 DEF NtpTick, StepClock, NtpSample, Follow
<1>5. current' \in Servers \cup {NoServer}
    BY DEF NtpInv, NtpTyped, NtpTick, StepClock, NtpSample, Follow
<1>6. /\ answered.at \in 0 .. ntpTime' /\ basis.at \in 0 .. ntpTime'
      /\ answered.sampled \in [Servers -> {Never} \cup 0 .. ntpTime']
    BY <1>2, <1>3 DEF NtpInv, NtpTyped
<1>7. NtpTyped'
    BY <1>1, <1>3, <1>4, <1>5, <1>6 DEF NtpInv, NtpTyped
<1> QED
    BY <1>1, <1>3, <1>7 DEF NtpInv, Dated, AgeHonest

LEMMA TrackingStep == NtpInv /\ Tracking => NtpInv'
<1> SUFFICES ASSUME NtpInv, Tracking PROVE NtpInv'
    OBVIOUS
<1>1. /\ command' = "tracking" /\ lastSampleAge' = NoAge
      /\ currentServer' \in {current, NoServer}
      /\ UNCHANGED <<ntpTime, wallOffset, sampled, current, lastRx, answered, lastSampleTime, basis>>
    BY DEF Tracking, chrony
<1>2. NtpTyped'
    BY <1>1 DEF NtpInv, NtpTyped
<1> QED
    BY <1>1, <1>2 DEF NtpInv, Dated, AgeHonest, NoAge

LEMMA SourcesStep == NtpInv /\ Sources => NtpInv'
<1> SUFFICES ASSUME NtpInv, Sources PROVE NtpInv'
    OBVIOUS
<1> DEFINE heard == {s \in Servers : sampled[s] # Never}
<1>1. /\ command = "tracking" /\ command' = "sources"
      /\ answered' = [at |-> ntpTime, sampled |-> sampled]
      /\ UNCHANGED <<ntpTime, wallOffset, sampled, current, currentServer, lastSampleTime, basis,
                     lastSampleAge>>
    BY DEF Sources, chrony
<1>2. \/ lastRx' = [s \in heard |-> ntpTime - sampled[s]]
      \/ lastRx' = NoLines
      \/ lastRx' = [s \in heard |-> Text]
      \/ lastRx' = [s \in heard |-> TooLong]
    BY DEF Sources
<1>3. ntpTime \in Nat /\ MaxLag \in Nat /\ sampled \in [Servers -> {Never} \cup 0 .. ntpTime]
    BY NtpNumbers DEF NtpInv, NtpTyped
<1>4. DOMAIN lastRx' \subseteq heard
    BY <1>2 DEF NoLines
<1>5. ASSUME NEW s \in DOMAIN lastRx'
      PROVE  Dated(s)'
  <2>1. s \in heard /\ sampled[s] \in 0 .. ntpTime
      BY <1>3, <1>4
  <2>2. lastRx'[s] \in {ntpTime - sampled[s], Text, TooLong}
      BY <1>2, <2>1, <1>5 DEF NoLines
  <2>3. answered'.at = ntpTime /\ answered'.sampled[s] = sampled[s]
      BY <1>1
  <2> QED
      BY <1>3, <2>1, <2>2, <2>3 DEF Dated, Text, TooLong
<1>6. NtpTyped'
  <2>1. answered'.at = ntpTime /\ answered'.sampled = sampled /\ ntpTime \in 0 .. ntpTime
      BY <1>1, <1>3
  <2>2. DOMAIN lastRx' \subseteq Servers
      BY <1>4
  <2> QED
      BY <1>1, <1>3, <2>1, <2>2 DEF NtpInv, NtpTyped
<1>7. ntpTime' <= answered'.at + MaxLag
    BY <1>1, <1>3
<1> QED
    BY <1>1, <1>5, <1>6, <1>7 DEF NtpInv, AgeHonest

LEMMA ParseStep == NtpInv /\ ParseSources => NtpInv'
<1> SUFFICES ASSUME NtpInv, ParseSources PROVE NtpInv'
    OBVIOUS
<1>1. /\ command = "sources" /\ command' = "parsed"
      /\ lastSampleTime' = Parsed
      /\ basis' = IF Says(Nat) THEN [at |-> answered.sampled[currentServer], offset |-> wallOffset]
                  ELSE basis
      /\ currentServer' = NoServer /\ lastRx' = NoLines
      /\ UNCHANGED <<ntpTime, wallOffset, sampled, current, answered, lastSampleAge>>
    BY DEF ParseSources, chrony
<1>2. /\ ntpTime \in Nat /\ MaxLag \in Nat /\ wallOffset \in Int /\ answered.at \in Nat
      /\ answered.at <= ntpTime /\ ntpTime <= answered.at + MaxLag
    BY <1>1, NtpNumbers DEF NtpInv, NtpTyped
<1>3. /\ lastSampleTime' \in Int /\ basis'.at \in 0 .. ntpTime /\ basis'.offset \in Offsets
      /\ lastSampleTime' - basis'.offset \in basis'.at .. basis'.at + MaxLag
  <2>1. CASE Says(Nat)
    <3> DEFINE age == lastRx[currentServer]
               at == answered.sampled[currentServer]
    <3>1. currentServer \in DOMAIN lastRx /\ age \in Nat
        BY <2>1 DEF Says
    <3>2. at \in Nat /\ age = answered.at - at
        BY <3>1 DEF NtpInv, Dated
    <3>3. lastSampleTime' = (ntpTime + wallOffset) - age /\ basis' = [at |-> at, offset |-> wallOffset]
      <4>1. lastSampleTime' = (ntpTime + wallOffset) - age
          BY <1>1, <2>1 DEF Parsed, WallClock
      <4> QED
          BY <1>1, <2>1, <4>1
    <3>4. wallOffset \in Offsets
        BY DEF NtpInv, NtpTyped
    <3> HIDE DEF age, at
    <3> QED
        BY <1>2, <3>1, <3>2, <3>3, <3>4
  <2>2. CASE ~Says(Nat)
    <3>1. lastSampleTime' = lastSampleTime /\ basis' = basis
        BY <1>1, <2>2 DEF Parsed
    <3> QED
        BY <3>1 DEF NtpInv, NtpTyped
  <2> QED
      BY <2>1, <2>2
<1>4. DOMAIN lastRx' = {}
    BY <1>1 DEF NoLines
<1>5. NtpTyped'
    BY <1>1, <1>3, <1>4 DEF NtpInv, NtpTyped
<1>6. ~lastSampleAge'.set
    BY <1>1 DEF NtpInv
<1> QED
    BY <1>1, <1>2, <1>3, <1>4, <1>5, <1>6 DEF NtpInv, AgeHonest

LEMMA SetSampleAgeStep == NtpInv /\ SetSampleAge => NtpInv'
<1> SUFFICES ASSUME NtpInv, SetSampleAge PROVE NtpInv'
    OBVIOUS
<1>1. /\ command' = "none"
      /\ lastSampleAge' = [set |-> TRUE, age |-> (ntpTime + wallOffset) - lastSampleTime,
                          at |-> ntpTime, offset |-> wallOffset]
      /\ UNCHANGED <<ntpTime, wallOffset, sampled, current, currentServer, lastRx, answered,
                     lastSampleTime, basis>>
  <2>1. lastSampleAge' = [set |-> TRUE, age |-> WallClock - lastSampleTime,
                          at |-> ntpTime, offset |-> wallOffset]
      BY DEF SetSampleAge
  <2>2. /\ command' = "none"
        /\ UNCHANGED <<ntpTime, wallOffset, sampled, current, currentServer, lastRx, answered,
                       lastSampleTime, basis>>
      BY DEF SetSampleAge, chrony
  <2> QED
      BY <2>1, <2>2 DEF WallClock
<1>2. /\ ntpTime \in Nat /\ MaxLag \in Nat /\ wallOffset \in Int /\ basis.at \in Nat
      /\ basis.offset \in Int /\ lastSampleTime \in Int
      /\ lastSampleTime - basis.offset \in basis.at .. basis.at + MaxLag
    BY NtpNumbers DEF NtpInv
<1>3. /\ lastSampleAge'.age = (ntpTime + wallOffset) - lastSampleTime
      /\ lastSampleAge'.at = ntpTime /\ lastSampleAge'.offset = wallOffset
    BY <1>1
<1>4. AgeHonest'
    BY <1>1, <1>2, <1>3 DEF AgeHonest
<1>5. NtpTyped'
    BY <1>1 DEF NtpInv, NtpTyped
<1> QED
    BY <1>1, <1>4, <1>5 DEF NtpInv, Dated

LEMMA RestartNtpStep == NtpInv /\ RestartNtp => NtpInv'
<1> SUFFICES ASSUME NtpInv, RestartNtp PROVE NtpInv'
    OBVIOUS
<1>1. /\ command' = "none" /\ currentServer' = NoServer /\ lastRx' = NoLines
      /\ lastSampleTime' = ntpTime + wallOffset
      /\ basis' = [at |-> ntpTime, offset |-> wallOffset] /\ lastSampleAge' = NoAge
      /\ UNCHANGED <<ntpTime, wallOffset, sampled, current, answered>>
    BY DEF RestartNtp, chrony, WallClock
<1>2. ntpTime \in Nat /\ MaxLag \in Nat /\ wallOffset \in Int
    BY NtpNumbers DEF NtpInv
<1>3. /\ basis'.at = ntpTime /\ basis'.offset = wallOffset /\ ntpTime \in 0 .. ntpTime
      /\ lastSampleTime' \in Int /\ DOMAIN lastRx' = {}
      /\ lastSampleTime' - basis'.offset \in basis'.at .. basis'.at + MaxLag
    BY <1>1, <1>2 DEF NoLines
<1>4. NtpTyped'
    BY <1>1, <1>3 DEF NtpInv, NtpTyped
<1> QED
    BY <1>1, <1>3, <1>4 DEF NtpInv, AgeHonest, NoAge

LEMMA NtpInvStep == NtpInv /\ [NtpNext]_ntpVars => NtpInv'
<1> SUFFICES ASSUME NtpInv, [NtpNext]_ntpVars PROVE NtpInv'
    OBVIOUS
<1>1. CASE OutOfRange
    BY <1>1 DEF OutOfRange, chrony, NtpInv, NtpTyped, AgeHonest, Dated
<1>2. CASE UNCHANGED ntpVars
    BY <1>2 DEF ntpVars, NtpInv, NtpTyped, AgeHonest, Dated
<1> QED
    BY <1>1, <1>2, ChronyStep, TrackingStep, SourcesStep, ParseStep, SetSampleAgeStep, RestartNtpStep
       DEF NtpNext

\* ntp.cpp:54-84: the age that is published is that of the right sample, off by the
\* lag and the steps of the wall clock alone, for any servers, times, lag and steps.
THEOREM SampleAgeHonest == NtpSpec => []AgeHonest
<1>1. NtpInv => AgeHonest
    BY DEF NtpInv
<1> QED
    BY <1>1, NtpInvInit, NtpInvStep, PTL DEF NtpSpec

\* No time is after the last tick, and the lines are of servers.
LEMMA NtpTypes == NtpSpec => []NtpTypeOK
<1>1. ASSUME NtpInv PROVE NtpTypeOK
  <2>1. 0 .. ntpTime \subseteq 0 .. MaxNtpTime
      BY <1>1, NtpNumbers DEF NtpInv, NtpTyped
  <2>2. {ntpTime, answered.at, basis.at} \subseteq 0 .. MaxNtpTime
      BY <1>1, <2>1 DEF NtpInv, NtpTyped
  <2>3. {sampled, answered.sampled} \subseteq [Servers -> {Never} \cup 0 .. MaxNtpTime]
      BY <1>1, <2>1 DEF NtpInv, NtpTyped
  <2> QED
      BY <1>1, <2>2, <2>3 DEF NtpInv, NtpTyped, NtpTypeOK
<1> QED
    BY <1>1, NtpInvInit, NtpInvStep, PTL DEF NtpSpec

-----------------------------------------------------------------------------
(* All collectors together: a behavior of MCCollectors is, for each         *)
(* collector, a behavior of its own specification, in which it takes steps *)
(* or is left alone.  So each keeps what it promises alone.                *)

LEMMA InitEach ==
    MCInit => /\ Init /\ CpuInit /\ ProcessInit /\ TimerInit
              /\ DiskInit /\ SpaceInit /\ EbsInit /\ CgroupCpuInit
              /\ IoInit /\ PerfInit /\ AmdInit /\ NvmlInit
              /\ DcgmInit /\ NtpInit
    BY DEF MCInit

LEMMA StepEach ==
    [MCNext]_all => /\ [Next]_vars /\ [CpuNext]_cpuVars
                       /\ [ProcessNext]_processVars /\ [TimerNext]_timerVars
                       /\ [DiskNext]_diskVars /\ [SpaceNext]_spaceVars
                       /\ [EbsNext]_ebsVars /\ [CgroupCpuNext]_cgroupCpuVars
                       /\ [IoNext]_ioVars /\ [PerfNext]_perfVars
                       /\ [AmdNext]_amdVars /\ [NvmlNext]_nvmlVars
                       /\ [DcgmNext]_dcgmVars /\ [NtpNext]_ntpVars
<1> SUFFICES ASSUME [MCNext]_all
             PROVE  /\ [Next]_vars /\ [CpuNext]_cpuVars
                    /\ [ProcessNext]_processVars /\ [TimerNext]_timerVars
                    /\ [DiskNext]_diskVars /\ [SpaceNext]_spaceVars
                    /\ [EbsNext]_ebsVars /\ [CgroupCpuNext]_cgroupCpuVars
                    /\ [IoNext]_ioVars /\ [PerfNext]_perfVars
                    /\ [AmdNext]_amdVars /\ [NvmlNext]_nvmlVars
                    /\ [DcgmNext]_dcgmVars /\ [NtpNext]_ntpVars
    OBVIOUS
<1>1. CASE MCNext
  <2>1. IF collector = "tracker" THEN Next ELSE UNCHANGED vars
      BY <1>1 DEF MCNext, LeftAlone
  <2>2. IF collector = "cpu" THEN CpuNext ELSE UNCHANGED cpuVars
      BY <1>1 DEF MCNext, LeftAlone
  <2>3. IF collector = "processes" THEN ProcessNext ELSE UNCHANGED processVars
      BY <1>1 DEF MCNext, LeftAlone
  <2>4. IF collector = "timer" THEN TimerNext ELSE UNCHANGED timerVars
      BY <1>1 DEF MCNext, LeftAlone
  <2>5. IF collector = "disk" THEN DiskNext ELSE UNCHANGED diskVars
      BY <1>1 DEF MCNext, LeftAlone
  <2>6. IF collector = "space" THEN SpaceNext ELSE UNCHANGED spaceVars
      BY <1>1 DEF MCNext, LeftAlone
  <2>7. IF collector = "ebs" THEN EbsNext ELSE UNCHANGED ebsVars
      BY <1>1 DEF MCNext, LeftAlone
  <2>8. IF collector = "cgroup cpu" THEN CgroupCpuNext ELSE UNCHANGED cgroupCpuVars
      BY <1>1 DEF MCNext, LeftAlone
  <2>9. IF collector = "cgroup io" THEN IoNext ELSE UNCHANGED ioVars
      BY <1>1 DEF MCNext, LeftAlone
  <2>10. IF collector = "perf" THEN PerfNext ELSE UNCHANGED perfVars
      BY <1>1 DEF MCNext, LeftAlone
  <2>11. IF collector = "amd" THEN AmdNext ELSE UNCHANGED amdVars
      BY <1>1 DEF MCNext, LeftAlone
  <2>12. IF collector = "nvml" THEN NvmlNext ELSE UNCHANGED nvmlVars
      BY <1>1 DEF MCNext, LeftAlone
  <2>13. IF collector = "dcgm" THEN DcgmNext ELSE UNCHANGED dcgmVars
      BY <1>1 DEF MCNext, LeftAlone
  <2>14. IF collector = "ntp" THEN NtpNext ELSE UNCHANGED ntpVars
      BY <1>1 DEF MCNext, LeftAlone
  <2> QED
      BY <2>1, <2>2, <2>3, <2>4, <2>5, <2>6, <2>7, <2>8, <2>9, <2>10, <2>11, <2>12, <2>13, <2>14
<1>2. CASE UNCHANGED all
    BY <1>2 DEF all, proc, disks, cgroup, gpus
<1> QED
    BY <1>1, <1>2

LEMMA EachAlone ==
    MCSpec => /\ Spec /\ CpuSpec /\ ProcessSpec /\ TimerSpec /\ DiskSpec
              /\ SpaceSpec /\ EbsSpec /\ CgroupCpuSpec /\ IoSpec /\ PerfSpec
              /\ AmdSpec /\ NvmlSpec /\ DcgmSpec /\ NtpSpec
    BY InitEach, StepEach, PTL
       DEF MCSpec, Spec, CpuSpec, ProcessSpec, TimerSpec, DiskSpec, SpaceSpec, EbsSpec,
           CgroupCpuSpec, IoSpec, PerfSpec, AmdSpec, NvmlSpec, DcgmSpec, NtpSpec

(***************************************************************************)
(* disk.cpp:102-148 and ebs.cpp:253-275: what is published for a           *)
(* filesystem or a volume is of that one, whatever is mounted over it or   *)
(* attached in its place.                                                  *)
(***************************************************************************)
THEOREM CollectorsAttribute == MCSpec => []FiguresAttributed
    BY EachAlone, SpaceHonest, VolumesAttributed, PTL DEF FiguresAttributed

(***************************************************************************)
(* gpumetrics.h:91-123 and dcgm_stats.cpp:84-171: what cannot be read of   *)
(* one NVIDIA GPU costs the others nothing through NVML, and everything    *)
(* through dcgmi.                                                          *)
(***************************************************************************)
THEOREM CollectorsShowGpus == MCSpec => []NvidiaWhole
    BY EachAlone, LostGpuCostsItself, AllOrNoGpus, PTL DEF NvidiaWhole

(***************************************************************************)
(* Every variable of every collector has its type, whatever the kernel,    *)
(* the devices and the services answer; the gathers of disk.cpp,           *)
(* cgroup.cpp, proc.cpp and the others keep every baseline within what     *)
(* was read.                                                               *)
(***************************************************************************)
THEOREM CollectorsTyped == MCSpec => []CollectorsTypeOK
    BY EachAlone, CounterTyped, CpuTypes, ProcessTypes, TimerTypes, DiskTypes, SpaceTypes,
       EbsTypes, CgroupCpuTypes, IoTypes, PerfTypes, AmdTypes, NvmlTypes, DcgmTypes, NtpTypes,
       PTL DEF CollectorsTypeOK
=============================================================================
