---------------------------- MODULE KernelProofs ----------------------------
(***************************************************************************)
(* What the collectors of the kernel's counters promise of processors, for *)
(* every value of their constants: a sampled counter of CPU time, the      *)
(* percentages and the processes of /proc, hardware events, and the CPU and *)
(* I/O of a container.  The collectors share no state, so each has an      *)
(* invariant and a theorem of its own.                                     *)
(***************************************************************************)
EXTENDS TrackedCounter, ProcCpu, ProcessCount, PerfMetrics, CgroupCpu, CgroupIo, DataInduction

-----------------------------------------------------------------------------
(* TrackedCounter, for every number of cores, every time and every number  *)
(* of restarts.                                                            *)

\* What TypeOK says of the numbers, one by one.
Natural ==
    /\ time \in Nat
    /\ generation \in Nat
    /\ identity \in Nat
    /\ counter \in Nat
    /\ used \in Nat
    /\ machine \in Nat
    /\ now \in Nat
    /\ tracker.valid \in BOOLEAN
    /\ tracker.id \in Nat \cup {RootPath}
    /\ tracker.counter \in Nat
    /\ tracker.at \in Nat
    /\ tracker.at <= now
    /\ now <= time
    /\ base.generation \in Nat
    /\ base.used \in Nat

LEMMA TypeNatural == TypeOK => Natural
  BY DEF TypeOK, Natural

\* A step that leaves the tracker, the baseline and the gauge alone.
LEMMA StateTyped ==
  ASSUME TypeOK, UNCHANGED <<tracker, base, gauge>>,
         time' \in Nat, time <= time', generation' \in Nat,
         identity' \in Nat, counter' \in Nat, used' \in Nat, machine' \in Nat,
         now' \in Nat, now <= now', now' <= time'
  PROVE  TypeOK'
<1>1. {time, generation, identity, counter, used, machine, now}' \subseteq Nat
  OBVIOUS
<1>2. tracker'.at <= now'
  <2>1. Natural
    BY TypeNatural
  <2> QED
    BY <2>1 DEF Natural
<1>3. gauge' = gauge /\ tracker' = tracker /\ base' = base
  OBVIOUS
<1> QED
  BY <1>1, <1>2, <1>3 DEF TypeOK, Nothing

LEMMA CoreTime == \A m \in 0 .. Cores : m \in Nat /\ \A c \in 0 .. m : c \in Nat
  BY TrackedAssumption DEF TrackedAssumption

\* A sample of the service's counter under its identity, or of the machine's.
SampledAs(id, value) ==
    /\ SampleAs(id, value)
    /\ (id = identity /\ value = counter) \/ (id = RootPath /\ value = machine)

LEMMA SampleIsAs == Sample \/ SampleRoot => \E id, value : SampledAs(id, value)
  BY DEF Sample, SampleRoot, SampledAs

LEMMA SampleNatural ==
  ASSUME Natural, NEW id, NEW value, SampledAs(id, value)
  PROVE  /\ id \in Nat \cup {RootPath}
         /\ value \in Nat
         /\ id # RootPath => id = identity /\ value = counter
         /\ id = RootPath => value = machine
  BY DEF SampledAs, Natural, RootPath

(***************************************************************************)
(* The counter never shows more than the service used: it shows what the   *)
(* current generation used.  What the service used since the baseline is   *)
(* at least what the counter gained since then, whatever restarted.        *)
(***************************************************************************)
Accounted ==
    /\ counter <= used
    /\ base.used <= used
    /\ tracker.valid /\ tracker.id # RootPath
          => counter - tracker.counter <= used - base.used

\* Within the generation of the baseline the two are the same.
AccountedExactly ==
    /\ base.generation <= generation
    /\ tracker.valid /\ tracker.id # RootPath /\ base.generation = generation
          => counter - tracker.counter = used - base.used

\* A PID names the generation it belongs to.
Identified ==
    /\ identity = generation
    /\ tracker.valid => tracker.id = base.generation

-----------------------------------------------------------------------------
(***************************************************************************)
(* Every variable has its type; in particular a published percentage is of *)
(* a non-negative CPU time over a positive wall time.                      *)
(***************************************************************************)
LEMMA TypeStep == TypeOK /\ Accounted /\ [Next]_vars => TypeOK'
<1> SUFFICES ASSUME TypeOK, Accounted, [Next]_vars PROVE TypeOK'
  OBVIOUS
<1>0. Natural
  BY TypeNatural
<1>1. CASE Tick
  <2>1. PICK m \in 0 .. Cores : \E c \in 0 .. m :
            counter' = counter + c /\ used' = used + c /\ machine' = machine + m
    BY <1>1 DEF Tick
  <2>0. PICK c \in 0 .. m : counter' = counter + c /\ used' = used + c /\ machine' = machine + m
    BY <2>1
  <2>2. counter' \in Nat /\ used' \in Nat /\ machine' \in Nat
    BY <1>0, <2>0, CoreTime DEF Natural
  <2> QED
    BY <1>0, <1>1, <2>2, StateTyped DEF Tick, Natural
<1>2. CASE Restart
  <2>1. identity' \in Nat
    BY <1>0, <1>2 DEF Restart, Natural
  <2> QED
    BY <1>0, <1>2, <2>1, StateTyped DEF Restart, Natural
<1>3. CASE Sample \/ SampleRoot
  <2>0. PICK id, value : SampledAs(id, value)
    BY <1>3, SampleIsAs
  <2>00. /\ SampleAs(id, value) /\ value \in Nat /\ id \in Nat \cup {RootPath}
         /\ UNCHANGED <<time, service, now>>
    BY <1>0, <2>0, SampleNatural DEF SampledAs, SampleAs
  <2>1. tracker' \in [valid : BOOLEAN, id : Nat \cup {RootPath}, counter : Nat, at : Nat]
        /\ tracker'.at <= now'
    BY <1>0, <2>00 DEF SampleAs, Rebase, Natural
  <2>2. base' \in [generation : Nat, used : Nat]
    BY <1>0, <2>00 DEF SampleAs, Natural
  <2>3. CASE Publishes(tracker, id, value, now)
    <3> DEFINE rate == Rate(tracker, value, now)
    <3>1. rate.cpu \in Nat
      BY <1>0, <2>00, <2>3 DEF Publishes, Rate, Natural
    <3>2. rate.wall \in Nat \ {0}
      BY <1>0, <2>3 DEF Publishes, Rate, Natural
    <3>3. used - base.used \in Nat /\ time - now \in Nat
      BY <1>0 DEF Accounted, Natural
    <3>4. (base.generation = generation) \in BOOLEAN /\ (id # RootPath) \in BOOLEAN
      OBVIOUS
    <3>5. gauge' = [published |-> TRUE, own |-> id # RootPath,
                    cpu |-> rate.cpu, wall |-> rate.wall,
                    lag |-> time - now, used |-> used - base.used,
                    oneGeneration |-> base.generation = generation]
      BY <2>00, <2>3 DEF SampleAs
    <3> HIDE DEF rate
    <3>6. gauge' \in [published : {TRUE}, own : BOOLEAN, cpu : Nat, wall : Nat \ {0},
                      lag : Nat, used : Nat, oneGeneration : BOOLEAN]
      BY <3>1, <3>2, <3>3, <3>4, <3>5
    <3> QED
      BY <1>0, <2>00, <2>1, <2>2, <3>6 DEF service, TypeOK, Natural
  <2>4. CASE ~Publishes(tracker, id, value, now)
    <3>1. gauge' = Nothing
      BY <2>00, <2>4 DEF SampleAs
    <3> QED
      BY <1>0, <2>00, <2>1, <2>2, <3>1 DEF service, TypeOK, Natural
  <2> QED
    BY <2>3, <2>4
<1>4. CASE StartCycle
  BY <1>0, <1>4, StateTyped DEF StartCycle, service, Natural
<1>5. CASE UNCHANGED vars
  BY <1>5 DEF vars, service, TypeOK
<1> QED
  BY <1>1, <1>2, <1>3, <1>4, <1>5 DEF Next

LEMMA AccountedStep == TypeOK /\ Accounted /\ [Next]_vars => Accounted'
<1> SUFFICES ASSUME TypeOK, Accounted, [Next]_vars PROVE Accounted'
  OBVIOUS
<1>0. Natural
  BY TypeNatural
<1>1. CASE Tick
  <2>1. PICK m \in 0 .. Cores : \E c \in 0 .. m :
            counter' = counter + c /\ used' = used + c /\ machine' = machine + m
    BY <1>1 DEF Tick
  <2>0. PICK c \in 0 .. m : counter' = counter + c /\ used' = used + c /\ machine' = machine + m
    BY <2>1
  <2>2. c \in Nat
    BY CoreTime
  <2> QED
    BY <1>0, <1>1, <2>0, <2>2 DEF Tick, Accounted, Natural
<1>2. CASE Restart
  BY <1>0, <1>2 DEF Restart, Accounted, Natural
<1>3. CASE Sample \/ SampleRoot
  <2>1. PICK id, value : SampledAs(id, value)
    BY <1>3, SampleIsAs
  <2>2. id # RootPath => value = counter
    BY <1>0, <2>1, SampleNatural
  <2> QED
    BY <1>0, <2>1, <2>2 DEF SampledAs, SampleAs, Rebase, service, Accounted, Natural
<1>4. CASE StartCycle \/ UNCHANGED vars
  BY <1>4 DEF StartCycle, vars, service, Accounted
<1> QED
  BY <1>1, <1>2, <1>3, <1>4 DEF Next

LEMMA InitAccounted == Init => TypeOK /\ Accounted
<1> SUFFICES ASSUME Init PROVE TypeOK /\ Accounted
  OBVIOUS
<1>1. TypeOK
  BY DEF Init, TypeOK, Fresh
<1>2. Accounted
  BY DEF Init, Accounted, Fresh
<1> QED
  BY <1>1, <1>2

LEMMA AlwaysAccounted == Spec => [](TypeOK /\ Accounted)
<1>1. TypeOK /\ Accounted /\ [Next]_vars => (TypeOK /\ Accounted)'
  BY TypeStep, AccountedStep
<1> QED
  BY InitAccounted, <1>1, PTL DEF Spec

(***************************************************************************)
(* Every variable has its type, the baseline is not ahead of the cycle nor *)
(* the cycle of the clock, and the wall time of a percentage is positive.  *)
(***************************************************************************)
THEOREM CounterTyped == Spec => []TypeOK
  BY AlwaysAccounted, PTL

-----------------------------------------------------------------------------
(***************************************************************************)
(* A percentage published of the service never claims more CPU time than   *)
(* it used since the baseline, the root cgroup's counter in between or not.*)
(***************************************************************************)
THEOREM CounterNeverOverestimates == Spec => []NeverOverestimates
<1>1. Init => NeverOverestimates
  BY DEF Init, NeverOverestimates, Nothing
<1>2. TypeOK /\ Accounted /\ NeverOverestimates /\ [Next]_vars
        => NeverOverestimates'
  <2> SUFFICES ASSUME TypeOK, Accounted, NeverOverestimates, [Next]_vars
               PROVE  NeverOverestimates'
    OBVIOUS
  <2>1. CASE Sample \/ SampleRoot
    <3>1. PICK id, value : SampledAs(id, value)
      BY <2>1, SampleIsAs
    <3>2. CASE Publishes(tracker, id, value, now)
      <4>1. gauge'.cpu = value - tracker.counter /\ gauge'.used = used - base.used
            /\ gauge'.own = (id # RootPath)
        BY <3>1, <3>2 DEF SampledAs, SampleAs, Rate
      <4>2. tracker.valid /\ tracker.id = id
        BY <3>2 DEF Publishes
      <4>3. id # RootPath => value = counter
        BY <3>1, SampleNatural, TypeNatural
      <4> QED
        BY <4>1, <4>2, <4>3 DEF NeverOverestimates, Accounted
    <3>3. CASE ~Publishes(tracker, id, value, now)
      BY <3>1, <3>3 DEF SampledAs, SampleAs, NeverOverestimates, Nothing
    <3> QED
      BY <3>2, <3>3
  <2>2. CASE UNCHANGED gauge
    BY <2>2 DEF NeverOverestimates
  <2> QED
    BY <2>1, <2>2 DEF Next, vars, Tick, Restart, StartCycle
<1> QED
  BY <1>1, <1>2, AlwaysAccounted, PTL DEF Spec

-----------------------------------------------------------------------------
(***************************************************************************)
(* Since the cycle of the baseline the service and the machine used at     *)
(* most Cores in a tick.                                                   *)
(***************************************************************************)
Busy ==
    /\ used - base.used <= Cores * (time - tracker.at)
    /\ tracker.valid /\ tracker.id = RootPath
          => machine - tracker.counter <= Cores * (time - tracker.at)

LEMMA BusyStep == TypeOK /\ Busy /\ [Next]_vars => Busy'
<1> SUFFICES ASSUME TypeOK, Busy, [Next]_vars PROVE Busy'
  OBVIOUS
<1>0. Natural /\ Cores \in Nat
  BY TypeNatural, TrackedAssumption DEF TrackedAssumption
<1>1. CASE Tick
  <2>1. PICK m \in 0 .. Cores : \E c \in 0 .. m :
            counter' = counter + c /\ used' = used + c /\ machine' = machine + m
    BY <1>1 DEF Tick
  <2>0. PICK c \in 0 .. m : counter' = counter + c /\ used' = used + c /\ machine' = machine + m
    BY <2>1
  <2>2. c \in Nat /\ c <= Cores /\ m \in Nat /\ m <= Cores
    BY <1>0
  <2>3. Cores * (time + 1 - tracker.at) = Cores * (time - tracker.at) + Cores
    BY <1>0 DEF Natural
  <2>4. used + c - base.used <= Cores * (time + 1 - tracker.at)
    BY <1>0, <2>2, <2>3 DEF Busy, Natural
  <2>5. tracker.valid /\ tracker.id = RootPath
          => machine + m - tracker.counter <= Cores * (time + 1 - tracker.at)
    BY <1>0, <2>2, <2>3 DEF Busy, Natural
  <2> QED
    BY <1>0, <1>1, <2>0, <2>4, <2>5 DEF Tick, Busy, Natural
<1>2. CASE Sample \/ SampleRoot
  <2>1. Cores * (time - now) >= 0
    <3>1. time - now \in Nat
      BY <1>0 DEF Natural
    <3> QED
      BY <1>0, <3>1
  <2>2. PICK id, value : SampledAs(id, value)
    BY <1>2, SampleIsAs
  <2>3. id = RootPath => value = machine
    BY <1>0, <2>2, SampleNatural
  <2> QED
    BY <1>0, <2>1, <2>2, <2>3 DEF SampledAs, SampleAs, Rebase, service, Busy, Natural
<1>3. CASE Restart \/ StartCycle \/ UNCHANGED vars
  BY <1>3 DEF Restart, StartCycle, vars, service, Busy
<1> QED
  BY <1>1, <1>2, <1>3 DEF Next

(***************************************************************************)
(* On a machine of Cores cores a percentage is above Cores times 100% by no*)
(* more than the delay of the read, of whichever cgroup it is.             *)
(***************************************************************************)
THEOREM CounterRateBounded == Spec => []RateBounded
<1>1. Init => Busy /\ RateBounded
  <2> SUFFICES ASSUME Init PROVE Busy /\ RateBounded
    OBVIOUS
  <2>1. Cores * (0 - 0) = 0
    BY TrackedAssumption DEF TrackedAssumption
  <2> QED
    BY <2>1 DEF Init, Busy, RateBounded, Nothing, Fresh
<1>2. TypeOK /\ Accounted /\ Busy /\ RateBounded /\ [Next]_vars
        => RateBounded'
  <2> SUFFICES ASSUME TypeOK, Accounted, Busy, RateBounded, [Next]_vars
               PROVE  RateBounded'
    OBVIOUS
  <2>0. Natural /\ Cores \in Nat
    BY TypeNatural, TrackedAssumption DEF TrackedAssumption
  <2>1. ASSUME NEW id, NEW value, SampledAs(id, value), Publishes(tracker, id, value, now)
        PROVE  RateBounded'
    <3>1. gauge'.cpu = value - tracker.counter
          /\ gauge'.wall = now - tracker.at
          /\ gauge'.lag = time - now
      BY <2>1 DEF SampledAs, SampleAs, Rate
    <3>2. tracker.valid /\ tracker.id = id
      BY <2>1 DEF Publishes
    <3>3. value \in Nat /\ value - tracker.counter <= Cores * (time - tracker.at)
      <4>1. /\ id # RootPath => value = counter
            /\ id = RootPath => value = machine
            /\ value \in Nat
        BY <2>0, <2>1, SampleNatural
      <4> QED
        BY <2>0, <3>2, <4>1 DEF Accounted, Busy, Natural
    <3>5. now - tracker.at + (time - now) = time - tracker.at
      BY <2>0 DEF Natural
    <3>6. value - tracker.counter <= Cores * (time - tracker.at)
      BY <3>3
    <3> QED
      BY <3>1, <3>5, <3>6 DEF RateBounded
  <2>2. ASSUME NEW id, NEW value, SampledAs(id, value), ~Publishes(tracker, id, value, now)
        PROVE  RateBounded'
    BY <2>2 DEF SampledAs, SampleAs, RateBounded, Nothing
  <2>3. CASE UNCHANGED gauge
    BY <2>3 DEF RateBounded
  <2> QED
    BY <2>1, <2>2, <2>3, SampleIsAs DEF Next, vars, Tick, Restart, StartCycle
<1> QED
  BY <1>1, <1>2, BusyStep, AlwaysAccounted, PTL DEF Spec

-----------------------------------------------------------------------------
(***************************************************************************)
(* A percentage of one generation is of exactly the CPU time used since    *)
(* the last successful sample.                                             *)
(***************************************************************************)
LEMMA ExactStep ==
  TypeOK /\ AccountedExactly /\ [Next]_vars => AccountedExactly'
<1> SUFFICES ASSUME TypeOK, AccountedExactly, [Next]_vars
             PROVE  AccountedExactly'
  OBVIOUS
<1>0. Natural
  BY TypeNatural
<1>1. CASE Tick
  <2>1. PICK m \in 0 .. Cores : \E c \in 0 .. m :
            counter' = counter + c /\ used' = used + c /\ machine' = machine + m
    BY <1>1 DEF Tick
  <2>0. PICK c \in 0 .. m : counter' = counter + c /\ used' = used + c /\ machine' = machine + m
    BY <2>1
  <2>2. c \in Nat
    BY CoreTime
  <2> QED
    BY <1>0, <1>1, <2>0, <2>2 DEF Tick, AccountedExactly, Natural
<1>2. CASE Restart
  BY <1>0, <1>2 DEF Restart, AccountedExactly, Natural
<1>3. CASE Sample \/ SampleRoot
  <2>1. PICK id, value : SampledAs(id, value)
    BY <1>3, SampleIsAs
  <2>2. id # RootPath => value = counter
    BY <1>0, <2>1, SampleNatural
  <2> QED
    BY <1>0, <2>1, <2>2 DEF SampledAs, SampleAs, Rebase, service, AccountedExactly, Natural
<1>4. CASE StartCycle \/ UNCHANGED vars
  BY <1>4 DEF StartCycle, vars, service, AccountedExactly
<1> QED
  BY <1>1, <1>2, <1>3, <1>4 DEF Next

(***************************************************************************)
(* Within one generation a percentage is of exactly the CPU time used since*)
(* the last successful sample.                                             *)
(***************************************************************************)
THEOREM CounterExact == Spec => []ExactWithinGeneration
<1>1. Init => AccountedExactly /\ ExactWithinGeneration
  BY DEF Init, AccountedExactly, ExactWithinGeneration, Nothing, Fresh
<1>2. TypeOK /\ AccountedExactly /\ ExactWithinGeneration /\ [Next]_vars
        => ExactWithinGeneration'
  <2> SUFFICES ASSUME TypeOK, AccountedExactly, ExactWithinGeneration,
                      [Next]_vars
               PROVE  ExactWithinGeneration'
    OBVIOUS
  <2>1. CASE Sample \/ SampleRoot
    <3>1. PICK id, value : SampledAs(id, value)
      BY <2>1, SampleIsAs
    <3>2. CASE Publishes(tracker, id, value, now)
      <4>1. gauge'.cpu = value - tracker.counter /\ gauge'.used = used - base.used
            /\ gauge'.own = (id # RootPath)
            /\ gauge'.oneGeneration = (base.generation = generation)
        BY <3>1, <3>2 DEF SampledAs, SampleAs, Rate
      <4>2. tracker.valid /\ tracker.id = id
        BY <3>2 DEF Publishes
      <4>3. id # RootPath => value = counter
        BY <3>1, SampleNatural, TypeNatural
      <4> QED
        BY <4>1, <4>2, <4>3 DEF ExactWithinGeneration, AccountedExactly
    <3>3. CASE ~Publishes(tracker, id, value, now)
      BY <3>1, <3>3 DEF SampledAs, SampleAs, ExactWithinGeneration, Nothing
    <3> QED
      BY <3>2, <3>3
  <2>2. CASE UNCHANGED gauge
    BY <2>2 DEF ExactWithinGeneration
  <2> QED
    BY <2>1, <2>2 DEF Next, vars, Tick, Restart, StartCycle
<1> QED
  BY <1>1, <1>2, ExactStep, AlwaysAccounted, PTL DEF Spec

-----------------------------------------------------------------------------
(***************************************************************************)
(* The bundled identity makes a restart safe (cpu_rate_tracker.h:10-12),   *)
(* provided that every generation has an identity of its own: both samples *)
(* of a percentage of the service are of one generation.                   *)
(***************************************************************************)
THEOREM CounterOneGeneration ==
  ASSUME FreshIdentities = TRUE
  PROVE  Spec => []OneGeneration
<1>1. Init => Identified /\ OneGeneration
  BY DEF Init, Identified, OneGeneration, Nothing, Fresh
<1>2. Identified /\ [Next]_vars => Identified'
  <2> SUFFICES ASSUME Identified, [Next]_vars PROVE Identified'
    OBVIOUS
  <2>1. CASE Tick
    BY <2>1 DEF Tick, Identified
  <2>2. CASE Restart
    BY <2>2 DEF Restart, Identified
  <2>3. CASE Sample
    BY <2>3 DEF Sample, SampleAs, Rebase, service, Identified
  <2>4. CASE StartCycle \/ SampleRoot \/ UNCHANGED vars
    BY <2>4 DEF StartCycle, SampleRoot, vars, service, Identified
  <2> QED
    BY <2>1, <2>2, <2>3, <2>4 DEF Next
<1>3. Identified /\ OneGeneration /\ [Next]_vars => OneGeneration'
  <2> SUFFICES ASSUME Identified, OneGeneration, [Next]_vars
               PROVE  OneGeneration'
    OBVIOUS
  <2>1. CASE Sample /\ Publishes(tracker, identity, counter, now)
    <3>1. base.generation = generation
      BY <2>1 DEF Publishes, Identified
    <3>2. gauge'.oneGeneration = (base.generation = generation)
      BY <2>1 DEF Sample, SampleAs
    <3> QED
      BY <3>1, <3>2 DEF OneGeneration
  <2>2. CASE Sample /\ ~Publishes(tracker, identity, counter, now)
    BY <2>2 DEF Sample, SampleAs, OneGeneration, Nothing
  <2>3. CASE UNCHANGED gauge
    BY <2>3 DEF OneGeneration
  <2> QED
    BY <2>1, <2>2, <2>3 DEF Next, vars, Tick, Restart, StartCycle, SampleRoot
<1> QED
  BY <1>1, <1>2, <1>3, PTL DEF Spec

-----------------------------------------------------------------------------
(* ProcCpu: each baseline is what the kernel counts less the time since,   *)
(* but for iowait, and the counters together are of the time that passed,  *)
(* so that no difference wraps around.                                     *)

Counted(k) ==
    /\ k = [read |-> k.read, busy |-> k.busy, idle |-> k.idle, iowait |-> k.iowait]
    /\ k.read = TRUE /\ k.busy \in Nat /\ k.idle \in Nat /\ k.iowait \in Nat

\* What the kernel has counted since a baseline.
Behind(b, since) ==
    b.read => /\ b.busy \in Nat /\ b.idle \in Nat /\ b.iowait \in Nat
              /\ kernel.busy = b.busy + since.busy
              /\ kernel.idle = b.idle + since.idle
              /\ kernel.iowait <= b.iowait + since.iowait

TimesTyped == {sinceSecond, lastSecond, sinceMinute, lastMinute} \subseteq CpuTimes

\* A gauge that was set tells what passed, as a share of no less.
Told(shown, b, passed) ==
    shown.set => /\ b.read
                 /\ Exactly(shown, passed)
                 /\ shown.busy + shown.wait <= shown.total

CpuInv ==
    /\ Counted(kernel)
    /\ TimesTyped
    /\ jiffies \in 0 .. MaxJiffies
    /\ kernel.busy + kernel.idle + kernel.iowait <= jiffies
    /\ Behind(peakStats, sinceSecond) /\ Behind(utilStats, sinceMinute)
    /\ Told(peak, peakStats, lastSecond) /\ Told(utilization, utilStats, lastMinute)

LEMMA CpuInvInit == CpuInit => CpuInv
<1> SUFFICES ASSUME CpuInit PROVE CpuInv
    OBVIOUS
<1>1. /\ ~peakStats.read /\ ~utilStats.read /\ ~peak.set /\ ~utilization.set
    BY DEF CpuInit, None, Unset
<1>2. /\ Counted(kernel)
      /\ kernel.busy + kernel.idle + kernel.iowait <= jiffies
      /\ jiffies \in 0 .. MaxJiffies
    BY CpuAssumption DEF CpuInit, Counted
<1>3. TimesTyped
    BY DEF CpuInit, TimesTyped, NoTime, CpuTimes
<1> QED
    BY <1>1, <1>2, <1>3 DEF CpuInv, Behind, Told

\* A counter that is not behind its baseline does not wrap around.
LEMMA MinusExact ==
    ASSUME NEW a \in Nat, NEW b \in Nat, b <= a, a <= MaxJiffies
    PROVE  Minus(a, b) = a - b
<1> DEFINE M == 2 ^ Width
           x == a - b
<1>1. M \in Nat /\ x \in Nat /\ x < M
    BY CpuAssumption
<1>2. x % M = x
  <2> HIDE DEF M, x
  <2> QED
      BY <1>1
<1> QED
    BY <1>2 DEF Minus

\* What is computed of a baseline is what passed since.
LEMMA GaugeExact ==
    ASSUME CpuInv, NEW b, NEW since \in CpuTimes, Behind(b, since), b.read
    PROVE  LET g == ComputeGaugeValues(b, kernel)
           IN  /\ g.set
               /\ Exactly(g, since)
               /\ g.busy + g.wait <= g.total
<1> DEFINE busy == Minus(kernel.busy, b.busy)
           idle == Minus(kernel.idle, b.idle)
           wait == DeltaWait(b, kernel)
           total == (busy + idle + wait) % 2 ^ Width
<1>1. /\ kernel.busy \in Nat /\ kernel.idle \in Nat /\ kernel.iowait \in Nat
      /\ b.busy \in Nat /\ b.idle \in Nat /\ b.iowait \in Nat
      /\ since.busy \in Nat /\ since.idle \in Nat /\ since.iowait \in Nat
      /\ kernel.busy = b.busy + since.busy /\ kernel.idle = b.idle + since.idle
      /\ kernel.iowait <= b.iowait + since.iowait
      /\ kernel.busy + kernel.idle + kernel.iowait <= jiffies
      /\ jiffies \in Nat /\ jiffies <= MaxJiffies /\ MaxJiffies \in Nat
    BY CpuAssumption DEF Counted, CpuInv, Behind, CpuTimes
<1>2. busy = since.busy /\ idle = since.idle
  <2>1. /\ kernel.busy <= MaxJiffies /\ kernel.idle <= MaxJiffies
        /\ b.busy <= kernel.busy /\ b.idle <= kernel.idle
      BY <1>1
  <2>2. busy = kernel.busy - b.busy /\ idle = kernel.idle - b.idle
      BY <1>1, <2>1, MinusExact
  <2> HIDE DEF busy, idle
  <2> QED
      BY <1>1, <2>2
<1>3. wait \in Nat /\ wait <= kernel.iowait /\ wait <= since.iowait
    BY <1>1 DEF DeltaWait
<1>4. busy \in Nat /\ idle \in Nat
    BY <1>1, <1>2
<1>5. total = busy + idle + wait
  <2> DEFINE M == 2 ^ Width
  <2>1. M \in Nat /\ MaxJiffies < M
      BY CpuAssumption
  <2> HIDE DEF M, busy, idle, wait
  <2>2. busy + idle + wait \in Nat /\ busy + idle + wait < M
      BY <1>1, <1>2, <1>3, <1>4, <2>1
  <2> DEFINE x == busy + idle + wait
  <2>3. x % M = x
    <3> HIDE DEF x
    <3> QED
        BY <2>1, <2>2 DEF x
  <2> QED
      BY <2>3 DEF M
<1> DEFINE g == ComputeGaugeValues(b, kernel)
<1>6. g = IF total > 0 THEN [set |-> TRUE, busy |-> busy, wait |-> wait, total |-> total]
          ELSE [set |-> TRUE, busy |-> 0, wait |-> 0, total |-> 1]
    BY DEF ComputeGaugeValues
<1> HIDE DEF busy, idle, wait, total, g
<1>7. CASE total > 0
  <2>1. g.set = TRUE /\ g.busy = busy /\ g.wait = wait /\ g.total = total
      BY <1>6, <1>7
  <2>2. g.busy + g.wait <= g.total /\ g.total = since.busy + since.idle + g.wait
      BY <2>1, <1>2, <1>3, <1>4, <1>5
  <2> QED
      BY <2>1, <2>2, <1>2, <1>3, <1>7 DEF Exactly, g
<1>8. CASE ~(total > 0)
  <2>1. g.set = TRUE /\ g.busy = 0 /\ g.wait = 0 /\ g.total = 1
      BY <1>6, <1>8
  <2>2. since.busy = 0 /\ since.idle = 0 /\ since.iowait >= 0
    <3>1. busy + idle + wait \in Nat /\ ~(busy + idle + wait > 0)
        BY <1>3, <1>4, <1>5, <1>8
    <3>2. busy = 0 /\ idle = 0
        BY <1>3, <1>4, <3>1
    <3> QED
        BY <1>1, <1>2, <3>2
  <2> QED
      BY <2>1, <2>2, <1>2 DEF Exactly, g
<1> QED
    BY <1>7, <1>8

LEMMA UpdatedTold ==
    ASSUME CpuInv, NEW b, NEW since \in CpuTimes, Behind(b, since),
           NEW shown, NEW passed, Told(shown, b, passed)
    PROVE  Told(Updated(shown, b, kernel), kernel, since)
<1>1. kernel.read
    BY DEF CpuInv, Counted
<1>2. CASE b.read
    BY <1>1, <1>2, GaugeExact DEF Updated, Told
<1>3. CASE ~b.read
    BY <1>3 DEF Updated, Told
<1> QED
    BY <1>2, <1>3

LEMMA BehindNow == CpuInv => Behind(kernel, NoTime)
    BY DEF CpuInv, Counted, Behind, NoTime

LEMMA CpuStatsStep ==
    ASSUME CpuInv, EverySecond \/ EveryMinute
    PROVE  CpuInv'
<1>1. /\ kernel' = kernel /\ jiffies' = jiffies /\ peakStats' = kernel
      /\ peak' = Updated(peak, peakStats, kernel)
      /\ sinceSecond' = NoTime /\ lastSecond' = sinceSecond
    BY DEF EverySecond, EveryMinute, CpuStats
<1>2. \/ /\ utilStats' = kernel /\ utilization' = Updated(utilization, utilStats, kernel)
         /\ sinceMinute' = NoTime /\ lastMinute' = sinceMinute
      \/ /\ utilStats' = utilStats /\ utilization' = utilization
         /\ sinceMinute' = sinceMinute /\ lastMinute' = lastMinute
    BY DEF EverySecond, EveryMinute, CpuStats
<1>3. NoTime \in CpuTimes /\ sinceSecond \in CpuTimes /\ sinceMinute \in CpuTimes
    BY DEF NoTime, CpuTimes, CpuInv, TimesTyped
<1>4. TimesTyped'
    BY <1>1, <1>2, <1>3 DEF CpuInv, TimesTyped
<1>5. Told(Updated(peak, peakStats, kernel), kernel, sinceSecond)
    BY <1>3, UpdatedTold DEF CpuInv
<1>6. Told(Updated(utilization, utilStats, kernel), kernel, sinceMinute)
    BY <1>3, UpdatedTold DEF CpuInv
<1>7. Told(peak', peakStats', lastSecond') /\ Told(utilization', utilStats', lastMinute')
    BY <1>1, <1>2, <1>5, <1>6 DEF CpuInv
<1>8. Behind(peakStats', sinceSecond') /\ Behind(utilStats', sinceMinute')
    BY <1>1, <1>2, BehindNow DEF CpuInv
<1>9. Behind(peakStats, sinceSecond)' /\ Behind(utilStats, sinceMinute)'
    BY <1>1, <1>8 DEF Behind
<1>10. Told(peak, peakStats, lastSecond)' /\ Told(utilization, utilStats, lastMinute)'
    BY <1>7 DEF Told, Exactly
<1> QED
    BY <1>1, <1>4, <1>9, <1>10 DEF Counted, CpuInv

\* A count that is set, and one more of a kind, in the kernel's counters and in a
\* time.
LEMMA CounterSet ==
    ASSUME NEW r, Counted(r), NEW n
    PROVE  /\ [r EXCEPT !.busy = n] = [read |-> r.read, busy |-> n, idle |-> r.idle, iowait |-> r.iowait]
           /\ [r EXCEPT !.idle = n] = [read |-> r.read, busy |-> r.busy, idle |-> n, iowait |-> r.iowait]
           /\ [r EXCEPT !.iowait = n] = [read |-> r.read, busy |-> r.busy, idle |-> r.idle, iowait |-> n]
<1>1. r = [read |-> r.read, busy |-> r.busy, idle |-> r.idle, iowait |-> r.iowait]
    BY DEF Counted
<1>2. [r EXCEPT !.busy = n] = [read |-> r.read, busy |-> n, idle |-> r.idle, iowait |-> r.iowait]
    BY <1>1
<1>3. [r EXCEPT !.idle = n] = [read |-> r.read, busy |-> r.busy, idle |-> n, iowait |-> r.iowait]
    BY <1>1
<1>4. [r EXCEPT !.iowait = n] = [read |-> r.read, busy |-> r.busy, idle |-> r.idle, iowait |-> n]
    BY <1>1
<1> QED
    BY <1>2, <1>3, <1>4

LEMMA TimeSet ==
    ASSUME NEW t, t \in CpuTimes, NEW n
    PROVE  /\ [t EXCEPT !.busy = n] = [busy |-> n, idle |-> t.idle, iowait |-> t.iowait]
           /\ [t EXCEPT !.idle = n] = [busy |-> t.busy, idle |-> n, iowait |-> t.iowait]
           /\ [t EXCEPT !.iowait = n] = [busy |-> t.busy, idle |-> t.idle, iowait |-> n]
<1>1. t = [busy |-> t.busy, idle |-> t.idle, iowait |-> t.iowait]
    BY DEF CpuTimes
<1>2. [t EXCEPT !.busy = n] = [busy |-> n, idle |-> t.idle, iowait |-> t.iowait]
    BY <1>1
<1>3. [t EXCEPT !.idle = n] = [busy |-> t.busy, idle |-> n, iowait |-> t.iowait]
    BY <1>1
<1>4. [t EXCEPT !.iowait = n] = [busy |-> t.busy, idle |-> t.idle, iowait |-> n]
    BY <1>1
<1> QED
    BY <1>2, <1>3, <1>4

LEMMA CounterMore ==
    ASSUME NEW r, Counted(r), NEW kind \in {"busy", "idle", "iowait"}
    PROVE  LET m == [r EXCEPT ![kind] = @ + 1]
           IN  /\ Counted(m)
               /\ m.busy = r.busy + IF kind = "busy" THEN 1 ELSE 0
               /\ m.idle = r.idle + IF kind = "idle" THEN 1 ELSE 0
               /\ m.iowait = r.iowait + IF kind = "iowait" THEN 1 ELSE 0
<1>1. /\ r = [read |-> r.read, busy |-> r.busy, idle |-> r.idle, iowait |-> r.iowait]
      /\ r.read = TRUE /\ r.busy \in Nat /\ r.idle \in Nat /\ r.iowait \in Nat
    BY DEF Counted
<1> DEFINE m == [r EXCEPT ![kind] = @ + 1]
<1>2. CASE kind = "busy"
  <2>1. m = [read |-> r.read, busy |-> r.busy + 1, idle |-> r.idle, iowait |-> r.iowait]
    <3>1. m = [r EXCEPT !.busy = r.busy + 1]
        BY <1>2
    <3> QED
        BY <3>1, CounterSet
  <2> HIDE DEF m
  <2> QED
      BY <1>1, <1>2, <2>1 DEF Counted, m
<1>3. CASE kind = "idle"
  <2>1. m = [read |-> r.read, busy |-> r.busy, idle |-> r.idle + 1, iowait |-> r.iowait]
    <3>1. m = [r EXCEPT !.idle = r.idle + 1]
        BY <1>3
    <3> QED
        BY <3>1, CounterSet
  <2> HIDE DEF m
  <2> QED
      BY <1>1, <1>3, <2>1 DEF Counted, m
<1>4. CASE kind = "iowait"
  <2>1. m = [read |-> r.read, busy |-> r.busy, idle |-> r.idle, iowait |-> r.iowait + 1]
    <3>1. m = [r EXCEPT !.iowait = r.iowait + 1]
        BY <1>4
    <3> QED
        BY <3>1, CounterSet
  <2> HIDE DEF m
  <2> QED
      BY <1>1, <1>4, <2>1 DEF Counted, m
<1> QED
    BY <1>2, <1>3, <1>4

LEMMA TimeMore ==
    ASSUME NEW t \in CpuTimes, NEW kind \in {"busy", "idle", "iowait"}
    PROVE  LET m == [t EXCEPT ![kind] = @ + 1]
           IN  /\ m \in CpuTimes
               /\ m.busy = t.busy + IF kind = "busy" THEN 1 ELSE 0
               /\ m.idle = t.idle + IF kind = "idle" THEN 1 ELSE 0
               /\ m.iowait = t.iowait + IF kind = "iowait" THEN 1 ELSE 0
<1>1. /\ t = [busy |-> t.busy, idle |-> t.idle, iowait |-> t.iowait]
      /\ t.busy \in Nat /\ t.idle \in Nat /\ t.iowait \in Nat
    BY DEF CpuTimes
<1> DEFINE m == [t EXCEPT ![kind] = @ + 1]
<1>2. CASE kind = "busy"
  <2>1. m = [busy |-> t.busy + 1, idle |-> t.idle, iowait |-> t.iowait]
    <3>1. m = [t EXCEPT !.busy = t.busy + 1]
        BY <1>2
    <3> QED
        BY <3>1, TimeSet
  <2> HIDE DEF m
  <2> QED
      BY <1>1, <1>2, <2>1 DEF CpuTimes, m
<1>3. CASE kind = "idle"
  <2>1. m = [busy |-> t.busy, idle |-> t.idle + 1, iowait |-> t.iowait]
    <3>1. m = [t EXCEPT !.idle = t.idle + 1]
        BY <1>3
    <3> QED
        BY <3>1, TimeSet
  <2> HIDE DEF m
  <2> QED
      BY <1>1, <1>3, <2>1 DEF CpuTimes, m
<1>4. CASE kind = "iowait"
  <2>1. m = [busy |-> t.busy, idle |-> t.idle, iowait |-> t.iowait + 1]
    <3>1. m = [t EXCEPT !.iowait = t.iowait + 1]
        BY <1>4
    <3> QED
        BY <3>1, TimeSet
  <2> HIDE DEF m
  <2> QED
      BY <1>1, <1>4, <2>1 DEF CpuTimes, m
<1> QED
    BY <1>2, <1>3, <1>4

\* The kernel counts no less busy and idle time than passes, and no more iowait.
LEMMA KernelCounts ==
    ASSUME CpuInv,
           Counted(kernel'), TimesTyped',
           jiffies' \in 0 .. MaxJiffies,
           kernel'.busy + kernel'.idle + kernel'.iowait <= jiffies',
           UNCHANGED <<peakStats, utilStats, peak, utilization, lastSecond, lastMinute>>,
           NEW gain \in CpuTimes,
           kernel'.busy = kernel.busy + gain.busy, kernel'.idle = kernel.idle + gain.idle,
           kernel'.iowait <= kernel.iowait + gain.iowait,
           sinceSecond'.busy = sinceSecond.busy + gain.busy,
           sinceSecond'.idle = sinceSecond.idle + gain.idle,
           sinceSecond'.iowait = sinceSecond.iowait + gain.iowait,
           sinceMinute'.busy = sinceMinute.busy + gain.busy,
           sinceMinute'.idle = sinceMinute.idle + gain.idle,
           sinceMinute'.iowait = sinceMinute.iowait + gain.iowait
    PROVE  CpuInv'
<1>1. /\ kernel.busy \in Nat /\ kernel.idle \in Nat /\ kernel.iowait \in Nat
      /\ kernel'.busy \in Nat /\ kernel'.idle \in Nat /\ kernel'.iowait \in Nat
      /\ gain.busy \in Nat /\ gain.idle \in Nat /\ gain.iowait \in Nat
      /\ sinceSecond.busy \in Nat /\ sinceSecond.idle \in Nat /\ sinceSecond.iowait \in Nat
      /\ sinceMinute.busy \in Nat /\ sinceMinute.idle \in Nat /\ sinceMinute.iowait \in Nat
    BY DEF CpuInv, Counted, TimesTyped, CpuTimes
<1>2. Behind(peakStats, sinceSecond)'
    BY <1>1 DEF CpuInv, Behind
<1>3. Behind(utilStats, sinceMinute)'
    BY <1>1 DEF CpuInv, Behind
<1>4. Told(peak, peakStats, lastSecond)' /\ Told(utilization, utilStats, lastMinute)'
    BY DEF CpuInv, Told, Exactly
<1> QED
    BY <1>2, <1>3, <1>4 DEF CpuInv, Counted

LEMMA CpuInvStep == CpuInv /\ [CpuNext]_cpuVars => CpuInv'
<1> SUFFICES ASSUME CpuInv, [CpuNext]_cpuVars PROVE CpuInv'
    OBVIOUS
<1>1. CASE Jiffy
  <2>1. /\ jiffies < MaxJiffies /\ jiffies' = jiffies + 1
        /\ UNCHANGED <<peakStats, utilStats, peak, utilization, lastSecond, lastMinute>>
      BY <1>1 DEF Jiffy
  <2>2. PICK kind \in {"busy", "idle", "iowait"} :
           /\ kernel' = [kernel EXCEPT ![kind] = @ + 1]
           /\ sinceSecond' = [sinceSecond EXCEPT ![kind] = @ + 1]
           /\ sinceMinute' = [sinceMinute EXCEPT ![kind] = @ + 1]
      BY <1>1 DEF Jiffy
  <2> DEFINE one(k) == IF kind = k THEN 1 ELSE 0
             gain == [busy |-> one("busy"), idle |-> one("idle"), iowait |-> one("iowait")]
  <2>3. /\ Counted(kernel')
        /\ kernel'.busy = kernel.busy + one("busy")
        /\ kernel'.idle = kernel.idle + one("idle")
        /\ kernel'.iowait = kernel.iowait + one("iowait")
      BY <2>2, CounterMore DEF CpuInv
  <2>4. /\ sinceSecond' \in CpuTimes
        /\ sinceSecond'.busy = sinceSecond.busy + one("busy")
        /\ sinceSecond'.idle = sinceSecond.idle + one("idle")
        /\ sinceSecond'.iowait = sinceSecond.iowait + one("iowait")
    <3>1. sinceSecond \in CpuTimes
        BY DEF CpuInv, TimesTyped
    <3> QED
        BY <2>2, <3>1, TimeMore
  <2>5. /\ sinceMinute' \in CpuTimes
        /\ sinceMinute'.busy = sinceMinute.busy + one("busy")
        /\ sinceMinute'.idle = sinceMinute.idle + one("idle")
        /\ sinceMinute'.iowait = sinceMinute.iowait + one("iowait")
    <3>1. sinceMinute \in CpuTimes
        BY DEF CpuInv, TimesTyped
    <3> QED
        BY <2>2, <3>1, TimeMore
  <2>6. /\ one("busy") + one("idle") + one("iowait") = 1
        /\ one("busy") \in Nat /\ one("idle") \in Nat /\ one("iowait") \in Nat
      OBVIOUS
  <2> HIDE DEF one
  <2>7. gain \in CpuTimes
      BY <2>6 DEF CpuTimes
  <2>8. jiffies' \in 0 .. MaxJiffies /\ kernel'.busy + kernel'.idle + kernel'.iowait <= jiffies'
      BY <2>1, <2>3, <2>6, CpuAssumption DEF Counted, CpuInv
  <2>9. TimesTyped'
      BY <2>1, <2>4, <2>5 DEF TimesTyped, CpuInv
  <2>10. gain.busy = one("busy") /\ gain.idle = one("idle") /\ gain.iowait = one("iowait")
      OBVIOUS
  <2>11. kernel'.iowait <= kernel.iowait + gain.iowait
      BY <2>3, <2>6, <2>10 DEF CpuInv, Counted
  <2> HIDE DEF gain
  <2> QED
      BY <2>1, <2>3, <2>4, <2>5, <2>7, <2>8, <2>9, <2>10, <2>11, KernelCounts
<1>2. CASE CorrectIowait
  <2>1. PICK less \in 0 .. kernel.iowait - 1 : kernel' = [kernel EXCEPT !.iowait = less]
      BY <1>2 DEF CorrectIowait
  <2>2. /\ Counted(kernel') /\ kernel'.busy = kernel.busy /\ kernel'.idle = kernel.idle
        /\ kernel'.iowait <= kernel.iowait
    <3>1. /\ kernel =
                 [read |-> kernel.read, busy |-> kernel.busy, idle |-> kernel.idle, iowait |-> kernel.iowait]
          /\ kernel.busy \in Nat /\ kernel.idle \in Nat /\ kernel.iowait \in Nat /\ kernel.read = TRUE
        BY DEF Counted, CpuInv
    <3>2. kernel' =
              [read |-> kernel.read, busy |-> kernel.busy, idle |-> kernel.idle, iowait |-> less]
        BY <2>1, <3>1
    <3>3. less \in Nat /\ less <= kernel.iowait
        BY <3>1
    <3> QED
        BY <3>1, <3>2, <3>3 DEF Counted
  <2>3. /\ UNCHANGED <<peakStats, utilStats, peak, utilization, lastSecond, lastMinute>>
        /\ jiffies' = jiffies /\ sinceSecond' = sinceSecond /\ sinceMinute' = sinceMinute
      BY <1>2 DEF CorrectIowait, cpuHistory
  <2>4. jiffies' \in 0 .. MaxJiffies /\ kernel'.busy + kernel'.idle + kernel'.iowait <= jiffies'
      BY <2>2, <2>3 DEF Counted, CpuInv
  <2>5. TimesTyped'
      BY <2>3 DEF TimesTyped, CpuInv
  <2>6. /\ NoTime \in CpuTimes /\ NoTime.busy = 0 /\ NoTime.idle = 0 /\ NoTime.iowait = 0
      BY DEF NoTime, CpuTimes
  <2>7. /\ kernel.busy = kernel.busy + 0 /\ kernel.idle = kernel.idle + 0
        /\ kernel.iowait = kernel.iowait + 0
        /\ sinceSecond.busy = sinceSecond.busy + 0 /\ sinceSecond.idle = sinceSecond.idle + 0
        /\ sinceSecond.iowait = sinceSecond.iowait + 0
        /\ sinceMinute.busy = sinceMinute.busy + 0 /\ sinceMinute.idle = sinceMinute.idle + 0
        /\ sinceMinute.iowait = sinceMinute.iowait + 0
      BY DEF CpuInv, Counted, TimesTyped, CpuTimes
  <2> QED
      BY <2>2, <2>3, <2>4, <2>5, <2>6, <2>7, KernelCounts
<1>3. CASE EverySecond \/ EveryMinute
    BY <1>3, CpuStatsStep
<1>4. CASE UNCHANGED cpuVars
    BY <1>4 DEF cpuVars, cpuHistory, CpuInv, Behind, Told, TimesTyped
<1> QED
    BY <1>1, <1>2, <1>3, <1>4 DEF CpuNext

\* proc_cpu.h:74-75: for any width of the counters, percentages add up to a hundred
\* at most, whatever iowait is corrected to.
THEOREM CpuWithinHundred == CpuSpec => []AtMostHundredPercent
<1>1. CpuInv => AtMostHundredPercent
    BY DEF CpuInv, AtMostHundredPercent, Told
<1> QED
    BY <1>1, CpuInvInit, CpuInvStep, PTL DEF CpuSpec

\* proc.cpp:588-625 and 772-795: for any order of reads, the peak and the utilization
\* each tell the time since their own last read, whatever iowait is corrected to.
THEOREM SeriesExact == CpuSpec => []EachSeriesExact
<1>1. CpuInv => EachSeriesExact
    BY DEF CpuInv, EachSeriesExact, Told, Exactly
<1> QED
    BY <1>1, CpuInvInit, CpuInvStep, PTL DEF CpuSpec

LEMMA CpuTypesInit == CpuInit => CpuTypeOK
    BY CpuAssumption DEF CpuInit, CpuTypeOK, Counters, None, Unset, NoTime, CpuTimes

\* A percentage is of a total that is not 0.
LEMMA UpdatedTyped ==
    ASSUME CpuInv, NEW shown \in Percentages \cup {Unset}, NEW b \in Counters \cup {None},
           NEW since \in CpuTimes, Behind(b, since)
    PROVE  Updated(shown, b, kernel) \in Percentages \cup {Unset}
<1>1. CASE ~b.read
    BY <1>1 DEF Updated
<1>2. CASE b.read
  <2> DEFINE g == ComputeGaugeValues(b, kernel)
             busy == Minus(kernel.busy, b.busy)
             idle == Minus(kernel.idle, b.idle)
             wait == DeltaWait(b, kernel)
             total == (busy + idle + wait) % 2 ^ Width
  <2>1. /\ kernel.busy \in Nat /\ kernel.idle \in Nat /\ kernel.iowait \in Nat
        /\ b.busy \in Nat /\ b.idle \in Nat /\ b.iowait \in Nat
        /\ kernel.busy <= MaxJiffies /\ kernel.idle <= MaxJiffies
        /\ b.busy <= kernel.busy /\ b.idle <= kernel.idle
      BY <1>2, CpuAssumption DEF CpuInv, Counted, Behind, CpuTimes
  <2>2. busy \in Nat /\ idle \in Nat /\ wait \in Nat
      BY <2>1, MinusExact DEF DeltaWait
  <2>3. total \in Nat
    <3> DEFINE M == 2 ^ Width
               x == busy + idle + wait
    <3>1. M \in Nat /\ 0 < M /\ x \in Nat
        BY <2>2, CpuAssumption
    <3>2. x % M \in Nat
      <4> HIDE DEF M, x
      <4> QED
          BY <3>1
    <3> QED
        BY <3>2 DEF M, x
  <2>4. g = IF total > 0 THEN [set |-> TRUE, busy |-> busy, wait |-> wait, total |-> total]
            ELSE [set |-> TRUE, busy |-> 0, wait |-> 0, total |-> 1]
      BY DEF ComputeGaugeValues
  <2>5. g \in Percentages
    <3> HIDE DEF busy, idle, wait, total, g
    <3> QED
        BY <2>2, <2>3, <2>4 DEF Percentages
  <2> QED
      BY <1>2, <2>5 DEF Updated
<1> QED
    BY <1>1, <1>2

LEMMA CpuTypesStep == CpuInv /\ CpuTypeOK /\ [CpuNext]_cpuVars => CpuTypeOK'
<1> SUFFICES ASSUME CpuInv, CpuTypeOK, [CpuNext]_cpuVars PROVE CpuTypeOK'
    OBVIOUS
<1>1. CpuInv' /\ TimesTyped'
    BY CpuInvStep DEF CpuInv
<1>2. kernel' \in Counters /\ jiffies' \in Nat
  <2>1. Counted(kernel') /\ jiffies' \in 0 .. MaxJiffies
      BY <1>1 DEF CpuInv, Counted
  <2>2. PICK b \in Nat, i \in Nat, w \in Nat :
           kernel' = [read |-> TRUE, busy |-> b, idle |-> i, iowait |-> w]
      BY <2>1, Zenon DEF Counted
  <2>3. kernel' \in Counters
      BY <2>2 DEF Counters
  <2> QED
      BY <2>1, <2>3, CpuAssumption
<1>3. slowReads' \in 0 .. MaxReads
  <2>1. slowReads' = slowReads \/ (slowReads < MaxReads /\ slowReads' = slowReads + 1)
      BY DEF CpuNext, Jiffy, CorrectIowait, EverySecond, EveryMinute, cpuVars
  <2> QED
      BY <2>1, CpuAssumption DEF CpuTypeOK
<1>4. /\ peakStats' \in {peakStats, kernel} /\ utilStats' \in {utilStats, kernel}
      /\ peak' \in {peak, Updated(peak, peakStats, kernel)}
      /\ utilization' \in {utilization, Updated(utilization, utilStats, kernel)}
    BY DEF CpuNext, Jiffy, CorrectIowait, EverySecond, EveryMinute, CpuStats, cpuVars
<1>5. peakStats' \in Counters \cup {None} /\ utilStats' \in Counters \cup {None}
    BY <1>4 DEF CpuTypeOK
<1>6. /\ Updated(peak, peakStats, kernel) \in Percentages \cup {Unset}
      /\ Updated(utilization, utilStats, kernel) \in Percentages \cup {Unset}
    BY UpdatedTyped DEF CpuTypeOK, CpuInv, TimesTyped
<1>7. peak' \in Percentages \cup {Unset} /\ utilization' \in Percentages \cup {Unset}
    BY <1>4, <1>6 DEF CpuTypeOK
<1> QED
    BY <1>1, <1>2, <1>3, <1>5, <1>7 DEF CpuTypeOK, TimesTyped

\* Every variable has its type, and the total of a percentage is not 0.
LEMMA CpuTypes == CpuSpec => []CpuTypeOK
<1>1. CpuInit => CpuInv /\ CpuTypeOK
    BY CpuInvInit, CpuTypesInit
<1>2. CpuInv /\ CpuTypeOK /\ [CpuNext]_cpuVars => CpuInv' /\ CpuTypeOK'
    BY CpuInvStep, CpuTypesStep
<1> QED
    BY <1>1, <1>2, PTL DEF CpuSpec

-----------------------------------------------------------------------------
(* ProcessCount: at every point of a walk each process that lasts is either *)
(* ahead or counted, each task that lasts undisturbed is in a process that  *)
(* is ahead or open, or is counted, and what is counted lived in the walk.  *)

ProcessTyped ==
    /\ alive \subseteq Tasks /\ lived \subseteq Tasks /\ atStart \subseteq Tasks
    /\ given \subseteq Tasks /\ entries \subseteq Pids /\ handed \subseteq Pids
    /\ position \in 0 .. MaxPid /\ dir \in Pids \cup {NoDir}
    /\ forks \in 0 .. MaxForks /\ walk \in {"none", "on", "done"}

OnceEach ==
    /\ entries \cap handed = {}
    /\ \A p \in entries \cup handed : p <= position
    /\ entries \cup handed \subseteq Processes(lived)
    /\ pids = Cardinality(handed)
    /\ tasks = Cardinality(given)

NoneMissed ==
    /\ \A t \in Lasting : Process(t) <= position => Process(t) \in entries \cup handed
    /\ \A t \in Undisturbed : Process(t) \in handed /\ Process(t) # dir => t \in given
    /\ walk = "done" => dir = NoDir /\ entries = {} /\ Processes(Lasting) \subseteq handed

ProcessInv ==
    /\ ProcessTyped
    /\ alive \subseteq lived /\ atStart \subseteq lived /\ given \subseteq lived
    /\ OnceEach
    /\ NoneMissed

LEMMA PidsInt == \A p \in Pids : p \in Nat /\ p # NoDir
    BY ProcessAssumption DEF Pids, NoDir, ProcessAssumption

LEMMA TaskProcess == \A t \in Tasks : Process(t) \in Pids
    BY DEF Tasks, Process

LEMMA PidsFinite == \A S : S \subseteq Pids => IsFiniteSet(S) /\ Cardinality(S) \in 0 .. MaxPid
<1>1. IsFiniteSet(Pids) /\ Cardinality(Pids) = MaxPid /\ MaxPid \in Nat
    BY ProcessAssumption, FS_Interval DEF Pids, ProcessAssumption
<1> QED
    BY <1>1, FS_Subset, FS_CardinalityType

LEMMA TasksFinite ==
    \A S : S \subseteq Tasks => IsFiniteSet(S) /\ Cardinality(S) \in 0 .. MaxPid * MaxTasks
<1> DEFINE bound == MaxPid * MaxTasks
<1>1. ASSUME NEW n \in Nat
      PROVE  IsFiniteSet(1 .. n) /\ Cardinality(1 .. n) = n
    BY FS_Interval
<1>2. /\ IsFiniteSet(Pids) /\ IsFiniteSet(1 .. MaxTasks)
      /\ Cardinality(Pids) = MaxPid /\ Cardinality(1 .. MaxTasks) = MaxTasks
    BY <1>1, ProcessAssumption DEF Pids
<1>3. IsFiniteSet(Tasks) /\ Cardinality(Tasks) = bound
    BY <1>2, FS_Product, Zenon DEF Tasks
<1> HIDE DEF bound
<1>4. ASSUME NEW S, S \subseteq Tasks
      PROVE  IsFiniteSet(S) /\ Cardinality(S) \in 0 .. bound
    BY <1>3, <1>4, FS_Subset, FS_CardinalityType
<1> QED
    BY <1>4 DEF bound

LEMMA ProcessInvInit == ProcessInit => ProcessInv
<1> SUFFICES ASSUME ProcessInit PROVE ProcessInv
    OBVIOUS
<1>1. /\ alive \subseteq Tasks /\ lived = alive /\ atStart = alive /\ given = {}
      /\ position = 0 /\ entries = {} /\ handed = {} /\ dir = NoDir
      /\ pids = 0 /\ tasks = 0 /\ walk = "none" /\ forks = 0
    BY DEF ProcessInit
<1>2. ProcessTyped
    BY <1>1, ProcessAssumption DEF ProcessTyped, ProcessAssumption
<1>3. OnceEach
    BY <1>1, FS_EmptySet DEF OnceEach
<1>4. \A t \in Lasting : ~(Process(t) <= position)
    BY <1>1, TaskProcess DEF Lasting, Pids
<1> QED
    BY <1>1, <1>2, <1>3, <1>4 DEF ProcessInv, NoneMissed

\* A task that lasts through a step of the kernel lasted before it.
LEMMA LastedBefore ==
    ASSUME ProcessInv,
           UNCHANGED <<position, entries, handed, given, atStart, pids, tasks>>, walk = "on", walk' = walk,
           \/ \E t \in Tasks :
                 /\ t \notin lived
                 /\ alive' = alive \cup {t} /\ lived' = lived \cup {t}
           \/ /\ alive' \subseteq alive
              /\ lived' = lived,
           dir' = dir \/ (dir' = NoDir /\ TasksOf(dir, alive') = {}),
           forks < MaxForks, forks' = forks + 1
    PROVE  ProcessInv'
<1>1. /\ alive' \subseteq Tasks /\ lived' \subseteq Tasks /\ lived \subseteq lived'
      /\ alive' \subseteq lived'
    BY DEF ProcessInv, ProcessTyped
<1>2. ProcessTyped'
    BY <1>1, ProcessAssumption DEF ProcessInv, ProcessTyped, ProcessAssumption, Pids, NoDir, Tasks
<1>3. Processes(lived) \subseteq Processes(lived')
    BY <1>1 DEF Processes
<1>4. OnceEach'
    BY <1>3 DEF ProcessInv, OnceEach, Processes
<1>5. Lasting' \subseteq Lasting
    BY DEF Lasting, ProcessInv
<1>6. Undisturbed' \subseteq Undisturbed
  <2> SUFFICES ASSUME NEW t \in Undisturbed'
               PROVE  t \in Undisturbed
      OBVIOUS
  <2>1. t \in Lasting' /\ \A u \in lived' : Process(u) = Process(t) => u \in alive'
      BY DEF Undisturbed, TasksOf, Process
  <2>2. \A u \in lived : Process(u) = Process(t) => u \in alive
      BY <1>1, <2>1
  <2> QED
      BY <1>5, <2>1, <2>2 DEF Undisturbed, TasksOf
<1>7. ASSUME NEW t \in Undisturbed'
      PROVE  Process(t) # dir \/ dir' = dir
  <2>1. t \in alive'
      BY DEF Undisturbed, Lasting
  <2> QED
      BY <2>1 DEF TasksOf
<1>8. NoneMissed'
    BY <1>5, <1>6, <1>7 DEF ProcessInv, NoneMissed, Process
<1> QED
    BY <1>1, <1>2, <1>4, <1>8 DEF ProcessInv

LEMMA KernelStep ==
    ASSUME ProcessInv,
           \/ \E t \in Tasks : StartTask(t) \/ EndTask(t)
           \/ \E p \in Pids : EndProcess(p)
    PROVE  ProcessInv'
<1>1. CASE \E t \in Tasks : StartTask(t)
  <2>1. \E t \in Tasks : t \notin lived /\ alive' = alive \cup {t} /\ lived' = lived \cup {t}
      BY <1>1 DEF StartTask
  <2>2. /\ UNCHANGED <<position, entries, handed, given, atStart, pids, tasks, dir>>
        /\ walk = "on" /\ walk' = walk /\ forks < MaxForks /\ forks' = forks + 1
      BY <1>1 DEF StartTask, Fork
  <2> QED
      BY <2>1, <2>2, LastedBefore, Zenon
<1>2. ASSUME NEW S, EndTasks(S)
      PROVE  ProcessInv'
  <2>1. dir' = dir \/ (dir' = NoDir /\ TasksOf(dir, alive') = {})
    <3>1. /\ alive' = alive \ S
          /\ dir' = IF TasksOf(dir, alive \ S) = {} THEN NoDir ELSE dir
        BY <1>2 DEF EndTasks
    <3> QED
        BY <3>1, Zenon
  <2> QED
      BY <1>2, <2>1, LastedBefore DEF EndTasks, Fork
<1> QED
    BY <1>1, <1>2 DEF EndTask, EndProcess

LEMMA OpenProcStep == ProcessInv /\ OpenProc => ProcessInv'
<1> SUFFICES ASSUME ProcessInv, OpenProc PROVE ProcessInv'
    OBVIOUS
<1>1. /\ lived' = alive /\ atStart' = alive /\ alive' = alive /\ given' = {} /\ dir' = dir
      /\ position' = 0 /\ entries' = {} /\ handed' = {}
      /\ pids' = 0 /\ tasks' = 0 /\ walk' = "on" /\ forks' = 0
    BY DEF OpenProc
<1>2. ProcessTyped'
    BY <1>1, ProcessAssumption DEF ProcessInv, ProcessTyped, ProcessAssumption, Tasks, Pids, NoDir
<1>3. OnceEach'
    BY <1>1, FS_EmptySet DEF OnceEach
<1>4. \A t \in Lasting' : ~(Process(t) <= position')
    BY <1>1, TaskProcess DEF Lasting, Pids, ProcessInv, ProcessTyped
<1>5. NoneMissed'
    BY <1>1, <1>4 DEF NoneMissed, Process
<1> QED
    BY <1>1, <1>2, <1>3, <1>5 DEF ProcessInv

LEMMA ReadEntriesStep == ProcessInv /\ ReadEntries => ProcessInv'
<1> SUFFICES ASSUME ProcessInv, ReadEntries PROVE ProcessInv'
    OBVIOUS
<1> DEFINE ahead == {p \in Processes(alive) : p > position}
<1>1. /\ walk = "on" /\ dir = NoDir /\ entries = {}
      /\ UNCHANGED <<alive, lived, atStart, forks, handed, dir, given, pids, tasks>>
    BY DEF ReadEntries
<1>2. Lasting' = Lasting /\ Undisturbed' = Undisturbed
    BY <1>1 DEF Lasting, Undisturbed, TasksOf, Process
<1>3. /\ Processes(alive) \subseteq Pids /\ Processes(alive) \subseteq Processes(lived)
      /\ Processes(lived') = Processes(lived)
      /\ \A t \in Lasting : Process(t) \in Processes(alive) /\ Process(t) \in Pids
    BY <1>1, TaskProcess DEF ProcessInv, ProcessTyped, Processes, Lasting, Process
<1>4. CASE ahead = {} /\ walk' = "done" /\ UNCHANGED <<position, entries>>
  <2>1. \A t \in Lasting : Process(t) <= position
      BY <1>3, <1>4, PidsInt DEF ProcessInv, ProcessTyped
  <2>2. Processes(Lasting) \subseteq handed
      BY <1>1, <2>1 DEF ProcessInv, NoneMissed, Processes
  <2>3. NoneMissed'
      BY <1>1, <1>2, <1>4, <2>2 DEF ProcessInv, NoneMissed, Process, Processes
  <2>4. OnceEach'
      BY <1>1, <1>3, <1>4 DEF ProcessInv, OnceEach
  <2> QED
      BY <1>1, <1>4, <2>3, <2>4 DEF ProcessInv, ProcessTyped, Tasks, Pids, NoDir
<1>5. ASSUME NEW last \in ahead, position' = last, entries' = {p \in ahead : p <= last}, walk' = walk
      PROVE  ProcessInv'
  <2>1. /\ last \in Pids /\ last \in Nat /\ last \in 0 .. MaxPid /\ last > position
        /\ position \in Nat
        /\ entries' \subseteq Pids /\ entries' \subseteq Processes(lived)
      BY <1>3, <1>5, ProcessAssumption DEF ProcessInv, ProcessTyped, Pids
  <2>2. \A p \in entries' : p > position /\ p <= position'
      BY <1>5
  <2>3. \A p \in handed : p <= position /\ p <= position' /\ p \in Pids
    <3> SUFFICES ASSUME NEW p \in handed
                 PROVE  p <= position /\ p <= position' /\ p \in Pids
        OBVIOUS
    <3>1. p <= position /\ p \in Pids
        BY DEF ProcessInv, OnceEach, ProcessTyped
    <3>2. p \in Nat
        BY <3>1, PidsInt
    <3> HIDE DEF ahead
    <3> QED
        BY <1>5, <2>1, <3>1, <3>2
  <2>4. entries' \cap handed = {}
    <3> SUFFICES ASSUME NEW p \in entries', p \in handed PROVE FALSE
        OBVIOUS
    <3>1. p \in Nat
        BY <2>3, PidsInt
    <3> HIDE DEF ahead
    <3> QED
        BY <2>1, <2>2, <2>3, <3>1
  <2>5. OnceEach'
      BY <1>1, <1>3, <2>1, <2>2, <2>3, <2>4 DEF ProcessInv, OnceEach
  <2>6. \A t \in Lasting : Process(t) <= position' => Process(t) \in entries' \cup handed
    <3> SUFFICES ASSUME NEW t \in Lasting, Process(t) <= position'
                 PROVE  Process(t) \in entries' \cup handed
        OBVIOUS
    <3>1. CASE Process(t) <= position
        BY <1>1, <3>1 DEF ProcessInv, NoneMissed
    <3>2. CASE ~(Process(t) <= position)
      <4>1. Process(t) > position
        <5>1. Process(t) \in Nat
            BY <1>3, PidsInt
        <5> HIDE DEF ahead
        <5> QED
            BY <2>1, <3>2, <5>1
      <4> QED
          BY <1>3, <1>5, <4>1
    <3> QED
        BY <3>1, <3>2
  <2>7. NoneMissed'
      BY <1>1, <1>2, <1>5, <2>6 DEF ProcessInv, NoneMissed, Process
  <2>8. ProcessTyped'
      BY <1>1, <1>5, <2>1 DEF ProcessInv, ProcessTyped, Tasks, Pids, NoDir
  <2> QED
      BY <1>1, <2>5, <2>7, <2>8 DEF ProcessInv
<1> QED
    BY <1>4, <1>5 DEF ReadEntries

LEMMA OpenEntryStep == ProcessInv /\ OpenEntry => ProcessInv'
<1> SUFFICES ASSUME ProcessInv, OpenEntry PROVE ProcessInv'
    OBVIOUS
<1>1. PICK p : /\ p = Min(entries)
               /\ entries # {} /\ entries' = entries \ {p} /\ handed' = handed \cup {p}
               /\ pids' = pids + 1 /\ dir = NoDir
               /\ dir' = IF TasksOf(p, alive) = {} THEN NoDir ELSE p
               /\ UNCHANGED <<alive, lived, atStart, forks, walk, position, given, tasks>>
    BY DEF OpenEntry
<1>2. p \in entries /\ p \in Pids
  <2>1. entries \in SUBSET Int /\ IsFiniteSet(entries) /\ entries \subseteq Pids
    <3>1. entries \subseteq Pids
        BY DEF ProcessInv, ProcessTyped
    <3> QED
        BY <3>1, PidsInt, PidsFinite
  <2>2. \E q \in entries : \A r \in entries : q <= r
      BY <1>1, <2>1, HasSmallest
  <2> QED
      BY <1>1, <2>1, <2>2 DEF Min
<1>3. ProcessTyped'
    BY <1>1, <1>2 DEF ProcessInv, ProcessTyped, Tasks, Pids, NoDir
<1>4. p \notin handed /\ Cardinality(handed') = Cardinality(handed) + 1
  <2>1. p \notin handed
      BY <1>2 DEF ProcessInv, OnceEach
  <2>2. IsFiniteSet(handed)
      BY PidsFinite DEF ProcessInv, ProcessTyped
  <2> QED
      BY <1>1, <2>1, <2>2, FS_AddElement
<1>5. OnceEach'
    BY <1>1, <1>2, <1>4 DEF ProcessInv, OnceEach, Processes, Process
<1>6. Lasting' = Lasting /\ Undisturbed' = Undisturbed /\ Lasting \subseteq alive
    BY <1>1 DEF Lasting, Undisturbed, TasksOf, Process
<1>7. entries' \cup handed' = entries \cup handed
    BY <1>1, <1>2
<1>8. ASSUME NEW t \in Undisturbed, Process(t) \in handed', Process(t) # dir'
      PROVE  t \in given
  <2>1. t \in alive
      BY <1>6 DEF Undisturbed
  <2>2. Process(t) # p
      BY <1>1, <1>8, <2>1 DEF TasksOf
  <2>3. Process(t) \in Pids
      BY <2>1, TaskProcess DEF ProcessInv, ProcessTyped
  <2> QED
      BY <1>1, <1>8, <2>2, <2>3, PidsInt DEF ProcessInv, NoneMissed
<1>9. walk # "done"
    BY <1>1 DEF ProcessInv, NoneMissed
<1>10. NoneMissed'
    BY <1>1, <1>6, <1>7, <1>8, <1>9 DEF ProcessInv, NoneMissed, Process
<1> QED
    BY <1>1, <1>3, <1>5, <1>10 DEF ProcessInv

LEMMA ReadTasksStep == ProcessInv /\ ReadTasks => ProcessInv'
<1> SUFFICES ASSUME ProcessInv, ReadTasks PROVE ProcessInv'
    OBVIOUS
<1>1. PICK some : /\ some \subseteq alive /\ some \cap given = {}
                  /\ given' = given \cup some /\ tasks' = tasks + Cardinality(some)
    BY DEF ReadTasks, TasksOf
<1>2. UNCHANGED <<alive, lived, atStart, forks, walk, position, entries, handed, dir, pids>>
    BY DEF ReadTasks
<1>3. some \subseteq Tasks /\ given \subseteq Tasks
    BY <1>1 DEF ProcessInv, ProcessTyped
<1>4. Cardinality(given') = Cardinality(given) + Cardinality(some)
  <2>1. IsFiniteSet(given) /\ IsFiniteSet(some) /\ Cardinality(given) \in Nat /\ Cardinality(some) \in Nat
      BY <1>3, TasksFinite, FS_CardinalityType
  <2>2. given \cap some = {} /\ Cardinality({}) = 0
      BY <1>1, FS_EmptySet
  <2>3. Cardinality(given \cup some) =
           Cardinality(given) + Cardinality(some) - Cardinality(given \cap some)
      BY <2>1, FS_Union
  <2> QED
      BY <1>1, <2>1, <2>2, <2>3
<1>5. OnceEach'
    BY <1>1, <1>2, <1>4 DEF ProcessInv, OnceEach, Processes, Process
<1>6. Lasting' = Lasting /\ Undisturbed' = Undisturbed
    BY <1>2 DEF Lasting, Undisturbed, TasksOf, Process
<1>7. NoneMissed'
    BY <1>1, <1>2, <1>6 DEF ProcessInv, NoneMissed, Process, Processes
<1> QED
    BY <1>1, <1>2, <1>3, <1>5, <1>7 DEF ProcessInv, ProcessTyped, Tasks, Pids, NoDir

LEMMA LastTaskStep == ProcessInv /\ LastTask => ProcessInv'
<1> SUFFICES ASSUME ProcessInv, LastTask PROVE ProcessInv'
    OBVIOUS
<1>1. /\ dir # NoDir /\ dir' = NoDir
      /\ TasksOf(dir, alive) \subseteq given \/ TasksOf(dir, lived \ alive) # {}
      /\ UNCHANGED <<alive, lived, atStart, forks, walk, position, entries, handed, given, pids, tasks>>
    BY DEF LastTask
<1>2. Lasting' = Lasting /\ Undisturbed' = Undisturbed
    BY <1>1 DEF Lasting, Undisturbed, TasksOf, Process
<1>3. ASSUME NEW t \in Undisturbed, Process(t) = dir
      PROVE  t \in given
  <2>1. t \in alive /\ TasksOf(dir, lived) \subseteq alive
      BY <1>3 DEF Undisturbed, Lasting
  <2> QED
      BY <1>1, <1>3, <2>1 DEF TasksOf
<1>4. NoneMissed'
    BY <1>1, <1>2, <1>3 DEF ProcessInv, NoneMissed, Process, Processes
<1>5. OnceEach'
    BY <1>1 DEF ProcessInv, OnceEach, Processes, Process
<1> QED
    BY <1>1, <1>4, <1>5 DEF ProcessInv, ProcessTyped, Tasks, Pids, NoDir

LEMMA ProcessInvStep == ProcessInv /\ [ProcessNext]_processVars => ProcessInv'
<1> SUFFICES ASSUME ProcessInv, [ProcessNext]_processVars PROVE ProcessInv'
    OBVIOUS
<1>1. CASE UNCHANGED processVars
    BY <1>1 DEF processVars, ProcessInv, ProcessTyped, OnceEach, NoneMissed, Lasting, Undisturbed,
                TasksOf, Processes, Process, Tasks, Pids, NoDir
<1>2. CASE ProcessNext
    BY <1>2, KernelStep, OpenProcStep, ReadEntriesStep, OpenEntryStep, ReadTasksStep, LastTaskStep
       DEF ProcessNext
<1> QED
    BY <1>1, <1>2

LEMMA DoneCounts == ProcessInv => ProcessesCounted
<1> SUFFICES ASSUME ProcessInv, walk = "done" PROVE ProcessesCounted
    BY DEF ProcessesCounted
<1>1. /\ Processes(Lasting) \subseteq handed /\ handed \subseteq Processes(lived)
      /\ handed \subseteq Pids /\ Processes(lived) \subseteq Pids
    BY TaskProcess DEF ProcessInv, ProcessTyped, NoneMissed, OnceEach, Processes
<1>2. /\ Cardinality(Processes(Lasting)) <= Cardinality(handed)
      /\ Cardinality(handed) <= Cardinality(Processes(lived))
    BY <1>1, PidsFinite, FS_Subset
<1>3. Undisturbed \subseteq given
  <2> SUFFICES ASSUME NEW t \in Undisturbed PROVE t \in given
      OBVIOUS
  <2>1. t \in Lasting /\ Process(t) \in Processes(Lasting)
      BY DEF Undisturbed, Processes
  <2>2. Process(t) \in Pids
      BY <2>1, TaskProcess DEF Lasting, ProcessInv, ProcessTyped
  <2> QED
      BY <1>1, <2>1, <2>2, PidsInt DEF ProcessInv, NoneMissed
<1>4. given \subseteq lived /\ lived \subseteq Tasks
    BY DEF ProcessInv, ProcessTyped
<1>5. IsFiniteSet(given) /\ IsFiniteSet(lived)
    BY <1>4, TasksFinite
<1>6. Cardinality(Undisturbed) <= Cardinality(given) /\ Cardinality(given) <= Cardinality(lived)
    BY <1>3, <1>4, <1>5, FS_Subset
<1> QED
    BY <1>2, <1>6 DEF ProcessesCounted, ProcessInv, OnceEach

\* Proc::process_stats: processes and tasks that last are counted, and nothing
\* is counted twice or that did not live in the walk (proc.cpp:1012-1058).
THEOREM WalkCounts == ProcessSpec => []ProcessesCounted
    BY ProcessInvInit, ProcessInvStep, DoneCounts, PTL DEF ProcessSpec

\* What a walk counts is within what there can be.
LEMMA ProcessTypes == ProcessSpec => []ProcessTypeOK
<1>1. ASSUME ProcessInv PROVE ProcessTypeOK
  <2>1. pids \in 0 .. MaxPid /\ tasks \in 0 .. MaxPid * MaxTasks
      BY <1>1, PidsFinite, TasksFinite DEF ProcessInv, ProcessTyped, OnceEach
  <2> QED
      BY <1>1, <2>1 DEF ProcessInv, ProcessTyped, ProcessTypeOK
<1> QED
    BY <1>1, ProcessInvInit, ProcessInvStep, PTL DEF ProcessSpec

-----------------------------------------------------------------------------
(* PerfMetrics: of a CPU that is open and was not opened over a previous   *)
(* value, the last reading is what its descriptor and that value add up to.*)

ReadingKept(r, c) ==
    r.fds[c] # Closed =>
       /\ r.fds[c] <= events[c] /\ r.origin[c] <= events[c]
       /\ ~r.reopened[c] => r.origin[c] = r.fds[c] + r.prevVals[c]

CountersKept(r) == \A k \in Kinds : r[k] \in PerfCounter /\ \A c \in Cpus : ReadingKept(r[k], c)

PerfInv ==
    /\ events \in [Cpus -> 0 .. MaxEvents]
    /\ CountersKept(counters)
    /\ DeltasExact

LEMMA ClosedKept ==
    ASSUME NEW r,
           r = [k \in Kinds |->
                  [fds |-> [c \in Cpus |-> Closed], prevVals |-> [c \in Cpus |-> 0],
                   origin |-> [c \in Cpus |-> 0], reopened |-> [c \in Cpus |-> FALSE]]]
    PROVE  CountersKept(r)
    BY DEF CountersKept, ReadingKept, PerfCounter

LEMMA PerfInvInit == PerfInit => PerfInv
<1> SUFFICES ASSUME PerfInit PROVE PerfInv
    OBVIOUS
<1>1. CountersKept(counters)
    BY ClosedKept DEF PerfInit
<1>2. DeltasExact
    BY DEF PerfInit, DeltasExact, Empty
<1>3. events \in [Cpus -> 0 .. MaxEvents]
    BY PerfAssumption DEF PerfInit
<1> QED
    BY <1>1, <1>2, <1>3 DEF PerfInv

\* A counter that is opened has counted nothing since.
LEMMA OpenEventsKept ==
    ASSUME PerfInv, NEW r \in PerfCounter, NEW opened, NEW refused \in BOOLEAN
    PROVE  /\ OpenEvents(r, opened, refused) \in PerfCounter
           /\ \A c \in Cpus : ReadingKept(OpenEvents(r, opened, refused), c)
<1> DEFINE kept == [c \in Cpus |-> IF refused \/ \E n \in online : c <= n
                                   THEN r.prevVals[c] ELSE 0]
           o == OpenEvents(r, opened, refused)
<1>1. /\ o.fds = [c \in Cpus |-> IF c \in opened THEN events[c] ELSE Closed]
      /\ o.prevVals = kept
      /\ o.origin = [c \in Cpus |-> events[c]]
      /\ o.reopened = [c \in Cpus |-> kept[c] # 0]
      /\ o = [fds |-> o.fds, prevVals |-> o.prevVals, origin |-> o.origin, reopened |-> o.reopened]
    BY DEF OpenEvents
<1>2. kept \in [Cpus -> Nat]
    BY DEF PerfCounter
<1> HIDE DEF kept, o
<1>3. \A c \in Cpus : events[c] \in Nat
    BY PerfAssumption DEF PerfInv
<1>4. /\ o.fds \in [Cpus -> Nat \cup {Closed}] /\ o.origin \in [Cpus -> Nat]
      /\ o.reopened \in [Cpus -> BOOLEAN]
    BY <1>1, <1>3
<1>5. o \in PerfCounter
    BY <1>1, <1>2, <1>4 DEF PerfCounter
<1>6. ASSUME NEW c \in Cpus, o.fds[c] # Closed
      PROVE  o.fds[c] = events[c] /\ o.origin[c] = events[c]
    BY <1>1, <1>6
<1>7. ASSUME NEW c \in Cpus, ~o.reopened[c] PROVE o.prevVals[c] = 0
    BY <1>1, <1>7
<1>8. \A c \in Cpus : ReadingKept(o, c)
    BY <1>3, <1>6, <1>7 DEF ReadingKept
<1> QED
    BY <1>5, <1>8 DEF o

LEMMA OpenIfNeededKept ==
    ASSUME PerfInv, NEW r, CountersKept(r), OpenIfNeeded(r), events' = events
    PROVE  CountersKept(counters)'
<1>1. CASE online = onlineCpus
    BY <1>1 DEF OpenIfNeeded, CountersKept, ReadingKept
<1>2. CASE online # onlineCpus
  <2>1. PICK refused \in SUBSET Kinds, other \in Kinds, unopened \in SUBSET online :
          LET first == "instructions" \in refused
              opened == [k \in Kinds |-> IF k \in refused THEN {}
                                         ELSE IF k = other THEN online \ unopened
                                         ELSE online]
          IN  counters' = [k \in Kinds |->
                    IF first /\ k # "instructions" THEN r[k]
                    ELSE OpenEvents(r[k], opened[k], k \in refused)]
      BY <1>2 DEF OpenIfNeeded
  <2> DEFINE opened == [k \in Kinds |-> IF k \in refused THEN {}
                                        ELSE IF k = other THEN online \ unopened
                                        ELSE online]
  <2>2. ASSUME NEW k \in Kinds
        PROVE  counters'[k] = r[k] \/ counters'[k] = OpenEvents(r[k], opened[k], k \in refused)
      BY <2>1
  <2> HIDE DEF opened
  <2>3. ASSUME NEW k \in Kinds
        PROVE  counters'[k] \in PerfCounter /\ \A c \in Cpus : ReadingKept(counters'[k], c)
    <3>1. r[k] \in PerfCounter /\ \A c \in Cpus : ReadingKept(r[k], c)
        BY DEF CountersKept
    <3>2. (k \in refused) \in BOOLEAN
        OBVIOUS
    <3> QED
        BY <2>2, <3>1, <3>2, OpenEventsKept
  <2> QED
      BY <2>3 DEF CountersKept, ReadingKept
<1> QED
    BY <1>1, <1>2

\* A reading leaves itself as the previous value.
LEMMA SampledKept ==
    ASSUME PerfInv, NEW r \in PerfCounter, \A c \in Cpus : ReadingKept(r, c)
    PROVE  Sampled(r) \in PerfCounter /\ \A c \in Cpus : ReadingKept(Sampled(r), c)
<1> DEFINE s == Sampled(r)
<1>1. s = [fds |-> r.fds, prevVals |-> [c \in Cpus |-> NewVal(r, c)], origin |-> events,
           reopened |-> [c \in Cpus |-> FALSE]]
  <2> DEFINE p == [c \in Cpus |-> NewVal(r, c)]
             n == [c \in Cpus |-> FALSE]
  <2>1. s = [r EXCEPT !.prevVals = p, !.origin = events, !.reopened = n]
      BY DEF Sampled
  <2> HIDE DEF s, p, n
  <2>2. r = [fds |-> r.fds, prevVals |-> r.prevVals, origin |-> r.origin, reopened |-> r.reopened]
      BY DEF PerfCounter
  <2>3. s = [fds |-> r.fds, prevVals |-> p, origin |-> events, reopened |-> n]
      BY <2>1, <2>2
  <2> QED
      BY <2>3 DEF p, n
<1> HIDE DEF s
<1>2. events \in [Cpus -> Nat]
    BY PerfAssumption DEF PerfInv
<1>3. ASSUME NEW c \in Cpus
      PROVE  /\ NewVal(r, c) \in Nat
             /\ r.fds[c] # Closed => NewVal(r, c) = events[c] - r.fds[c] /\ r.fds[c] <= events[c]
  <2>1. r.fds[c] \in Nat \cup {Closed} /\ events[c] \in Nat
      BY <1>2 DEF PerfCounter
  <2> QED
      BY <2>1 DEF NewVal, ReadingKept
<1>4. s \in PerfCounter
  <2>1. r.fds \in [Cpus -> Nat \cup {Closed}]
      BY DEF PerfCounter
  <2>2. [c \in Cpus |-> NewVal(r, c)] \in [Cpus -> Nat]
      BY <1>3
  <2>3. [c \in Cpus |-> FALSE] \in [Cpus -> BOOLEAN]
      OBVIOUS
  <2> QED
      BY <1>1, <1>2, <2>1, <2>2, <2>3 DEF PerfCounter
<1>5. ASSUME NEW c \in Cpus, s.fds[c] # Closed
      PROVE  /\ s.fds[c] <= events[c] /\ s.origin[c] <= events[c]
             /\ s.origin[c] = s.fds[c] + s.prevVals[c]
  <2>1. r.fds[c] \in Nat /\ events[c] \in Nat
      BY <1>1, <1>2, <1>5 DEF PerfCounter
  <2>2. s.prevVals[c] = events[c] - r.fds[c] /\ r.fds[c] <= events[c]
      BY <1>1, <1>3, <1>5
  <2> QED
      BY <2>1, <2>2, <1>1
<1>6. \A c \in Cpus : ReadingKept(s, c)
    BY <1>5 DEF ReadingKept
<1> QED
    BY <1>4, <1>6 DEF s

\* A delta does not wrap around when the previous value is of the same descriptor.
LEMMA DeltaExact ==
    ASSUME PerfInv, NEW r \in PerfCounter, NEW c \in Cpus, ReadingKept(r, c),
           ReadDelta(r, c).open, ~ReadDelta(r, c).reopened
    PROVE  ReadDelta(r, c).value = ReadDelta(r, c).counted
<1>1. r.fds[c] # Closed
    BY DEF ReadDelta
<1>2. /\ ReadDelta(r, c).value = (NewVal(r, c) - r.prevVals[c]) % 2 ^ PerfWidth
      /\ ReadDelta(r, c).counted = events[c] - r.origin[c]
      /\ ReadDelta(r, c).reopened = r.reopened[c]
    BY <1>1 DEF ReadDelta
<1>3. ~r.reopened[c]
    BY <1>2
<1>4. /\ events[c] \in 0 .. MaxEvents /\ r.fds[c] \in Nat /\ r.prevVals[c] \in Nat
      /\ r.origin[c] \in Nat
    BY <1>1 DEF PerfInv, PerfCounter
<1>5. NewVal(r, c) - r.prevVals[c] = events[c] - r.origin[c] /\ r.origin[c] <= events[c]
    BY <1>1, <1>3, <1>4 DEF NewVal, ReadingKept
<1> DEFINE M == 2 ^ PerfWidth
           x == events[c] - r.origin[c]
<1>6. M \in Nat /\ x \in Nat /\ x < M
    BY <1>4, <1>5, PerfAssumption
<1>7. x % M = x
  <2> HIDE DEF M, x
  <2> QED
      BY <1>6
<1> QED
    BY <1>2, <1>5, <1>7

LEMMA CollectStep == PerfInv /\ Collect => PerfInv'
<1> SUFFICES ASSUME PerfInv, Collect PROVE PerfInv'
    OBVIOUS
<1>1. events' = events
    BY DEF Collect
<1>2. PICK failed \in SUBSET Kinds :
        LET after == [k \in Kinds |-> IF k \in failed THEN ReadFailed(counters[k])
                                      ELSE Sampled(counters[k])]
        IN  /\ deltas' = [k \in Kinds |->
                   IF k \in failed THEN Empty
                   ELSE [c \in Cpus |-> ReadDelta(counters[k], c)]]
            /\ OpenIfNeeded(after) \/ counters' = after
    BY DEF Collect
<1> DEFINE after == [k \in Kinds |-> IF k \in failed THEN ReadFailed(counters[k])
                                     ELSE Sampled(counters[k])]
<1>3. CountersKept(after)
  <2>1. ASSUME NEW k \in Kinds
        PROVE  after[k] \in PerfCounter /\ \A c \in Cpus : ReadingKept(after[k], c)
    <3>1. counters[k] \in PerfCounter /\ \A c \in Cpus : ReadingKept(counters[k], c)
        BY DEF PerfInv, CountersKept
    <3>2. after[k] = counters[k] \/ after[k] = Sampled(counters[k])
        BY DEF ReadFailed
    <3> HIDE DEF after
    <3> QED
        BY <3>1, <3>2, SampledKept
  <2> HIDE DEF after
  <2> QED
      BY <2>1 DEF CountersKept
<1>4. OpenIfNeeded(after) \/ counters' = after
    BY <1>2
<1> HIDE DEF after
<1>5. CountersKept(counters)'
  <2>1. CASE counters' = after
      BY <2>1, <1>1, <1>3 DEF CountersKept, ReadingKept
  <2> QED
      BY <2>1, <1>1, <1>3, <1>4, OpenIfNeededKept
<1>6. ASSUME NEW k \in Kinds, NEW c \in DOMAIN deltas'[k], deltas'[k][c].open, ~deltas'[k][c].reopened
      PROVE  deltas'[k][c].value = deltas'[k][c].counted
  <2>1. deltas' = [j \in Kinds |-> IF j \in failed THEN Empty
                                   ELSE [e \in Cpus |-> ReadDelta(counters[j], e)]]
      BY <1>2
  <2>2. k \notin failed /\ c \in Cpus /\ deltas'[k][c] = ReadDelta(counters[k], c)
      BY <2>1, <1>6 DEF Empty
  <2>3. counters[k] \in PerfCounter /\ ReadingKept(counters[k], c)
      BY <2>2 DEF PerfInv, CountersKept
  <2> QED
      BY <2>2, <2>3, <1>6, DeltaExact
<1>7. DeltasExact'
    BY <1>6 DEF DeltasExact
<1> QED
    BY <1>1, <1>5, <1>7 DEF PerfInv

LEMMA PerfInvStep == PerfInv /\ [PerfNext]_perfVars => PerfInv'
<1> SUFFICES ASSUME PerfInv, [PerfNext]_perfVars PROVE PerfInv'
    OBVIOUS
<1>1. ASSUME events' = events, counters' = counters, deltas' = deltas PROVE PerfInv'
    BY <1>1 DEF PerfInv, CountersKept, ReadingKept, DeltasExact
<1>2. CASE CountEvents
  <2>1. counters' = counters /\ deltas' = deltas
      BY <1>2 DEF CountEvents
  <2>2. /\ events' \in [Cpus -> 0 .. MaxEvents]
        /\ \A c \in Cpus : events[c] \in Nat /\ events'[c] \in Nat /\ events[c] <= events'[c]
    <3>1. PICK n \in online : events[n] < MaxEvents /\ events' = [events EXCEPT ![n] = @ + 1]
        BY <1>2 DEF CountEvents
    <3>2. MaxEvents \in Nat /\ \A c \in Cpus : events[c] \in 0 .. MaxEvents
        BY PerfAssumption DEF PerfInv
    <3>3. \A c \in Cpus : events'[c] = IF c = n THEN events[c] + 1 ELSE events[c]
        BY <3>1 DEF PerfInv
    <3>4. DOMAIN events' = Cpus /\ events' = [c \in DOMAIN events' |-> events'[c]]
        BY <3>1 DEF PerfInv
    <3>5. \A c \in Cpus : events'[c] \in 0 .. MaxEvents /\ events[c] <= events'[c]
        BY <3>1, <3>2, <3>3
    <3> QED
        BY <3>2, <3>4, <3>5
  <2>3. ASSUME NEW k \in Kinds, NEW c \in Cpus PROVE ReadingKept(counters[k], c)'
    <3>1. ReadingKept(counters[k], c) /\ counters[k] \in PerfCounter
        BY DEF PerfInv, CountersKept
    <3>2. counters[k].fds[c] # Closed => counters[k].fds[c] \in Nat
        BY <3>1 DEF PerfCounter
    <3>3. counters[k].origin[c] \in Nat
        BY <3>1 DEF PerfCounter
    <3> QED
        BY <3>1, <3>2, <3>3, <2>1, <2>2 DEF ReadingKept
  <2>4. DeltasExact'
      BY <2>1 DEF PerfInv, DeltasExact
  <2> QED
      BY <2>1, <2>2, <2>3, <2>4 DEF PerfInv, CountersKept
<1>3. CASE Hotplug
    BY <1>1, <1>3 DEF Hotplug
<1>4. CASE Construct
  <2>1. CountersKept(counters)' /\ events' = events /\ deltas' = deltas
      BY <1>4, OpenIfNeededKept DEF Construct, PerfInv
  <2> QED
      BY <2>1 DEF PerfInv, DeltasExact
<1>5. CASE Collect
    BY <1>5, CollectStep
<1>6. CASE RestartPerf
  <2>1. CountersKept(counters)
      BY DEF PerfInv
  <2>2. CountersKept(counters')
      BY <1>6, ClosedKept DEF RestartPerf
  <2>3. events' = events /\ DeltasExact'
      BY <1>6 DEF RestartPerf, DeltasExact, Empty
  <2> QED
      BY <2>2, <2>3 DEF PerfInv, CountersKept, ReadingKept
<1>7. CASE CollectDisabled \/ UNCHANGED perfVars
    BY <1>1, <1>7 DEF CollectDisabled, perfVars
<1> QED
    BY <1>2, <1>3, <1>4, <1>5, <1>6, <1>7 DEF PerfNext

\* perf_metrics.h:160-192: for any CPUs and width of the counters, the delta is of
\* exactly what was counted.
THEOREM PerfDeltasExact == PerfSpec => []DeltasExact
<1>1. PerfInv => DeltasExact
    BY DEF PerfInv
<1> QED
    BY <1>1, PerfInvInit, PerfInvStep, PTL DEF PerfSpec

LEMMA PerfTypesStep == PerfInv /\ PerfTypeOK /\ [PerfNext]_perfVars => PerfTypeOK'
<1> SUFFICES ASSUME PerfInv, PerfTypeOK, [PerfNext]_perfVars PROVE PerfTypeOK'
    OBVIOUS
<1>1. PerfInv'
    BY PerfInvStep
<1>2. events' \in [Cpus -> Nat]
  <2>1. events' \in [Cpus -> 0 .. MaxEvents] /\ MaxEvents \in Nat
      BY <1>1, PerfAssumption DEF PerfInv
  <2> QED
      BY <2>1
<1>3. \A k \in Kinds : counters'[k] \in PerfCounter
    BY <1>1 DEF PerfInv, CountersKept
<1>4. /\ events \in [Cpus -> Nat] /\ online \subseteq Cpus /\ onlineCpus \subseteq Cpus
      /\ hotplugs \in Nat /\ state \in {"new", "running", "disabled", "aborted"}
      /\ counters \in [Kinds -> PerfCounter] /\ DOMAIN deltas = Kinds
    BY DEF PerfTypeOK
<1>5. ASSUME NEW r, DOMAIN r = Kinds, r = [k \in Kinds |-> r[k]], OpenIfNeeded(r)
      PROVE  /\ counters' \in [Kinds -> PerfCounter]
             /\ onlineCpus' \subseteq Cpus /\ state' \in {"running", "disabled"}
  <2>1. onlineCpus' = online
      BY <1>5 DEF OpenIfNeeded
  <2>2. counters' = [k \in Kinds |-> counters'[k]] /\ state' \in {"running", "disabled"}
    <3>1. CASE online = onlineCpus
        BY <1>5, <3>1 DEF OpenIfNeeded
    <3>2. CASE online # onlineCpus
      <4>1. PICK refused \in SUBSET Kinds, other \in Kinds, unopened \in SUBSET online :
              LET first == "instructions" \in refused
                  opened == [k \in Kinds |-> IF k \in refused THEN {}
                                             ELSE IF k = other THEN online \ unopened
                                             ELSE online]
              IN  /\ state' = IF first THEN "disabled" ELSE "running"
                  /\ counters' = [k \in Kinds |->
                        IF first /\ k # "instructions" THEN r[k]
                        ELSE OpenEvents(r[k], opened[k], k \in refused)]
          BY <1>5, <3>2 DEF OpenIfNeeded
      <4>2. state' \in {"running", "disabled"}
          BY <4>1
      <4>3. \E f : counters' = [k \in Kinds |-> f[k]]
        <5> DEFINE f == [k \in Kinds |->
                        IF "instructions" \in refused /\ k # "instructions" THEN r[k]
                        ELSE OpenEvents(r[k], [j \in Kinds |-> IF j \in refused THEN {}
                                             ELSE IF j = other THEN online \ unopened
                                             ELSE online][k], k \in refused)]
        <5>1. counters' = f
            BY <4>1
        <5>2. f = [k \in Kinds |-> f[k]]
            OBVIOUS
        <5> QED
            BY <5>1, <5>2
      <4> QED
          BY <4>2, <4>3
    <3> QED
        BY <3>1, <3>2
  <2> QED
      BY <1>3, <1>4, <2>1, <2>2
<1>6. CASE CountEvents
    BY <1>2, <1>4, <1>6 DEF CountEvents, PerfTypeOK
<1>7. CASE Hotplug
    BY <1>2, <1>4, <1>7 DEF Hotplug, PerfTypeOK
<1>8. CASE Construct
  <2>1. OpenIfNeeded(counters) /\ UNCHANGED <<events, online, hotplugs, deltas>>
      BY <1>8 DEF Construct
  <2>2. DOMAIN counters = Kinds /\ counters = [k \in Kinds |-> counters[k]]
      BY <1>4
  <2> QED
      BY <1>4, <1>5, <2>1, <2>2 DEF PerfTypeOK
<1>9. CASE Collect
  <2>1. PICK failed \in SUBSET {k \in Kinds : IsOpen(k)} :
          LET after == [k \in Kinds |-> IF k \in failed THEN ReadFailed(counters[k])
                                        ELSE Sampled(counters[k])]
          IN  /\ deltas' = [k \in Kinds |->
                     IF k \in failed THEN Empty
                     ELSE [c \in Cpus |-> ReadDelta(counters[k], c)]]
              /\ IF SizesAgree(failed)
                 THEN OpenIfNeeded(after)
                 ELSE state' = "aborted" /\ counters' = after /\ UNCHANGED onlineCpus
      BY <1>9 DEF Collect
  <2> DEFINE after == [k \in Kinds |-> IF k \in failed THEN ReadFailed(counters[k])
                                       ELSE Sampled(counters[k])]
  <2>2. DOMAIN deltas' = Kinds
      BY <2>1
  <2>3. UNCHANGED <<events, online, hotplugs>>
      BY <1>9 DEF Collect
  <2>4. DOMAIN after = Kinds /\ after = [k \in Kinds |-> after[k]]
      OBVIOUS
  <2>5. \/ OpenIfNeeded(after)
        \/ state' = "aborted" /\ counters' = after /\ onlineCpus' = onlineCpus
      BY <2>1
  <2> HIDE DEF after
  <2>6. /\ counters' \in [Kinds -> PerfCounter]
        /\ onlineCpus' \subseteq Cpus /\ state' \in {"running", "disabled", "aborted"}
    <3>1. CASE OpenIfNeeded(after)
        BY <1>5, <2>4, <3>1
    <3>2. CASE state' = "aborted" /\ counters' = after /\ onlineCpus' = onlineCpus
        BY <1>3, <1>4, <2>4, <3>2
    <3> QED
        BY <2>5, <3>1, <3>2
  <2> QED
      BY <1>4, <2>2, <2>3, <2>6 DEF PerfTypeOK
<1>10. CASE RestartPerf
  <2>1. counters' \in [Kinds -> PerfCounter] /\ DOMAIN deltas' = Kinds
      BY <1>3, <1>10 DEF RestartPerf
  <2> QED
      BY <1>4, <1>10, <2>1 DEF RestartPerf, PerfTypeOK
<1>11. CASE CollectDisabled \/ UNCHANGED perfVars
    BY <1>11, <1>4 DEF CollectDisabled, perfVars, PerfTypeOK
<1> QED
    BY <1>6, <1>7, <1>8, <1>9, <1>10, <1>11 DEF PerfNext

LEMMA PerfTypesInit == PerfInit => PerfTypeOK
<1> SUFFICES ASSUME PerfInit PROVE PerfTypeOK
    OBVIOUS
<1>1. \A k \in Kinds : counters[k] \in PerfCounter
    BY PerfInvInit DEF PerfInv, CountersKept
<1>2. counters = [k \in Kinds |-> counters[k]] /\ DOMAIN deltas = Kinds
    BY DEF PerfInit
<1> QED
    BY <1>1, <1>2 DEF PerfInit, PerfTypeOK

\* A counter has a descriptor, or none, and a previous value for each CPU.
LEMMA PerfTypes == PerfSpec => []PerfTypeOK
<1>1. PerfInit => PerfInv /\ PerfTypeOK
    BY PerfInvInit, PerfTypesInit
<1>2. PerfInv /\ PerfTypeOK /\ [PerfNext]_perfVars => PerfInv' /\ PerfTypeOK'
    BY PerfInvStep, PerfTypesStep
<1> QED
    BY <1>1, <1>2, PTL DEF PerfSpec

-----------------------------------------------------------------------------
(* CgroupCpu: UsedWithinAvailable is not inductive.  It needs what is used *)
(* since a baseline to be within what the CPUs could do since cpu.stat was *)
(* read for it (Baseline, of every series), and the capacity published to  *)
(* be ahead by as much as the call that set the baseline took (Ahead).     *)

InCall == stage \in Series

\* cpu.stat was read during the call, which has taken no longer than allowed.
Reading ==
    InCall =>
        /\ readAt <= wall
        /\ wall - readAt <= MaxCpuDelay
        /\ stats <= usage
        /\ usage - stats <= CpuCount * (wall - readAt)

Baseline(s) ==
    IF prevUsage[s] = Unread THEN updatedAt[s] = NeverUpdated
    ELSE /\ updatedAt[s] \in Nat
         /\ updatedAt[s] <= wall
         /\ prevUsage[s] <= usage
         /\ usage - prevUsage[s] <= CpuCount * (wall - updatedAt[s] + skew[s])
         /\ InCall =>
               /\ prevUsage[s] <= stats
               /\ stats - prevUsage[s] <= CpuCount * (readAt - updatedAt[s] + skew[s])

Ahead == prevUsage["five"] # Unread => processing + CpuCount * skew["five"] <= capacity

CgroupCpuInv ==
    /\ CgroupCpuTypeOK
    /\ Reading
    /\ \A s \in Series : Baseline(s)
    /\ Ahead
    /\ UsedWithinAvailable

-----------------------------------------------------------------------------
(* Arithmetic: c CPUs are busy for at most c ticks in each. *)

LEMMA TickBounded ==
    ASSUME NEW c \in Nat, NEW x \in Nat, NEW u \in 0 .. c, NEW prev \in Nat,
           NEW w \in Nat, NEW since \in Int, x - prev <= c * (w - since)
    PROVE  (x + u) - prev <= c * ((w + 1) - since)
<1>1. c * ((w + 1) - since) = c * (w - since) + c
    OBVIOUS
<1> QED
    BY <1>1

LEMMA Distributes ==
    ASSUME NEW c \in Nat, NEW a \in Int, NEW b \in Int
    PROVE  c * (a + b) = c * a + c * b /\ c * (a - b) = c * a - c * b /\ a * c = c * a
OBVIOUS

LEMMA NatTimes ==
    ASSUME NEW c \in Nat, NEW a \in Nat
    PROVE  c * a \in Nat
OBVIOUS

LEMMA Monotone ==
    ASSUME NEW c \in Nat, NEW a \in Int, NEW b \in Int, a <= b
    PROVE  c * a <= c * b
<1>1. c * (b - a) \in Nat
    BY NatTimes
<1> QED
    BY <1>1, Distributes

\* What a gauge says is used and available.
LEMMA GaugeBounded ==
    ASSUME NEW c \in Nat, NEW spent \in Int, NEW r \in Int, NEW w \in Int,
           NEW updated \in Int, NEW sk \in Int,
           r <= w, spent <= c * (r - updated + sk)
    PROVE  spent <= (w - updated) * c + c * sk
<1>1. c * (r - updated + sk) <= c * (w - updated + sk)
    BY Monotone
<1>2. c * ((w - updated) + sk) = c * (w - updated) + c * sk
    BY Distributes
<1>3. (w - updated) * c = c * (w - updated)
    BY Distributes
<1>4. c * sk \in Int /\ c * (w - updated) \in Int /\ c * (r - updated + sk) \in Int
    OBVIOUS
<1> QED
    BY <1>1, <1>2, <1>3, <1>4

\* The counters stay apart by what the CPUs could do in the delay of the call.
LEMMA CapacityAhead ==
    ASSUME NEW c \in Nat, NEW p \in Int, NEW k \in Int, NEW spent \in Int,
           NEW r \in Int, NEW w \in Int, NEW updated \in Int, NEW sk \in Int,
           p + c * sk <= k, spent <= c * (r - updated + sk)
    PROVE  (p + spent) + c * (w - r) <= k + (w - updated) * c
<1>1. c * (r - updated + sk) = c * r - c * updated + c * sk
    OBVIOUS
<1>2. c * (w - r) = c * w - c * r /\ (w - updated) * c = c * w - c * updated
    OBVIOUS
<1>3. /\ c * r \in Int /\ c * updated \in Int /\ c * sk \in Int /\ c * w \in Int
    OBVIOUS
<1> DEFINE cr == c * r
           cu == c * updated
           cs == c * sk
           cw == c * w
<1>4. cr \in Int /\ cu \in Int /\ cs \in Int /\ cw \in Int
    BY <1>3
<1>5. spent <= cr - cu + cs /\ p + cs <= k
    BY <1>1
<1>6. (p + spent) + (cw - cr) <= k + (cw - cu)
  <2> HIDE DEF cr, cu, cs, cw
  <2> QED
      BY <1>4, <1>5
<1> QED
    BY <1>2, <1>6

-----------------------------------------------------------------------------
LEMMA NatTyped ==
    ASSUME CgroupCpuTypeOK
    PROVE  /\ usage \in Nat /\ wall \in Nat /\ stats \in Nat /\ readAt \in Nat
           /\ processing \in Nat /\ capacity \in Nat /\ aborts \in Nat
BY DEF CgroupCpuTypeOK

LEMMA CgroupCpuInvInit == CgroupCpuInit => CgroupCpuInv
<1> SUFFICES ASSUME CgroupCpuInit PROVE CgroupCpuInv
    OBVIOUS
<1> USE CgroupCpuAssumption
<1>1. CgroupCpuTypeOK
    BY DEF CgroupCpuInit, CgroupCpuTypeOK, Unread, NeverUpdated, Series
<1>2. Reading /\ (\A s \in Series : Baseline(s)) /\ Ahead
    BY DEF CgroupCpuInit, Reading, InCall, Baseline, Ahead, Series
<1>3. UsedWithinAvailable
    BY DEF CgroupCpuInit, UsedWithinAvailable, NoGauge
<1> QED
    BY <1>1, <1>2, <1>3 DEF CgroupCpuInv

\* Time: what is used in the tick is at most what the CPUs can do.
LEMMA UseCpuStep == CgroupCpuInv /\ UseCpu => CgroupCpuInv'
<1> SUFFICES ASSUME CgroupCpuInv, UseCpu PROVE CgroupCpuInv'
    OBVIOUS
<1> USE CgroupCpuAssumption
<1>1. PICK u \in 0 .. CpuCount : usage' = usage + u
    BY DEF UseCpu
<1>2. /\ wall' = wall + 1
      /\ stage' = stage /\ due' = due /\ stats' = stats /\ readAt' = readAt
      /\ UNCHANGED <<prevUsage, updatedAt, skew, processing, capacity, gauges, aborts>>
    BY DEF UseCpu, cpuCall, baselines, cpuTimes
<1>7. InCall => wall - readAt < MaxCpuDelay
    BY DEF UseCpu, InCall, Series
<1>8. usage' \in Nat /\ wall' \in Nat
    BY <1>1, <1>2, NatTyped DEF CgroupCpuInv
<1>3. CgroupCpuTypeOK'
    BY <1>2, <1>8 DEF CgroupCpuInv, CgroupCpuTypeOK
<1>4. Reading'
  <2>1. ASSUME InCall
        PROVE  /\ readAt <= wall + 1 /\ wall + 1 - readAt <= MaxCpuDelay
               /\ stats <= usage + u
               /\ (usage + u) - stats <= CpuCount * ((wall + 1) - readAt)
    <3>1. /\ readAt <= wall /\ stats <= usage
          /\ usage - stats <= CpuCount * (wall - readAt)
          /\ readAt \in Nat /\ wall \in Nat /\ stats \in Nat /\ usage \in Nat
        BY <2>1, NatTyped DEF CgroupCpuInv, Reading
    <3>2. (usage + u) - stats <= CpuCount * ((wall + 1) - readAt)
        BY <3>1, <1>1, TickBounded
    <3> QED
        BY <2>1, <3>1, <3>2, <1>1, <1>7
  <2>2. InCall' <=> InCall
      BY <1>2 DEF InCall
  <2>3. ASSUME InCall'
        PROVE  /\ readAt' <= wall' /\ wall' - readAt' <= MaxCpuDelay
               /\ stats' <= usage'
               /\ usage' - stats' <= CpuCount * (wall' - readAt')
    <3>1. InCall
        BY <2>2, <2>3
    <3>2. wall' = wall + 1 /\ usage' = usage + u /\ readAt' = readAt /\ stats' = stats
        BY <1>1, <1>2
    <3>3. /\ wall \in Nat /\ usage \in Nat /\ readAt \in Nat /\ stats \in Nat
          /\ u \in Nat /\ CpuCount \in Nat /\ MaxCpuDelay \in Nat
        BY <1>1, NatTyped DEF CgroupCpuInv
    <3> QED
        BY <2>1, <3>1, <3>2, <3>3
  <2> QED
      BY <2>3 DEF Reading
<1>5. ASSUME NEW s \in Series PROVE Baseline(s)'
  <2>1. CASE prevUsage[s] = Unread
      BY <1>2, <2>1, <1>5 DEF CgroupCpuInv, Baseline
  <2>2. CASE prevUsage[s] # Unread
    <3>1. /\ updatedAt[s] \in Nat /\ updatedAt[s] <= wall /\ prevUsage[s] <= usage
          /\ usage - prevUsage[s] <= CpuCount * (wall - updatedAt[s] + skew[s])
          /\ InCall =>
               /\ prevUsage[s] <= stats
               /\ stats - prevUsage[s] <= CpuCount * (readAt - updatedAt[s] + skew[s])
        BY <2>2, <1>5 DEF CgroupCpuInv, Baseline
    <3>2. prevUsage[s] \in Nat /\ skew[s] \in Nat /\ {wall, usage} \subseteq Nat
        BY <2>2, <1>5 DEF CgroupCpuInv, CgroupCpuTypeOK
    <3>3. wall - updatedAt[s] + skew[s] = wall - (updatedAt[s] - skew[s])
        BY <3>1, <3>2
    <3>4. (usage + u) - prevUsage[s] <= CpuCount * ((wall + 1) - (updatedAt[s] - skew[s]))
        BY <3>1, <3>2, <3>3, <1>1, TickBounded
    <3>5. (wall + 1) - (updatedAt[s] - skew[s]) = (wall + 1) - updatedAt[s] + skew[s]
        BY <3>1, <3>2
    <3>6. /\ updatedAt[s] <= wall + 1 /\ prevUsage[s] <= usage + u
          /\ (usage + u) - prevUsage[s] <= CpuCount * ((wall + 1) - updatedAt[s] + skew[s])
        BY <3>1, <3>2, <3>4, <3>5, <1>1
    <3> QED
        BY <2>2, <3>1, <3>6, <1>1, <1>2 DEF Baseline, InCall
  <2> QED
      BY <2>1, <2>2
<1>6. Ahead' /\ UsedWithinAvailable'
    BY <1>2 DEF CgroupCpuInv, Ahead, UsedWithinAvailable
<1> QED
    BY <1>3, <1>4, <1>5, <1>6 DEF CgroupCpuInv

LEMMA StartStep == CgroupCpuInv /\ StartCpuStats => CgroupCpuInv'
<1> SUFFICES ASSUME CgroupCpuInv, StartCpuStats PROVE CgroupCpuInv'
    OBVIOUS
<1> USE CgroupCpuAssumption
<1>1. stage' \in Series /\ due' \subseteq Series
    BY DEF StartCpuStats, Part, Series
<1>2. /\ stats' = usage /\ readAt' = wall
      /\ gauges' = [s \in {"sixty", "peak"} |-> NoGauge]
      /\ UNCHANGED <<container, baselines, cpuTimes, aborts>>
    BY DEF StartCpuStats
<1>3. CgroupCpuTypeOK'
    BY <1>1, <1>2 DEF CgroupCpuInv, CgroupCpuTypeOK, container, baselines, cpuTimes
<1>4. Reading'
  <2>1. {wall, usage} \subseteq Nat /\ CpuCount * (wall - wall) = 0
      BY DEF CgroupCpuInv, CgroupCpuTypeOK
  <2> QED
      BY <1>2, <2>1 DEF Reading, container
<1>5. ASSUME NEW s \in Series PROVE Baseline(s)'
    BY <1>2, <1>5 DEF CgroupCpuInv, Baseline, container, baselines
<1>6. Ahead'
    BY <1>2 DEF CgroupCpuInv, Ahead, baselines, cpuTimes
<1>7. UsedWithinAvailable'
    BY <1>2 DEF CgroupCpuInv, UsedWithinAvailable, cpuTimes, NoGauge
<1> QED
    BY <1>3, <1>4, <1>5, <1>6, <1>7 DEF CgroupCpuInv

-----------------------------------------------------------------------------
(* The series: each is due in a call and sets its baselines to what the    *)
(* call read.                                                              *)

LEMMA CallFacts ==
    ASSUME CgroupCpuInv, NEW series \in Series, stage = series
    PROVE  /\ readAt <= wall /\ wall - readAt \in 0 .. MaxCpuDelay /\ MaxCpuDelay \in Nat
           /\ stats <= usage
           /\ usage - stats <= CpuCount * (wall - readAt)
BY CgroupCpuAssumption, NatTyped DEF CgroupCpuInv, Reading, InCall

LEMMA KnownBaseline ==
    ASSUME CgroupCpuInv, NEW series \in Series, stage = series,
           prevUsage[series] # Unread
    PROVE  /\ prevUsage[series] \in Nat /\ updatedAt[series] \in Nat /\ skew[series] \in Nat
           /\ updatedAt[series] # NeverUpdated
           /\ updatedAt[series] <= wall /\ prevUsage[series] <= stats
           /\ stats - prevUsage[series]
                <= CpuCount * (readAt - updatedAt[series] + skew[series])
BY CgroupCpuAssumption
   DEF CgroupCpuInv, CgroupCpuTypeOK, Baseline, InCall, NeverUpdated

LEMMA AdvanceTyped ==
    ASSUME CgroupCpuInv, NEW series \in Series, Advance(series)
    PROVE  /\ prevUsage' \in [Series -> Nat \cup {Unread}]
           /\ updatedAt' \in [Series -> Nat \cup {NeverUpdated}]
           /\ skew' \in [Series -> 0 .. MaxCpuDelay]
<1>1. wall \in Nat /\ stats \in Nat /\ wall - readAt \in 0 .. MaxCpuDelay
    BY NatTyped, CallFacts DEF CgroupCpuInv, Advance
<1> QED
    BY <1>1 DEF CgroupCpuInv, CgroupCpuTypeOK, Advance

LEMMA AdvanceBaselines ==
    ASSUME CgroupCpuInv, NEW series \in Series, Advance(series),
           usage' = usage, wall' = wall,
           InCall' => stats' = stats /\ readAt' = readAt,
           NEW s \in Series
    PROVE  Baseline(s)'
<1> USE CgroupCpuAssumption
<1>1. stage = series
    BY DEF Advance
<1>2. CASE s = series
  <2>1. prevUsage'[s] = stats /\ updatedAt'[s] = wall /\ skew'[s] = wall - readAt
      BY <1>2 DEF Advance, CgroupCpuInv, CgroupCpuTypeOK
  <2>2. /\ wall \in Nat /\ stats \in Nat /\ readAt \in Nat /\ usage \in Nat /\ CpuCount \in Nat
        /\ stats <= usage /\ usage - stats <= CpuCount * (wall - readAt)
      BY <1>1, NatTyped, CallFacts DEF CgroupCpuInv
  <2>3. /\ wall - wall + (wall - readAt) = wall - readAt
        /\ readAt - wall + (wall - readAt) = 0
        /\ CpuCount * 0 = 0
      BY <2>2
  <2>4. stats # Unread
      BY <2>2 DEF Unread
  <2>5. /\ usage - stats <= CpuCount * (wall - wall + (wall - readAt))
        /\ stats - stats <= CpuCount * (readAt - wall + (wall - readAt))
      BY <2>2, <2>3
  <2> QED
      BY <2>1, <2>2, <2>4, <2>5 DEF Baseline
<1>3. CASE s # series
  <2>1. prevUsage'[s] = prevUsage[s] /\ updatedAt'[s] = updatedAt[s] /\ skew'[s] = skew[s]
      BY <1>3 DEF Advance, CgroupCpuInv, CgroupCpuTypeOK
  <2>2. InCall
      BY <1>1 DEF InCall
  <2>3. Baseline(s)
      BY DEF CgroupCpuInv
  <2> QED
      BY <2>1, <2>2, <2>3 DEF Baseline
<1> QED
    BY <1>2, <1>3

\* A gauge that a call sets is within its bound.
LEMMA GaugeHonest ==
    ASSUME CgroupCpuInv, NEW series \in {"sixty", "peak"}, Advance(series),
           NEW interval \in Nat, Gauge(series, interval)
    PROVE  /\ gauges' \in [{"sixty", "peak"} -> {NoGauge} \cup
                  [set : {TRUE}, used : Nat, available : Nat, skew : 0 .. MaxCpuDelay]]
           /\ \A s \in {"sixty", "peak"} :
                 gauges'[s].set =>
                    gauges'[s].used <= gauges'[s].available + CpuCount * gauges'[s].skew
<1> USE CgroupCpuAssumption
<1>1. series \in Series /\ stage = series
    BY DEF Series, Advance
<1>2. /\ \A s \in {"sixty", "peak"} :
            gauges[s].set => gauges[s].used <= gauges[s].available + CpuCount * gauges[s].skew
      /\ gauges \in [{"sixty", "peak"} -> {NoGauge} \cup
            [set : {TRUE}, used : Nat, available : Nat, skew : 0 .. MaxCpuDelay]]
    BY DEF CgroupCpuInv, UsedWithinAvailable, CgroupCpuTypeOK
<1>3. CASE prevUsage[series] = Unread
    BY <1>2, <1>3 DEF Gauge
<1>4. CASE prevUsage[series] # Unread
  <2> DEFINE spent == stats - prevUsage[series]
             available == (wall - updatedAt[series]) * CpuCount
             g == [set |-> TRUE, used |-> spent, available |-> available,
                   skew |-> skew[series]]
  <2>1. /\ prevUsage[series] \in Nat /\ updatedAt[series] \in Nat /\ skew[series] \in Nat
        /\ updatedAt[series] # NeverUpdated
        /\ updatedAt[series] <= wall /\ prevUsage[series] <= stats
        /\ spent <= CpuCount * (readAt - updatedAt[series] + skew[series])
      BY <1>1, <1>4, KnownBaseline
  <2>2. /\ wall \in Nat /\ stats \in Nat /\ readAt \in Nat /\ CpuCount \in Nat
        /\ readAt <= wall
      BY <1>1, NatTyped, CallFacts DEF CgroupCpuInv
  <2>3. spent \in Nat /\ spent \in Int /\ wall - updatedAt[series] \in Nat
      BY <2>1, <2>2
  <2>4. available \in Nat
    <3>1. CpuCount * (wall - updatedAt[series]) \in Nat
        BY <2>2, <2>3, NatTimes
    <3> QED
        BY <3>1, <2>2, <2>3, Distributes
  <2>5. spent <= available + CpuCount * skew[series]
    <3> HIDE DEF spent
    <3> QED
        BY <2>1, <2>2, <2>3, GaugeBounded
  <2>6. skew[series] \in 0 .. MaxCpuDelay
      BY <1>1 DEF CgroupCpuInv, CgroupCpuTypeOK
  <2>7. gauges' = [gauges EXCEPT ![series] = g]
      BY <1>4, <2>1 DEF Gauge, Elapsed
  <2>8. g \in [set : {TRUE}, used : Nat, available : Nat, skew : 0 .. MaxCpuDelay]
    <3> HIDE DEF spent, available
    <3> QED
        BY <2>3, <2>4, <2>6
  <2>9. g.used = spent /\ g.available = available /\ g.skew = skew[series]
      OBVIOUS
  <2> HIDE DEF g, spent, available
  <2>10. gauges' \in [{"sixty", "peak"} -> {NoGauge} \cup
            [set : {TRUE}, used : Nat, available : Nat, skew : 0 .. MaxCpuDelay]]
      BY <1>2, <2>7, <2>8
  <2>11. ASSUME NEW s \in {"sixty", "peak"}, gauges'[s].set
         PROVE  gauges'[s].used <= gauges'[s].available + CpuCount * gauges'[s].skew
    <3>1. CASE s = series
      <4>1. gauges'[s] = g
          BY <1>2, <2>7, <3>1
      <4> QED
          BY <4>1, <2>5, <2>9
    <3>2. CASE s # series
      <4>1. gauges'[s] = gauges[s]
          BY <1>2, <2>7, <3>2
      <4> QED
          BY <4>1, <1>2, <2>11
    <3> QED
        BY <3>1, <3>2
  <2> QED
      BY <2>10, <2>11
<1> QED
    BY <1>3, <1>4

LEMMA SixtyStep == CgroupCpuInv /\ SixtySeconds => CgroupCpuInv'
<1> SUFFICES ASSUME CgroupCpuInv, SixtySeconds PROVE CgroupCpuInv'
    OBVIOUS
<1> USE CgroupCpuAssumption
<1>1. /\ Advance("sixty") /\ Gauge("sixty", MinuteInterval) /\ stage = "sixty"
      /\ usage' = usage /\ wall' = wall /\ due' = due /\ stats' = stats /\ readAt' = readAt
      /\ processing' = processing /\ capacity' = capacity /\ aborts' = aborts
    BY DEF SixtySeconds, Advance, container, cpuTimes
<1>2. "sixty" \in Series /\ stage' \in Series /\ MinuteInterval \in Nat
    BY DEF SixtySeconds, Part, Series
<1>3. CgroupCpuTypeOK'
  <2>1. gauges' \in [{"sixty", "peak"} -> {NoGauge} \cup
            [set : {TRUE}, used : Nat, available : Nat, skew : 0 .. MaxCpuDelay]]
      BY <1>1, <1>2, GaugeHonest
  <2> QED
      BY <2>1, <1>1, <1>2, AdvanceTyped DEF CgroupCpuInv, CgroupCpuTypeOK
<1>4. Reading'
    BY <1>1, <1>2 DEF CgroupCpuInv, Reading, InCall
<1>5. \A s \in Series : Baseline(s)'
    BY <1>1, <1>2, AdvanceBaselines
<1>6. Ahead'
  <2>1. prevUsage'["five"] = prevUsage["five"] /\ skew'["five"] = skew["five"]
      BY <1>1 DEF Advance, CgroupCpuInv, CgroupCpuTypeOK, Series
  <2> QED
      BY <1>1, <2>1 DEF CgroupCpuInv, Ahead
<1>7. UsedWithinAvailable'
    BY <1>1, <1>2, GaugeHonest DEF CgroupCpuInv, UsedWithinAvailable
<1> QED
    BY <1>3, <1>4, <1>5, <1>6, <1>7 DEF CgroupCpuInv

\* The counters: the first capacity makes up for the delay of the first call,
\* and every later one covers what was used since.
LEMMA FiveStep == CgroupCpuInv /\ FiveSeconds => CgroupCpuInv'
<1> SUFFICES ASSUME CgroupCpuInv, FiveSeconds PROVE CgroupCpuInv'
    OBVIOUS
<1> USE CgroupCpuAssumption
<1>1. /\ Advance("five") /\ stage = "five" /\ stage' = "peak"
      /\ processing' = processing + UsedSince
      /\ capacity' = capacity + Elapsed("five", FirstInterval) * CpuCount
      /\ usage' = usage /\ wall' = wall /\ due' = due /\ stats' = stats /\ readAt' = readAt
      /\ gauges' = gauges /\ aborts' = aborts
    BY DEF FiveSeconds, Advance, container
<1>2. /\ "five" \in Series /\ stage' \in Series
      /\ wall \in Nat /\ stats \in Nat /\ readAt \in Nat /\ usage \in Nat
      /\ processing \in Nat /\ capacity \in Nat
      /\ CpuCount \in Nat /\ FirstInterval \in Nat /\ MaxCpuDelay \in Nat
      /\ MaxCpuDelay <= FirstInterval
    BY <1>1, NatTyped DEF CgroupCpuInv, Series
<1>3. wall - readAt \in 0 .. MaxCpuDelay
    BY <1>1, <1>2, CallFacts
<1>4. /\ processing' \in Nat /\ capacity' \in Nat
      /\ processing' + CpuCount * (wall - readAt) <= capacity'
  <2>1. CASE prevUsage["five"] = Unread
    <3>1. UsedSince = 0 /\ Elapsed("five", FirstInterval) = FirstInterval
        BY <2>1, <1>2 DEF UsedSince, Elapsed, CgroupCpuInv, Baseline
    <3>2. /\ CpuCount * (wall - readAt) <= CpuCount * FirstInterval
          /\ CpuCount * FirstInterval \in Nat
          /\ FirstInterval * CpuCount = CpuCount * FirstInterval
        BY <1>2, <1>3, Monotone, Distributes, NatTimes
    <3>3. processing <= capacity
        BY DEF CgroupCpuInv, UsedWithinAvailable
    <3>4. CpuCount * (wall - readAt) \in Nat
        BY <1>2, <1>3, NatTimes
    <3>5. processing' = processing /\ capacity' = capacity + CpuCount * FirstInterval
        BY <1>1, <1>2, <3>1, <3>2
    <3> QED
        BY <1>2, <3>2, <3>3, <3>4, <3>5
  <2>2. CASE prevUsage["five"] # Unread
    <3> DEFINE known == stats - prevUsage["five"]
               updated == updatedAt["five"]
               delay == skew["five"]
    <3>1. /\ prevUsage["five"] \in Nat /\ updated \in Nat /\ delay \in Nat
          /\ updated # NeverUpdated
          /\ updated <= wall /\ prevUsage["five"] <= stats
          /\ known <= CpuCount * (readAt - updated + delay)
        BY <1>1, <1>2, <2>2, KnownBaseline
    <3>2. known \in Nat /\ known \in Int /\ wall - updated \in Nat
        BY <1>2, <3>1
    <3>3. UsedSince = known /\ Elapsed("five", FirstInterval) = wall - updated
        BY <2>2, <3>1 DEF UsedSince, Elapsed
    <3>4. processing + CpuCount * delay <= capacity
        BY <2>2 DEF CgroupCpuInv, Ahead
    <3> HIDE DEF known, updated, delay
    <3>5. (processing + known) + CpuCount * (wall - readAt) <= capacity + (wall - updated) * CpuCount
        BY <1>2, <3>1, <3>2, <3>4, CapacityAhead
    <3>6. (wall - updated) * CpuCount \in Nat
        BY <1>2, <3>2, NatTimes, Distributes
    <3> QED
        BY <1>1, <1>2, <3>2, <3>3, <3>5, <3>6
  <2> QED
      BY <2>1, <2>2
<1>5. CgroupCpuTypeOK'
    BY <1>1, <1>2, <1>4, AdvanceTyped DEF CgroupCpuInv, CgroupCpuTypeOK
<1>6. Reading'
    BY <1>1, <1>2 DEF CgroupCpuInv, Reading, InCall
<1>7. \A s \in Series : Baseline(s)'
    BY <1>1, <1>2, AdvanceBaselines
<1>8. Ahead'
  <2>1. skew'["five"] = wall - readAt
      BY <1>1, <1>2 DEF Advance, CgroupCpuInv, CgroupCpuTypeOK
  <2> QED
      BY <1>4, <2>1 DEF Ahead
<1>9. UsedWithinAvailable'
  <2>1. CpuCount * (wall - readAt) \in Nat
      BY <1>2, <1>3, NatTimes
  <2>2. processing' <= capacity'
      BY <1>4, <2>1
  <2> QED
      BY <1>1, <2>2 DEF CgroupCpuInv, UsedWithinAvailable
<1> QED
    BY <1>5, <1>6, <1>7, <1>8, <1>9 DEF CgroupCpuInv

LEMMA PeakStep == CgroupCpuInv /\ Peak => CgroupCpuInv'
<1> SUFFICES ASSUME CgroupCpuInv, Peak PROVE CgroupCpuInv'
    OBVIOUS
<1> USE CgroupCpuAssumption
<1>1. /\ Advance("peak") /\ Gauge("peak", wall) /\ stage = "peak" /\ stage' = "idle"
      /\ usage' = usage /\ wall' = wall /\ due' = {} /\ stats' = 0 /\ readAt' = 0
      /\ processing' = processing /\ capacity' = capacity /\ aborts' = aborts
    BY DEF Peak, Advance, container, cpuTimes
<1>2. "peak" \in Series /\ wall \in Nat /\ ~InCall'
    BY <1>1, NatTyped DEF CgroupCpuInv, Series, InCall
<1>3. CgroupCpuTypeOK'
  <2>1. gauges' \in [{"sixty", "peak"} -> {NoGauge} \cup
            [set : {TRUE}, used : Nat, available : Nat, skew : 0 .. MaxCpuDelay]]
      BY <1>1, <1>2, GaugeHonest
  <2>2. /\ prevUsage' \in [Series -> Nat \cup {Unread}]
        /\ updatedAt' \in [Series -> Nat \cup {NeverUpdated}]
        /\ skew' \in [Series -> 0 .. MaxCpuDelay]
      BY <1>1, <1>2, AdvanceTyped
  <2>3. {usage, wall, stats, readAt, processing, capacity, aborts}' \subseteq Nat
      BY <1>1, NatTyped DEF CgroupCpuInv
  <2> QED
      BY <2>1, <2>2, <2>3, <1>1 DEF CgroupCpuTypeOK
<1>4. Reading'
    BY <1>2 DEF Reading
<1>5. \A s \in Series : Baseline(s)'
    BY <1>1, <1>2, AdvanceBaselines
<1>6. Ahead'
  <2>1. prevUsage'["five"] = prevUsage["five"] /\ skew'["five"] = skew["five"]
      BY <1>1 DEF Advance, CgroupCpuInv, CgroupCpuTypeOK, Series
  <2> QED
      BY <1>1, <2>1 DEF CgroupCpuInv, Ahead
<1>7. UsedWithinAvailable'
    BY <1>1, <1>2, GaugeHonest DEF CgroupCpuInv, UsedWithinAvailable
<1> QED
    BY <1>3, <1>4, <1>5, <1>6, <1>7 DEF CgroupCpuInv

\* An abort and a restart: the counters are the registry's and stay.
LEMMA AbortStep == CgroupCpuInv /\ CpuStatUnreadable => CgroupCpuInv'
<1> SUFFICES ASSUME CgroupCpuInv, CpuStatUnreadable PROVE CgroupCpuInv'
    OBVIOUS
<1>1. /\ stage' = "aborted" /\ aborts' = aborts + 1
      /\ UNCHANGED <<usage, wall, due, stats, readAt, prevUsage, updatedAt, skew,
                     processing, capacity, gauges>>
    BY DEF CpuStatUnreadable, container, baselines, cpuTimes
<1>2. aborts' \in Nat /\ ~InCall'
    BY <1>1, NatTyped DEF CgroupCpuInv, InCall, Series
<1>3. CgroupCpuTypeOK'
    BY <1>1, <1>2 DEF CgroupCpuInv, CgroupCpuTypeOK
<1>4. Reading' /\ (\A s \in Series : Baseline(s)') /\ Ahead' /\ UsedWithinAvailable'
    BY <1>1, <1>2 DEF CgroupCpuInv, Reading, Baseline, Ahead, UsedWithinAvailable
<1> QED
    BY <1>3, <1>4 DEF CgroupCpuInv

LEMMA RestartStep == CgroupCpuInv /\ RestartAgent => CgroupCpuInv'
<1> SUFFICES ASSUME CgroupCpuInv, RestartAgent PROVE CgroupCpuInv'
    OBVIOUS
<1> USE CgroupCpuAssumption
<1>1. /\ stage' = "idle"
      /\ prevUsage' = [s \in Series |-> Unread]
      /\ updatedAt' = [s \in Series |-> NeverUpdated]
      /\ skew' = [s \in Series |-> 0]
      /\ UNCHANGED <<usage, wall, due, stats, readAt, processing, capacity, gauges, aborts>>
    BY DEF RestartAgent, container, cpuTimes
<1>2. ~InCall'
    BY <1>1 DEF InCall, Series
<1>3. CgroupCpuTypeOK'
  <2>1. /\ prevUsage' \in [Series -> Nat \cup {Unread}]
        /\ updatedAt' \in [Series -> Nat \cup {NeverUpdated}]
        /\ skew' \in [Series -> 0 .. MaxCpuDelay]
      BY <1>1
  <2> QED
      BY <1>1, <2>1 DEF CgroupCpuInv, CgroupCpuTypeOK
<1>4. Reading' /\ (\A s \in Series : Baseline(s)') /\ Ahead'
    BY <1>1, <1>2 DEF Reading, Baseline, Ahead, Series
<1>5. UsedWithinAvailable'
    BY <1>1 DEF CgroupCpuInv, UsedWithinAvailable
<1> QED
    BY <1>3, <1>4, <1>5 DEF CgroupCpuInv

LEMMA CgroupCpuInvStep == CgroupCpuInv /\ [CgroupCpuNext]_cgroupCpuVars => CgroupCpuInv'
<1> SUFFICES ASSUME CgroupCpuInv, UNCHANGED cgroupCpuVars PROVE CgroupCpuInv'
    BY UseCpuStep, StartStep, SixtyStep, FiveStep, PeakStep, AbortStep, RestartStep
       DEF CgroupCpuNext
<1>1. UNCHANGED <<usage, wall, stage, due, stats, readAt, prevUsage, updatedAt, skew,
                  processing, capacity, gauges, aborts>>
    BY DEF cgroupCpuVars, container, cpuCall, baselines, cpuTimes
<1> QED
    BY <1>1 DEF CgroupCpuInv, CgroupCpuTypeOK, Reading, InCall, Baseline, Ahead,
                UsedWithinAvailable

\* cgroup.cpp:63-219: the CPU time published as used is within what is published
\* as available, in the counters always and in the gauges up to the delay of the
\* call before.
THEOREM ContainerWithinCapacity == CgroupCpuSpec => []UsedWithinAvailable
<1>1. CgroupCpuInv => UsedWithinAvailable
    BY DEF CgroupCpuInv
<1> QED
    BY <1>1, CgroupCpuInvInit, CgroupCpuInvStep, PTL DEF CgroupCpuSpec

\* cgroup.cpp:63-219: the baselines and what a call read are of times that passed.
LEMMA CgroupCpuTypes == CgroupCpuSpec => []CgroupCpuTypeOK
<1>1. CgroupCpuInv => CgroupCpuTypeOK
    BY DEF CgroupCpuInv
<1> QED
    BY <1>1, CgroupCpuInvInit, CgroupCpuInvStep, PTL DEF CgroupCpuSpec

-----------------------------------------------------------------------------
(* CgroupIo: what a device moved since its sample is within its limit, and *)
(* is not published yet.                                                   *)

SinceSample(d) ==
    /\ io[d] - previousStats[d] <= ioUnpublished[d]
    /\ readded = 0 => io[d] - previousStats[d] = ioUnpublished[d]
    /\ io[d] - previousStats[d] <= Limit * (ioTime - sampledAt[d])

IoInv ==
    /\ ioTime \in Nat /\ readded \in Nat
    /\ io \in [Disks -> Nat]
    /\ listed \subseteq Disks
    /\ previousStats \in [Disks -> Nat \cup {Unknown}]
    /\ sampledAt \in [Disks -> {Unknown} \cup 0 .. ioTime]
    /\ ioUnpublished \in [Disks -> Nat]
    /\ DOMAIN activity = Disks
    /\ \A d \in Disks : previousStats[d] = Unknown <=> sampledAt[d] = Unknown
    /\ \A d \in Disks : previousStats[d] # Unknown => SinceSample(d)
    /\ \A d \in Disks : activity[d].recorded => activity[d].delta <= Limit * activity[d].span

LEMMA IoInvInit == IoInit => IoInv
<1> SUFFICES ASSUME IoInit PROVE IoInv
    OBVIOUS
<1>1. \A d \in Disks : previousStats[d] = Unknown /\ sampledAt[d] = Unknown /\ ~activity[d].recorded
    BY DEF IoInit, NoActivity
<1> QED
    BY <1>1 DEF IoInit, IoInv

\* The limit allows as much more in each tick.
LEMMA MoreTime ==
    ASSUME NEW t \in Int, NEW s \in Int
    PROVE  /\ Limit * (t + 1 - s) = Limit * (t - s) + Limit
           /\ t >= s => Limit * (t - s) >= 0
    BY IoAssumption

LEMMA TransferStep == IoInv /\ Transfer => IoInv'
<1> SUFFICES ASSUME IoInv, Transfer PROVE IoInv'
    OBVIOUS
<1>1. PICK m \in [listed -> 0 .. Limit] :
        LET Moved(d) == IF d \in listed THEN m[d] ELSE 0
        IN  /\ io' = [d \in Disks |-> io[d] + Moved(d)]
            /\ ioUnpublished' = [d \in Disks |-> ioUnpublished[d] + Moved(d)]
    BY DEF Transfer
<1> DEFINE Moved(d) == IF d \in listed THEN m[d] ELSE 0
<1>2. /\ io' = [d \in Disks |-> io[d] + Moved(d)]
      /\ ioUnpublished' = [d \in Disks |-> ioUnpublished[d] + Moved(d)]
    BY <1>1
<1>3. Limit \in Nat /\ \A d \in Disks : Moved(d) \in 0 .. Limit
    BY IoAssumption
<1> HIDE DEF Moved
<1>4. /\ ioTime' = ioTime + 1 /\ listed' = listed /\ readded' = readded
      /\ previousStats' = previousStats /\ sampledAt' = sampledAt /\ activity' = activity
    BY DEF Transfer
<1>5. io' \in [Disks -> Nat] /\ ioUnpublished' \in [Disks -> Nat]
    BY <1>2, <1>3 DEF IoInv
<1>6. sampledAt' \in [Disks -> {Unknown} \cup 0 .. ioTime']
    BY <1>4 DEF IoInv
<1>7. ASSUME NEW d \in Disks, previousStats[d] # Unknown PROVE SinceSample(d)'
  <2>1. /\ io[d] \in Nat /\ previousStats[d] \in Nat /\ ioUnpublished[d] \in Nat
        /\ sampledAt[d] \in Int /\ ioTime \in Nat /\ Moved(d) \in 0 .. Limit /\ SinceSample(d)
      BY <1>3, <1>7 DEF IoInv, Unknown
  <2>2. io'[d] = io[d] + Moved(d) /\ ioUnpublished'[d] = ioUnpublished[d] + Moved(d)
      BY <1>2
  <2>3. Limit * (ioTime' - sampledAt'[d]) = Limit * (ioTime - sampledAt[d]) + Limit
    <3>1. ioTime' - sampledAt'[d] = ioTime + 1 - sampledAt[d]
        BY <1>4, <2>1
    <3>2. Limit * (ioTime + 1 - sampledAt[d]) = Limit * (ioTime - sampledAt[d]) + Limit
      <4>1. ioTime \in Int /\ sampledAt[d] \in Int
          BY <2>1
      <4> QED
          BY <4>1, MoreTime
    <3> QED
        BY <3>1, <3>2
  <2>4. Limit * (ioTime - sampledAt[d]) \in Int
      BY <2>1, <1>3
  <2> DEFINE L == Limit * (ioTime - sampledAt[d])
             M == Limit * (ioTime' - sampledAt'[d])
  <2>5. M = L + Limit /\ L \in Int
      BY <2>3, <2>4
  <2>6. /\ io[d] - previousStats[d] <= ioUnpublished[d]
        /\ readded = 0 => io[d] - previousStats[d] = ioUnpublished[d]
        /\ io[d] - previousStats[d] <= L
      BY <2>1 DEF SinceSample
  <2>7. io'[d] - previousStats'[d] <= M
    <3> HIDE DEF L, M
    <3> QED
        BY <2>1, <2>2, <2>5, <2>6, <1>3, <1>4
  <2> QED
      BY <2>1, <2>2, <2>6, <2>7, <1>4 DEF SinceSample
<1> QED
    BY <1>4, <1>5, <1>6, <1>7 DEF IoInv

LEMMA AddStep == IoInv /\ (\E d \in Disks : Add(d)) => IoInv'
<1> SUFFICES ASSUME IoInv, NEW d \in Disks, Add(d) PROVE IoInv'
    OBVIOUS
<1>1. /\ readded' = readded + 1 /\ listed' = listed \cup {d} /\ io' = [io EXCEPT ![d] = 0]
      /\ ioTime' = ioTime /\ previousStats' = previousStats /\ sampledAt' = sampledAt
      /\ ioUnpublished' = ioUnpublished /\ activity' = activity
    BY DEF Add
<1>2. readded' \in Nat /\ readded' # 0
    BY <1>1 DEF IoInv
<1>3. ASSUME NEW e \in Disks, previousStats[e] # Unknown PROVE SinceSample(e)'
  <2>1. /\ io[e] \in Nat /\ previousStats[e] \in Nat /\ ioUnpublished[e] \in Nat
        /\ sampledAt[e] \in 0 .. ioTime /\ ioTime \in Nat /\ SinceSample(e) /\ Limit \in Nat
      BY <1>3, IoAssumption DEF IoInv
  <2>2. CASE e = d
    <3>1. io'[d] = 0
        BY <1>1 DEF IoInv
    <3>2. Limit * (ioTime - sampledAt[d]) >= 0 /\ Limit * (ioTime - sampledAt[d]) \in Int
        BY <2>1, <2>2, MoreTime
    <3> DEFINE L == Limit * (ioTime - sampledAt[d])
    <3>3. io'[d] - previousStats'[d] <= L
      <4>1. L >= 0 /\ L \in Int
          BY <3>2
      <4> HIDE DEF L
      <4> QED
          BY <4>1, <2>1, <2>2, <3>1, <1>1
    <3> QED
        BY <2>1, <2>2, <3>1, <3>3, <1>1, <1>2 DEF SinceSample
  <2>3. CASE e # d
      BY <2>1, <2>3, <1>1, <1>2 DEF SinceSample, IoInv
  <2> QED
      BY <2>2, <2>3
<1>4. io' \in [Disks -> Nat]
    BY <1>1 DEF IoInv
<1> QED
    BY <1>1, <1>2, <1>3, <1>4 DEF IoInv

LEMMA IOStatsStep == IoInv /\ IOStats => IoInv'
<1> SUFFICES ASSUME IoInv, IOStats PROVE IoInv'
    OBVIOUS
<1>1. PICK parsed \in SUBSET listed, limits \in BOOLEAN :
        /\ activity' = [d \in Disks |-> IF d \in parsed THEN UpdateActivity(d, limits)
                                        ELSE activity[d]]
        /\ ioUnpublished' = [d \in Disks |-> IF d \in parsed THEN Unpublished(d)
                                             ELSE ioUnpublished[d]]
        /\ previousStats' = Remember(parsed)
        /\ sampledAt' = [d \in Disks |-> IF d \in parsed THEN ioTime ELSE sampledAt[d]]
        /\ UNCHANGED <<ioTime, io, listed, readded>>
  <2>1. PICK idle \in SUBSET listed, malformed \in SUBSET listed, limits \in BOOLEAN :
          LET parsed == ParseIOLines(idle, malformed)
          IN  /\ activity' = [d \in Disks |-> IF d \in parsed THEN UpdateActivity(d, limits)
                                              ELSE activity[d]]
              /\ ioUnpublished' = [d \in Disks |-> IF d \in parsed THEN Unpublished(d)
                                                   ELSE ioUnpublished[d]]
              /\ previousStats' = Remember(parsed)
              /\ sampledAt' = [d \in Disks |-> IF d \in parsed THEN ioTime ELSE sampledAt[d]]
              /\ UNCHANGED <<ioTime, io, listed, readded>>
      BY DEF IOStats
  <2>2. ParseIOLines(idle, malformed) \in SUBSET listed
      BY DEF ParseIOLines
  <2> QED
      BY <2>1, <2>2
<1>2. /\ ioTime' = ioTime /\ io' = io /\ listed' = listed /\ readded' = readded
      /\ previousStats' = [d \in Disks |-> IF d \in parsed THEN io[d] ELSE previousStats[d]]
    BY <1>1 DEF Remember
<1>3. \A d \in Disks : /\ io[d] \in Nat /\ previousStats[d] \in Nat \cup {Unknown}
                       /\ ioUnpublished[d] \in Nat /\ sampledAt[d] \in {Unknown} \cup 0 .. ioTime
                       /\ ioTime \in Nat /\ Limit \in Nat
    BY IoAssumption DEF IoInv
<1>4. \A d \in parsed : Unpublished(d) \in Nat /\ (readded = 0 \/ sampledAt[d] = Unknown => Unpublished(d) = 0)
  <2> SUFFICES ASSUME NEW d \in parsed
               PROVE  Unpublished(d) \in Nat /\ (readded = 0 \/ sampledAt[d] = Unknown => Unpublished(d) = 0)
      OBVIOUS
  <2>1. d \in Disks
      BY DEF IoInv
  <2>2. CASE sampledAt[d] = Unknown
      BY <2>2 DEF Unpublished
  <2>3. CASE sampledAt[d] # Unknown
    <3>1. previousStats[d] # Unknown /\ SinceSample(d)
        BY <2>1, <2>3 DEF IoInv
    <3>2. Unpublished(d) = ioUnpublished[d] - (io[d] - previousStats[d])
        BY <2>3, <3>1 DEF Unpublished, Delta
    <3> QED
        BY <3>1, <3>2, <2>1, <2>3, <1>3 DEF SinceSample
  <2> QED
      BY <2>2, <2>3
<1>5. ASSUME NEW d \in Disks, previousStats'[d] # Unknown PROVE SinceSample(d)'
  <2>1. CASE d \in parsed
    <3>1. /\ io'[d] - previousStats'[d] = 0 /\ ioTime' - sampledAt'[d] = 0
          /\ ioUnpublished'[d] = Unpublished(d)
        BY <1>1, <1>2, <1>3, <2>1
    <3>2. Unpublished(d) \in Nat /\ (readded = 0 => Unpublished(d) = 0)
        BY <1>4, <2>1
    <3>3. Limit * (ioTime' - sampledAt'[d]) = 0
        BY <3>1, <1>3
    <3> QED
        BY <3>1, <3>2, <3>3, <1>2 DEF SinceSample
  <2>2. CASE d \notin parsed
      BY <2>2, <1>1, <1>2, <1>5 DEF SinceSample, IoInv
  <2> QED
      BY <2>1, <2>2
<1>6. ASSUME NEW d \in Disks, activity'[d].recorded
      PROVE  activity'[d].delta <= Limit * activity'[d].span
  <2>1. CASE d \in parsed /\ previousStats[d] # Unknown /\ limits
    <3>1. activity'[d].delta = io[d] - previousStats[d] /\ activity'[d].span = ioTime - sampledAt[d]
        BY <1>1, <2>1 DEF UpdateActivity, Delta
    <3> QED
        BY <3>1, <2>1 DEF IoInv, SinceSample
  <2>2. CASE ~(d \in parsed /\ previousStats[d] # Unknown /\ limits)
    <3>1. activity'[d] = activity[d]
        BY <1>1, <2>2 DEF UpdateActivity
    <3> QED
        BY <3>1, <1>6 DEF IoInv
  <2> QED
      BY <2>1, <2>2
<1>7. /\ previousStats' \in [Disks -> Nat \cup {Unknown}]
      /\ sampledAt' \in [Disks -> {Unknown} \cup 0 .. ioTime']
      /\ ioUnpublished' \in [Disks -> Nat]
      /\ DOMAIN activity' = Disks
    BY <1>1, <1>2, <1>3, <1>4
<1>8. \A d \in Disks : previousStats'[d] = Unknown <=> sampledAt'[d] = Unknown
  <2> SUFFICES ASSUME NEW d \in Disks PROVE previousStats'[d] = Unknown <=> sampledAt'[d] = Unknown
      OBVIOUS
  <2>1. CASE d \in parsed
      BY <2>1, <1>1, <1>2, <1>3 DEF Unknown
  <2>2. CASE d \notin parsed
      BY <2>2, <1>1, <1>2 DEF IoInv
  <2> QED
      BY <2>1, <2>2
<1> QED
    BY <1>2, <1>5, <1>6, <1>7, <1>8 DEF IoInv

LEMMA IoInvStep == IoInv /\ [IoNext]_ioVars => IoInv'
<1> SUFFICES ASSUME IoInv, [IoNext]_ioVars PROVE IoInv'
    OBVIOUS
<1>1. CASE Transfer
    BY <1>1, TransferStep
<1>2. CASE \E d \in Disks : RemoveDevice(d)
    BY <1>2 DEF RemoveDevice, IoInv, SinceSample
<1>3. CASE \E d \in Disks : Add(d)
    BY <1>3, AddStep
<1>4. CASE IOStats
    BY <1>4, IOStatsStep
<1>5. CASE UNCHANGED ioVars
    BY <1>5 DEF ioVars, IoInv, SinceSample
<1> QED
    BY <1>1, <1>2, <1>3, <1>4, <1>5 DEF IoNext

\* cgroup.cpp:398-429 and 525-591: nothing is counted twice, lost or above what the
\* limit allowed, for any devices, limit and lines.
THEOREM IoNeverLost == IoSpec => []IoAccounted
<1>1. IoInv => IoAccounted
  <2> SUFFICES ASSUME IoInv, NEW d \in Disks
               PROVE  /\ ioUnpublished[d] >= 0
                      /\ readded = 0 /\ previousStats[d] # Unknown =>
                            ioUnpublished[d] = io[d] - previousStats[d]
                      /\ activity[d].recorded => activity[d].delta <= Limit * activity[d].span
      BY DEF IoAccounted
  <2>1. ioUnpublished[d] >= 0
      BY DEF IoInv
  <2>2. ASSUME readded = 0, previousStats[d] # Unknown
        PROVE  ioUnpublished[d] = io[d] - previousStats[d]
      BY <2>2 DEF IoInv, SinceSample
  <2> QED
      BY <2>1, <2>2 DEF IoInv
<1> QED
    BY <1>1, IoInvInit, IoInvStep, PTL DEF IoSpec

IoActivity == {NoActivity} \cup [recorded : {TRUE}, delta : Int, allowed : Nat \ {0}, span : Nat]

LEMMA IoTypesStep == IoInv /\ IoTypeOK /\ [IoNext]_ioVars => IoTypeOK'
<1> SUFFICES ASSUME IoInv, IoTypeOK, [IoNext]_ioVars PROVE IoTypeOK'
    OBVIOUS
<1>1. IoInv'
    BY IoInvStep
<1>2. /\ ioTime' \in Nat /\ readded' \in Nat
      /\ io' \in [Disks -> Nat]
      /\ listed' \subseteq Disks
      /\ previousStats' \in [Disks -> Nat \cup {Unknown}]
      /\ sampledAt' \in [Disks -> {Unknown} \cup 0 .. ioTime']
      /\ ioUnpublished' \in [Disks -> Int]
    BY <1>1 DEF IoInv
<1>3. activity' \in [Disks -> IoActivity]
  <2>1. activity \in [Disks -> IoActivity]
      BY DEF IoTypeOK, IoActivity
  <2>2. CASE IOStats
    <3>1. PICK idle \in SUBSET listed, malformed \in SUBSET listed, limits \in BOOLEAN :
             activity' = [d \in Disks |-> IF d \in ParseIOLines(idle, malformed)
                                          THEN UpdateActivity(d, limits) ELSE activity[d]]
        BY <2>2 DEF IOStats
    <3>2. ASSUME NEW d \in Disks PROVE UpdateActivity(d, limits) \in IoActivity
      <4>1. CASE previousStats[d] # Unknown /\ limits
        <5>1. /\ previousStats[d] \in Nat /\ io[d] \in Nat /\ ioTime \in Nat
              /\ sampledAt[d] \in 0 .. ioTime
            BY <4>1 DEF IoInv
        <5>2. Delta(d) \in Int /\ ioTime - sampledAt[d] \in Nat
            BY <5>1 DEF Delta
        <5>3. Limit * Interval \in Nat \ {0}
          <6>1. ASSUME NEW a \in Nat \ {0}, NEW b \in Nat \ {0} PROVE a * b \in Nat \ {0}
              OBVIOUS
          <6> QED
              BY <6>1, IoAssumption
        <5>4. UpdateActivity(d, limits) =
                 [recorded |-> TRUE, delta |-> Delta(d), allowed |-> Limit * Interval,
                  span |-> ioTime - sampledAt[d]]
            BY <4>1 DEF UpdateActivity
        <5> QED
            BY <5>2, <5>3, <5>4 DEF IoActivity
      <4>2. CASE ~(previousStats[d] # Unknown /\ limits)
          BY <2>1, <4>2 DEF UpdateActivity
      <4> QED
          BY <4>1, <4>2
    <3> QED
        BY <2>1, <3>1, <3>2
  <2>3. CASE ~IOStats
    <3>1. activity' = activity
        BY <2>3 DEF IoNext, Transfer, RemoveDevice, Add, ioVars
    <3> QED
        BY <2>1, <3>1
  <2> QED
      BY <2>2, <2>3
<1> QED
    BY <1>2, <1>3 DEF IoTypeOK, IoActivity

LEMMA IoTypesInit == IoInit => IoTypeOK
    BY DEF IoInit, IoTypeOK

\* The time between the samples of an activity is not negative, and what the limit
\* allows in an interval is not 0.
LEMMA IoTypes == IoSpec => []IoTypeOK
<1>1. IoInit => IoInv /\ IoTypeOK
    BY IoInvInit, IoTypesInit
<1>2. IoInv /\ IoTypeOK /\ [IoNext]_ioVars => IoInv' /\ IoTypeOK'
    BY IoInvStep, IoTypesStep
<1> QED
    BY <1>1, <1>2, PTL DEF IoSpec
=============================================================================
