------------------------ MODULE ServiceMonitorProofs ------------------------
(***************************************************************************)
(* Proofs about the service monitor, for all listings of systemd, limits,  *)
(* numbers of cores, times and restarts: what is enrolled, what a cycle    *)
(* that succeeds has sampled, and that each counter of each service is     *)
(* sampled as TrackedCounter says.                                         *)
(***************************************************************************)
EXTENDS ServiceMonitor, DataInduction

(***************************************************************************)
(* The loop of init_monitored_services: the lists after each unit.         *)
(***************************************************************************)
Enrolling(list, units, after) ==
    after = [n \in 0 .. Len(units) |->
               IF n = 0 THEN list
               ELSE IF units[n] \in Matching /\ Len(after[n - 1]) < maxMonitoredServices
                    THEN Append(after[n - 1], units[n])
                    ELSE after[n - 1]]

LEMMA LoopRuns ==
  ASSUME NEW list, NEW units \in Seq(Units)
  PROVE  \E after : Enrolling(list, units, after) /\ Enroll(list, units) = after[Len(units)]
<1> DEFINE One(g, n) == IF n = 0 THEN list
                        ELSE IF units[n] \in Matching /\ Len(g[n - 1]) < maxMonitoredServices
                             THEN Append(g[n - 1], units[n])
                             ELSE g[n - 1]
           Upto(n, g) == g = [i \in 0 .. n |-> One(g, i)]
           T == {n \in Nat : \E g : Upto(n, g)}
<1>1. 0 \in T
  <2>1. Upto(0, [i \in 0 .. 0 |-> list])
    OBVIOUS
  <2> QED
    BY <2>1
<1>2. ASSUME NEW n \in Nat, n \in T PROVE n + 1 \in T
  <2>1. PICK g : Upto(n, g)
    BY <1>2
  <2> DEFINE h == [i \in 0 .. n + 1 |-> One(g, i)]
  <2>2. ASSUME NEW i \in 0 .. n + 1, i # 0 PROVE h[i - 1] = g[i - 1]
    <3>1. i - 1 \in 0 .. n /\ i - 1 \in 0 .. n + 1
      BY <2>2
    <3>2. g[i - 1] = One(g, i - 1)
      <4> HIDE DEF One
      <4> QED
      BY <2>1, <3>1
    <3>3. h[i - 1] = One(g, i - 1)
      <4> HIDE DEF One
      <4> QED
      BY <3>1
    <3> QED
      BY <3>2, <3>3, Zenon
  <2>3. ASSUME NEW i \in 0 .. n + 1 PROVE One(g, i) = One(h, i)
    <3> HIDE DEF h
    <3> QED
      BY <2>2
  <2>4. Upto(n + 1, h)
    <3> HIDE DEF One
    <3> QED
      BY <2>3
  <2>5. \E k : Upto(n + 1, k)
    <3> HIDE DEF h, Upto
    <3> QED
      BY <2>4
  <2> HIDE DEF Upto
  <2> QED
    BY <2>5
<1>3. Nat \subseteq T
  <2> HIDE DEF T
  <2> QED
    BY <1>1, <1>2, NaturalsIn
<1>4. \E g : Upto(Len(units), g)
  <2>1. Len(units) \in T
    <3> HIDE DEF T
    <3> QED
      BY <1>3
  <2> HIDE DEF Upto
  <2> QED
    BY <2>1
<1> DEFINE after == CHOOSE g : Enrolling(list, units, g)
<1>5. Enrolling(list, units, after)
  BY <1>4 DEF Enrolling
<1>6. Enroll(list, units) = after[Len(units)]
  BY DEF Enroll, Enrolling
<1> QED
  BY <1>5, <1>6

LEMMA Limit == maxMonitoredServices \in Nat
  BY MonitorAssumption DEF MonitorAssumption, maxMonitoredServices

\* The matching units among the first n.
MatchesTo(units, n) == {j \in 1 .. n : units[j] \in Matching}

LEMMA MatchesCount ==
  ASSUME NEW units, NEW n \in Nat
  PROVE  /\ Cardinality(MatchesTo(units, n)) \in Nat
         /\ Cardinality(MatchesTo(units, n + 1)) =
               Cardinality(MatchesTo(units, n)) + (IF units[n + 1] \in Matching THEN 1 ELSE 0)
         /\ Cardinality(MatchesTo(units, 0)) = 0
<1>1. IsFiniteSet(MatchesTo(units, n))
  <2>1. IsFiniteSet(1 .. n)
    BY FS_Interval
  <2>2. MatchesTo(units, n) \in SUBSET (1 .. n)
    BY DEF MatchesTo
  <2> QED
    BY <2>1, <2>2, FS_Subset
<1>2. MatchesTo(units, n + 1) = IF units[n + 1] \in Matching
                                THEN MatchesTo(units, n) \cup {n + 1} ELSE MatchesTo(units, n)
  BY DEF MatchesTo
<1>3. n + 1 \notin MatchesTo(units, n)
  BY DEF MatchesTo
<1>4. MatchesTo(units, 0) = {}
  BY DEF MatchesTo
<1>5. Cardinality(MatchesTo(units, n)) \in Nat
  BY <1>1, FS_CardinalityType
<1>6. Cardinality(MatchesTo(units, n) \cup {n + 1}) = Cardinality(MatchesTo(units, n)) + 1
  BY <1>1, <1>3, FS_AddElement
<1>7. Cardinality(MatchesTo(units, 0)) = 0
  BY <1>4, FS_EmptySet
<1> QED
  BY <1>2, <1>5, <1>6, <1>7

\* A list stays one of matching units within the limit.
LEMMA EnrollTyped ==
  ASSUME NEW list \in Seq(Matching), Len(list) <= maxMonitoredServices,
         NEW units \in Seq(Units)
  PROVE  /\ Enroll(list, units) \in Seq(Matching)
         /\ Len(Enroll(list, units)) <= maxMonitoredServices
<1>1. PICK after : Enrolling(list, units, after) /\ Enroll(list, units) = after[Len(units)]
  BY LoopRuns
<1> DEFINE Kept(n) == after[n] \in Seq(Matching) /\ Len(after[n]) <= maxMonitoredServices
           T == {n \in Nat : n <= Len(units) => Kept(n)}
<1>2. 0 \in T
  BY <1>1 DEF Enrolling
<1>3. ASSUME NEW n \in Nat, n \in T PROVE n + 1 \in T
  <2>1. SUFFICES ASSUME n + 1 <= Len(units) PROVE Kept(n + 1)
    OBVIOUS
  <2>2. Kept(n)
    BY <1>3, <2>1
  <2>3. after[n + 1] = IF units[n + 1] \in Matching /\ Len(after[n]) < maxMonitoredServices
                       THEN Append(after[n], units[n + 1]) ELSE after[n]
    <3>1. n + 1 \in 0 .. Len(units) /\ n + 1 # 0 /\ (n + 1) - 1 = n
      BY <2>1
    <3> QED
      BY <1>1, <3>1 DEF Enrolling
  <2> QED
    BY <2>2, <2>3, Limit
<1>4. Nat \subseteq T
  <2> HIDE DEF T
  <2> QED
    BY <1>2, <1>3, NaturalsIn
<1> QED
  BY <1>1, <1>4

(***************************************************************************)
(* The loop over units that each occur once, from an empty list: it ends   *)
(* with the first matching ones, each once, up to the limit.               *)
(***************************************************************************)
FirstMatches(list, units, n) ==
    /\ list \in Seq(Matching)
    /\ Len(list) <= maxMonitoredServices
    /\ Len(list) < maxMonitoredServices => Len(list) = Cardinality(MatchesTo(units, n))
    /\ Cardinality(MatchesTo(units, n)) >= Len(list)
    /\ IsInjective(list)
    /\ \A i \in DOMAIN list : \E j \in 1 .. n : list[i] = units[j]
    /\ \A j \in 1 .. n : units[j] \in Range(list) <=>
          units[j] \in Matching /\ Cardinality(MatchesTo(units, j - 1)) < maxMonitoredServices

LEMMA EnrollOneUnit ==
  ASSUME NEW units \in Seq(Units), IsInjective(units), NEW n \in Nat, n + 1 <= Len(units),
         NEW list, FirstMatches(list, units, n)
  PROVE  FirstMatches(IF units[n + 1] \in Matching /\ Len(list) < maxMonitoredServices
                      THEN Append(list, units[n + 1]) ELSE list, units, n + 1)
<1> DEFINE u == units[n + 1]
           before == Cardinality(MatchesTo(units, n))
<1>1. before \in Nat
  BY MatchesCount
<1>2. Cardinality(MatchesTo(units, n + 1)) = before + (IF u \in Matching THEN 1 ELSE 0)
  BY MatchesCount
<1>3. \A j \in 1 .. n : units[j] # u
  <2>1. n + 1 \in DOMAIN units /\ \A j \in 1 .. n : j \in DOMAIN units /\ j # n + 1
    OBVIOUS
  <2> QED
    BY <2>1 DEF IsInjective
<1>4. u \notin Range(list)
  BY <1>3 DEF FirstMatches, Range
<1>5. list \in Seq(Matching) /\ Len(list) \in Nat /\ maxMonitoredServices \in Nat
  BY Limit DEF FirstMatches
<1>6. Len(list) <= maxMonitoredServices
      /\ (Len(list) < maxMonitoredServices => Len(list) = before) /\ before >= Len(list)
  BY DEF FirstMatches
<1>7. CASE u \in Matching /\ Len(list) < maxMonitoredServices
  <2> DEFINE more == Append(list, u)
  <2>1. /\ more \in Seq(Matching) /\ Len(more) = Len(list) + 1
        /\ DOMAIN more = 1 .. Len(list) + 1
        /\ more[Len(list) + 1] = u
        /\ DOMAIN list = 1 .. Len(list)
        /\ \A i \in 1 .. Len(list) : more[i] = list[i]
    BY <1>5, <1>7
  <2> HIDE DEF more, u
  <2>2. IsInjective(more)
    <3>1. \A i \in 1 .. Len(list) : more[i] # u
      BY <1>4, <2>1 DEF Range
    <3>2. \A i, j \in 1 .. Len(list) : more[i] = more[j] => i = j
      BY <2>1 DEF FirstMatches, IsInjective
    <3> QED
      BY <1>5, <2>1, <3>1, <3>2 DEF IsInjective
  <2>3. Range(more) = Range(list) \cup {u}
    BY <1>5, <2>1 DEF Range
  <2>4. \A i \in DOMAIN more : \E j \in 1 .. n + 1 : more[i] = units[j]
    <3>1. \A i \in 1 .. Len(list) : \E j \in 1 .. n : more[i] = units[j]
      BY <2>1 DEF FirstMatches
    <3> QED
      BY <1>5, <2>1, <3>1 DEF u
  <2>5. \A j \in 1 .. n + 1 : units[j] \in Range(more) <=>
          units[j] \in Matching /\ Cardinality(MatchesTo(units, j - 1)) < maxMonitoredServices
    <3>1. \A j \in 1 .. n : units[j] \in Range(more) <=> units[j] \in Range(list)
      BY <1>3, <2>3
    <3>2. \A j \in 1 .. n : units[j] \in Range(more) <=>
          units[j] \in Matching /\ Cardinality(MatchesTo(units, j - 1)) < maxMonitoredServices
      BY <3>1 DEF FirstMatches
    <3>3. u \in Range(more) /\ u \in Matching /\ before < maxMonitoredServices
      BY <1>6, <1>7, <2>3
    <3>4. (n + 1) - 1 = n
      OBVIOUS
    <3>5. \A j \in 1 .. n + 1 : j \in 1 .. n \/ j = n + 1
      OBVIOUS
    <3> QED
      BY <3>2, <3>3, <3>4, <3>5 DEF u
  <2>6. Len(more) <= maxMonitoredServices
        /\ Cardinality(MatchesTo(units, n + 1)) = Len(more)
    BY <1>1, <1>2, <1>5, <1>6, <1>7, <2>1
  <2>7. FirstMatches(more, units, n + 1)
    BY <1>1, <1>5, <2>1, <2>2, <2>4, <2>5, <2>6 DEF FirstMatches
  <2> QED
    BY <1>7, <2>7 DEF more, u
<1>8. CASE ~(u \in Matching /\ Len(list) < maxMonitoredServices)
  <2>1. \A j \in 1 .. n + 1 : units[j] \in Range(list) <=>
          units[j] \in Matching /\ Cardinality(MatchesTo(units, j - 1)) < maxMonitoredServices
    <3>1. \A j \in 1 .. n : units[j] \in Range(list) <=>
          units[j] \in Matching /\ Cardinality(MatchesTo(units, j - 1)) < maxMonitoredServices
      BY DEF FirstMatches
    <3>2. ~(u \in Matching /\ before < maxMonitoredServices)
      BY <1>1, <1>5, <1>6, <1>8
    <3>4. (n + 1) - 1 = n
      OBVIOUS
    <3>5. \A j \in 1 .. n + 1 : j \in 1 .. n \/ j = n + 1
      OBVIOUS
    <3> QED
      BY <1>4, <3>1, <3>2, <3>4, <3>5
  <2>2. \A i \in DOMAIN list : \E j \in 1 .. n + 1 : list[i] = units[j]
    <3>1. 1 .. n \subseteq 1 .. n + 1
      OBVIOUS
    <3> QED
      BY <3>1 DEF FirstMatches
  <2>3. Cardinality(MatchesTo(units, n + 1)) >= Len(list)
        /\ (Len(list) < maxMonitoredServices => Len(list) = Cardinality(MatchesTo(units, n + 1)))
    BY <1>1, <1>2, <1>5, <1>6, <1>8
  <2>4. FirstMatches(list, units, n + 1)
    <3>1. IsInjective(list)
      BY DEF FirstMatches
    <3> QED
      BY <1>5, <1>6, <2>1, <2>2, <2>3, <3>1 DEF FirstMatches
  <2> QED
    BY <1>8, <2>4
<1> QED
  BY <1>7, <1>8

LEMMA EnrollsFirstMatches ==
  ASSUME NEW units \in Seq(Units), IsInjective(units)
  PROVE  FirstMatches(Enroll(<<>>, units), units, Len(units))
<1>1. PICK after : Enrolling(<<>>, units, after) /\ Enroll(<<>>, units) = after[Len(units)]
  BY LoopRuns
<1> DEFINE T == {n \in Nat : n <= Len(units) => FirstMatches(after[n], units, n)}
<1>2. 0 \in T
  <2>1. after[0] = <<>>
    BY <1>1 DEF Enrolling
  <2>2. FirstMatches(<<>>, units, 0)
    <3>1. Len(<<>>) = 0 /\ DOMAIN <<>> = {} /\ <<>> \in Seq(Matching)
      OBVIOUS
    <3> QED
      BY <3>1, MatchesCount, Limit DEF FirstMatches, IsInjective
  <2> QED
    BY <2>1, <2>2
<1>3. ASSUME NEW n \in Nat, n \in T PROVE n + 1 \in T
  <2>1. SUFFICES ASSUME n + 1 <= Len(units) PROVE FirstMatches(after[n + 1], units, n + 1)
    OBVIOUS
  <2>2. FirstMatches(after[n], units, n)
    BY <1>3, <2>1
  <2>3. after[n + 1] = IF units[n + 1] \in Matching /\ Len(after[n]) < maxMonitoredServices
                       THEN Append(after[n], units[n + 1]) ELSE after[n]
    <3>1. n + 1 \in 0 .. Len(units) /\ n + 1 # 0 /\ (n + 1) - 1 = n
      BY <2>1
    <3> QED
      BY <1>1, <3>1 DEF Enrolling
  <2>4. FirstMatches(IF units[n + 1] \in Matching /\ Len(after[n]) < maxMonitoredServices
                     THEN Append(after[n], units[n + 1]) ELSE after[n], units, n + 1)
    BY <2>1, <2>2, EnrollOneUnit
  <2> QED
    BY <2>3, <2>4
<1>4. Nat \subseteq T
  <2> HIDE DEF T
  <2> QED
    BY <1>2, <1>3, NaturalsIn
<1> QED
  BY <1>1, <1>4

-----------------------------------------------------------------------------
(* Types. *)

UnitState == [running : BOOLEAN, generation : Nat, cpu : Nat, used : Nat]
Tracker == [valid : BOOLEAN, id : Nat \cup {RootPath}, counter : Nat, at : 0 .. time]
PCs == {"idle", "begin", "pid", "active", "sub", "group", "process", "cgroup"}
InCycle == pc \notin {"idle", "begin"}

\* The histories are tables of a record for each counter.
IsTable(f) == f = [s \in Units |-> [c \in Scopes |-> f[s][c]]]
Tables == IsTable(base) /\ IsTable(gauge)

Typed == TypeOK /\ Tables /\ Len(monitored) <= maxMonitoredServices

PropsTyped ==
    /\ mainPid \in Nat \cup {NoPid}
    /\ activeRunning \in BOOLEAN
    /\ controlGroup \in {CgroupPath, RootPath}

LEMMA PropsTypedInit == Init => PropsTyped
  BY DEF Init, PropsTyped

LEMMA InitTyped == Init => Typed
<1> SUFFICES ASSUME Init PROVE Typed
  OBVIOUS
<1>1. unit \in [Units -> UnitState]
  BY DEF Init, UnitState
<1>2. cpuState \in [Units -> [Scopes -> Tracker]]
  BY DEF Init, Fresh, Tracker
<1>3. monitored \in Seq(Matching) /\ Len(monitored) <= maxMonitoredServices
  BY Limit DEF Init
<1>4. Tables
  BY DEF Init, Tables, IsTable
<1>5. time \in 0 .. MaxTime /\ now \in 0 .. time
  BY MonitorAssumption DEF Init, MonitorAssumption
<1> QED
  BY <1>1, <1>2, <1>3, <1>4, <1>5, PropsTypedInit DEF Init, Typed, TypeOK, UnitState, Tracker

LEMMA ServiceIsUnit ==
  ASSUME Typed, InCycle
  PROVE  next \in DOMAIN monitored /\ Service \in Matching /\ Service \in Units
<1>1. next \in DOMAIN monitored /\ monitored \in Seq(Matching)
  BY DEF Typed, TypeOK, InCycle
<1>2. Service \in Matching
  BY <1>1 DEF Service
<1> QED
  BY <1>1, <1>2, MonitorAssumption DEF MonitorAssumption

\* What moves on to the next service, or ends the cycle.
LEMMA NextServiceTyped ==
  ASSUME Typed, InCycle, NextService
  PROVE  /\ pc' \in PCs
         /\ result' \in {"none", "ok", "failed"}
         /\ pc' \notin {"idle", "begin"} => next' \in DOMAIN monitored
         /\ PropsTyped'
<1>1. PropsTyped'
  BY DEF NextService, ForgetProps, PropsTyped
<1>2. success' = success' /\ next \in DOMAIN monitored /\ DOMAIN monitored = 1 .. Len(monitored)
      /\ Len(monitored) \in Nat
  BY ServiceIsUnit DEF Typed, TypeOK
<1> QED
  BY <1>1, <1>2 DEF NextService, Typed, TypeOK, PCs

LEMMA CollectedTyped ==
  ASSUME Typed, InCycle, Collected
  PROVE  /\ pc' \in PCs
         /\ result' \in {"none", "ok", "failed"}
         /\ pc' \notin {"idle", "begin"} => next' \in DOMAIN monitored
         /\ PropsTyped'
<1>1. CASE pc = "process"
  <2>1. PropsTyped /\ UNCHANGED props
    BY <1>1 DEF Collected, Typed, TypeOK, PropsTyped
  <2>2. PropsTyped'
    BY <2>1 DEF props, PropsTyped
  <2> QED
    BY <1>1, <2>2, ServiceIsUnit DEF Collected, Typed, TypeOK, PCs
<1>2. CASE pc # "process"
  BY <1>2, NextServiceTyped DEF Collected
<1> QED
  BY <1>1, <1>2

\* A step of the monitor that leaves the units and the list alone.
LEMMA CycleTyped ==
  ASSUME Typed, UNCHANGED <<env, enrolled, samples>>,
         pc' \in PCs, pc' \notin {"idle", "begin"} => next' \in DOMAIN monitored,
         PropsTyped', now' \in 0 .. time, success' \in BOOLEAN,
         result' \in {"none", "ok", "failed"}, skipped' \subseteq Units
  PROVE  Typed'
  BY DEF Typed, TypeOK, Tables, PropsTyped, env, enrolled, samples, PCs

\* A table in which one entry has changed.
LEMMA EntryChanged ==
  ASSUME NEW f, IsTable(f), NEW s \in Units, NEW c \in Scopes, NEW v,
         NEW t \in Units, NEW d \in Scopes
  PROVE  [f EXCEPT ![s][c] = v][t][d] = IF t = s /\ d = c THEN v ELSE f[t][d]
  BY DEF IsTable

LEMMA StillTable ==
  ASSUME NEW f, IsTable(f), NEW s \in Units, NEW c \in Scopes, NEW v
  PROVE  IsTable([f EXCEPT ![s][c] = v])
<1> DEFINE g == [f EXCEPT ![s][c] = v]
<1>1. g = [t \in Units |-> IF t = s THEN [f[s] EXCEPT ![c] = v] ELSE f[t]]
  BY DEF IsTable
<1>2. \A t \in Units : f[t] = [d \in Scopes |-> f[t][d]]
  BY DEF IsTable
<1>3. [f[s] EXCEPT ![c] = v] = [d \in Scopes |-> IF d = c THEN v ELSE f[s][d]]
  BY <1>2
<1>4. \A t \in Units : g[t] = [d \in Scopes |-> g[t][d]]
  <2>1. SUFFICES ASSUME NEW t \in Units PROVE g[t] = [d \in Scopes |-> g[t][d]]
    OBVIOUS
  <2>2. CASE t = s
    <3>1. g[t] = [d \in Scopes |-> IF d = c THEN v ELSE f[s][d]]
      BY <1>1, <1>3, <2>2
    <3> QED
      BY <3>1
  <2>3. CASE t # s
    <3>1. g[t] = f[t]
      BY <1>1, <2>3
    <3> QED
      BY <1>2, <3>1
  <2> QED
    BY <2>2, <2>3
<1> QED
  BY <1>1, <1>4 DEF IsTable

LEMMA UpdateTrackerTyped ==
  ASSUME Typed, InCycle, pc \in {"process", "cgroup"}, Readable, UpdateTracker
  PROVE  cpuState' \in [Units -> [Scopes -> Tracker]] /\ Tables'
<1> DEFINE s == Service
           c == ScopeAt
<1>1. s \in Units /\ c \in Scopes
  BY ServiceIsUnit DEF ScopeAt, Scopes
<1>2. Rebase(cpuState[s][c], Identity, CounterRead, now) \in Tracker
  <2>1. CounterRead \in Nat /\ unit[s].generation \in Nat
    BY <1>1 DEF Typed, TypeOK, CounterRead
  <2>2. Identity \in Nat \cup {RootPath}
    BY <2>1 DEF Identity, Readable, OfRoot, CgroupPath, Typed, TypeOK
  <2>3. now \in 0 .. time
    BY DEF Typed, TypeOK
  <2> QED
    BY <2>1, <2>2, <2>3 DEF Rebase, Tracker
<1>3. cpuState' = [cpuState EXCEPT ![s][c] = Rebase(cpuState[s][c], Identity, CounterRead, now)]
  BY DEF UpdateTracker
<1>4. cpuState \in [Units -> [Scopes -> Tracker]]
  BY DEF Typed, TypeOK, Tracker
<1>5. cpuState' \in [Units -> [Scopes -> Tracker]]
  <2> HIDE DEF s, c
  <2> QED
    BY <1>1, <1>2, <1>3, <1>4
<1>6. Tables'
  <2>1. PICK b : base' = [base EXCEPT ![s][c] = b]
    BY DEF UpdateTracker
  <2>2. PICK g : gauge' = [gauge EXCEPT ![s][c] = g]
    BY DEF UpdateTracker
  <2>3. IsTable(base) /\ IsTable(gauge)
    BY DEF Typed, Tables
  <2> HIDE DEF s, c
  <2>4. ASSUME NEW t \in Units, NEW d \in Scopes, NEW v PROVE IsTable([base EXCEPT ![t][d] = v])
    BY <2>3, StillTable
  <2>5. ASSUME NEW t \in Units, NEW d \in Scopes, NEW v PROVE IsTable([gauge EXCEPT ![t][d] = v])
    BY <2>3, StillTable
  <2>6. IsTable(base') /\ IsTable(gauge')
    BY <1>1, <2>1, <2>2, <2>4, <2>5
  <2> QED
    BY <2>6 DEF Tables, IsTable
<1> QED
  BY <1>5, <1>6

\* A unit that uses CPU time.
LEMMA CpuUsed ==
  ASSUME NEW u \in UnitState, NEW c \in Nat
  PROVE  LET more == [u EXCEPT !.cpu = @ + c, !.used = @ + c]
         IN  /\ more \in UnitState
             /\ more.cpu = u.cpu + c /\ more.used = u.used + c
             /\ more.running = u.running /\ more.generation = u.generation
<1>1. u.cpu + c \in Nat /\ u.used + c \in Nat
  BY DEF UnitState
<1>2. ASSUME NEW a \in Nat, NEW b \in Nat
      PROVE  LET more == [u EXCEPT !.cpu = a, !.used = b]
             IN  /\ more \in UnitState
                 /\ more.cpu = a /\ more.used = b
                 /\ more.running = u.running /\ more.generation = u.generation
  BY DEF UnitState
<1> QED
  BY <1>1, <1>2

(***************************************************************************)
(* Every step keeps the types.                                             *)
(***************************************************************************)
LEMMA StepTyped == Typed /\ [Next]_vars => Typed'
<1> SUFFICES ASSUME Typed, [Next]_vars PROVE Typed'
  OBVIOUS
<1>0. /\ time \in 0 .. MaxTime /\ time \in Nat /\ MaxTime \in Nat /\ now \in 0 .. time
      /\ unit \in [Units -> UnitState]
      /\ cpuState \in [Units -> [Scopes -> Tracker]]
      /\ success \in BOOLEAN /\ skipped \subseteq Units /\ PropsTyped /\ machine \in Nat
      /\ pc \in PCs /\ result \in {"none", "ok", "failed"}
      /\ InCycle => next \in DOMAIN monitored
  BY MonitorAssumption
  DEF Typed, TypeOK, PropsTyped, UnitState, Tracker, PCs, InCycle, MonitorAssumption
<1>00. UNCHANGED props => PropsTyped'
  BY <1>0 DEF props, PropsTyped
<1>1. CASE Tick
  <2>0. time' = time + 1 /\ time < MaxTime /\ now' = now
    BY <1>1 DEF Tick, cycle
  <2>1. time' \in 0 .. MaxTime /\ now' \in 0 .. time' /\ 0 .. time \subseteq 0 .. time'
    BY <1>0, <2>0
  <2>2. unit' \in [Units -> UnitState] /\ machine' \in Nat
    <3>0. PICK m \in 0 .. Cores : \E c \in [Active -> 0 .. m] :
            /\ machine' = machine + m
            /\ unit' = [s \in Units |->
                          IF s \in Active /\ unit[s].running
                          THEN [unit[s] EXCEPT !.cpu = @ + c[s], !.used = @ + c[s]]
                          ELSE unit[s]]
      BY <1>1 DEF Tick
    <3>1. PICK c \in [Active -> 0 .. m] :
            /\ machine' = machine + m
            /\ unit' = [s \in Units |->
                          IF s \in Active /\ unit[s].running
                          THEN [unit[s] EXCEPT !.cpu = @ + c[s], !.used = @ + c[s]]
                          ELSE unit[s]]
      BY <3>0
    <3>4. m \in Nat
      BY MonitorAssumption DEF MonitorAssumption
    <3>2. \A s \in Active : c[s] \in Nat
      BY <3>4
    <3>3. ASSUME NEW s \in Units, s \in Active
          PROVE  [unit[s] EXCEPT !.cpu = @ + c[s], !.used = @ + c[s]] \in UnitState
      <4>1. unit[s] \in UnitState /\ c[s] \in Nat
        BY <1>0, <3>2, <3>3
      <4> QED
        BY <4>1, CpuUsed
    <3>5. \A s \in Units : (IF s \in Active /\ unit[s].running
                           THEN [unit[s] EXCEPT !.cpu = @ + c[s], !.used = @ + c[s]]
                           ELSE unit[s]) \in UnitState
      BY <1>0, <3>3
    <3>6. unit' \in [Units -> UnitState]
      BY <3>1, <3>5
    <3>8. machine' = machine + m
      BY <3>1, Zenon
    <3>7. machine' \in Nat
      BY <1>0, <3>8, <3>4
    <3> QED
      BY <3>6, <3>7
  <2>3. cpuState' \in [Units -> [Scopes -> Tracker']]
    <3>1. cpuState' = cpuState
      BY <1>1 DEF Tick, samples
    <3>2. Tracker \subseteq Tracker'
      BY <2>1 DEF Tracker
    <3> QED
      BY <1>0, <3>1, <3>2
  <2> QED
    BY <1>1, <2>1, <2>2, <2>3
    DEF Tick, enrolled, samples, cycle, props, Typed, TypeOK, Tables, UnitState, Tracker
<1>2. CASE \E s \in Active : Stop(s) \/ Start(s)
  <2>1. PICK s \in Active : Stop(s) \/ Start(s)
    BY <1>2
  <2>2. s \in Units
    BY MonitorAssumption DEF MonitorAssumption
  <2>3. unit' \in [Units -> UnitState]
    <3>1. CASE Stop(s)
      BY <1>0, <2>2, <3>1 DEF Stop, UnitState
    <3>2. CASE Start(s)
      BY <1>0, <2>2, <3>2 DEF Start, UnitState
    <3> QED
      BY <2>1, <3>1, <3>2
  <2>4. UNCHANGED <<time, machine, enrolled, samples, cycle>>
    BY <2>1 DEF Stop, Start
  <2> QED
    BY <2>3, <2>4 DEF enrolled, samples, cycle, props, Typed, TypeOK, Tables, UnitState
<1>3. CASE InitFails
  <2>1. UNCHANGED <<env, enrolled, samples, pc, next, props, now, success, skipped>>
        /\ result' = "failed"
    BY <1>3 DEF InitFails
  <2> QED
    BY <1>0, <1>00, <2>1, CycleTyped DEF InCycle
<1>4. CASE InitThrows
  <2>1. monitored \in Seq(Matching) /\ Len(monitored) <= maxMonitoredServices
    BY DEF Typed, TypeOK
  <2>2. PICK listing \in Listings : \E n \in 0 .. Len(listing) - 1 :
          monitored' = Enroll(monitored, SubSeq(listing, 1, n))
    BY <1>4 DEF InitThrows
  <2>3. PICK n \in 0 .. Len(listing) - 1 : monitored' = Enroll(monitored, SubSeq(listing, 1, n))
    BY <2>2
  <2>4. listing \in Seq(Units)
    BY MonitorAssumption DEF MonitorAssumption
  <2>5. SubSeq(listing, 1, n) \in Seq(Units)
    BY <2>3, <2>4
  <2>6. monitored' \in Seq(Matching) /\ Len(monitored') <= maxMonitoredServices
    BY <2>1, <2>3, <2>5, EnrollTyped
  <2>7. pc' = "idle" /\ interrupted' = TRUE /\ result' = "failed"
        /\ UNCHANGED <<env, initSuccess, listed, samples, next, props, now, success, skipped>>
    BY <1>4 DEF InitThrows
  <2> QED
    BY <2>6, <2>7 DEF Typed, TypeOK, Tables, env, samples, props
<1>5. CASE InitSucceeds
  <2>1. monitored \in Seq(Matching) /\ Len(monitored) <= maxMonitoredServices
    BY DEF Typed, TypeOK
  <2>2. listed' \in Listings /\ monitored' = Enroll(monitored, listed')
    BY <1>5 DEF InitSucceeds
  <2>3. listed' \in Seq(Units)
    BY <2>2, MonitorAssumption DEF MonitorAssumption
  <2>4. monitored' \in Seq(Matching) /\ Len(monitored') <= maxMonitoredServices
    BY <2>1, <2>2, <2>3, EnrollTyped
  <2>5. pc' = "begin" /\ initSuccess' = TRUE
        /\ UNCHANGED <<env, samples, interrupted, next, props, now, success, result, skipped>>
    BY <1>5 DEF InitSucceeds
  <2> QED
    BY <2>2, <2>4, <2>5 DEF Typed, TypeOK, Tables, env, samples, props
<1>6. CASE BeginCycle
  <2>1. monitored \in Seq(Matching) /\ monitored # <<>>
    BY <1>6 DEF BeginCycle, Typed, TypeOK
  <2>2. 1 \in DOMAIN monitored
    BY <2>1
  <2>3. /\ UNCHANGED <<env, enrolled, samples, props, result>>
        /\ now' = time /\ success' = TRUE /\ skipped' = {} /\ next' = 1 /\ pc' = "pid"
    BY <1>6 DEF BeginCycle
  <2> QED
    BY <1>0, <1>00, <2>2, <2>3, CycleTyped DEF PCs
<1>7. CASE NothingToDo
  <2>1. UNCHANGED <<env, enrolled, samples, next, props, now, success, skipped>>
        /\ result' = "ok" /\ pc' = "idle"
    BY <1>7 DEF NothingToDo
  <2> QED
    BY <1>0, <1>00, <2>1, CycleTyped DEF PCs
<1>8. CASE ReadMainPid
  <2>1. pc = "pid" /\ pc' = "active" /\ UNCHANGED <<activeRunning, controlGroup>>
        /\ mainPid' = (IF unit[Service].running THEN unit[Service].generation ELSE NoPid)
        /\ UNCHANGED <<env, enrolled, samples, next, now, success, result, skipped>>
    BY <1>8 DEF ReadMainPid
  <2>2. Service \in Units /\ next \in DOMAIN monitored
    BY <2>1, ServiceIsUnit DEF InCycle
  <2>3. PropsTyped'
    <3>1. mainPid' \in Nat \cup {NoPid}
      BY <1>0, <2>1, <2>2 DEF UnitState
    <3> QED
      BY <1>0, <2>1, <3>1 DEF PropsTyped
  <2> QED
    BY <1>0, <2>1, <2>2, <2>3, CycleTyped DEF PCs, InCycle
<1>9. CASE PropertiesFail
  <2>1. InCycle /\ NextService /\ success' = FALSE
        /\ UNCHANGED <<env, enrolled, samples, now, skipped>>
    BY <1>9 DEF PropertiesFail, InCycle
  <2> QED
    BY <1>0, <2>1, NextServiceTyped, CycleTyped
<1>10. CASE SkipStopped
  <2>1. InCycle /\ NextService /\ skipped' = skipped \cup {Service}
        /\ UNCHANGED <<env, enrolled, samples, now, success>>
    BY <1>10 DEF SkipStopped, InCycle
  <2>2. skipped' \subseteq Units
    BY <1>0, <2>1, ServiceIsUnit
  <2> QED
    BY <1>0, <2>1, <2>2, NextServiceTyped, CycleTyped
<1>11. CASE ReadActiveState \/ ReadSubState \/ ReadControlGroup
  <2>1. /\ InCycle /\ pc' \in {"sub", "group", "process"}
        /\ UNCHANGED <<env, enrolled, samples, next, mainPid, now, success, result, skipped>>
    BY <1>11 DEF ReadActiveState, ReadSubState, ReadControlGroup, InCycle
  <2>2. activeRunning' \in BOOLEAN
    <3>1. Service \in Units
      BY <2>1, ServiceIsUnit
    <3>2. unit[Service].running \in BOOLEAN
      BY <1>0, <3>1 DEF UnitState
    <3>3. CASE ReadActiveState
      BY <3>2, <3>3 DEF ReadActiveState
    <3>4. CASE ReadSubState
      BY <3>4 DEF ReadSubState
    <3>5. CASE ReadControlGroup
      BY <1>0, <3>5 DEF ReadControlGroup, PropsTyped
    <3> QED
      BY <1>11, <3>3, <3>4, <3>5
  <2>3. controlGroup' \in {CgroupPath, RootPath}
    BY <1>0, <1>11 DEF ReadActiveState, ReadSubState, ReadControlGroup, PropsTyped
  <2>4. PropsTyped'
    BY <1>0, <2>1, <2>2, <2>3 DEF PropsTyped
  <2> QED
    BY <1>0, <2>1, <2>4, CycleTyped DEF PCs, InCycle
<1>12. CASE Collect
  <2>1. InCycle /\ Readable /\ UpdateTracker /\ Collected /\ pc \in {"process", "cgroup"}
        /\ success' \in {success, FALSE}
        /\ UNCHANGED <<env, enrolled, now, skipped>>
    BY <1>12 DEF Collect, InCycle
  <2>2. cpuState' \in [Units -> [Scopes -> Tracker]] /\ Tables'
    BY <2>1, UpdateTrackerTyped
  <2>3. /\ pc' \in PCs
        /\ result' \in {"none", "ok", "failed"}
        /\ pc' \notin {"idle", "begin"} => next' \in DOMAIN monitored
        /\ PropsTyped'
    BY <2>1, CollectedTyped
  <2> QED
    BY <1>0, <2>1, <2>2, <2>3 DEF Typed, TypeOK, PropsTyped, env, enrolled, Tracker, PCs
<1>13. CASE CollectFails
  <2>1. InCycle /\ Collected /\ success' = FALSE
        /\ UNCHANGED <<env, enrolled, samples, now, skipped>>
    BY <1>13 DEF CollectFails, InCycle
  <2> QED
    BY <1>0, <2>1, CollectedTyped, CycleTyped
<1>14. CASE UNCHANGED vars
  BY <1>14 DEF vars, env, enrolled, samples, cycle, props, Typed, TypeOK, Tables
<1> QED
  BY <1>1, <1>2, <1>3, <1>4, <1>5, <1>6, <1>7, <1>8, <1>9, <1>10, <1>11, <1>12, <1>13, <1>14
  DEF Next, Environment, GatherMetrics

LEMMA AlwaysTyped == Spec => []Typed
  BY InitTyped, StepTyped, PTL DEF Spec

(***************************************************************************)
(* For all listings, limits and restarts, the monitor's variables keep     *)
(* their types and the service being read is on the list.                  *)
(***************************************************************************)
THEOREM MonitorTypes == Spec => []TypeOK
<1>1. Typed => TypeOK
  BY DEF Typed
<1> QED
  BY <1>1, AlwaysTyped, PTL

-----------------------------------------------------------------------------
(***************************************************************************)
(* What an initialization that was never interrupted leaves: nothing until *)
(* it succeeds, and then what its loop makes of the listing.               *)
(***************************************************************************)
EnrollInv ==
    ~interrupted =>
        /\ ~initSuccess => monitored = <<>>
        /\ initSuccess => listed \in Listings /\ monitored = Enroll(<<>>, listed)

LEMMA StepEnrolls == EnrollInv /\ [Next]_vars => EnrollInv'
<1> SUFFICES ASSUME EnrollInv, [Next]_vars PROVE EnrollInv'
  OBVIOUS
<1>1. CASE InitThrows
  BY <1>1 DEF InitThrows, EnrollInv
<1>2. CASE InitSucceeds
  BY <1>2 DEF InitSucceeds, EnrollInv
<1>3. CASE UNCHANGED enrolled
  BY <1>3 DEF enrolled, EnrollInv
<1>4. CASE Environment
  BY <1>3, <1>4 DEF Environment, Tick, Stop, Start
<1>5. CASE InitFails \/ BeginCycle \/ NothingToDo
  BY <1>3, <1>5 DEF InitFails, BeginCycle, NothingToDo
<1>6. CASE ReadMainPid \/ ReadActiveState \/ ReadSubState \/ ReadControlGroup
           \/ SkipStopped \/ PropertiesFail
  BY <1>3, <1>6
  DEF ReadMainPid, ReadActiveState, ReadSubState, ReadControlGroup, SkipStopped, PropertiesFail
<1>7. CASE Collect \/ CollectFails
  BY <1>3, <1>7 DEF Collect, CollectFails
<1>8. CASE UNCHANGED vars
  BY <1>3, <1>8 DEF vars
<1> QED
  BY <1>1, <1>2, <1>4, <1>5, <1>6, <1>7, <1>8 DEF Next, GatherMetrics

LEMMA EnrolledAreFirst == Typed /\ EnrollInv => MonitorsFirstMatches
<1> SUFFICES ASSUME Typed, EnrollInv PROVE MonitorsFirstMatches
  OBVIOUS
<1>1. Len(monitored) <= maxMonitoredServices
  BY DEF Typed
<1>2. ASSUME initSuccess, ~interrupted
      PROVE  /\ IsInjective(monitored)
             /\ Range(monitored) \subseteq Range(listed)
             /\ \A i \in DOMAIN listed :
                   listed[i] \in Range(monitored) <=>
                       /\ listed[i] \in Matching
                       /\ Cardinality({j \in 1 .. i - 1 : listed[j] \in Matching})
                             < maxMonitoredServices
  <2>1. listed \in Seq(Units) /\ IsInjective(listed) /\ monitored = Enroll(<<>>, listed)
    BY <1>2, MonitorAssumption DEF EnrollInv, MonitorAssumption
  <2>2. FirstMatches(monitored, listed, Len(listed))
    BY <2>1, EnrollsFirstMatches
  <2>3. DOMAIN listed = 1 .. Len(listed)
    BY <2>1
  <2>4. Range(monitored) \subseteq Range(listed)
    BY <2>2, <2>3 DEF FirstMatches, Range
  <2>5. \A i \in DOMAIN listed :
          listed[i] \in Range(monitored) <=>
              listed[i] \in Matching
              /\ Cardinality(MatchesTo(listed, i - 1)) < maxMonitoredServices
    BY <2>2, <2>3 DEF FirstMatches
  <2> QED
    BY <2>2, <2>4, <2>5 DEF FirstMatches, MatchesTo
<1> QED
  BY <1>1, <1>2 DEF MonitorsFirstMatches

(***************************************************************************)
(* For every listing and limit, an initialization that no exception        *)
(* interrupted has enrolled exactly the first matching units, in order and *)
(* each once, and an interrupted one keeps within the limit, too.          *)
(***************************************************************************)
THEOREM FirstMatchesMonitored == Spec => []MonitorsFirstMatches
<1>1. Init => EnrollInv
  BY DEF Init, EnrollInv
<1> QED
  BY <1>1, StepEnrolls, AlwaysTyped, EnrolledAreFirst, PTL DEF Spec

-----------------------------------------------------------------------------
(***************************************************************************)
(* A control group that is empty is of a unit that stopped after its main  *)
(* PID was read: that process is gone for good, so its counter is not read *)
(* and the cycle has failed before the root cgroup's is.                   *)
(***************************************************************************)
Gone ==
    /\ pc \in {"active", "sub", "group", "process"} => mainPid <= unit[Service].generation
    /\ pc = "process" /\ controlGroup = RootPath =>
          ~(unit[Service].running /\ unit[Service].generation = mainPid)
    /\ pc = "cgroup" /\ controlGroup = RootPath => success = FALSE

\* Generations only rise, and a unit that starts is of a new one.
LEMMA UnitsGoOn ==
  ASSUME Typed, Environment, NEW s \in Units
  PROVE  \/ /\ unit'[s].generation = unit[s].generation
            /\ unit'[s].running => unit[s].running
         \/ unit'[s].generation = unit[s].generation + 1
<1>1. unit \in [Units -> UnitState] /\ Active \subseteq Units
  BY MonitorAssumption DEF Typed, TypeOK, UnitState, MonitorAssumption
<1>2. CASE Tick
  <2>1. PICK d : unit' = [t \in Units |->
                   IF t \in Active /\ unit[t].running
                   THEN [unit[t] EXCEPT !.cpu = @ + d[t], !.used = @ + d[t]]
                   ELSE unit[t]]
    BY <1>2 DEF Tick
  <2>2. unit[s] \in UnitState
    BY <1>1
  <2>3. \A a, b : /\ [unit[s] EXCEPT !.cpu = a, !.used = b].generation = unit[s].generation
                  /\ [unit[s] EXCEPT !.cpu = a, !.used = b].running = unit[s].running
    BY <2>2 DEF UnitState
  <2> QED
    BY <2>1, <2>3
<1>3. CASE \E t \in Active : Stop(t) \/ Start(t)
  <2>1. PICK t \in Active : Stop(t) \/ Start(t)
    BY <1>3
  <2>2. CASE Stop(t)
    BY <1>1, <2>2 DEF Stop, UnitState
  <2>3. CASE Start(t)
    BY <1>1, <2>3 DEF Start, UnitState
  <2> QED
    BY <2>1, <2>2, <2>3
<1> QED
  BY <1>2, <1>3 DEF Environment

LEMMA StepGone == Typed /\ Gone /\ [Next]_vars => Gone'
<1> SUFFICES ASSUME Typed, Gone, [Next]_vars PROVE Gone'
  OBVIOUS
<1>0. InCycle => /\ Service \in Units /\ unit[Service].generation \in Nat
                 /\ mainPid \in Nat \cup {NoPid}
  BY ServiceIsUnit DEF Typed, TypeOK
<1>1. CASE Environment
  <2>1. UNCHANGED <<pc, next, monitored, mainPid, controlGroup, success>>
    BY <1>1 DEF Environment, Tick, Stop, Start, enrolled, cycle, props
  <2>2. CASE InCycle
    <3>1. PICK s \in Units : s = Service
      BY <1>0, <2>2
    <3>2. Service' = s
      BY <2>1, <3>1 DEF Service
    <3>3. \/ /\ unit'[s].generation = unit[s].generation
             /\ unit'[s].running => unit[s].running
          \/ unit'[s].generation = unit[s].generation + 1
      BY <1>1, UnitsGoOn
    <3>4. (unit[Service])' = unit'[s]
      BY <3>2
    <3>5. /\ unit[s].generation \in Nat /\ mainPid \in Nat \cup {NoPid}
          /\ pc \in {"active", "sub", "group", "process"} => mainPid <= unit[s].generation
          /\ pc = "process" /\ controlGroup = RootPath =>
                ~(unit[s].running /\ unit[s].generation = mainPid)
      BY <1>0, <2>2, <3>1 DEF Gone
    <3>6. pc \in {"active", "sub", "group", "process"} => mainPid <= unit'[s].generation
      BY <3>3, <3>5 DEF NoPid
    <3>7. pc = "process" /\ controlGroup = RootPath =>
             ~(unit'[s].running /\ unit'[s].generation = mainPid)
      BY <3>3, <3>5 DEF NoPid
    <3> QED
      BY <2>1, <3>4, <3>6, <3>7 DEF Gone
  <2>3. CASE ~InCycle
    BY <2>1, <2>3 DEF InCycle, Gone
  <2> QED
    BY <2>2, <2>3
<1>2. CASE UNCHANGED vars
  BY <1>2 DEF vars, env, enrolled, cycle, props, Gone, Service
<1>3. CASE InitFails \/ InitThrows \/ InitSucceeds \/ BeginCycle \/ NothingToDo
  <2>1. pc' \in {"idle", "begin", "pid"}
    BY <1>3 DEF InitFails, InitThrows, InitSucceeds, BeginCycle, NothingToDo
  <2> QED
    BY <2>1 DEF Gone
<1>4. CASE SkipStopped \/ PropertiesFail
  <2>1. pc' \in {"pid", "idle"}
    BY <1>4 DEF SkipStopped, PropertiesFail, NextService
  <2> QED
    BY <2>1 DEF Gone
<1>5. CASE ReadMainPid
  <2>1. /\ pc' = "active" /\ InCycle /\ UNCHANGED <<unit, monitored, next>>
        /\ mainPid' = IF unit[Service].running THEN unit[Service].generation ELSE NoPid
    BY <1>5 DEF ReadMainPid, InCycle, env, enrolled
  <2>2. (unit[Service])' = unit[Service]
    BY <2>1 DEF Service
  <2>3. mainPid' <= unit[Service].generation
    BY <1>0, <2>1 DEF NoPid
  <2> QED
    BY <2>1, <2>2, <2>3 DEF Gone
<1>6. CASE ReadActiveState \/ ReadSubState
  <2>1. /\ pc \in {"active", "sub"} /\ pc' \in {"sub", "group"}
        /\ UNCHANGED <<unit, monitored, next, mainPid>>
    BY <1>6 DEF ReadActiveState, ReadSubState, env, enrolled
  <2>2. (unit[Service])' = unit[Service]
    BY <2>1 DEF Service
  <2> QED
    BY <2>1, <2>2 DEF Gone
<1>7. CASE ReadControlGroup
  <2>1. /\ pc = "group" /\ pc' = "process" /\ UNCHANGED <<unit, monitored, next, mainPid>>
        /\ unit[Service].running => controlGroup' = CgroupPath
    BY <1>7 DEF ReadControlGroup, env, enrolled
  <2>2. (unit[Service])' = unit[Service]
    BY <2>1 DEF Service
  <2>3. CgroupPath # RootPath
    BY DEF CgroupPath, RootPath
  <2> QED
    BY <2>1, <2>2, <2>3 DEF Gone
<1>8. CASE Collect
  <2>1. /\ pc \in {"process", "cgroup"} /\ Readable /\ Collected
        /\ success' \in {success, FALSE}
    BY <1>8 DEF Collect
  <2>2. CASE pc = "process"
    <3>1. controlGroup # RootPath
      BY <2>1, <2>2 DEF Readable, OfRoot, Gone
    <3>2. pc' = "cgroup" /\ controlGroup' = controlGroup
      BY <2>1, <2>2 DEF Collected, props
    <3> QED
      BY <3>1, <3>2 DEF Gone
  <2>3. CASE pc = "cgroup"
    <3>1. pc' \in {"pid", "idle"}
      BY <2>1, <2>3 DEF Collected, NextService
    <3> QED
      BY <3>1 DEF Gone
  <2> QED
    BY <2>1, <2>2, <2>3
<1>9. CASE CollectFails
  <2>1. pc' \in {"cgroup", "pid", "idle"} /\ success' = FALSE
    BY <1>9 DEF CollectFails, Collected, NextService
  <2> QED
    BY <2>1 DEF Gone
<1> QED
  BY <1>1, <1>2, <1>3, <1>4, <1>5, <1>6, <1>7, <1>8, <1>9 DEF Next, GatherMetrics

(***************************************************************************)
(* What the cycle has done so far: the services before the one being read  *)
(* are done with, and so is the process of the one whose cgroup is next,   *)
(* unless the cycle has failed; a cycle that reported success is done with *)
(* all of them.                                                            *)
(***************************************************************************)
OfCycle(s, c) ==
    cpuState[s][c].valid /\ cpuState[s][c].at = now /\ cpuState[s][c].id # RootPath
Done(s) == s \in skipped \/ \A c \in Scopes : OfCycle(s, c)
DoneBefore(n) == \A i \in 1 .. n - 1 : Done(monitored[i])
CycleInv ==
    /\ InCycle /\ success =>
         /\ DoneBefore(next)
         /\ pc = "cgroup" => OfCycle(Service, "process")
    /\ pc = "idle" /\ result = "ok" => DoneBefore(Len(monitored) + 1)

\* A step that neither samples nor begins a cycle leaves what is done done.
LEMMA StaysDone ==
  ASSUME UNCHANGED <<monitored, cpuState, now>>, skipped \subseteq skipped'
  PROVE  \A i : Done(monitored[i]) => Done(monitored[i])'
  BY DEF Done, OfCycle

\* After the last read of a service the next one is read, or the cycle ends.
LEMMA NextServiceDone ==
  ASSUME Typed, InCycle, NextService, monitored' = monitored,
         NEW n, n = next,
         success' => /\ \A i \in 1 .. n - 1 : Done(monitored[i])'
                     /\ Done(monitored[n])'
  PROVE  CycleInv'
<1>1. n \in 1 .. Len(monitored) /\ Len(monitored) \in Nat
  BY ServiceIsUnit DEF Typed, TypeOK
<1>2. success' => DoneBefore(n + 1)'
  <2>1. \A i \in 1 .. (n + 1) - 1 : i \in 1 .. n - 1 \/ i = n
    BY <1>1
  <2> QED
    BY <2>1 DEF DoneBefore
<1>3. CASE next < Len(monitored)
  <2>1. pc' = "pid" /\ next' = n + 1
    <3>1. ~(next >= Len(monitored))
      BY <1>1, <1>3
    <3> QED
      BY <3>1 DEF NextService
  <2> QED
    BY <1>2, <2>1 DEF CycleInv, InCycle
<1>4. CASE ~(next < Len(monitored))
  <2>1. pc' = "idle" /\ result' = (IF success' THEN "ok" ELSE "failed")
    BY <1>4 DEF NextService
  <2>2. n = Len(monitored')
    BY <1>1, <1>4
  <2> QED
    BY <1>2, <2>1, <2>2 DEF CycleInv, InCycle
<1> QED
  BY <1>3, <1>4

\* A sample of its own counter makes it one of this cycle and disturbs no other.
LEMMA SampleOfCycle ==
  ASSUME Typed, InCycle, pc \in {"process", "cgroup"}, Readable, ~OfRoot, UpdateTracker,
         now' = now
  PROVE  \A s \in Units, c \in Scopes :
            OfCycle(s, c) \/ (s = Service /\ c = ScopeAt) => OfCycle(s, c)'
<1>1. Service \in Units /\ ScopeAt \in Scopes
  BY ServiceIsUnit DEF ScopeAt, Scopes
<1>2. cpuState \in [Units -> [Scopes -> Tracker]]
  BY DEF Typed, TypeOK, Tracker
<1>3. PICK t : /\ t.valid /\ t.at = now /\ t.id = Identity
               /\ cpuState' = [cpuState EXCEPT ![Service][ScopeAt] = t]
  BY DEF UpdateTracker, Rebase
<1>4. cpuState'[Service][ScopeAt] = t
  BY <1>1, <1>2, <1>3
<1>5. ASSUME NEW s \in Units, NEW c \in Scopes
      PROVE  cpuState'[s][c] = cpuState[s][c] \/ cpuState'[s][c] = t
  BY <1>1, <1>2, <1>3
<1>6. t.id # RootPath
  <2>1. CASE pc = "process"
    <3>1. Identity = unit[Service].generation
      BY <2>1 DEF Identity, Readable, OfRoot
    <3>2. unit[Service].generation \in Nat
      BY <1>1 DEF Typed, TypeOK
    <3> QED
      BY <1>3, <3>1, <3>2 DEF RootPath
  <2>2. CASE pc = "cgroup"
    BY <1>3, <2>2 DEF Identity, OfRoot
  <2> QED
    BY <2>1, <2>2
<1> QED
  BY <1>3, <1>4, <1>5, <1>6 DEF OfCycle

LEMMA StepCycles == Typed /\ Gone /\ CycleInv /\ [Next]_vars => CycleInv'
<1> SUFFICES ASSUME Typed, Gone, CycleInv, [Next]_vars PROVE CycleInv'
  OBVIOUS
<1>0. ASSUME UNCHANGED <<enrolled, samples, cycle>> PROVE CycleInv'
  BY <1>0 DEF enrolled, samples, cycle, CycleInv, InCycle, DoneBefore, Done, OfCycle, Service
<1>1. CASE Environment
  BY <1>0, <1>1 DEF Environment, Tick, Stop, Start
<1>2. CASE UNCHANGED vars
  BY <1>0, <1>2 DEF vars
<1>3. CASE InitFails \/ InitThrows \/ InitSucceeds
  <2>1. (pc' = "idle" /\ result' = "failed") \/ pc' = "begin"
    BY <1>3 DEF InitFails, InitThrows, InitSucceeds
  <2> QED
    BY <2>1 DEF CycleInv, InCycle
<1>4. CASE BeginCycle
  <2>1. pc' = "pid" /\ next' = 1
    BY <1>4 DEF BeginCycle
  <2> QED
    BY <2>1 DEF CycleInv, InCycle, DoneBefore
<1>5. CASE NothingToDo
  <2>1. pc' = "idle" /\ Len(monitored') = 0
    BY <1>5 DEF NothingToDo, enrolled
  <2> QED
    BY <2>1 DEF CycleInv, InCycle, DoneBefore
<1>6. CASE ReadMainPid \/ ReadActiveState \/ ReadSubState \/ ReadControlGroup
  <2>1. /\ InCycle /\ pc' \in {"active", "sub", "group", "process"}
        /\ UNCHANGED <<enrolled, samples, next, now, success, skipped>>
    BY <1>6 DEF ReadMainPid, ReadActiveState, ReadSubState, ReadControlGroup, InCycle
  <2> QED
    BY <2>1 DEF enrolled, samples, CycleInv, InCycle, DoneBefore, Done, OfCycle
<1>7. CASE PropertiesFail
  <2>1. InCycle /\ NextService /\ success' = FALSE /\ monitored' = monitored
    BY <1>7 DEF PropertiesFail, InCycle, enrolled
  <2> QED
    BY <2>1, NextServiceDone
<1>8. CASE SkipStopped
  <2>1. /\ InCycle /\ NextService /\ skipped' = skipped \cup {Service}
        /\ UNCHANGED <<monitored, cpuState, now, success>>
    BY <1>8 DEF SkipStopped, InCycle, enrolled, samples
  <2>2. \A i : Done(monitored[i]) => Done(monitored[i])'
    BY <2>1, StaysDone
  <2>3. success => \A i \in 1 .. next - 1 : Done(monitored[i])
    BY <2>1 DEF CycleInv, DoneBefore
  <2>4. ASSUME NEW n, n = next PROVE Done(monitored[n])'
    BY <2>1, <2>4 DEF Service, Done
  <2>5. ASSUME NEW n, n = next
        PROVE  success' => /\ \A i \in 1 .. n - 1 : Done(monitored[i])'
                           /\ Done(monitored[n])'
    BY <2>1, <2>2, <2>3, <2>4, <2>5
  <2> QED
    BY <2>1, <2>5, NextServiceDone
<1>90. CASE Collect /\ OfRoot
  <2>1. InCycle /\ NextService /\ monitored' = monitored
    BY <1>90 DEF Collect, Collected, OfRoot, InCycle, enrolled
  <2>2. success = FALSE
    BY <1>90 DEF OfRoot, Gone
  <2>3. success' = FALSE
    BY <1>90, <2>2 DEF Collect
  <2> QED
    BY <2>1, <2>3, NextServiceDone
<1>9. CASE Collect /\ ~OfRoot
  <2>1. /\ InCycle /\ pc \in {"process", "cgroup"} /\ Readable /\ UpdateTracker /\ Collected
        /\ ~OfRoot /\ UNCHANGED <<monitored, now, skipped>>
    BY <1>9 DEF Collect, InCycle, enrolled
  <2>0. success' => success
    <3>1. success' = success \/ success' = FALSE
      BY <1>9 DEF Collect
    <3> QED
      BY <3>1, Zenon
  <2>2. \A s \in Units, c \in Scopes :
           OfCycle(s, c) \/ (s = Service /\ c = ScopeAt) => OfCycle(s, c)'
    BY <2>1, SampleOfCycle
  <2>3. next \in DOMAIN monitored /\ Service \in Units /\ DOMAIN monitored = 1 .. Len(monitored)
        /\ next \in Nat /\ \A i \in DOMAIN monitored : monitored[i] \in Units
    <3>1. monitored \in Seq(Matching) /\ Matching \subseteq Units
      BY MonitorAssumption DEF Typed, TypeOK, MonitorAssumption
    <3> QED
      BY <2>1, <3>1, ServiceIsUnit
  <2>4. success => \A i \in 1 .. next - 1 : Done(monitored[i])'
    <3>1. success => \A i \in 1 .. next - 1 : Done(monitored[i])
      BY <2>1 DEF CycleInv, DoneBefore
    <3>2. \A i \in 1 .. next - 1 : i \in DOMAIN monitored
      BY <2>3
    <3> QED
      BY <2>1, <2>2, <2>3, <3>1, <3>2 DEF Done
  <2>5. CASE pc = "process"
    <3>1. pc' = "cgroup" /\ next' = next
      BY <2>1, <2>5 DEF Collected
    <3>2. Service' = Service
      BY <2>1, <3>1 DEF Service
    <3>3. OfCycle(Service, "process")'
      BY <2>2, <2>3, <2>5, <3>2 DEF ScopeAt, Scopes
    <3> QED
      BY <2>0, <2>1, <2>4, <3>1, <3>3 DEF CycleInv, InCycle, DoneBefore
  <2>6. CASE pc = "cgroup"
    <3>1. NextService
      BY <2>1, <2>6 DEF Collected
    <3>2. success => OfCycle(Service, "process")
      BY <2>1, <2>6 DEF CycleInv
    <3>3. success => \A c \in Scopes : OfCycle(Service, c) \/ c = ScopeAt
      BY <2>6, <3>2 DEF Scopes, ScopeAt
    <3>4. ASSUME NEW s, s = Service, success PROVE Done(s)'
      BY <2>2, <2>3, <3>3, <3>4 DEF Done
    <3>5. ASSUME NEW n, n = next
          PROVE  success' => /\ \A i \in 1 .. n - 1 : Done(monitored[i])'
                             /\ Done(monitored[n])'
      BY <2>0, <2>1, <2>4, <3>4, <3>5 DEF Service
    <3> QED
      BY <2>1, <3>1, <3>5, NextServiceDone
  <2> QED
    BY <2>1, <2>5, <2>6
<1>10. CASE CollectFails
  <2>1. /\ InCycle /\ pc \in {"process", "cgroup"} /\ Collected /\ success' = FALSE
        /\ monitored' = monitored
    BY <1>10 DEF CollectFails, InCycle, enrolled
  <2>2. CASE pc = "process"
    BY <2>1, <2>2 DEF Collected, CycleInv, InCycle
  <2>3. CASE pc = "cgroup"
    BY <2>1, <2>3, NextServiceDone DEF Collected
  <2> QED
    BY <2>1, <2>2, <2>3
<1> QED
  BY <1>1, <1>2, <1>3, <1>4, <1>5, <1>6, <1>7, <1>8, <1>9, <1>90, <1>10
  DEF Next, GatherMetrics

(***************************************************************************)
(* For all listings, restarts and failures, a cycle that reports success   *)
(* has left no monitored service out: each was seen not running, or both   *)
(* its baselines are of this cycle and of its own counters, wherever       *)
(* between the reads of its properties it stopped.                         *)
(***************************************************************************)
THEOREM SuccessIsComplete == Spec => []SuccessMeansSampled
<1>1. Init => CycleInv /\ Gone
  BY DEF Init, CycleInv, Gone, InCycle
<1>2. Typed /\ CycleInv => SuccessMeansSampled
  <2> SUFFICES ASSUME Typed, CycleInv, pc = "idle", result = "ok",
                      NEW s \in Range(monitored) \ skipped, NEW c \in Scopes
               PROVE  OfCycle(s, c)
    BY DEF SuccessMeansSampled, OfCycle
  <2>1. PICK i \in DOMAIN monitored : monitored[i] = s
    BY DEF Range
  <2>2. i \in 1 .. (Len(monitored) + 1) - 1
    BY <2>1 DEF Typed, TypeOK
  <2> QED
    BY <2>1, <2>2 DEF CycleInv, DoneBefore, Done
<1> QED
  BY <1>1, <1>2, StepGone, StepCycles, AlwaysTyped, PTL DEF Spec

-----------------------------------------------------------------------------
(***************************************************************************)
(* The refinement: a step of the monitor or of its units is, for each      *)
(* counter of each service, a step of TrackedCounter or none of its steps. *)
(***************************************************************************)
CounterSteps(s, c) == [Counter(s, c)!Next]_(Counter(s, c)!vars)

LEMMA CountersStart ==
  ASSUME Init, NEW s \in Units, NEW c \in Scopes
  PROVE  Counter(s, c)!Init
  BY DEF Init, Counter!Init, Counter!Fresh, Fresh, Nothing, Counter!Nothing, CgroupPath

\* Nothing the counters see changes but the clock of the cycle, if that.
LEMMA CounterStutters ==
  ASSUME UNCHANGED <<env, samples>>, now' \in {now, time}, NEW s \in Units, NEW c \in Scopes
  PROVE  CounterSteps(s, c)
<1>1. CASE now' = now
  BY <1>1 DEF env, samples, CounterSteps, Counter!vars, Counter!service
<1>2. CASE now' = time
  <2>1. Counter(s, c)!StartCycle
    BY <1>2 DEF env, samples, Counter!StartCycle, Counter!service
  <2> QED
    BY <2>1 DEF CounterSteps, Counter!Next
<1> QED
  BY <1>1, <1>2

\* Time passes for every counter, and those of the running units advance.
LEMMA CounterTicks ==
  ASSUME Typed, Tick, NEW s \in Units, NEW c \in Scopes
  PROVE  CounterSteps(s, c)
<1>0. PICK m \in 0 .. Cores : \E d \in [Active -> 0 .. m] :
        /\ machine' = machine + m
        /\ unit' = [t \in Units |->
                      IF t \in Active /\ unit[t].running
                      THEN [unit[t] EXCEPT !.cpu = @ + d[t], !.used = @ + d[t]]
                      ELSE unit[t]]
  BY DEF Tick
<1>1. PICK d \in [Active -> 0 .. m] :
        /\ machine' = machine + m
        /\ unit' = [t \in Units |->
                      IF t \in Active /\ unit[t].running
                      THEN [unit[t] EXCEPT !.cpu = @ + d[t], !.used = @ + d[t]]
                      ELSE unit[t]]
  BY <1>0
<1>2. unit[s] \in UnitState /\ m \in Nat
  BY MonitorAssumption DEF Typed, TypeOK, UnitState, MonitorAssumption
<1>3. \E e \in 0 .. m : /\ unit'[s].cpu = unit[s].cpu + e
                            /\ unit'[s].used = unit[s].used + e
                            /\ unit'[s].generation = unit[s].generation
  <2>1. CASE s \in Active /\ unit[s].running
    <3>1. d[s] \in 0 .. m /\ d[s] \in Nat
      BY <1>2, <2>1
    <3>2. unit'[s] = [unit[s] EXCEPT !.cpu = @ + d[s], !.used = @ + d[s]]
      BY <1>1, <2>1
    <3>3. \A e \in Nat : /\ [unit[s] EXCEPT !.cpu = @ + e, !.used = @ + e].cpu = unit[s].cpu + e
                         /\ [unit[s] EXCEPT !.cpu = @ + e, !.used = @ + e].used = unit[s].used + e
                         /\ [unit[s] EXCEPT !.cpu = @ + e, !.used = @ + e].generation
                              = unit[s].generation
      BY <1>2, CpuUsed
    <3> QED
      BY <3>1, <3>2, <3>3
  <2>2. CASE ~(s \in Active /\ unit[s].running)
    <3>1. unit'[s] = unit[s]
      BY <1>1, <2>2
    <3>2. unit[s].cpu + 0 = unit[s].cpu /\ unit[s].used + 0 = unit[s].used
      BY <1>2 DEF UnitState
    <3> QED
      BY <1>2, <3>1, <3>2
  <2> QED
    BY <2>1, <2>2
<1>4. /\ time < MaxTime /\ time' = time + 1
      /\ UNCHANGED <<now, cpuState, base, gauge>>
  BY DEF Tick, samples, cycle
<1>5. Counter(s, c)!Tick
  BY <1>0, <1>1, <1>3, <1>4 DEF Counter!Tick
<1> QED
  BY <1>5 DEF CounterSteps, Counter!Next

\* A unit stops, which its counters do not show, or starts again.
LEMMA CounterRestarts ==
  ASSUME Typed, NEW t \in Units, Stop(t) \/ Start(t), NEW s \in Units, NEW c \in Scopes
  PROVE  CounterSteps(s, c)
<1>1. unit \in [Units -> UnitState]
  BY DEF Typed, TypeOK, UnitState
<1>2. UNCHANGED <<time, machine, now, cpuState, base, gauge>>
  BY DEF Stop, Start, samples, cycle
<1>3. CASE Start(t) /\ s = t
  <2>1. Counter(s, c)!Restart
    BY <1>1, <1>2, <1>3 DEF Start, UnitState, Counter!Restart, CgroupPath
  <2> QED
    BY <2>1 DEF CounterSteps, Counter!Next
<1>4. CASE Stop(t) \/ s # t
  <2>1. /\ unit'[s].generation = unit[s].generation
        /\ unit'[s].cpu = unit[s].cpu
        /\ unit'[s].used = unit[s].used
    BY <1>1, <1>4 DEF Stop, Start, UnitState
  <2> QED
    BY <1>2, <2>1 DEF CounterSteps, Counter!vars, Counter!service
<1> QED
  BY <1>3, <1>4

\* One counter is sampled, under its own identity, and the others are not.
LEMMA CounterSampled ==
  ASSUME Typed, Collect, NEW s \in Units, NEW c \in Scopes
  PROVE  CounterSteps(s, c)
<1>1. /\ InCycle /\ pc \in {"process", "cgroup"} /\ Readable /\ UpdateTracker
      /\ UNCHANGED <<time, unit, machine, now>>
  BY DEF Collect, InCycle, env
<1>2. Service \in Units /\ ScopeAt \in Scopes
  BY <1>1, ServiceIsUnit DEF ScopeAt, Scopes
<1>3. IsTable(cpuState) /\ IsTable(base) /\ IsTable(gauge)
  BY DEF Typed, TypeOK, Tables, IsTable
<1> DEFINE u == unit[Service]
           t == cpuState[Service][ScopeAt]
           b == base[Service][ScopeAt]
           g == IF Publishes(t, Identity, CounterRead, now)
                THEN [published |-> TRUE,
                      own |-> ~OfRoot,
                      cpu |-> Rate(t, CounterRead, now).cpu,
                      wall |-> Rate(t, CounterRead, now).wall,
                      lag |-> time - now,
                      used |-> u.used - b.used,
                      oneGeneration |-> b.generation = u.generation]
                ELSE Nothing
           tNext == Rebase(t, Identity, CounterRead, now)
           bNext == [generation |-> u.generation, used |-> u.used]
<1>4. /\ gauge' = [gauge EXCEPT ![Service][ScopeAt] = g]
      /\ cpuState' = [cpuState EXCEPT ![Service][ScopeAt] = tNext]
      /\ base' = [base EXCEPT ![Service][ScopeAt] = bNext]
  BY <1>1 DEF UpdateTracker
<1> DEFINE hit == s = Service /\ c = ScopeAt
<1>5. /\ gauge'[s][c] = IF hit THEN g ELSE gauge[s][c]
      /\ cpuState'[s][c] = IF hit THEN tNext ELSE cpuState[s][c]
      /\ base'[s][c] = IF hit THEN bNext ELSE base[s][c]
  <2> HIDE DEF g, tNext, bNext
  <2>1. gauge'[s][c] = IF hit THEN g ELSE gauge[s][c]
    <3>1. ASSUME NEW q \in Units, NEW d \in Scopes, NEW x
          PROVE  [gauge EXCEPT ![q][d] = x][s][c] = IF s = q /\ c = d THEN x ELSE gauge[s][c]
      BY <1>3, EntryChanged
    <3> QED
      BY <1>2, <1>4, <3>1
  <2>2. cpuState'[s][c] = IF hit THEN tNext ELSE cpuState[s][c]
    <3>1. ASSUME NEW q \in Units, NEW d \in Scopes, NEW x
          PROVE  [cpuState EXCEPT ![q][d] = x][s][c] = IF s = q /\ c = d THEN x ELSE cpuState[s][c]
      BY <1>3, EntryChanged
    <3> QED
      BY <1>2, <1>4, <3>1
  <2>3. base'[s][c] = IF hit THEN bNext ELSE base[s][c]
    <3>1. ASSUME NEW q \in Units, NEW d \in Scopes, NEW x
          PROVE  [base EXCEPT ![q][d] = x][s][c] = IF s = q /\ c = d THEN x ELSE base[s][c]
      BY <1>3, EntryChanged
    <3> QED
      BY <1>2, <1>4, <3>1
  <2> QED
    BY <2>1, <2>2, <2>3
<1>6. CASE hit
  <2>1. gauge'[s][c] = g /\ cpuState'[s][c] = tNext /\ base'[s][c] = bNext
    <3> HIDE DEF g, tNext, bNext
    <3> QED
      BY <1>5, <1>6
  <2>3. u = unit[s] /\ t = cpuState[s][c] /\ b = base[s][c]
    BY <1>6
  <2>2. CASE ~OfRoot
    <3>1. /\ Identity = IF c = "process" THEN unit[s].generation ELSE CgroupPath
          /\ CounterRead = unit[s].cpu
      BY <1>1, <1>6, <2>2 DEF Identity, Readable, CounterRead, OfRoot, ScopeAt, Typed, TypeOK
    <3>2. ~OfRoot <=> Identity # RootPath
      <4>1. unit[s].generation \in Nat /\ s \in Units
        BY DEF Typed, TypeOK
      <4> QED
        BY <2>2, <3>1, <4>1 DEF RootPath, CgroupPath
    <3>3. Counter(s, c)!Sample
      BY <1>1, <2>1, <2>3, <3>1, <3>2
      DEF Counter!Sample, Counter!SampleAs, Counter!service, Counter!Publishes, Publishes,
          Counter!Rate, Rate, Counter!Rebase, Rebase, Counter!Nothing, Nothing,
          Counter!RootPath, RootPath
    <3> QED
      BY <3>3 DEF CounterSteps, Counter!Next
  <2>4. CASE OfRoot
    <3>1. Identity = RootPath /\ CounterRead = machine /\ c # "process"
      BY <1>6, <2>4 DEF Identity, CounterRead, OfRoot, ScopeAt
    <3>2. ~OfRoot <=> Identity # RootPath
      BY <2>4, <3>1
    <3>3. Counter(s, c)!SampleRoot
      BY <1>1, <2>1, <2>3, <3>1, <3>2
      DEF Counter!SampleRoot, Counter!SampleAs, Counter!service, Counter!Publishes, Publishes,
          Counter!Rate, Rate, Counter!Rebase, Rebase, Counter!Nothing, Nothing,
          Counter!RootPath, RootPath
    <3> QED
      BY <3>3 DEF CounterSteps, Counter!Next
  <2> QED
    BY <2>2, <2>4
<1>7. CASE ~hit
  <2>1. UNCHANGED <<gauge[s][c], cpuState[s][c], base[s][c]>>
    <3> HIDE DEF g, tNext, bNext
    <3> QED
      BY <1>5, <1>7
  <2> QED
    BY <1>1, <2>1 DEF CounterSteps, Counter!vars, Counter!service
<1> QED
  BY <1>6, <1>7

\* Every step, for every counter.
LEMMA CountersStep ==
  ASSUME Typed, [Next]_vars, NEW s \in Units, NEW c \in Scopes
  PROVE  CounterSteps(s, c)
<1>1. CASE Tick
  BY <1>1, CounterTicks
<1>2. CASE \E t \in Active : Stop(t) \/ Start(t)
  <2>1. Active \subseteq Units
    BY MonitorAssumption DEF MonitorAssumption
  <2> QED
    BY <1>2, <2>1, CounterRestarts
<1>3. CASE InitFails \/ InitThrows \/ InitSucceeds \/ NothingToDo
  <2>1. UNCHANGED <<env, samples, now>>
    BY <1>3 DEF InitFails, InitThrows, InitSucceeds, NothingToDo
  <2> QED
    BY <2>1, CounterStutters
<1>4. CASE BeginCycle
  <2>1. UNCHANGED <<env, samples>> /\ now' = time
    BY <1>4 DEF BeginCycle
  <2> QED
    BY <2>1, CounterStutters
<1>5. CASE ReadMainPid \/ ReadActiveState \/ ReadSubState \/ ReadControlGroup
           \/ SkipStopped \/ PropertiesFail \/ CollectFails
  <2>1. UNCHANGED <<env, samples, now>>
    BY <1>5 DEF ReadMainPid, ReadActiveState, ReadSubState, ReadControlGroup, SkipStopped,
                PropertiesFail, CollectFails
  <2> QED
    BY <2>1, CounterStutters
<1>6. CASE Collect
  BY <1>6, CounterSampled
<1>7. CASE UNCHANGED vars
  <2>1. UNCHANGED <<env, samples, now>>
    BY <1>7 DEF vars, cycle
  <2> QED
    BY <2>1, CounterStutters
<1> QED
  BY <1>1, <1>2, <1>3, <1>4, <1>5, <1>6, <1>7 DEF Next, Environment, GatherMetrics

(***************************************************************************)
(* The refinement: for all units, numbers of cores, times and restarts,    *)
(* each counter of each service starts as TrackedCounter says and every    *)
(* step of the monitor and of its units is one of its steps or leaves it   *)
(* alone.  A main process is sampled under its own generation's identity   *)
(* and the root cgroup under the empty path, although a unit's PID, its    *)
(* two states, its control group and its counters are read one after       *)
(* another.                                                                *)
(***************************************************************************)
THEOREM MonitorImplementsTrackedCounters == Spec => ImplementsTrackedCounters
<1>1. Init => \A s \in Units, c \in Scopes : Counter(s, c)!Init
  BY CountersStart
<1>2. Typed /\ [Next]_vars =>
        \A s \in Units, c \in Scopes : [Counter(s, c)!Next]_(Counter(s, c)!vars)
  BY CountersStep DEF CounterSteps
<1> QED
  BY <1>1, <1>2, AlwaysTyped, PTL DEF Spec, ImplementsTrackedCounters
=============================================================================
