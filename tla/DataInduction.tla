--------------------------- MODULE DataInduction ----------------------------
(***************************************************************************)
(* Induction over numbers and finite sets for the proofs about loops, sums *)
(* and largest elements.  An induction principle with a predicate as its   *)
(* parameter cannot be applied by the provers at hand, so that these have  *)
(* the set of what satisfies it; they rest on the well-foundedness of the  *)
(* strict subsets of a finite set, of the library.                         *)
(***************************************************************************)
EXTENDS Sums, Sequences, FiniteSets, FiniteSetTheorems, WellFoundedInduction, TLAPS

(***************************************************************************)
(* Of some subsets of a finite set, one has none of the others in it.      *)
(***************************************************************************)
LEMMA MinimalSet ==
  ASSUME NEW S, IsFiniteSet(S), NEW U, U \subseteq SUBSET S, U # {}
  PROVE  \E T \in U : \A V \in U : V \subseteq T => V = T
<1> DEFINE R == StrictSubsetOrdering(S)
<1>1. IsWellFoundedOn(R, FiniteSubsetsOf(S))
  BY FS_StrictSubsetOrderingWellFounded
<1>2. U \subseteq FiniteSubsetsOf(S)
  BY FS_Subset DEF FiniteSubsetsOf
<1>3. PICK T \in U : \A V \in U : <<V, T>> \notin R
  <2> HIDE DEF R
  <2> QED
    BY <1>1, <1>2, WFMin
<1>4. \A V \in U : V \subseteq T => V = T
  BY <1>3 DEF StrictSubsetOrdering
<1> QED
  BY <1>4

(***************************************************************************)
(* A set with 0 and with the successor of each number it has has them all. *)
(***************************************************************************)
LEMMA NaturalsIn ==
  ASSUME NEW T, 0 \in T, \A n \in Nat : n \in T => n + 1 \in T
  PROVE  Nat \subseteq T
<1> SUFFICES ASSUME NEW n \in Nat, n \notin T PROVE FALSE
  OBVIOUS
<1> DEFINE S == 0 .. n
           U == {0 .. k : k \in S \ T}
<1>1. IsFiniteSet(S)
  BY FS_Interval
<1>2. U \subseteq SUBSET S /\ U # {}
  OBVIOUS
<1>3. PICK I \in U : \A V \in U : V \subseteq I => V = I
  <2> HIDE DEF U, S
  <2> QED
    BY <1>1, <1>2, MinimalSet
<1>4. PICK m \in S \ T : I = 0 .. m
  BY <1>3
<1>5. m \in Nat /\ m # 0 /\ m - 1 \in S
  OBVIOUS
<1>6. m - 1 \notin T
  <2>1. m - 1 \in T => (m - 1) + 1 \in T
    BY <1>5
  <2> QED
    BY <2>1, <1>5
<1>7. 0 .. m - 1 \in U
  BY <1>5, <1>6
<1>8. 0 .. m - 1 \subseteq I /\ m \in I /\ m \notin 0 .. m - 1
  BY <1>4, <1>5
<1> HIDE DEF U
<1> QED
  BY <1>3, <1>7, <1>8

(***************************************************************************)
(* Subsets of a finite set that include the empty one, and one with one    *)
(* more element for each, are all of them.                                 *)
(***************************************************************************)
LEMMA SubsetsIn ==
  ASSUME NEW S, IsFiniteSet(S), NEW T,
         {} \in T,
         \A V \in SUBSET S, x \in S : x \notin V /\ V \in T => V \cup {x} \in T
  PROVE  SUBSET S \subseteq T
<1> SUFFICES ASSUME (SUBSET S) \ T # {} PROVE FALSE
  OBVIOUS
<1>1. PICK V \in (SUBSET S) \ T : \A W \in (SUBSET S) \ T : W \subseteq V => W = V
  <2> DEFINE U == (SUBSET S) \ T
  <2>1. U \subseteq SUBSET S /\ U # {}
    OBVIOUS
  <2> HIDE DEF U
  <2>2. \E V \in U : \A W \in U : W \subseteq V => W = V
    BY <2>1, MinimalSet
  <2> QED
    BY <2>2 DEF U
<1>2. PICK x : x \in V
  OBVIOUS
<1>3. V \ {x} \in T
  BY <1>1, <1>2
<1>4. (V \ {x}) \cup {x} \in T
  BY <1>2, <1>3
<1>5. (V \ {x}) \cup {x} = V
  BY <1>2
<1> QED
  BY <1>4, <1>5

(***************************************************************************)
(* A loop over a sequence, written as a recursive function of the position *)
(* in it, has a value of the loop's type at every position.                *)
(***************************************************************************)
Looping(step, base, seq, after) ==
    after = [n \in 0 .. Len(seq) |-> IF n = 0 THEN base ELSE step[<<after[n - 1], seq[n]>>]]

LEMMA LoopOver ==
  ASSUME NEW A, NEW B, NEW step \in [A \X B -> A], NEW base \in A, NEW seq \in Seq(B)
  PROVE  \E after \in [0 .. Len(seq) -> A] : Looping(step, base, seq, after)
<1> DEFINE One(g, n) == IF n = 0 THEN base ELSE step[<<g[n - 1], seq[n]>>]
           Upto(n, g) == g \in [0 .. n -> A] /\ g = [i \in 0 .. n |-> One(g, i)]
           T == {n \in Nat : n <= Len(seq) => \E g : Upto(n, g)}
<1>1. 0 \in T
  <2> DEFINE h == [i \in 0 .. 0 |-> base]
  <2>1. h \in [0 .. 0 -> A] /\ \A i \in 0 .. 0 : One(h, i) = base
    OBVIOUS
  <2>2. h = [i \in 0 .. 0 |-> One(h, i)]
    <3> HIDE DEF One
    <3> QED
      BY <2>1
  <2>3. \E g : Upto(0, g)
    BY <2>1, <2>2
  <2> HIDE DEF Upto
  <2> QED
    BY <2>3
<1>2. ASSUME NEW n \in Nat, n \in T PROVE n + 1 \in T
  <2>1. SUFFICES ASSUME n + 1 <= Len(seq) PROVE \E k : Upto(n + 1, k)
    <3> HIDE DEF Upto
    <3> QED
      OBVIOUS
  <2>2. PICK g : Upto(n, g)
    BY <1>2, <2>1
  <2> DEFINE h == [i \in 0 .. n + 1 |-> One(g, i)]
  <2>3. ASSUME NEW i \in 0 .. n + 1 PROVE One(g, i) \in A
    <3>1. CASE i = 0
      BY <3>1
    <3>2. CASE i # 0
      <4>1. i - 1 \in 0 .. n /\ i \in 1 .. Len(seq)
        BY <2>1, <3>2
      <4>2. g[i - 1] \in A /\ seq[i] \in B
        BY <2>2, <4>1
      <4> QED
        BY <3>2, <4>2
    <3> QED
      BY <3>1, <3>2
  <2>4. h \in [0 .. n + 1 -> A]
    <3> HIDE DEF One
    <3> QED
      BY <2>3
  <2>5. ASSUME NEW i \in 0 .. n + 1, i # 0 PROVE h[i - 1] = g[i - 1]
    <3>1. i - 1 \in 0 .. n /\ i - 1 \in 0 .. n + 1
      BY <2>5
    <3>2. g[i - 1] = One(g, i - 1)
      <4> HIDE DEF One
      <4> QED
        BY <2>2, <3>1
    <3>3. h[i - 1] = One(g, i - 1)
      <4> HIDE DEF One
      <4> QED
        BY <3>1
    <3> QED
      BY <3>2, <3>3, Zenon
  <2>6. ASSUME NEW i \in 0 .. n + 1 PROVE One(g, i) = One(h, i)
    <3> HIDE DEF h
    <3> QED
      BY <2>5
  <2>7. h = [i \in 0 .. n + 1 |-> One(h, i)]
    <3> HIDE DEF One
    <3> QED
      BY <2>6
  <2> HIDE DEF h, One
  <2> QED
    BY <2>4, <2>7
<1>3. Len(seq) \in T
  <2>1. Nat \subseteq T
    <3> HIDE DEF T
    <3> QED
      BY <1>1, <1>2, NaturalsIn
  <2> HIDE DEF T
  <2> QED
    BY <2>1
<1>4. \E g : Upto(Len(seq), g)
  <2> HIDE DEF Upto
  <2> QED
    BY <1>3
<1> QED
  BY <1>4 DEF Looping

(***************************************************************************)
(* A set of integers that is finite and not empty has a largest element.   *)
(***************************************************************************)
LEMMA HasLargest ==
  ASSUME NEW S \in SUBSET Int, IsFiniteSet(S), S # {}
  PROVE  \E m \in S : \A n \in S : n <= m
<1> DEFINE T == {V \in SUBSET S : V = {} \/ \E m \in V : \A n \in V : n <= m}
<1>1. {} \in T
  OBVIOUS
<1>2. ASSUME NEW V \in SUBSET S, NEW x \in S, x \notin V, V \in T
      PROVE  V \cup {x} \in T
  <2>1. CASE V = {}
    <3>1. \A n \in V \cup {x} : n <= x
      BY <2>1
    <3> QED
      BY <3>1
  <2>2. CASE V # {}
    <3>1. PICK m \in V : \A n \in V : n <= m
      BY <1>2, <2>2
    <3> DEFINE k == IF x <= m THEN m ELSE x
    <3>2. k \in V \cup {x} /\ \A n \in V \cup {x} : n <= k
      BY <3>1
    <3> QED
      BY <3>2
  <2> QED
    BY <2>1, <2>2
<1>3. SUBSET S \subseteq T
  <2> HIDE DEF T
  <2> QED
    BY <1>1, <1>2, SubsetsIn
<1> QED
  BY <1>3

LEMMA HasSmallest ==
  ASSUME NEW S \in SUBSET Int, IsFiniteSet(S), S # {}
  PROVE  \E m \in S : \A n \in S : m <= n
<1> DEFINE R == {-n : n \in S}
           g == [n \in S |-> -n]
<1>1. IsFiniteSet(R)
  <2>1. g \in Surjection(S, R)
    BY DEF Surjection
  <2> HIDE DEF g, R
  <2> QED
    BY <2>1, FS_Surjection
<1>2. R \in SUBSET Int /\ R # {}
  OBVIOUS
<1>3. PICK k \in R : \A n \in R : n <= k
  <2> HIDE DEF R
  <2> QED
    BY <1>1, <1>2, HasLargest
<1>4. PICK m \in S : k = -m
  BY <1>3
<1>5. ASSUME NEW n \in S PROVE m <= n
  <2>1. -n <= -m
    BY <1>3, <1>4
  <2> QED
    BY <2>1
<1> QED
  BY <1>5

-----------------------------------------------------------------------------
(* Sums. *)

First(s) == CHOOSE x \in s : TRUE

\* What the fold asks of its table of the sums over the subsets of S.
SumsOn(count, S, g) ==
    g = [s \in SUBSET S |->
            IF s = {} THEN 0 ELSE count[First(s)] + g[s \ {First(s)}]]

LEMMA FirstIn == \A s : s # {} => First(s) \in s
  BY DEF First

\* There is a table: one for the subsets of up to n elements gives one for
\* those of n + 1.
LEMMA SumsExist ==
  ASSUME NEW count, NEW S, IsFiniteSet(S)
  PROVE  \E g : SumsOn(count, S, g)
<1> DEFINE Small(n) == {s \in SUBSET S : Cardinality(s) <= n}
           Table(n, g) == g = [s \in Small(n) |->
                                  IF s = {} THEN 0 ELSE count[First(s)] + g[s \ {First(s)}]]
           T == {n \in Nat : \E g : Table(n, g)}
<1>1. \A s \in SUBSET S : IsFiniteSet(s) /\ Cardinality(s) \in Nat /\ Cardinality(s) <= Cardinality(S)
  BY FS_Subset, FS_CardinalityType
<1>2. 0 \in T
  <2> DEFINE g == [s \in Small(0) |-> 0]
  <2>1. \A s \in Small(0) : s = {}
    BY <1>1, FS_EmptySet
  <2>2. Table(0, g)
    BY <2>1
  <2> QED
    BY <2>2
<1>3. ASSUME NEW n \in Nat, n \in T PROVE n + 1 \in T
  <2>1. PICK g : Table(n, g)
    BY <1>3
  <2> DEFINE h == [s \in Small(n + 1) |->
                      IF s = {} THEN 0 ELSE count[First(s)] + g[s \ {First(s)}]]
  <2>2. ASSUME NEW s \in Small(n + 1), s # {}
        PROVE  g[s \ {First(s)}] = h[s \ {First(s)}]
    <3>1. s \ {First(s)} \in Small(n)
      BY <2>2, <1>1, FirstIn, FS_RemoveElement
    <3>2. s \ {First(s)} \in Small(n + 1)
      BY <3>1, <1>1
    <3> QED
      BY <2>1, <3>1, <3>2
  <2>3. Table(n + 1, h)
    BY <2>2
  <2>4. \E k : Table(n + 1, k)
    <3> HIDE DEF h, Table
    <3> QED
      BY <2>3
  <2> HIDE DEF Table
  <2> QED
    BY <2>4
<1>4. Cardinality(S) \in T
  <2> HIDE DEF T
  <2> QED
    BY <1>2, <1>3, NaturalsIn, FS_CardinalityType
<1>5. Small(Cardinality(S)) = SUBSET S
  BY <1>1
<1> QED
  BY <1>4, <1>5 DEF SumsOn

LEMMA SumIsInTable ==
  ASSUME NEW count, NEW S, IsFiniteSet(S)
  PROVE  \E g : SumsOn(count, S, g) /\ SumOver(count, S) = g[S]
<1> DEFINE g == CHOOSE g : SumsOn(count, S, g)
<1>1. SumsOn(count, S, g)
  BY SumsExist
<1>2. SumOver(count, S) = g[S]
  BY DEF SumOver, MapThenFoldSet, SumsOn, First
<1> QED
  BY <1>1, <1>2

\* Tables for two sets agree on the smaller one.
LEMMA TablesAgree ==
  ASSUME NEW count, NEW S, IsFiniteSet(S), NEW R \in SUBSET S,
         NEW g, SumsOn(count, S, g), NEW h, SumsOn(count, R, h)
  PROVE  g[R] = h[R]
<1> DEFINE U == {s \in SUBSET R : g[s] # h[s]}
<1> SUFFICES ASSUME U # {} PROVE FALSE
  OBVIOUS
<1>1. IsFiniteSet(R)
  BY FS_Subset
<1>2. PICK s \in U : \A V \in U : V \subseteq s => V = s
  <2>1. U \subseteq SUBSET R
    OBVIOUS
  <2> HIDE DEF U
  <2> QED
    BY <1>1, <2>1, MinimalSet
<1>3. s # {}
  BY DEF SumsOn
<1>4. First(s) \in s
  BY <1>3, FirstIn
<1>5. s \ {First(s)} \notin U
  BY <1>2, <1>4
<1>6. g[s \ {First(s)}] = h[s \ {First(s)}]
  BY <1>5
<1>7. g[s] = count[First(s)] + g[s \ {First(s)}]
  BY <1>3 DEF SumsOn
<1>8. h[s] = count[First(s)] + h[s \ {First(s)}]
  BY <1>3 DEF SumsOn
<1> QED
  BY <1>6, <1>7, <1>8

(***************************************************************************)
(* The equation of a sum, as the fold has it.                              *)
(***************************************************************************)
LEMMA SumFirst ==
  ASSUME NEW count, NEW S, IsFiniteSet(S)
  PROVE  SumOver(count, S) =
            IF S = {} THEN 0 ELSE count[First(S)] + SumOver(count, S \ {First(S)})
<1>1. PICK g : SumsOn(count, S, g) /\ SumOver(count, S) = g[S]
  BY SumIsInTable
<1>2. CASE S = {}
  BY <1>1, <1>2 DEF SumsOn
<1>3. CASE S # {}
  <2> DEFINE R == S \ {First(S)}
  <2>1. R \in SUBSET S /\ IsFiniteSet(R)
    BY FS_Subset
  <2>2. PICK h : SumsOn(count, R, h) /\ SumOver(count, R) = h[R]
    BY <2>1, SumIsInTable
  <2>3. g[R] = h[R]
    BY <1>1, <2>1, <2>2, TablesAgree
  <2>4. g[S] = count[First(S)] + g[R]
    BY <1>1, <1>3 DEF SumsOn
  <2> QED
    BY <1>1, <1>3, <2>2, <2>3, <2>4
<1> QED
  BY <1>2, <1>3

LEMMA SumEmpty == \A count : SumOver(count, {}) = 0
  BY SumFirst, FS_EmptySet

LEMMA SumNatural ==
  ASSUME NEW S, IsFiniteSet(S), NEW count, \A x \in S : count[x] \in Nat
  PROVE  SumOver(count, S) \in Nat
<1> DEFINE U == {s \in SUBSET S : SumOver(count, s) \notin Nat}
<1> SUFFICES ASSUME U # {} PROVE FALSE
  OBVIOUS
<1>1. PICK s \in U : \A V \in U : V \subseteq s => V = s
  <2>1. U \subseteq SUBSET S
    OBVIOUS
  <2> HIDE DEF U
  <2> QED
    BY <2>1, MinimalSet
<1>2. s # {}
  BY SumEmpty
<1>3. First(s) \in s
  BY <1>2, FirstIn
<1>4. SumOver(count, s \ {First(s)}) \in Nat
  BY <1>1, <1>3
<1>5. SumOver(count, s) = count[First(s)] + SumOver(count, s \ {First(s)})
  BY <1>2, SumFirst, FS_Subset
<1> QED
  BY <1>3, <1>4, <1>5

(***************************************************************************)
(* Any element may be added last, not only the one that the fold chooses.  *)
(***************************************************************************)
LEMMA SumWithout ==
  ASSUME NEW S, IsFiniteSet(S), NEW count, \A x \in S : count[x] \in Nat,
         NEW x \in S
  PROVE  SumOver(count, S) = count[x] + SumOver(count, S \ {x})
<1> DEFINE Good(s) == \A y \in s : SumOver(count, s) = count[y] + SumOver(count, s \ {y})
           U == {s \in SUBSET S : ~Good(s)}
<1> SUFFICES ASSUME U # {} PROVE FALSE
  OBVIOUS
<1>1. PICK s \in U : \A V \in U : V \subseteq s => V = s
  <2>1. U \subseteq SUBSET S
    OBVIOUS
  <2> HIDE DEF U
  <2> QED
    BY <2>1, MinimalSet
<1>2. PICK y \in s : SumOver(count, s) # count[y] + SumOver(count, s \ {y})
  OBVIOUS
<1> DEFINE z == First(s)
<1>3. z \in s
  BY <1>2, FirstIn
<1>4. \A r \in SUBSET s : IsFiniteSet(r) /\ SumOver(count, r) \in Nat
  <2>1. SUFFICES ASSUME NEW r \in SUBSET s PROVE IsFiniteSet(r) /\ SumOver(count, r) \in Nat
    OBVIOUS
  <2>2. r \in SUBSET S /\ IsFiniteSet(r)
    BY FS_Subset
  <2> QED
    BY <2>2, SumNatural
<1>5. SumOver(count, s) = count[z] + SumOver(count, s \ {z})
  BY <1>2, <1>4, SumFirst
<1>6. y # z
  BY <1>2, <1>5
<1>7. SumOver(count, s \ {z}) = count[y] + SumOver(count, (s \ {z}) \ {y})
  BY <1>1, <1>3, <1>6
<1>8. SumOver(count, s \ {y}) = count[z] + SumOver(count, (s \ {y}) \ {z})
  BY <1>1, <1>2, <1>3, <1>6
<1>9. SumOver(count, (s \ {z}) \ {y}) = SumOver(count, (s \ {y}) \ {z})
  <2>1. (s \ {z}) \ {y} = (s \ {y}) \ {z}
    OBVIOUS
  <2> QED
    BY <2>1, Zenon
<1>10. count[y] \in Nat /\ count[z] \in Nat /\ SumOver(count, (s \ {y}) \ {z}) \in Nat
  BY <1>3, <1>4
<1> HIDE DEF z
<1> QED
  BY <1>2, <1>5, <1>7, <1>8, <1>9, <1>10

LEMMA SumWith ==
  ASSUME NEW S, IsFiniteSet(S), NEW x, x \notin S,
         NEW count, \A y \in S \cup {x} : count[y] \in Nat
  PROVE  SumOver(count, S \cup {x}) = count[x] + SumOver(count, S)
<1>1. IsFiniteSet(S \cup {x}) /\ x \in S \cup {x} /\ (S \cup {x}) \ {x} = S
  BY FS_AddElement
<1> QED
  BY <1>1, SumWithout

(***************************************************************************)
(* Sums grow with the terms.                                               *)
(***************************************************************************)
LEMMA SumMonotonic ==
  ASSUME NEW S, IsFiniteSet(S),
         NEW count, \A x \in S : count[x] \in Nat,
         NEW more, \A x \in S : more[x] \in Nat,
         \A x \in S : count[x] <= more[x]
  PROVE  SumOver(count, S) <= SumOver(more, S)
<1> DEFINE T == {s \in SUBSET S : SumOver(count, s) <= SumOver(more, s)}
<1>1. {} \in T
  BY SumEmpty
<1>2. ASSUME NEW V \in SUBSET S, NEW x \in S, x \notin V, V \in T
      PROVE  V \cup {x} \in T
  <2>1. IsFiniteSet(V)
    BY FS_Subset
  <2>2. SumOver(count, V) \in Nat /\ SumOver(more, V) \in Nat
    BY <2>1, SumNatural
  <2>3. SumOver(count, V \cup {x}) = count[x] + SumOver(count, V)
    BY <1>2, <2>1, SumWith
  <2>4. SumOver(more, V \cup {x}) = more[x] + SumOver(more, V)
    BY <1>2, <2>1, SumWith
  <2> QED
    BY <1>2, <2>2, <2>3, <2>4
<1>3. SUBSET S \subseteq T
  <2> HIDE DEF T
  <2> QED
    BY <1>1, <1>2, SubsetsIn
<1> QED
  BY <1>3

LEMMA SumSame ==
  ASSUME NEW S, IsFiniteSet(S),
         NEW count, \A x \in S : count[x] \in Nat,
         NEW other, \A x \in S : other[x] = count[x]
  PROVE  SumOver(other, S) = SumOver(count, S)
<1>1. SumOver(count, S) <= SumOver(other, S) /\ SumOver(other, S) <= SumOver(count, S)
  BY SumMonotonic
<1>2. SumOver(count, S) \in Nat /\ SumOver(other, S) \in Nat
  BY SumNatural
<1> QED
  BY <1>1, <1>2

(***************************************************************************)
(* The sum over two sets that share nothing is that of their sums.         *)
(***************************************************************************)
LEMMA SumDisjoint ==
  ASSUME NEW S, IsFiniteSet(S), NEW R, IsFiniteSet(R), S \cap R = {},
         NEW count, \A x \in S \cup R : count[x] \in Nat
  PROVE  SumOver(count, S \cup R) = SumOver(count, S) + SumOver(count, R)
<1> DEFINE T == {s \in SUBSET R : SumOver(count, S \cup s) = SumOver(count, S) + SumOver(count, s)}
<1>1. {} \in T
  <2>1. S \cup {} = S /\ SumOver(count, S) \in Nat
    BY SumNatural
  <2> QED
    BY <2>1, SumEmpty
<1>2. ASSUME NEW V \in SUBSET R, NEW x \in R, x \notin V, V \in T
      PROVE  V \cup {x} \in T
  <2>1. IsFiniteSet(V) /\ IsFiniteSet(S \cup V)
    BY FS_Subset, FS_Union
  <2>2. SumOver(count, V) \in Nat /\ SumOver(count, S) \in Nat /\ count[x] \in Nat
    BY <2>1, SumNatural
  <2>3. SumOver(count, V \cup {x}) = count[x] + SumOver(count, V)
    BY <1>2, <2>1, SumWith
  <2>4. SumOver(count, (S \cup V) \cup {x}) = count[x] + SumOver(count, S \cup V)
    BY <1>2, <2>1, SumWith
  <2>5. SumOver(count, (S \cup V) \cup {x}) = SumOver(count, S \cup (V \cup {x}))
    <3>1. (S \cup V) \cup {x} = S \cup (V \cup {x})
      OBVIOUS
    <3> QED
      BY <3>1, Zenon
  <2> QED
    BY <1>2, <2>2, <2>3, <2>4, <2>5
<1>3. SUBSET R \subseteq T
  <2> HIDE DEF T
  <2> QED
    BY <1>1, <1>2, SubsetsIn
<1> QED
  BY <1>3

\* What is 0 does not count.
LEMMA SumOfZeros ==
  ASSUME NEW S, IsFiniteSet(S), NEW count, \A x \in S : count[x] = 0
  PROVE  SumOver(count, S) = 0
<1> DEFINE T == {s \in SUBSET S : SumOver(count, s) = 0}
<1>1. {} \in T
  BY SumEmpty
<1>2. ASSUME NEW V \in SUBSET S, NEW x \in S, x \notin V, V \in T
      PROVE  V \cup {x} \in T
  <2>1. IsFiniteSet(V)
    BY FS_Subset
  <2>2. \A y \in V \cup {x} : count[y] \in Nat
    OBVIOUS
  <2>3. SumOver(count, V \cup {x}) = count[x] + SumOver(count, V)
    BY <1>2, <2>1, <2>2, SumWith
  <2> QED
    BY <1>2, <2>3
<1>3. SUBSET S \subseteq T
  <2> HIDE DEF T
  <2> QED
    BY <1>1, <1>2, SubsetsIn
<1> QED
  BY <1>3

LEMMA SumOverLess ==
  ASSUME NEW S, IsFiniteSet(S), NEW R \in SUBSET S,
         NEW count, \A x \in S : count[x] \in Nat
  PROVE  SumOver(count, R) <= SumOver(count, S)
<1>1. IsFiniteSet(R) /\ IsFiniteSet(S \ R) /\ R \cup (S \ R) = S
  BY FS_Subset, FS_Difference
<1>2. SumOver(count, R) \in Nat /\ SumOver(count, S \ R) \in Nat
  BY <1>1, SumNatural
<1>3. SumOver(count, R \cup (S \ R)) = SumOver(count, R) + SumOver(count, S \ R)
  <2>1. R \cap (S \ R) = {} /\ \A x \in R \cup (S \ R) : count[x] \in Nat
    OBVIOUS
  <2> QED
    BY <1>1, <2>1, SumDisjoint
<1>4. SumOver(count, R \cup (S \ R)) = SumOver(count, S)
  BY <1>1, Zenon
<1> QED
  BY <1>2, <1>3, <1>4
\* What is at most m of each adds up to m times as many.
LEMMA SumBounded ==
  ASSUME NEW S, IsFiniteSet(S), NEW m \in Nat, NEW count, \A x \in S : count[x] \in 0 .. m
  PROVE  SumOver(count, S) <= Cardinality(S) * m
<1> DEFINE T == {s \in SUBSET S : SumOver(count, s) <= Cardinality(s) * m}
<1>1. {} \in T
  <2>1. 0 * m = 0
    OBVIOUS
  <2> QED
    BY <2>1, SumEmpty, FS_EmptySet
<1>2. ASSUME NEW V \in SUBSET S, NEW x \in S, x \notin V, V \in T
      PROVE  V \cup {x} \in T
  <2>1. IsFiniteSet(V) /\ Cardinality(V) \in Nat
    BY FS_Subset, FS_CardinalityType
  <2>2. (\A y \in V \cup {x} : count[y] \in Nat) /\ \A y \in V : count[y] \in Nat
    OBVIOUS
  <2>3. SumOver(count, V \cup {x}) = count[x] + SumOver(count, V)
    BY <1>2, <2>1, <2>2, SumWith
  <2>4. Cardinality(V \cup {x}) = Cardinality(V) + 1
    BY <1>2, <2>1, FS_AddElement
  <2>5. SumOver(count, V) \in Nat
    BY <2>1, <2>2, SumNatural
  <2> DEFINE n == Cardinality(V)
             sum == SumOver(count, V)
  <2>6. n \in Nat /\ sum \in Nat /\ sum <= n * m
    BY <1>2, <2>1, <2>5
  <2>7. count[x] \in 0 .. m
    OBVIOUS
  <2>8. count[x] + sum <= (n + 1) * m
    <3> HIDE DEF n, sum
    <3>1. (n + 1) * m = n * m + m /\ n * m \in Nat
      BY <2>6
    <3> QED
      BY <2>6, <2>7, <3>1
  <2> QED
    BY <2>3, <2>4, <2>8
<1>3. SUBSET S \subseteq T
  <2> HIDE DEF T
  <2> QED
    BY <1>1, <1>2, SubsetsIn
<1> QED
  BY <1>3
=============================================================================
