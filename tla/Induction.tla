-------------------------------- MODULE Induction --------------------------------
(***************************************************************************)
(* Induction and recursion, stated for sets and functions rather than for  *)
(* predicates and operators: what holds of a number, or of a finite set,   *)
(* is said by membership in a set.                                         *)
(***************************************************************************)
EXTENDS Integers, FiniteSets, WellFoundedInduction, FiniteSetTheorems, TLAPS

\* A set of natural numbers has a least element.
LEMMA LeastNatural ==
  ASSUME NEW T \in SUBSET Nat, T # {}
  PROVE  \E x \in T : \A y \in T : x <= y
<1> DEFINE R == OpToRel(<, Nat)
<1>1. IsWellFoundedOn(R, Nat)
  BY NatLessThanWellFounded
<1>2. \A x, y \in Nat : <<y, x>> \in R <=> y < x
  BY DEF OpToRel
<1> HIDE DEF R
<1>3. PICK x \in T : \A y \in T : ~(<<y, x>> \in R)
  BY <1>1, WFMin
<1>4. ASSUME NEW y \in T PROVE x <= y
  <2>1. x \in Nat /\ y \in Nat
    OBVIOUS
  <2>2. ~(y < x)
    BY <1>2, <1>3, <2>1
  <2>3. QED
    BY <2>1, <2>2
<1>5. QED
  BY <1>4

\* A set with 0 and the successor of each of its numbers has all numbers.
LEMMA AllNaturals ==
  ASSUME NEW S, 0 \in S, \A n \in Nat : n \in S => n + 1 \in S
  PROVE  Nat \subseteq S
<1>1. SUFFICES ASSUME Nat \ S # {} PROVE FALSE
  OBVIOUS
<1>2. PICK x \in Nat \ S : \A y \in Nat \ S : x <= y
  BY <1>1, LeastNatural
<1>3. x # 0
  BY <1>2
<1>4. x - 1 \in Nat /\ x - 1 \in S
  BY <1>2, <1>3
<1>5. QED
  BY <1>2, <1>4

\* A set of integers that is bounded below has a least element.
LEMMA LeastInteger ==
  ASSUME NEW a \in Int, NEW T \in SUBSET Int, T # {}, \A t \in T : a <= t
  PROVE  \E x \in T : \A y \in T : x <= y
<1> DEFINE U == {n \in Nat : a + n \in T}
<1>1. \A t \in T : t - a \in U /\ a + (t - a) = t
  OBVIOUS
<1>2. U # {} /\ U \in SUBSET Nat
  BY <1>1
<1>3. PICK n \in U : \A k \in U : n <= k
  BY <1>2, LeastNatural
<1>4. ASSUME NEW t \in T PROVE a + n <= t
  <2>1. n <= t - a
    BY <1>1, <1>3
  <2>2. QED
    BY <2>1
<1>5. QED
  BY <1>4

\* A collection that has the empty set, and with a part of S the part and one element more, has
\* every finite S.
LEMMA AllFinite ==
  ASSUME NEW S, IsFiniteSet(S), NEW C, {} \in C,
         \A T \in SUBSET S : \A x \in S \ T : T \in C => T \cup {x} \in C
  PROVE  S \in C
<1> DEFINE N == {n \in Nat : \A T \in SUBSET S : Cardinality(T) = n => T \in C}
<1>1. \A T \in SUBSET S : IsFiniteSet(T) /\ Cardinality(T) \in Nat
  BY FS_Subset, FS_CardinalityType
<1>2. 0 \in N
  BY <1>1, FS_EmptySet
<1>3. ASSUME NEW n \in Nat, n \in N PROVE n + 1 \in N
  <2>1. SUFFICES ASSUME NEW T \in SUBSET S, Cardinality(T) = n + 1 PROVE T \in C
    BY <1>3
  <2> HIDE DEF N
  <2>2. T # {}
    <3>1. Cardinality({}) # n + 1
      BY FS_EmptySet
    <3>2. QED
      BY <2>1, <3>1
  <2>3. PICK x \in T : TRUE
    BY <2>2
  <2>4. Cardinality(T \ {x}) = n
    <3>1. Cardinality(T \ {x}) = Cardinality(T) - 1
      BY <1>1, <2>3, FS_RemoveElement
    <3>2. QED
      BY <2>1, <3>1
  <2>5. T \ {x} \in C
    BY <1>3, <2>4 DEF N
  <2>6. T = (T \ {x}) \cup {x} /\ x \in S \ (T \ {x})
    BY <2>3
  <2>7. QED
    BY <2>5, <2>6
<1> HIDE DEF N
<1>4. Cardinality(S) \in N
  BY <1>1, <1>2, <1>3, AllNaturals
<1>5. QED
  BY <1>4 DEF N

\* What a function makes of a finite set is finite.
LEMMA FiniteImage ==
  ASSUME NEW S, NEW f, IsFiniteSet(S)
  PROVE  IsFiniteSet({f[x] : x \in S})
<1> DEFINE g == [x \in S |-> f[x]]
<1>1. g \in Surjection(S, {f[x] : x \in S})
  BY DEF Surjection
<1>2. QED
  BY <1>1, FS_Surjection

\* A recursion on D with values in V: the elements of leaf have their value from first, every
\* other from step and the value of next, whose measure is smaller.
Descends(D, V, bound, measure, leaf, next, first, step) ==
  /\ bound \in Nat /\ measure \in [D -> 0 .. bound]
  /\ leaf \subseteq D /\ next \in [D -> D] /\ first \in [D -> V] /\ step \in [D -> [V -> V]]
  /\ \A x \in D \ leaf : measure[next[x]] < measure[x]
Computes(f, D, V, leaf, next, first, step) ==
  /\ f \in [D -> V]
  /\ f = [x \in D |-> IF x \in leaf THEN first[x] ELSE step[x][f[next[x]]]]

\* A recursion that descends in a bounded measure defines a function.
LEMMA Recursion ==
  ASSUME NEW D, NEW V, NEW bound, NEW measure, NEW leaf, NEW next, NEW first, NEW step,
         Descends(D, V, bound, measure, leaf, next, first, step)
  PROVE  \E f : Computes(f, D, V, leaf, next, first, step)
<1> USE DEF Descends
<1> DEFINE Below(n) == {x \in D : measure[x] < n}
           Value(f, x) == IF x \in leaf THEN first[x] ELSE step[x][f[next[x]]]
           Computable(n) == \E f \in [Below(n) -> V] : \A x \in Below(n) : f[x] = Value(f, x)
           N == {n \in Nat : Computable(n)}
<1>1. 0 \in N
  <2>1. Below(0) = {}
    OBVIOUS
  <2>2. [x \in Below(0) |-> x] \in [Below(0) -> V]
    BY <2>1
  <2>3. QED
    BY <2>1, <2>2
<1>2. ASSUME NEW n \in Nat, n \in N PROVE n + 1 \in N
  <2>1. PICK f \in [Below(n) -> V] : \A x \in Below(n) : f[x] = Value(f, x)
    BY <1>2
  <2> DEFINE g == [x \in Below(n + 1) |-> Value(f, x)]
  <2>2. \A x \in Below(n + 1) : x \in leaf \/ next[x] \in Below(n)
    OBVIOUS
  <2>3. g \in [Below(n + 1) -> V]
    <3>1. \A x \in Below(n + 1) : Value(f, x) \in V
      BY <2>2
    <3>2. QED
      BY <3>1
  <2>4. ASSUME NEW x \in Below(n) PROVE x \in Below(n + 1) /\ g[x] = f[x]
    BY <2>1, <2>4
  <2>5. ASSUME NEW x \in Below(n + 1) PROVE g[x] = Value(g, x)
    <3>1. x \in leaf \/ g[next[x]] = f[next[x]]
      BY <2>2, <2>4
    <3>2. g[x] = Value(f, x)
      OBVIOUS
    <3> HIDE DEF g
    <3>3. QED
      BY <3>1, <3>2
  <2> HIDE DEF g
  <2>6. Computable(n + 1)
    BY <2>3, <2>5
  <2> HIDE DEF Computable
  <2>7. QED
    BY <2>6
<1> HIDE DEF N
<1>3. bound + 1 \in N
  BY <1>1, <1>2, AllNaturals
<1>4. PICK f \in [Below(bound + 1) -> V] : \A x \in Below(bound + 1) : f[x] = Value(f, x)
  BY <1>3 DEF N
<1>5. Below(bound + 1) = D
  OBVIOUS
<1>6. f \in [D -> V] /\ \A x \in D : f[x] = Value(f, x)
  BY <1>4, <1>5
<1>7. f = [x \in D |-> Value(f, x)]
  BY <1>6
<1>8. QED
  BY <1>6, <1>7 DEF Computes

\* In particular one that goes from each number up to N to the next.
Climbs(N, V, start, step) == N \in Nat /\ start \in V /\ step \in [1..N -> [V -> V]]
Reaches(f, N, V, start, step) ==
  f \in [0..N -> V] /\ f = [n \in 0..N |-> IF n = 0 THEN start ELSE step[n][f[n - 1]]]

\* There is one.
LEMMA Upward ==
  ASSUME NEW N, NEW V, NEW start, NEW step, Climbs(N, V, start, step)
  PROVE  \E f : Reaches(f, N, V, start, step)
<1> USE DEF Climbs
<1> DEFINE D == 0..N
           measure == [n \in D |-> n]
           leaf == {0}
           next == [n \in D |-> IF n = 0 THEN 0 ELSE n - 1]
           first == [n \in D |-> start]
           steps == [n \in D |-> IF n = 0 THEN [v \in V |-> v] ELSE step[n]]
<1>1. Descends(D, V, N, measure, leaf, next, first, steps)
  <2>1. steps \in [D -> [V -> V]]
    <3>1. \A n \in D : n # 0 => n \in 1..N
      OBVIOUS
    <3>2. QED
      BY <3>1
  <2>2. next \in [D -> D] /\ \A n \in D \ leaf : measure[next[n]] < measure[n]
    OBVIOUS
  <2>3. QED
    BY <2>1, <2>2 DEF Descends
<1> HIDE DEF D, measure, leaf, next, first, steps
<1>2. PICK f : Computes(f, D, V, leaf, next, first, steps)
  BY <1>1, Recursion
<1>3. f \in [D -> V] /\ f = [n \in D |-> IF n \in leaf THEN first[n] ELSE steps[n][f[next[n]]]]
  BY <1>2 DEF Computes
<1>4. \A n \in D : f[n] = IF n = 0 THEN start ELSE step[n][f[n - 1]]
  BY <1>3 DEF D, leaf, first, steps, next
<1> DEFINE value(n) == IF n = 0 THEN start ELSE step[n][f[n - 1]]
<1>5. \A n \in D : f[n] = value(n)
  BY <1>4
<1> HIDE DEF value
<1>6. f \in [D -> V] /\ f = [n \in D |-> value(n)]
  BY <1>3, <1>5
<1>7. Reaches(f, N, V, start, step)
  BY <1>6 DEF D, value, Reaches
<1>8. QED
  BY <1>7
=============================================================================
