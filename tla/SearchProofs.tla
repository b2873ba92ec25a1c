---------------------------- MODULE SearchProofs ----------------------------
(***************************************************************************)
(* Lemmas about SortSearch: bsearch() finds what there is to find, in      *)
(* arrays of every length.  They rest on induction, stated for sets of     *)
(* numbers and derived from the pigeonhole principle.                      *)
(***************************************************************************)
EXTENDS SortSearch, FiniteSets, FiniteSetTheorems, TLAPS

\* Induction: a set that has 0, and with every number the next one, has all.
\* Otherwise, up to a number that is not in it, m + 1 would map it one to one
\* to itself without 0.
LEMMA NaturalInduction ==
  ASSUME NEW S, 0 \in S, \A n \in Nat : n \in S => n + 1 \in S
  PROVE  Nat \subseteq S
<1> SUFFICES ASSUME NEW n \in Nat, n \notin S
             PROVE  FALSE
  OBVIOUS
<1> DEFINE T == {m \in 0..n : m \in S}
           U == T \ {0}
           next == [m \in T |-> m + 1]
<1>1. T \in SUBSET (0..n) /\ IsFiniteSet(T) /\ Cardinality(T) \in Nat
  <2>1. IsFiniteSet(0..n)
    BY FS_Interval
  <2> QED
    BY <2>1, FS_Subset, FS_CardinalityType
<1>2. IsFiniteSet(U) /\ Cardinality(U) = Cardinality(T) - 1
  <2>1. 0 \in T
    OBVIOUS
  <2> HIDE DEF T
  <2> QED
    BY <1>1, <2>1, FS_RemoveElement
<1>3. next \in Injection(T, U)
  <2>1. \A m \in T : m + 1 \in U
    OBVIOUS
  <2> QED
    BY <2>1 DEF Injection, IsInjective
<1>4. Cardinality(T) <= Cardinality(U)
  <2> HIDE DEF T, U, next
  <2> QED
    BY <1>2, <1>3, FS_Injection
<1> QED
  <2> HIDE DEF T, U
  <2> QED
    BY <1>1, <1>2, <1>4

\* A set of natural numbers that is not empty has a least one.
LEMMA LeastNatural ==
  ASSUME NEW T \in SUBSET Nat, T # {}
  PROVE  \E n \in T : \A m \in T : n <= m
<1> DEFINE S == {n \in Nat : \A m \in T : n < m}
<1> SUFFICES ASSUME \A n \in T : \E m \in T : m < n
             PROVE  FALSE
  OBVIOUS
<1>1. 0 \in S
  OBVIOUS
<1>2. \A n \in Nat : n \in S => n + 1 \in S
  OBVIOUS
<1>3. \A n \in Nat : n \in S
  <2> HIDE DEF S
  <2> QED
    BY <1>1, <1>2, NaturalInduction
<1>4. PICK t \in T : TRUE
  OBVIOUS
<1>5. t \in S
  BY <1>3
<1> QED
  BY <1>4, <1>5

\* A sequence of values, each of which is computed from the one before it,
\* exists: what a recursive function over 0..n needs.
Steps(S, n, step) == step \in [1..n -> [S -> S]]
Computes(x, S, first, n, step) ==
  /\ x \in [0..n -> S]
  /\ x[0] = first
  /\ \A i \in 1..n : x[i] = step[i][x[i - 1]]

LEMMA RecursionExists ==
  ASSUME NEW S, NEW first \in S, NEW n \in Nat, NEW step, Steps(S, n, step)
  PROVE  \E x : Computes(x, S, first, n, step)
<1> USE DEF Steps
<1> DEFINE Computed(d, x) == x[0] = first /\ \A i \in 1..d : x[i] = step[i][x[i - 1]]
           D == {d \in Nat : d <= n => \E x \in [0..d -> S] : Computed(d, x)}
<1>1. 0 \in D
  <2> DEFINE x == [i \in 0..0 |-> first]
  <2>1. x \in [0..0 -> S] /\ Computed(0, x)
    OBVIOUS
  <2> QED
    BY <2>1
<1>2. ASSUME NEW d \in Nat, d \in D
      PROVE  d + 1 \in D
  <2> SUFFICES ASSUME d + 1 <= n
               PROVE  \E y \in [0..d + 1 -> S] : Computed(d + 1, y)
    OBVIOUS
  <2>1. PICK x \in [0..d -> S] : Computed(d, x)
    BY <1>2
  <2> DEFINE y == [i \in 0..d + 1 |-> IF i <= d THEN x[i] ELSE step[d + 1][x[d]]]
  <2>2. step[d + 1][x[d]] \in S
    OBVIOUS
  <2>3. y \in [0..d + 1 -> S]
    BY <2>2
  <2>4. /\ \A i \in 0..d : y[i] = x[i]
        /\ y[d + 1] = step[d + 1][x[d]]
    OBVIOUS
  <2> HIDE DEF y
  <2>5. ASSUME NEW i \in 1..d + 1
        PROVE  y[i] = step[i][y[i - 1]]
    <3>1. CASE i \in 1..d
      <4>1. i - 1 \in 0..d
        BY <3>1
      <4> QED
        BY <2>1, <2>4, <3>1, <4>1
    <3>2. CASE i = d + 1
      <4>1. i - 1 = d
        BY <3>2
      <4> QED
        BY <2>4, <3>2, <4>1
    <3> QED
      BY <3>1, <3>2
  <2>6. y[0] = first
    <3>1. 0 \in 0..d
      BY <1>2
    <3> QED
      BY <2>1, <2>4, <3>1
  <2>7. Computed(d + 1, y)
    BY <2>5, <2>6
  <2> QED
    BY <2>3, <2>7
<1>3. n \in D
  <2> HIDE DEF D
  <2> QED
    BY <1>1, <1>2, NaturalInduction
<1> QED
  BY <1>3 DEF Computes

----------------------------------------------------------------------------
\* The turns of bsearch(): one turn, and the results of a range of the array.
Turn(go, compar, lu) ==
  LET l == lu[1]  u == lu[2]  idx == (l + u) \div 2
  IN  IF l >= u THEN {}
      ELSE IF compar[idx + 1] = 0 THEN {idx + 1}
      ELSE IF compar[idx + 1] < 0 THEN go[<<l, idx>>]
      ELSE go[<<idx + 1, u>>]

Ranges(n) == (0..n) \X (0..n)

LEMMA Middle ==
  ASSUME NEW l \in Nat, NEW u \in Nat, l < u
  PROVE  /\ (l + u) \div 2 \in Nat
         /\ l <= (l + u) \div 2 /\ (l + u) \div 2 < u
OBVIOUS

\* A turn looks at the results of shorter ranges only.
LEMMA TurnLocal ==
  ASSUME NEW n \in Nat, NEW compar, NEW g, NEW h, NEW lu \in Ranges(n),
         \A r \in Ranges(n) : r[2] - r[1] < lu[2] - lu[1] => g[r] = h[r]
  PROVE  Turn(g, compar, lu) = Turn(h, compar, lu)
<1> DEFINE l == lu[1]  u == lu[2]  idx == (l + u) \div 2
<1>1. l \in 0..n /\ u \in 0..n
  BY DEF Ranges
<1>2. CASE l >= u
  BY <1>2 DEF Turn
<1>3. CASE l < u
  <2>1. idx \in Nat /\ l <= idx /\ idx < u
    BY <1>1, <1>3, Middle
  <2>2. <<l, idx>> \in Ranges(n) /\ <<idx + 1, u>> \in Ranges(n)
    BY <1>1, <2>1 DEF Ranges
  <2>3. idx - l < u - l /\ u - (idx + 1) < u - l
    BY <1>1, <2>1
  <2>4. g[<<l, idx>>] = h[<<l, idx>>] /\ g[<<idx + 1, u>>] = h[<<idx + 1, u>>]
    <3> HIDE DEF l, u, idx
    <3>1. <<l, idx>>[2] - <<l, idx>>[1] < u - l /\ <<idx + 1, u>>[2] - <<idx + 1, u>>[1] < u - l
      BY <2>3
    <3> QED
      BY <2>2, <3>1 DEF l, u
  <2> QED
    BY <2>4 DEF Turn
<1> QED
  BY <1>1, <1>2, <1>3

\* There are results for all ranges, so the recursion is well-defined.
LEMMA ResultsExist ==
  ASSUME NEW n \in Nat, NEW compar
  PROVE  \E g : g = [lu \in Ranges(n) |-> Turn(g, compar, lu)]
<1> DEFINE Upto(g, d) == \A lu \in Ranges(n) : lu[2] - lu[1] <= d => g[lu] = Turn(g, compar, lu)
           S == {d \in Nat : \E g : g = [lu \in Ranges(n) |-> g[lu]] /\ Upto(g, d)}
<1>0. \A lu \in Ranges(n) : lu[1] \in 0..n /\ lu[2] \in 0..n
  BY DEF Ranges
<1>1. 0 \in S
  <2> DEFINE g == [lu \in Ranges(n) |-> {}]
  <2>1. Upto(g, 0)
    BY <1>0 DEF Turn
  <2> QED
    BY <2>1
<1>2. ASSUME NEW d \in Nat, d \in S
      PROVE  d + 1 \in S
  <2>1. PICK g : g = [lu \in Ranges(n) |-> g[lu]] /\ Upto(g, d)
    BY <1>2
  <2> DEFINE h == [lu \in Ranges(n) |-> IF lu[2] - lu[1] <= d THEN g[lu] ELSE Turn(g, compar, lu)]
  <2>2. h = [lu \in Ranges(n) |-> h[lu]]
    OBVIOUS
  <2>3. ASSUME NEW lu \in Ranges(n), lu[2] - lu[1] <= d + 1
        PROVE  h[lu] = Turn(h, compar, lu)
    <3>1. \A r \in Ranges(n) : r[2] - r[1] < lu[2] - lu[1] => h[r] = g[r]
      BY <1>0, <2>3
    <3>2. Turn(h, compar, lu) = Turn(g, compar, lu)
      <4> HIDE DEF h
      <4> QED
        BY <3>1, TurnLocal
    <3> QED
      BY <2>1, <3>2
  <2> HIDE DEF h
  <2>4. Upto(h, d + 1)
    BY <2>3
  <2> QED
    BY <2>2, <2>4
<1>3. n \in S
  <2> HIDE DEF S
  <2> QED
    BY <1>1, <1>2, NaturalInduction
<1>4. PICK g : g = [lu \in Ranges(n) |-> g[lu]] /\ Upto(g, n)
  BY <1>3
<1>5. \A lu \in Ranges(n) : g[lu] = Turn(g, compar, lu)
  BY <1>0, <1>4
<1> QED
  <2>1. g = [lu \in Ranges(n) |-> Turn(g, compar, lu)]
    BY <1>4, <1>5
  <2> QED
    BY <2>1

----------------------------------------------------------------------------
\* How a key compares with the items of a sorted array: items before it,
\* items equal to it, items behind it.
Ascending(n, compar) ==
  /\ compar \in [1..n -> Int]
  /\ \A i, j \in 1..n : i < j => /\ compar[i] < 0 => compar[j] < 0
                                 /\ compar[j] > 0 => compar[i] > 0

\* The answer for a range: an equal item in it, if there is one.
Answers(res, compar, lu) ==
  /\ res \subseteq {k \in lu[1] + 1..lu[2] : compar[k] = 0}
  /\ res = {} => \A k \in lu[1] + 1..lu[2] : compar[k] # 0
  /\ \A j, k \in res : j = k

LEMMA TurnAnswers ==
  ASSUME NEW n \in Nat, NEW compar, Ascending(n, compar), NEW g, NEW lu \in Ranges(n),
         \A r \in Ranges(n) : r[2] - r[1] < lu[2] - lu[1] => Answers(g[r], compar, r)
  PROVE  Answers(Turn(g, compar, lu), compar, lu)
<1> DEFINE l == lu[1]  u == lu[2]  idx == (l + u) \div 2
<1>1. l \in 0..n /\ u \in 0..n
  BY DEF Ranges
<1>2. CASE l >= u
  BY <1>1, <1>2 DEF Turn, Answers
<1>3. CASE l < u
  <2>1. idx \in Nat /\ l <= idx /\ idx < u
    BY <1>1, <1>3, Middle
  <2>2. <<l, idx>> \in Ranges(n) /\ <<idx + 1, u>> \in Ranges(n)
    BY <1>1, <2>1 DEF Ranges
  <2>3. /\ compar[idx + 1] \in Int
        /\ compar[idx + 1] < 0 => \A k \in idx + 1..u : compar[k] # 0
        /\ compar[idx + 1] > 0 => \A k \in l + 1..idx + 1 : compar[k] # 0
    <3> DEFINE m == idx + 1
    <3>1. m \in 1..n /\ compar \in [1..n -> Int]
      <4>1. m \in 1..n
        BY <1>1, <2>1
      <4> QED
        BY <4>1 DEF Ascending
    <3> HIDE DEF m
    <3>2. compar[m] < 0 => \A k \in m..u : compar[k] # 0
      BY <1>1, <3>1 DEF Ascending
    <3>3. compar[m] > 0 => \A k \in l + 1..m : compar[k] # 0
      BY <1>1, <3>1 DEF Ascending
    <3> QED
      BY <3>1, <3>2, <3>3 DEF m
  <2>4. Answers(g[<<l, idx>>], compar, <<l, idx>>) /\ Answers(g[<<idx + 1, u>>], compar, <<idx + 1, u>>)
    <3>1. idx - l < u - l /\ u - (idx + 1) < u - l
      BY <1>1, <2>1
    <3> HIDE DEF l, u, idx
    <3>2. <<l, idx>>[2] - <<l, idx>>[1] < u - l /\ <<idx + 1, u>>[2] - <<idx + 1, u>>[1] < u - l
      BY <3>1
    <3> QED
      BY <2>2, <3>2 DEF l, u
  <2>5. Turn(g, compar, lu) = IF compar[idx + 1] = 0 THEN {idx + 1}
                              ELSE IF compar[idx + 1] < 0 THEN g[<<l, idx>>]
                              ELSE g[<<idx + 1, u>>]
    BY <1>1, <1>3 DEF Turn
  <2> HIDE DEF idx
  <2>6. CASE compar[idx + 1] = 0
    BY <1>1, <2>1, <2>5, <2>6 DEF Answers
  <2>7. CASE compar[idx + 1] < 0
    <3>1. Answers(g[<<l, idx>>], compar, lu)
      BY <1>1, <2>1, <2>3, <2>4, <2>7 DEF Answers
    <3> QED
      BY <2>5, <2>7, <3>1
  <2>8. CASE compar[idx + 1] > 0
    <3>1. Answers(g[<<idx + 1, u>>], compar, lu)
      BY <1>1, <2>1, <2>3, <2>4, <2>8 DEF Answers
    <3> QED
      BY <2>3, <2>5, <2>8, <3>1
  <2> QED
    BY <2>3, <2>6, <2>7, <2>8
<1> QED
  BY <1>1, <1>2, <1>3

\* bsearch() of a sorted array returns an item that is equal to the key if
\* there is one, and NULL otherwise, whatever the number of items (the lookups
\* of both readers, eos-shard-shard-file-impl-v1.c and -v2.c).
THEOREM SearchFinds ==
  ASSUME NEW n \in Nat, NEW compar, Ascending(n, compar)
  PROVE  /\ bsearch(n, compar) \subseteq {k \in 1..n : compar[k] = 0}
         /\ bsearch(n, compar) = {} => \A k \in 1..n : compar[k] # 0
         /\ \A j, k \in bsearch(n, compar) : j = k
<1> DEFINE go == CHOOSE g : g = [lu \in Ranges(n) |-> Turn(g, compar, lu)]
           S == {d \in Nat : \A lu \in Ranges(n) : lu[2] - lu[1] <= d => Answers(go[lu], compar, lu)}
<1>0. \A lu \in Ranges(n) : lu[1] \in 0..n /\ lu[2] \in 0..n
  BY DEF Ranges
<1>1. go = [lu \in Ranges(n) |-> Turn(go, compar, lu)]
  BY ResultsExist
<1>2. bsearch(n, compar) = go[<<0, n>>]
  BY DEF bsearch, Ranges, Turn
<1> HIDE DEF go
<1>3. \A lu \in Ranges(n) : go[lu] = Turn(go, compar, lu)
  BY <1>1
<1>4. 0 \in S
  <2> SUFFICES ASSUME NEW lu \in Ranges(n), lu[2] - lu[1] <= 0
               PROVE  Answers(go[lu], compar, lu)
    OBVIOUS
  <2>1. lu[1] >= lu[2] /\ lu[1] \in Nat /\ lu[2] \in Nat
    BY <1>0
  <2>2. go[lu] = {}
    BY <1>3, <2>1 DEF Turn
  <2> QED
    BY <2>1, <2>2 DEF Answers
<1>5. ASSUME NEW d \in Nat, d \in S
      PROVE  d + 1 \in S
  <2> SUFFICES ASSUME NEW lu \in Ranges(n), lu[2] - lu[1] <= d + 1
               PROVE  Answers(go[lu], compar, lu)
    OBVIOUS
  <2>1. \A r \in Ranges(n) : r[2] - r[1] < lu[2] - lu[1] => Answers(go[r], compar, r)
    BY <1>0, <1>5
  <2> QED
    BY <1>3, <2>1, TurnAnswers
<1>6. n \in S
  <2> HIDE DEF S
  <2> QED
    BY <1>4, <1>5, NaturalInduction
<1>7. <<0, n>> \in Ranges(n) /\ <<0, n>>[1] = 0 /\ <<0, n>>[2] = n
  BY DEF Ranges
<1>8. Answers(go[<<0, n>>], compar, <<0, n>>)
  BY <1>6, <1>7
<1> QED
  BY <1>2, <1>7, <1>8 DEF Answers
----------------------------------------------------------------------------
\* A reordering loses no element.
LEMMA Onto ==
  ASSUME NEW n \in Nat, NEW p \in Reorders(n), NEW j \in 1..n
  PROVE  \E k \in 1..n : p[k] = j
<1>1. p \in Injection(1..n, 1..n)
  BY DEF Reorders, Injection, IsInjective
<1>2. IsFiniteSet(1..n)
  BY FS_Interval
<1>3. p \in Surjection(1..n, 1..n)
  BY <1>1, <1>2, FS_Injection
<1> QED
  BY <1>3 DEF Surjection
=============================================================================
