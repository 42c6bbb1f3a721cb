------------------------ MODULE MetricFrames_proofs -------------------------
(***************************************************************************)
(* Theorems about MetricFrames, for all events, targets, metrics, CPUs,    *)
(* devices and cgroups: the group of a variable is chosen once, a metric   *)
(* is computed from one group where there is one, the events that perf     *)
(* prints never run out of groups, and between groups that share no border *)
(* each line is added to the value of its event in its own group.          *)
(***************************************************************************)
EXTENDS MetricFrames, EventGrouping_proofs

-----------------------------------------------------------------------------
(* Recursion over the natural numbers.                                     *)

\* Induction up to K, for the numbers that are in a set.
LEMMA UpTo ==
    ASSUME NEW K \in Nat, NEW S, 0 \in S, \A n \in 1..K : n - 1 \in S => n \in S
    PROVE  \A n \in 0..K : n \in S
<1> DEFINE Bad == {n \in 0..K : n \notin S}
<1> SUFFICES ASSUME Bad # {} PROVE FALSE
    OBVIOUS
<1>1. PICK n \in Bad : \A m \in Bad : n <= m
  <2>1. Bad \in SUBSET Nat
      OBVIOUS
  <2> HIDE DEF Bad
  <2> QED
      BY <2>1, LeastNumber
<1>2. n \in 1..K /\ n - 1 \in 0..K /\ ~(n <= n - 1)
  <2>1. n \in 0..K /\ n # 0
      OBVIOUS
  <2> HIDE DEF Bad
  <2> QED
      BY <2>1
<1>3. n - 1 \in S
    BY <1>1, <1>2
<1> QED
    BY <1>2, <1>3

\* What a function defined from its value one before is equal to.
Recursion(a, K, g, h) == [n \in 0..K |-> IF n = 0 THEN a ELSE g[<<n, h[n - 1]>>]]

IsDefined(D, a, K, g) == \E h \in [0..K -> D] : h = Recursion(a, K, g, h)

\* There is such a function, with its values in D when those of its steps are.
LEMMA RecursionIsSome ==
    ASSUME NEW D, NEW a \in D, NEW K \in Nat, NEW g \in [(1..K) \X D -> D]
    PROVE  IsDefined(D, a, K, g)
<1> DEFINE To(k) == \E h \in [0..k -> D] : h = Recursion(a, k, g, h)
           S == {k \in 0..K : To(k)}
<1>1. 0 \in S
  <2>1. [n \in 0..0 |-> a] \in [0..0 -> D]
      OBVIOUS
  <2>2. [n \in 0..0 |-> a] = Recursion(a, 0, g, [n \in 0..0 |-> a])
      BY DEF Recursion
  <2> QED
      BY <2>1, <2>2
<1>2. ASSUME NEW k \in 1..K, k - 1 \in S PROVE k \in S
  <2>1. PICK h \in [0..(k - 1) -> D] : h = Recursion(a, k - 1, g, h)
      BY <1>2
  <2> DEFINE next == [n \in 0..k |-> IF n = k THEN g[<<k, h[k - 1]>>] ELSE h[n]]
  <2>2. \A n \in 0..k : n # k => n \in 0..(k - 1)
      OBVIOUS
  <2>3. g[<<k, h[k - 1]>>] \in D
    <3>1. h[k - 1] \in D
        OBVIOUS
    <3> QED
        BY <3>1
  <2>4. next \in [0..k -> D]
      BY <2>2, <2>3
  <2>5. ASSUME NEW n \in 0..k PROVE next[n] = IF n = 0 THEN a ELSE g[<<n, next[n - 1]>>]
    <3>1. CASE n = k
      <4>1. k - 1 \in 0..k /\ k - 1 # k
          OBVIOUS
      <4>2. next[k - 1] = h[k - 1] /\ next[k] = g[<<k, h[k - 1]>>]
          BY <4>1
      <4> QED
          BY <3>1, <4>2
    <3>2. CASE n # k
      <4>1. n \in 0..(k - 1)
          BY <2>2, <3>2
      <4>2. next[n] = h[n] /\ h[n] = IF n = 0 THEN a ELSE g[<<n, h[n - 1]>>]
          BY <2>1, <3>2, <4>1 DEF Recursion
      <4>3. n # 0 => n - 1 \in 0..k /\ n - 1 # k
          OBVIOUS
      <4>4. n # 0 => next[n - 1] = h[n - 1]
          BY <4>3
      <4> QED
          BY <4>2, <4>4
    <3> QED
        BY <3>1, <3>2
  <2>6. next = Recursion(a, k, g, next)
      BY <2>5 DEF Recursion
  <2>7. To(k)
      BY <2>4, <2>6
  <2> QED
      BY <2>7
<1>3. K \in S
  <2> HIDE DEF S
  <2> QED
      BY <1>1, <1>2, UpTo
<1> QED
    BY <1>3 DEF IsDefined

-----------------------------------------------------------------------------
(* The groups of the variables of one metric.                              *)

\* The names that are left and the groups chosen so far, for the names V.
GroupChoices(V) == [left : SUBSET V, vs : [V -> Int]]

\* The best group is a group of the frame, and it has values.
LEMMA BestIsSome ==
    ASSUME NEW f, DOMAIN f \in SUBSET Nat, NEW names, BestGroups(f, names) # {}
    PROVE  /\ Min(BestGroups(f, names)) \in BestGroups(f, names)
           /\ Min(BestGroups(f, names)) \in DOMAIN f
           /\ CountedIn(f, Min(BestGroups(f, names)), names) # {}
<1>1. BestGroups(f, names) \in SUBSET Nat
    BY DEF BestGroups
<1>2. \E k \in BestGroups(f, names) : \A d \in BestGroups(f, names) : k <= d
    BY <1>1, LeastNumber
<1>3. Min(BestGroups(f, names)) \in BestGroups(f, names)
    BY <1>2 DEF Min
<1> QED
    BY <1>3 DEF BestGroups

\* One iteration gives each name it takes off the list a group, or NoGroup, changes no
\* other, and takes some off.
LEMMA ChooseGroupFacts ==
    ASSUME NEW V, NEW f, DOMAIN f \in SUBSET Nat, NEW p \in GroupChoices(V)
    PROVE  /\ ChooseGroup(p, f) \in GroupChoices(V)
           /\ ChooseGroup(p, f).left \subseteq p.left
           /\ p.left # {} => ChooseGroup(p, f).left # p.left
           /\ \A v \in p.left \ ChooseGroup(p, f).left : ChooseGroup(p, f).vs[v] # Unset
           /\ \A v \in V \ p.left : ChooseGroup(p, f).vs[v] = p.vs[v]
<1> DEFINE best == BestGroups(f, p.left)
           here == CountedIn(f, Min(best), p.left)
<1>1. p.left \in SUBSET V /\ p.vs \in [V -> Int]
    BY DEF GroupChoices
<1>2. DOMAIN p.vs = V
    BY <1>1
<1>3. CASE best = {}
  <2>1. ChooseGroup(p, f) = [left |-> {}, vs |-> [v \in V |-> IF v \in p.left THEN NoGroup ELSE p.vs[v]]]
      BY <1>2, <1>3 DEF ChooseGroup
  <2>2. NoGroup \in Int /\ NoGroup # Unset
      BY DEF NoGroup, Unset
  <2> QED
      BY <1>1, <2>1, <2>2 DEF GroupChoices
<1>4. CASE best # {}
  <2>1. Min(best) \in DOMAIN f /\ here # {}
      BY <1>4, BestIsSome
  <2>2. here \subseteq p.left
      BY DEF CountedIn
  <2>3. Min(best) \in Int /\ Min(best) # Unset
      BY <2>1 DEF Unset
  <2>4. ChooseGroup(p, f) = [left |-> p.left \ here,
                            vs   |-> [v \in V |-> IF v \in here THEN Min(best) ELSE p.vs[v]]]
      BY <1>2, <1>4 DEF ChooseGroup
  <2> HIDE DEF best, here
  <2> QED
      BY <1>1, <2>1, <2>2, <2>3, <2>4 DEF GroupChoices
<1> QED
    BY <1>3, <1>4

\* The iterations are a function on their numbers, each from the one before.
LEMMA ChoosingIsDefined ==
    ASSUME NEW V, IsFiniteSet(V), NEW f, DOMAIN f \in SUBSET Nat, NEW vs \in [V -> Int]
    PROVE  /\ ChoosingGroups(vs, f) \in [0..Cardinality(V) -> GroupChoices(V)]
           /\ ChoosingGroups(vs, f)[0] = [left |-> V, vs |-> vs]
           /\ \A n \in 1..Cardinality(V) :
                 ChoosingGroups(vs, f)[n] = ChooseGroup(ChoosingGroups(vs, f)[n - 1], f)
<1> DEFINE K == Cardinality(V)
           D == GroupChoices(V)
           a == [left |-> V, vs |-> vs]
           g == [p \in (1..K) \X D |-> ChooseGroup(p[2], f)]
           E(h) == [n \in 0..K |-> IF n = 0 THEN a ELSE ChooseGroup(h[n - 1], f)]
           c == ChoosingGroups(vs, f)
<1>1. K \in Nat /\ DOMAIN vs = V
    BY FS_CardinalityType
<1>2. a \in D
    BY DEF GroupChoices
<1>3. g \in [(1..K) \X D -> D]
  <2>1. \A p \in (1..K) \X D : ChooseGroup(p[2], f) \in D
      BY ChooseGroupFacts
  <2> QED
      BY <2>1
<1>4. c = (CHOOSE h : h = E(h))
    BY <1>1 DEF ChoosingGroups
<1>5. PICK h \in [0..K -> D] : h = Recursion(a, K, g, h)
  <2>1. K \in Nat
      BY <1>1
  <2> HIDE DEF K, D, a, g
  <2>2. IsDefined(D, a, K, g)
      BY <1>2, <1>3, <2>1, RecursionIsSome
  <2> QED
      BY <2>2 DEF IsDefined
<1>6. h = E(h)
  <2>1. \A n \in 0..K : n # 0 => n \in 1..K /\ n - 1 \in 0..K
      BY <1>1
  <2>2. \A n \in 0..K : n # 0 => g[<<n, h[n - 1]>>] = ChooseGroup(h[n - 1], f)
      BY <2>1
  <2> HIDE DEF K, D, a, g
  <2> QED
      BY <1>5, <2>2 DEF Recursion
<1>7. c = E(c)
  <2> HIDE DEF E, c
  <2> QED
      BY <1>4, <1>6
<1>8. c[0] = a /\ \A n \in 1..K : c[n] = ChooseGroup(c[n - 1], f)
  <2>1. 0 \in 0..K /\ \A n \in 1..K : n \in 0..K /\ n # 0
      BY <1>1
  <2> HIDE DEF c, a, K
  <2> QED
      BY <1>7, <2>1
<1>9. \A n \in 0..K : c[n] \in D
  <2> DEFINE S == {n \in 0..K : c[n] \in D}
  <2>1. 0 \in S
    <3> HIDE DEF c, a, K, D
    <3> QED
        BY <1>1, <1>2, <1>8
  <2>2. \A n \in 1..K : n - 1 \in S => n \in S
    <3>1. \A n \in 1..K : n \in 0..K
        BY <1>1
    <3>2. \A n \in 1..K : c[n - 1] \in D => c[n] \in D
      <4> HIDE DEF c, a, K
      <4> QED
          BY <1>8, ChooseGroupFacts
    <3> HIDE DEF c, a, K, D
    <3> QED
        BY <3>1, <3>2
  <2>3. \A n \in 0..K : n \in S
    <3> HIDE DEF c, a, K, D, S
    <3> QED
        BY <1>1, <2>1, <2>2, UpTo
  <2> QED
      BY <2>3
<1> HIDE DEF c, K, D
<1>10. c \in [0..K -> D]
    BY <1>7, <1>9
<1> QED
    BY <1>8, <1>10 DEF c, K, D

\* With as many iterations as there are names no name is left, and each has its group.
LEMMA ChoosingEnds ==
    ASSUME NEW V, IsFiniteSet(V), NEW f, DOMAIN f \in SUBSET Nat, NEW vs \in [V -> Int]
    PROVE  /\ ChoosingGroups(vs, f)[Cardinality(V)] \in GroupChoices(V)
           /\ \A v \in V : ChoosingGroups(vs, f)[Cardinality(V)].vs[v] # Unset
<1> DEFINE K == Cardinality(V)
           c == ChoosingGroups(vs, f)
           Fewer(n) == Cardinality(c[n].left) <= K - n
           Given(n) == \A v \in V \ c[n].left : c[n].vs[v] # Unset
           S == {n \in 0..K : Fewer(n) /\ Given(n)}
<1>1. K \in Nat
    BY FS_CardinalityType
<1>2. /\ \A n \in 0..K : c[n] \in GroupChoices(V)
      /\ c[0] = [left |-> V, vs |-> vs]
      /\ \A n \in 1..K : c[n] = ChooseGroup(c[n - 1], f)
  <2>1. c \in [0..K -> GroupChoices(V)]
      BY ChoosingIsDefined
  <2> HIDE DEF c, K
  <2>2. \A n \in 0..K : c[n] \in GroupChoices(V)
      BY <2>1
  <2> QED
      BY <2>2, ChoosingIsDefined DEF c, K
<1>3. \A n \in 0..K : c[n].left \in SUBSET V /\ IsFiniteSet(c[n].left) /\ Cardinality(c[n].left) \in Nat
  <2> SUFFICES ASSUME NEW n \in 0..K
               PROVE  c[n].left \in SUBSET V /\ IsFiniteSet(c[n].left) /\ Cardinality(c[n].left) \in Nat
      OBVIOUS
  <2> HIDE DEF c, K
  <2>1. c[n].left \in SUBSET V
      BY <1>2 DEF GroupChoices
  <2>2. IsFiniteSet(c[n].left)
      BY <2>1, FS_Subset
  <2> QED
      BY <2>1, <2>2, FS_CardinalityType
<1>4. 0 \in S
  <2> HIDE DEF c
  <2> QED
      BY <1>1, <1>2
<1>5. ASSUME NEW n \in 1..K, n - 1 \in S PROVE n \in S
  <2> DEFINE p == c[n - 1]
             q == c[n]
  <2>1. n - 1 \in 0..K /\ n \in 0..K
      BY <1>1
  <2>2. Cardinality(p.left) <= K - (n - 1) /\ \A v \in V \ p.left : p.vs[v] # Unset
      BY <1>5
  <2>3. /\ q.left \subseteq p.left
        /\ p.left # {} => q.left # p.left
        /\ \A v \in p.left \ q.left : q.vs[v] # Unset
        /\ \A v \in V \ p.left : q.vs[v] = p.vs[v]
    <3> HIDE DEF c, K
    <3> QED
        BY <1>2, <2>1, ChooseGroupFacts
  <2>4. /\ IsFiniteSet(p.left) /\ Cardinality(p.left) \in Nat
        /\ Cardinality(q.left) \in Nat /\ IsFiniteSet(q.left)
      BY <1>3, <2>1
  <2> HIDE DEF p, q, c, K
  <2>5. Cardinality(q.left) <= K - n
    <3>1. CASE p.left = {}
      <4>1. Cardinality(q.left) = 0
          BY <2>3, <3>1, FS_EmptySet
      <4> QED
          BY <1>1, <4>1
    <3>2. CASE p.left # {}
      <4>1. Cardinality(q.left) <= Cardinality(p.left) /\ Cardinality(q.left) # Cardinality(p.left)
          BY <2>3, <2>4, <3>2, FS_Subset
      <4> QED
          BY <1>1, <2>2, <2>4, <4>1
    <3> QED
        BY <3>1, <3>2
  <2>6. \A v \in V \ q.left : q.vs[v] # Unset
      BY <2>2, <2>3
  <2> QED
      BY <2>1, <2>5, <2>6 DEF q
<1>6. K \in S
  <2>1. K \in 0..K
      BY <1>1
  <2> HIDE DEF S, K
  <2> QED
      BY <1>1, <1>4, <1>5, <2>1, UpTo
<1>7. K \in 0..K /\ Cardinality(c[K].left) <= 0 /\ Given(K)
  <2>1. K \in 0..K /\ K - K = 0
      BY <1>1
  <2> HIDE DEF c, K
  <2> QED
      BY <1>6, <2>1
<1>8. c[K].left = {}
  <2> HIDE DEF c, K
  <2>1. Cardinality(c[K].left) = 0
      BY <1>3, <1>7
  <2> QED
      BY <1>3, <1>7, <2>1, FS_EmptySet
<1> QED
    BY <1>2, <1>7, <1>8

\* A metric is loaded once, and then none of its variables is unset.
LEMMA LoadFacts ==
    ASSUME NEW V, IsFiniteSet(V), NEW f, DOMAIN f \in SUBSET Nat, NEW vs \in [V -> Int]
    PROVE  /\ LoadMetricBestGroups(vs, f) \in [V -> Int]
           /\ \A v \in V : LoadMetricBestGroups(vs, f)[v] # Unset
           /\ (\A v \in V : vs[v] # Unset) => LoadMetricBestGroups(vs, f) = vs
<1>1. DOMAIN vs = V
    OBVIOUS
<1>2. CASE \E v \in V : vs[v] = Unset
  <2>1. LoadMetricBestGroups(vs, f) = ChoosingGroups(vs, f)[Cardinality(V)].vs
      BY <1>1, <1>2 DEF LoadMetricBestGroups
  <2> QED
      BY <1>2, <2>1, ChoosingEnds DEF GroupChoices
<1>3. CASE \A v \in V : vs[v] # Unset
    BY <1>1, <1>3 DEF LoadMetricBestGroups
<1> QED
    BY <1>2, <1>3

\* When one group has values for all names, the least such group takes them.
LEMMA WholeGroupTakesAll ==
    ASSUME NEW V, IsFiniteSet(V), V # {}, NEW f, DOMAIN f \in SUBSET Nat,
           NEW k \in DOMAIN f, CountedIn(f, k, V) = V, NEW p \in GroupChoices(V), p.left = V
    PROVE  \E d \in DOMAIN f : /\ ChooseGroup(p, f).left = {}
                              /\ \A v \in V : ChooseGroup(p, f).vs[v] = d
<1> DEFINE best == BestGroups(f, V)
           d == Min(best)
<1>1. \A b \in DOMAIN f :
         /\ CountedIn(f, b, V) \in SUBSET V /\ IsFiniteSet(CountedIn(f, b, V))
         /\ Cardinality(CountedIn(f, b, V)) <= Cardinality(V)
         /\ Cardinality(CountedIn(f, b, V)) = Cardinality(V) => CountedIn(f, b, V) = V
         /\ Cardinality(CountedIn(f, b, V)) \in Nat
  <2> SUFFICES ASSUME NEW b \in DOMAIN f
               PROVE  /\ CountedIn(f, b, V) \in SUBSET V /\ IsFiniteSet(CountedIn(f, b, V))
                      /\ Cardinality(CountedIn(f, b, V)) <= Cardinality(V)
                      /\ Cardinality(CountedIn(f, b, V)) = Cardinality(V) => CountedIn(f, b, V) = V
                      /\ Cardinality(CountedIn(f, b, V)) \in Nat
      OBVIOUS
  <2>1. CountedIn(f, b, V) \in SUBSET V
      BY DEF CountedIn
  <2> QED
      BY <2>1, FS_Subset, FS_CardinalityType
<1>2. k \in best
    BY <1>1 DEF BestGroups
<1>3. d \in best /\ d \in DOMAIN f
    BY <1>2, BestIsSome
<1>4. CountedIn(f, d, V) = V
  <2>1. Cardinality(CountedIn(f, k, V)) <= Cardinality(CountedIn(f, d, V))
      BY <1>3 DEF BestGroups
  <2>2. Cardinality(V) \in Nat
      BY FS_CardinalityType
  <2> HIDE DEF d
  <2> QED
      BY <1>1, <1>3, <2>1, <2>2
<1>5. DOMAIN p.vs = V
    BY DEF GroupChoices
<1>6. ChooseGroup(p, f) = [left |-> V \ V, vs |-> [v \in V |-> IF v \in V THEN d ELSE p.vs[v]]]
    BY <1>2, <1>4, <1>5 DEF ChooseGroup
<1> QED
    BY <1>3, <1>6

LEMMA LoadFromOneGroup ==
    ASSUME NEW V, IsFiniteSet(V), V # {}, NEW f, DOMAIN f \in SUBSET Nat,
           NEW k \in DOMAIN f, CountedIn(f, k, V) = V,
           NEW vs \in [V -> Int], \A v \in V : vs[v] = Unset
    PROVE  \E d \in DOMAIN f : \A v \in V : LoadMetricBestGroups(vs, f)[v] = d
<1> DEFINE K == Cardinality(V)
           c == ChoosingGroups(vs, f)
<1>1. K \in Nat /\ K # 0
    BY FS_CardinalityType, FS_EmptySet
<1>2. /\ \A n \in 0..K : c[n] \in GroupChoices(V)
      /\ c[0] = [left |-> V, vs |-> vs]
      /\ \A n \in 1..K : c[n] = ChooseGroup(c[n - 1], f)
  <2>1. c \in [0..K -> GroupChoices(V)]
      BY ChoosingIsDefined
  <2> HIDE DEF c, K
  <2>2. \A n \in 0..K : c[n] \in GroupChoices(V)
      BY <2>1
  <2> QED
      BY <2>2, ChoosingIsDefined DEF c, K
<1>3. 0 \in 0..K /\ 1 \in 1..K /\ 1 - 1 = 0
    BY <1>1
<1>4. PICK d \in DOMAIN f : c[1].left = {} /\ \A v \in V : c[1].vs[v] = d
  <2> HIDE DEF c, K
  <2>1. c[0] \in GroupChoices(V) /\ c[0].left = V /\ c[1] = ChooseGroup(c[0], f)
      BY <1>2, <1>3
  <2> QED
      BY <2>1, WholeGroupTakesAll
<1> DEFINE S == {n \in 0..K : n = 0 \/ (c[n].left = {} /\ \A v \in V : c[n].vs[v] = d)}
<1>5. ASSUME NEW n \in 1..K, n - 1 \in S PROVE n \in S
  <2>1. n - 1 \in 0..K /\ n \in 0..K
      BY <1>1
  <2>2. CASE n = 1
      BY <1>4, <2>1, <2>2
  <2>3. CASE n # 1
    <3>1. c[n - 1].left = {} /\ \A v \in V : c[n - 1].vs[v] = d
        BY <1>5, <2>3
    <3> HIDE DEF c, K
    <3>2. c[n].left = {} /\ \A v \in V : c[n].vs[v] = d
        BY <1>2, <2>1, <3>1, ChooseGroupFacts
    <3> QED
        BY <2>1, <3>2 DEF c, K
  <2> QED
      BY <2>2, <2>3
<1>6. K \in S
  <2>1. 0 \in S /\ K \in 0..K
      BY <1>1
  <2> HIDE DEF S, K
  <2> QED
      BY <1>1, <1>5, <2>1, UpTo
<1>7. LoadMetricBestGroups(vs, f) = c[K].vs
    BY DEF LoadMetricBestGroups
<1> QED
    BY <1>1, <1>6, <1>7

-----------------------------------------------------------------------------
(* The groups of all variables, frame after frame.                         *)

\* Each metric has finitely many variables, each with the number of a group.
Numbered(all) ==
    /\ all = [m \in DOMAIN all |-> all[m]]
    /\ \A m \in DOMAIN all : IsFiniteSet(DOMAIN all[m]) /\ all[m] \in [DOMAIN all[m] -> Int]

\* The assignments of numbers to the same variables.
Renumbered(all) ==
    {w \in [DOMAIN all -> UNION {[DOMAIN all[m] -> Int] : m \in DOMAIN all}] :
        \A m \in DOMAIN all : w[m] \in [DOMAIN all[m] -> Int]}

LEMMA RenumberedByMetric ==
    ASSUME NEW all, NEW w, w = [m \in DOMAIN all |-> w[m]],
           \A m \in DOMAIN all : w[m] \in [DOMAIN all[m] -> Int]
    PROVE  w \in Renumbered(all)
<1>1. \A m \in DOMAIN all : w[m] \in UNION {[DOMAIN all[n] -> Int] : n \in DOMAIN all}
    OBVIOUS
<1>2. w \in [DOMAIN all -> UNION {[DOMAIN all[n] -> Int] : n \in DOMAIN all}]
    BY <1>1
<1> QED
    BY <1>2 DEF Renumbered

\* One frame.
LoadedFrom(w, f) == [m \in DOMAIN w |-> LoadMetricBestGroups(w[m], f)]

LEMMA LoadedFromFacts ==
    ASSUME NEW all, Numbered(all), NEW w \in Renumbered(all), NEW f, DOMAIN f \in SUBSET Nat
    PROVE  /\ DOMAIN w = DOMAIN all
           /\ LoadedFrom(w, f) \in Renumbered(all)
<1>1. DOMAIN w = DOMAIN all /\ \A m \in DOMAIN all : w[m] \in [DOMAIN all[m] -> Int]
    BY DEF Renumbered
<1>2. \A m \in DOMAIN all : IsFiniteSet(DOMAIN all[m])
    BY DEF Numbered
<1>3. \A m \in DOMAIN all : LoadMetricBestGroups(w[m], f) \in [DOMAIN all[m] -> Int]
    BY <1>1, <1>2, LoadFacts
<1>4. LoadedFrom(w, f) = [m \in DOMAIN all |-> LoadMetricBestGroups(w[m], f)]
    BY <1>1 DEF LoadedFrom
<1>5. /\ LoadedFrom(w, f) = [m \in DOMAIN all |-> LoadedFrom(w, f)[m]]
      /\ \A m \in DOMAIN all : LoadedFrom(w, f)[m] \in [DOMAIN all[m] -> Int]
    BY <1>3, <1>4
<1> QED
    BY <1>1, <1>5, RenumberedByMetric

LEMMA LoadingIsDefined ==
    ASSUME NEW all, Numbered(all), NEW fs, Len(fs) \in Nat,
           \A n \in 1..Len(fs) : DOMAIN fs[n] \in SUBSET Nat
    PROVE  /\ LoadingGroups(all, fs)[0] = all
           /\ \A n \in 1..Len(fs) :
                 LoadingGroups(all, fs)[n] = LoadedFrom(LoadingGroups(all, fs)[n - 1], fs[n])
           /\ \A n \in 0..Len(fs) : LoadingGroups(all, fs)[n] \in Renumbered(all)
<1> DEFINE K == Len(fs)
           D == Renumbered(all)
           g == [p \in (1..K) \X D |-> LoadedFrom(p[2], fs[p[1]])]
           E(h) == [n \in 0..K |-> IF n = 0 THEN all
                       ELSE [m \in DOMAIN all |-> LoadMetricBestGroups(h[n - 1][m], fs[n])]]
           c == LoadingGroups(all, fs)
<1>1. K \in Nat
    OBVIOUS
<1>2. all \in D
    BY RenumberedByMetric DEF Numbered
<1>3. g \in [(1..K) \X D -> D]
  <2>1. \A p \in (1..K) \X D : LoadedFrom(p[2], fs[p[1]]) \in D
      BY LoadedFromFacts
  <2> QED
      BY <2>1
<1>4. c = (CHOOSE h : h = E(h))
    BY DEF LoadingGroups
<1>5. PICK h \in [0..K -> D] : h = Recursion(all, K, g, h)
  <2> HIDE DEF K, D, g
  <2>1. IsDefined(D, all, K, g)
      BY <1>1, <1>2, <1>3, RecursionIsSome
  <2> QED
      BY <2>1 DEF IsDefined
<1>6. h = E(h)
  <2>1. \A n \in 0..K : n # 0 => n \in 1..K /\ n - 1 \in 0..K
      BY <1>1
  <2>2. \A n \in 0..K : n # 0 => g[<<n, h[n - 1]>>] = LoadedFrom(h[n - 1], fs[n])
      BY <2>1
  <2>3. \A n \in 0..K : n # 0 => DOMAIN h[n - 1] = DOMAIN all
    <3>1. \A n \in 0..K : n # 0 => h[n - 1] \in D
        BY <2>1
    <3> QED
        BY <3>1 DEF Renumbered
  <2>4. \A n \in 0..K : n # 0 => g[<<n, h[n - 1]>>] =
            [m \in DOMAIN all |-> LoadMetricBestGroups(h[n - 1][m], fs[n])]
      BY <2>2, <2>3 DEF LoadedFrom
  <2> HIDE DEF K, D, g
  <2> QED
      BY <1>5, <2>4 DEF Recursion
<1>7. c = E(c)
  <2> HIDE DEF E, c
  <2> QED
      BY <1>4, <1>6
<1>8. /\ c[0] = all
      /\ \A n \in 1..K : c[n] = [m \in DOMAIN all |-> LoadMetricBestGroups(c[n - 1][m], fs[n])]
  <2>1. 0 \in 0..K /\ \A n \in 1..K : n \in 0..K /\ n # 0
      BY <1>1
  <2> HIDE DEF c, K
  <2> QED
      BY <1>7, <2>1
<1> HIDE DEF c, K, E, g
<1>9. \A n \in 1..K : c[n - 1] \in D => c[n] = LoadedFrom(c[n - 1], fs[n])
    BY <1>8 DEF Renumbered, LoadedFrom
<1>10. \A n \in 0..K : c[n] \in D
  <2> DEFINE S == {n \in 0..K : c[n] \in D}
  <2>1. 0 \in S
      BY <1>1, <1>2, <1>8
  <2>2. ASSUME NEW n \in 1..K, n - 1 \in S PROVE n \in S
    <3>1. n \in 0..K /\ c[n - 1] \in D
        BY <1>1, <2>2
    <3>2. c[n] = LoadedFrom(c[n - 1], fs[n]) /\ DOMAIN fs[n] \in SUBSET Nat
        BY <1>9, <3>1 DEF K
    <3>3. c[n] \in D
        BY <3>1, <3>2, LoadedFromFacts
    <3> QED
        BY <3>1, <3>3
  <2>3. \A n \in 0..K : n \in S
    <3> HIDE DEF S
    <3> QED
        BY <1>1, <2>1, <2>2, UpTo
  <2> QED
      BY <2>3
<1>11. \A n \in 1..K : c[n] = LoadedFrom(c[n - 1], fs[n])
  <2>1. \A n \in 1..K : n - 1 \in 0..K
      BY <1>1
  <2> QED
      BY <1>9, <1>10, <2>1
<1> QED
    BY <1>8, <1>10, <1>11 DEF c, K, D

\* Only the first frame counts.
LEMMA FirstFrameDecides ==
    ASSUME NEW all, Numbered(all), NEW fs, Len(fs) \in Nat,
           \A n \in 1..Len(fs) : DOMAIN fs[n] \in SUBSET Nat
    PROVE  /\ LoadingGroups(all, fs)[Len(fs)] \in Renumbered(all)
           /\ Len(fs) = 0 => LoadingGroups(all, fs)[Len(fs)] = all
           /\ Len(fs) # 0 => LoadingGroups(all, fs)[Len(fs)] = LoadedFrom(all, fs[1])
<1> DEFINE K == Len(fs)
           c == LoadingGroups(all, fs)
           S == {n \in 0..K : n = 0 \/ c[n] = LoadedFrom(all, fs[1])}
<1>1. /\ c[0] = all
      /\ \A n \in 1..K : c[n] = LoadedFrom(c[n - 1], fs[n])
      /\ \A n \in 0..K : c[n] \in Renumbered(all)
    BY LoadingIsDefined
<1> HIDE DEF c
<1>2. ASSUME NEW n \in 1..K, n - 1 \in S PROVE n \in S
  <2>1. n \in 0..K /\ 1 \in 1..K /\ 1 - 1 = 0
      OBVIOUS
  <2>2. CASE n = 1
      BY <1>1, <2>1, <2>2
  <2>3. CASE n # 1
    <3> DEFINE w == LoadedFrom(all, fs[1])
    <3>1. c[n - 1] = w /\ c[n] = LoadedFrom(w, fs[n])
        BY <1>1, <1>2, <2>3
    <3>2. all \in Renumbered(all)
        BY RenumberedByMetric DEF Numbered
    <3>3. \A m \in DOMAIN all : /\ w[m] \in [DOMAIN all[m] -> Int]
                                /\ \A v \in DOMAIN all[m] : w[m][v] # Unset
      <4>1. DOMAIN fs[1] \in SUBSET Nat
          BY <2>1
      <4>2. w = [m \in DOMAIN all |-> LoadMetricBestGroups(all[m], fs[1])]
          BY DEF LoadedFrom
      <4>3. \A m \in DOMAIN all : IsFiniteSet(DOMAIN all[m]) /\ all[m] \in [DOMAIN all[m] -> Int]
          BY DEF Numbered
      <4> HIDE DEF w
      <4> QED
          BY <4>1, <4>2, <4>3, LoadFacts
    <3>4. DOMAIN fs[n] \in SUBSET Nat
        OBVIOUS
    <3>5. ASSUME NEW m \in DOMAIN all PROVE LoadMetricBestGroups(w[m], fs[n]) = w[m]
      <4>1. IsFiniteSet(DOMAIN all[m])
          BY DEF Numbered
      <4> HIDE DEF w
      <4> QED
          BY <3>3, <3>4, <4>1, LoadFacts
    <3>6. w = [m \in DOMAIN all |-> w[m]]
        BY DEF LoadedFrom
    <3>7. LoadedFrom(w, fs[n]) = w
      <4> HIDE DEF w
      <4>1. DOMAIN w = DOMAIN all
          BY <3>6
      <4> QED
          BY <3>5, <3>6, <4>1 DEF LoadedFrom
    <3> QED
        BY <2>1, <3>1, <3>7
  <2> QED
      BY <2>2, <2>3
<1>3. K \in S
  <2>1. 0 \in S /\ K \in 0..K /\ K \in Nat
      OBVIOUS
  <2> HIDE DEF S, K
  <2> QED
      BY <1>2, <2>1, UpTo
<1> QED
    BY <1>1, <1>3 DEF c

-----------------------------------------------------------------------------
(* The choice of the groups, as the intervals come.                        *)

\* The group of each variable of a metric is unset, or of none.
AllOrNone(vs) == (\A v \in DOMAIN vs : vs[v] = Unset) \/ (\A v \in DOMAIN vs : vs[v] # Unset)

\* The inductive invariant: the variables of a metric are unset together, and none is once
\* there have been frames.
ChoiceInv ==
    /\ Numbered(variables)
    /\ \A m \in DOMAIN variables : AllOrNone(variables[m])
    /\ frames # <<>> =>
          \A m \in DOMAIN variables : \A v \in DOMAIN variables[m] : variables[m][v] # Unset

\* There are finitely many buckets.
LEMMA KeysFinite == IsFiniteSet(Keys)
<1>1. SocketOf \in [CPU -> Nat] /\ IsFiniteSet(CPU) /\ Cgroups \in Nat
    BY FramesAssumption
<1>2. IsFiniteSet(Range(SocketOf))
  <2>1. SocketOf \in Surjection(CPU, Range(SocketOf))
      BY <1>1 DEF Surjection, Range
  <2> QED
      BY <1>1, <2>1, FS_Surjection
<1>3. IsFiniteSet(1..Cgroups)
  <2>1. 1 \in Int /\ Cgroups \in Int
      BY <1>1
  <2> QED
      BY <2>1, FS_Interval
<1>4. IsFiniteSet({0})
    BY FS_Singleton
<1> QED
    BY <1>1, <1>2, <1>3, <1>4 DEF Keys

\* The buckets of an interval are a sequence.
LEMMA BucketsAreSequence ==
    ASSUME NEW ls
    PROVE  \E n \in Nat : DOMAIN BucketEvents(ls) = 1..n
<1> DEFINE F == {s \in Keys : Bucketing(ls)[Len(ls)].list[s] # <<>>}
<1>1. Cardinality(F) \in Nat
  <2>1. F \in SUBSET Keys
      OBVIOUS
  <2> HIDE DEF F
  <2> QED
      BY <2>1, KeysFinite, FS_Subset, FS_CardinalityType
<1>2. DOMAIN BucketEvents(ls) = 1..Cardinality(F)
  <2>1. DOMAIN Indices(F) = 1..Cardinality(F)
      BY DEF Indices
  <2> QED
      BY <2>1 DEF BucketEvents
<1> QED
    BY <1>1, <1>2

\* What a step does to the groups of the variables: nothing, or what the first of the frames
\* that come says, if any comes.
Loaded ==
    /\ Numbered(variables)
    /\ variables' \in Renumbered(variables)
    /\ IF frames' = <<>> THEN variables' = variables
       ELSE /\ DOMAIN frames'[1] \in SUBSET Nat
            /\ variables' = LoadedFrom(variables, frames'[1])

LEMMA ProcessLoads ==
    ASSUME ChoiceInv, NEW all, NEW n, ProcessEvents(all, n)
    PROVE  Loaded \/ UNCHANGED <<variables, frames>>
<1> DEFINE buckets == BucketEvents(SubSeq(all, 1, n))
           events == [k \in DOMAIN buckets |-> AggregateUncoreEvents(buckets[k])]
<1>1. CASE \E k \in DOMAIN events : Misaligned(events[k])
    BY <1>1 DEF ProcessEvents
<1>2. CASE ~\E k \in DOMAIN events : Misaligned(events[k])
  <2>1. /\ frames' = [k \in DOMAIN events |-> Frame(events[k])]
        /\ variables' = LoadingGroups(variables, frames')[Len(frames')]
      BY <1>2 DEF ProcessEvents
  <2>2. PICK K \in Nat : DOMAIN buckets = 1..K
      BY BucketsAreSequence
  <2>3. frames' = [k \in 1..K |-> Frame(events[k])]
      BY <2>1, <2>2
  <2>4. Len(frames') = K /\ \A k \in 1..K : frames'[k] = Frame(events[k])
    <3> HIDE DEF events
    <3> QED
        BY <2>3
  <2>5. \A b : DOMAIN Frame(b) \in SUBSET Nat
    <3>1. \A b : \A k \in DOMAIN Frame(b) : k \in Nat
        BY DEF Frame
    <3> QED
        BY <3>1
  <2>6. \A k \in 1..Len(frames') : DOMAIN frames'[k] \in SUBSET Nat
    <3> HIDE DEF events
    <3> QED
        BY <2>4, <2>5
  <2>7. Numbered(variables)
      BY DEF ChoiceInv
  <2>8. (frames' = <<>>) <=> (K = 0)
    <3> HIDE DEF events
    <3> QED
        BY <2>3, <2>4
  <2> HIDE DEF events, buckets
  <2>9. PICK fs : fs = frames'
      OBVIOUS
  <2>10. /\ LoadingGroups(variables, fs)[Len(fs)] \in Renumbered(variables)
         /\ Len(fs) = 0 => LoadingGroups(variables, fs)[Len(fs)] = variables
         /\ Len(fs) # 0 => LoadingGroups(variables, fs)[Len(fs)] = LoadedFrom(variables, fs[1])
      BY <2>4, <2>6, <2>7, <2>9, FirstFrameDecides
  <2>11. K # 0 => DOMAIN fs[1] \in SUBSET Nat
      BY <2>4, <2>6, <2>9
  <2> QED
      BY <2>1, <2>4, <2>7, <2>8, <2>9, <2>10, <2>11 DEF Loaded
<1> QED
    BY <1>1, <1>2

LEMMA StepLoads ==
    ASSUME ChoiceInv, [FramesNext]_<<vars, frameVars>>
    PROVE  Loaded \/ UNCHANGED <<variables, frames>>
<1>1. CASE Load
    BY <1>1 DEF Load, frameVars
<1>2. CASE StartPerf
    BY <1>2 DEF StartPerf
<1>3. CASE Interval
    BY <1>3, ProcessLoads DEF Interval
<1>4. CASE UNCHANGED <<vars, frameVars>>
    BY <1>4 DEF frameVars
<1> QED
    BY <1>1, <1>2, <1>3, <1>4 DEF FramesNext

\* What loading does to one metric.
LEMMA LoadedByMetric ==
    ASSUME Loaded, NEW m \in DOMAIN variables
    PROVE  /\ variables' = [d \in DOMAIN variables |-> variables'[d]]
           /\ variables'[m] \in [DOMAIN variables[m] -> Int]
           /\ IsFiniteSet(DOMAIN variables[m])
           /\ frames' = <<>> => variables'[m] = variables[m]
           /\ frames' # <<>> => /\ variables'[m] = LoadMetricBestGroups(variables[m], frames'[1])
                               /\ \A v \in DOMAIN variables[m] : variables'[m][v] # Unset
           /\ (\A v \in DOMAIN variables[m] : variables[m][v] # Unset)
                 => variables'[m] = variables[m]
<1>1. PICK fs, w : fs = frames' /\ w = variables'
    OBVIOUS
<1>2. w \in Renumbered(variables) /\ Numbered(variables)
    BY <1>1 DEF Loaded
<1>3. w = [d \in DOMAIN variables |-> w[d]] /\ w[m] \in [DOMAIN variables[m] -> Int]
    BY <1>2 DEF Renumbered
<1>4. IsFiniteSet(DOMAIN variables[m]) /\ variables[m] \in [DOMAIN variables[m] -> Int]
    BY <1>2 DEF Numbered
<1>5. CASE fs = <<>>
    BY <1>1, <1>3, <1>4, <1>5 DEF Loaded
<1>6. CASE fs # <<>>
  <2>1. DOMAIN fs[1] \in SUBSET Nat /\ w[m] = LoadMetricBestGroups(variables[m], fs[1])
      BY <1>1, <1>6 DEF Loaded, LoadedFrom
  <2>2. /\ \A v \in DOMAIN variables[m] : LoadMetricBestGroups(variables[m], fs[1])[v] # Unset
        /\ (\A v \in DOMAIN variables[m] : variables[m][v] # Unset)
              => LoadMetricBestGroups(variables[m], fs[1]) = variables[m]
      BY <1>4, <2>1, LoadFacts
  <2> QED
      BY <1>1, <1>3, <1>4, <1>6, <2>1, <2>2
<1> QED
    BY <1>5, <1>6

LEMMA ChoiceInit == FramesInit => ChoiceInv
<1> SUFFICES ASSUME FramesInit PROVE ChoiceInv
    OBVIOUS
<1>1. metrics \in Seq(Seq(Events))
    BY EventAssumption DEF FramesInit, Init
<1>2. /\ DOMAIN selected \subseteq DOMAIN metrics
      /\ \A m \in DOMAIN selected : selected[m] = metrics[m]
    BY DEF FramesInit, Restrict
<1>3. ASSUME NEW m \in DOMAIN selected PROVE IsFiniteSet(Range(selected[m]) \ Skipped)
  <2>1. selected[m] \in Seq(Events)
      BY <1>1, <1>2
  <2>2. Len(selected[m]) \in Nat /\ DOMAIN selected[m] = 1..Len(selected[m])
      BY <2>1
  <2>3. selected[m] \in Surjection(1..Len(selected[m]), Range(selected[m]))
      BY <2>1, <2>2 DEF Surjection, Range
  <2>4. IsFiniteSet(Range(selected[m]))
      BY <2>2, <2>3, FS_Interval, FS_Surjection
  <2> QED
      BY <2>4, FS_Subset
<1>4. variables = [m \in DOMAIN selected |-> [e \in Range(selected[m]) \ Skipped |-> Unset]]
    BY DEF FramesInit
<1>5. Unset \in Int
    BY DEF Unset
<1>6. Numbered(variables)
    BY <1>3, <1>4, <1>5 DEF Numbered
<1>7. \A m \in DOMAIN variables : \A v \in DOMAIN variables[m] : variables[m][v] = Unset
    BY <1>4
<1>8. frames = <<>>
    BY DEF FramesInit
<1> QED
    BY <1>6, <1>7, <1>8 DEF ChoiceInv, AllOrNone

LEMMA ChoiceStep == ChoiceInv /\ [FramesNext]_<<vars, frameVars>> => ChoiceInv'
<1> SUFFICES ASSUME ChoiceInv, [FramesNext]_<<vars, frameVars>> PROVE ChoiceInv'
    OBVIOUS
<1>1. CASE UNCHANGED <<variables, frames>>
    BY <1>1 DEF ChoiceInv, Numbered, AllOrNone
<1>2. CASE Loaded
  <2>1. variables' = [d \in DOMAIN variables |-> variables'[d]]
    <3>1. variables' \in Renumbered(variables)
        BY <1>2 DEF Loaded
    <3> QED
        BY <3>1 DEF Renumbered
  <2>2. \A m \in DOMAIN variables :
           /\ variables'[m] \in [DOMAIN variables[m] -> Int] /\ IsFiniteSet(DOMAIN variables[m])
           /\ DOMAIN variables'[m] = DOMAIN variables[m]
           /\ AllOrNone(variables'[m])
           /\ frames' # <<>> => \A v \in DOMAIN variables[m] : variables'[m][v] # Unset
    <3> SUFFICES ASSUME NEW m \in DOMAIN variables
                 PROVE  /\ variables'[m] \in [DOMAIN variables[m] -> Int] /\ IsFiniteSet(DOMAIN variables[m])
                        /\ DOMAIN variables'[m] = DOMAIN variables[m]
                        /\ AllOrNone(variables'[m])
                        /\ frames' # <<>> => \A v \in DOMAIN variables[m] : variables'[m][v] # Unset
        OBVIOUS
    <3>1. DOMAIN variables'[m] = DOMAIN variables[m]
        BY <1>2, LoadedByMetric
    <3>2. AllOrNone(variables[m])
        BY DEF ChoiceInv
    <3> QED
        BY <1>2, <3>1, <3>2, LoadedByMetric DEF AllOrNone
  <2>3. DOMAIN variables' = DOMAIN variables
      BY <2>1
  <2>4. Numbered(variables)'
      BY <2>1, <2>2, <2>3 DEF Numbered
  <2> QED
      BY <2>2, <2>3, <2>4 DEF ChoiceInv, AllOrNone
<1> QED
    BY <1>1, <1>2, StepLoads

LEMMA ChoiceAlways == FramesSpec => []ChoiceInv
BY ChoiceInit, ChoiceStep, PTL DEF FramesSpec

\* The group of a variable is chosen in the first frame that comes, and never again: every
\* frame of every interval reads the variable from there (loadMetricBestGroups).
THEOREM GroupsOfVariablesStay == FramesSpec => VariablesStay
<1>1. ASSUME ChoiceInv, [FramesNext]_<<vars, frameVars>>,
             NEW m \in DOMAIN variables, NEW v \in DOMAIN variables[m], variables[m][v] # Unset
      PROVE  variables'[m][v] = variables[m][v]
  <2>1. \A d \in DOMAIN variables[m] : variables[m][d] # Unset
      BY <1>1 DEF ChoiceInv, AllOrNone
  <2> QED
      BY <1>1, <2>1, StepLoads, LoadedByMetric
<1>2. ChoiceInv /\ [FramesNext]_<<vars, frameVars>> =>
        [\A m \in DOMAIN variables : \A v \in DOMAIN variables[m] :
           variables[m][v] # Unset => variables'[m][v] = variables[m][v]]_<<vars, frameVars>>
    BY <1>1
<1> QED
    BY <1>2, ChoiceAlways, PTL DEF FramesSpec, VariablesStay

\* A metric whose variables all have values in one group of the first frame is computed from
\* one such group, and is exact: the greedy choice never splits it (loadMetricBestGroups).
THEOREM MetricsAreFromOneGroup == FramesSpec => MetricsFromOneGroup
<1> DEFINE P(m) ==
        /\ \A v \in DOMAIN variables[m] : variables[m][v] = Unset
        /\ frames' # <<>> /\ DOMAIN variables[m] # {}
        /\ \E k \in DOMAIN frames'[1] :
             CountedIn(frames'[1], k, DOMAIN variables[m]) = DOMAIN variables[m]
           Q(m) == \E k \in DOMAIN frames'[1] : \A v \in DOMAIN variables[m] : variables'[m][v] = k
<1>1. ASSUME ChoiceInv, [FramesNext]_<<vars, frameVars>>, NEW m \in DOMAIN variables, P(m)
      PROVE  Q(m)
  <2>1. CASE UNCHANGED <<variables, frames>>
    <3>1. frames # <<>>
        BY <1>1, <2>1
    <3> QED
        BY <1>1, <3>1 DEF ChoiceInv
  <2>2. CASE Loaded
    <3>1. PICK f : f = frames'[1]
        OBVIOUS
    <3>2. /\ DOMAIN f \in SUBSET Nat
          /\ variables'[m] = LoadMetricBestGroups(variables[m], f)
        BY <1>1, <2>2, <3>1, LoadedByMetric DEF Loaded
    <3>3. IsFiniteSet(DOMAIN variables[m]) /\ variables[m] \in [DOMAIN variables[m] -> Int]
        BY <1>1 DEF ChoiceInv, Numbered
    <3>4. PICK k \in DOMAIN f : CountedIn(f, k, DOMAIN variables[m]) = DOMAIN variables[m]
        BY <1>1, <3>1
    <3>5. \E d \in DOMAIN f : \A v \in DOMAIN variables[m] : LoadMetricBestGroups(variables[m], f)[v] = d
        BY <1>1, <3>2, <3>3, <3>4, LoadFromOneGroup
    <3> QED
        BY <3>1, <3>2, <3>5
  <2> QED
      BY <1>1, <2>1, <2>2, StepLoads
<1>2. ChoiceInv /\ [FramesNext]_<<vars, frameVars>> =>
        [\A m \in DOMAIN variables : P(m) => Q(m)]_<<vars, frameVars>>
    BY <1>1
<1> QED
    BY <1>2, ChoiceAlways, PTL DEF FramesSpec, MetricsFromOneGroup

-----------------------------------------------------------------------------
(* Finite sets in order.                                                   *)

\* The pairs in R are a total order of S; the rank of each element in it.
TotalOrder(S, R) ==
    /\ \A x \in S : <<x, x>> \notin R
    /\ \A x, y \in S : x = y \/ <<x, y>> \in R \/ <<y, x>> \in R
    /\ \A x, y, z \in S : <<x, y>> \in R /\ <<y, z>> \in R => <<x, z>> \in R

Ranks(S, R) == [x \in S |-> Cardinality({y \in S : <<x, y>> \notin R})]

\* The elements of a finite set have the ranks from 1, each its own, in the order.
LEMMA RanksAreAll ==
    ASSUME NEW S, IsFiniteSet(S), NEW R, TotalOrder(S, R)
    PROVE  /\ Cardinality(S) \in Nat
           /\ Ranks(S, R) \in [S -> 1..Cardinality(S)]
           /\ \A n \in 1..Cardinality(S) : \E x \in S : Ranks(S, R)[x] = n
           /\ \A x, y \in S : <<x, y>> \in R => Ranks(S, R)[x] < Ranks(S, R)[y]
           /\ \A x, y \in S : Ranks(S, R)[x] = Ranks(S, R)[y] => x = y
<1> DEFINE n == Cardinality(S)
           Below(x) == {y \in S : <<x, y>> \notin R}
           rank == Ranks(S, R)
<1>1. n \in Nat
    BY FS_CardinalityType
<1>2. \A x \in S : IsFiniteSet(Below(x)) /\ Cardinality(Below(x)) \in 1..n
  <2> SUFFICES ASSUME NEW x \in S
               PROVE  IsFiniteSet(Below(x)) /\ Cardinality(Below(x)) \in 1..n
      OBVIOUS
  <2>1. Below(x) \in SUBSET S
      OBVIOUS
  <2>2. x \in Below(x)
      BY DEF TotalOrder
  <2> HIDE DEF Below
  <2>3. IsFiniteSet(Below(x)) /\ Cardinality(Below(x)) <= n
      BY <2>1, FS_Subset
  <2>4. Cardinality(Below(x)) \in Nat
      BY <2>3, FS_CardinalityType
  <2>5. Cardinality(Below(x)) # 0
      BY <2>2, <2>3, FS_EmptySet
  <2> HIDE DEF n
  <2> QED
      BY <1>1, <2>3, <2>4, <2>5
<1>3. \A x, y \in S : <<x, y>> \in R => Cardinality(Below(x)) < Cardinality(Below(y))
  <2> SUFFICES ASSUME NEW x \in S, NEW y \in S, <<x, y>> \in R
               PROVE  Cardinality(Below(x)) < Cardinality(Below(y))
      OBVIOUS
  <2>1. Below(x) \in SUBSET Below(y)
    <3>1. \A z \in S : <<x, z>> \notin R => <<y, z>> \notin R
        BY DEF TotalOrder
    <3> QED
        BY <3>1
  <2>2. y \in Below(y) /\ y \notin Below(x)
      BY DEF TotalOrder
  <2>3. IsFiniteSet(Below(y)) /\ Cardinality(Below(x)) \in 1..n /\ Cardinality(Below(y)) \in 1..n
      BY <1>2
  <2> HIDE DEF Below
  <2>4. /\ Cardinality(Below(x)) <= Cardinality(Below(y))
        /\ Cardinality(Below(y)) # Cardinality(Below(x))
      BY <2>1, <2>2, <2>3, FS_Subset
  <2> HIDE DEF n
  <2> QED
      BY <1>1, <2>3, <2>4
<1>4. rank = [x \in S |-> Cardinality(Below(x))]
    BY DEF Ranks
<1> HIDE DEF Below, rank
<1>5. rank \in [S -> 1..n] /\ \A x, y \in S : <<x, y>> \in R => rank[x] < rank[y]
    BY <1>2, <1>3, <1>4
<1>6. \A x, y \in S : rank[x] = rank[y] => x = y
  <2> SUFFICES ASSUME NEW x \in S, NEW y \in S, rank[x] = rank[y] PROVE x = y
      OBVIOUS
  <2>1. rank[x] \in 1..n /\ rank[y] \in 1..n
      BY <1>5
  <2>2. ~(rank[x] < rank[y]) /\ ~(rank[y] < rank[x])
    <3> HIDE DEF n
    <3> QED
        BY <1>1, <2>1
  <2> QED
      BY <1>5, <2>2 DEF TotalOrder
<1>7. \A k \in 1..n : \E x \in S : rank[x] = k
  <2>1. rank \in Injection(S, 1..n)
      BY <1>5, <1>6 DEF Injection, IsInjective
  <2>2. IsFiniteSet(1..n) /\ Cardinality(1..n) = n
    <3> HIDE DEF n
    <3>1. 1 \in Int /\ n \in Int
        BY <1>1
    <3> QED
        BY <1>1, <3>1, FS_Interval
  <2>3. rank \in Surjection(S, 1..n)
      BY <2>1, <2>2, FS_Injection
  <2> QED
      BY <2>3 DEF Surjection
<1> QED
    BY <1>1, <1>5, <1>6, <1>7 DEF rank

\* The ascending sequence of a finite set of numbers has its elements, each once.
LEMMA IndicesAreAll ==
    ASSUME NEW S \in SUBSET Nat, IsFiniteSet(S)
    PROVE  /\ Cardinality(S) \in Nat
           /\ \A n \in 1..Cardinality(S) : Indices(S)[n] \in S
           /\ \A m, n \in 1..Cardinality(S) : Indices(S)[m] = Indices(S)[n] => m = n
           /\ \A x \in S : \E n \in 1..Cardinality(S) : Indices(S)[n] = x
<1> DEFINE R == {p \in S \X S : p[1] < p[2]}
           rank == Ranks(S, R)
           idx == Indices(S)
<1>1. \A x, y \in S : <<x, y>> \in R <=> x < y
    OBVIOUS
<1>2. TotalOrder(S, R)
  <2> HIDE DEF R
  <2>1. \A x \in S : x \in Nat
      OBVIOUS
  <2> QED
      BY <1>1, <2>1 DEF TotalOrder
<1>3. /\ Cardinality(S) \in Nat
      /\ rank \in [S -> 1..Cardinality(S)]
      /\ \A n \in 1..Cardinality(S) : \E x \in S : rank[x] = n
      /\ \A x, y \in S : rank[x] = rank[y] => x = y
  <2> HIDE DEF R
  <2> QED
      BY <1>2, RanksAreAll
<1>4. \A x \in S : {y \in S : <<x, y>> \notin R} = {y \in S : y <= x}
  <2> SUFFICES ASSUME NEW x \in S, NEW y \in S PROVE <<x, y>> \notin R <=> y <= x
      OBVIOUS
  <2>1. x \in Nat /\ y \in Nat
      OBVIOUS
  <2> HIDE DEF R
  <2> QED
      BY <1>1, <2>1
<1>5. \A x \in S : rank[x] = Cardinality({y \in S : y <= x})
    BY <1>4 DEF Ranks
<1> HIDE DEF rank
<1>6. \A n \in 1..Cardinality(S) : \E x \in S : Cardinality({y \in S : y <= x}) = n
    BY <1>3, <1>5
<1>7. \A n \in 1..Cardinality(S) : idx[n] \in S /\ Cardinality({y \in S : y <= idx[n]}) = n
    BY <1>3, <1>6 DEF Indices
<1> HIDE DEF idx
<1>8. \A n \in 1..Cardinality(S) : idx[n] \in S /\ rank[idx[n]] = n
    BY <1>5, <1>7
<1>9. \A x \in S : rank[x] \in 1..Cardinality(S) /\ idx[rank[x]] = x
    BY <1>3, <1>8
<1> QED
    BY <1>3, <1>8, <1>9 DEF idx

\* Before is a total order of places with numbers.
Numbers == [cgroup : Nat, group : Nat, device : Nat, at : Nat, cpu : Nat]

LEMMA BeforeIsOrder ==
    ASSUME NEW P \in SUBSET Numbers
    PROVE  /\ \A p \in P : ~Before(p, p)
           /\ \A p, q \in P : p = q \/ Before(p, q) \/ Before(q, p)
           /\ \A p, q, r \in P : Before(p, q) /\ Before(q, r) => Before(p, r)
<1>1. \A p \in P : /\ p.cgroup \in Nat /\ p.group \in Nat /\ p.device \in Nat /\ p.at \in Nat /\ p.cpu \in Nat
                   /\ p = [cgroup |-> p.cgroup, group |-> p.group, device |-> p.device, at |-> p.at, cpu |-> p.cpu]
    BY DEF Numbers
<1>2. \A p \in P : ~Before(p, p)
    BY <1>1 DEF Before
<1>3. \A p, q \in P : p = q \/ Before(p, q) \/ Before(q, p)
  <2> SUFFICES ASSUME NEW p \in P, NEW q \in P, ~Before(p, q), ~Before(q, p) PROVE p = q
      OBVIOUS
  <2>1. /\ p.cgroup = q.cgroup /\ p.group = q.group /\ p.device = q.device
        /\ p.at = q.at /\ p.cpu = q.cpu
      BY <1>1 DEF Before
  <2> QED
      BY <1>1, <2>1
<1>4. \A p, q, r \in P : Before(p, q) /\ Before(q, r) => Before(p, r)
  <2> SUFFICES ASSUME NEW p \in P, NEW q \in P, NEW r \in P, Before(p, q), Before(q, r)
               PROVE  Before(p, r)
      OBVIOUS
  <2> QED
      BY <1>1 DEF Before
<1> QED
    BY <1>2, <1>3, <1>4

\* Places in order: each once, and the earlier before the later.
LEMMA InOrderFacts ==
    ASSUME NEW P \in SUBSET Numbers, IsFiniteSet(P)
    PROVE  /\ Cardinality(P) \in Nat
           /\ DOMAIN InOrder(P) = 1..Cardinality(P)
           /\ \A n \in 1..Cardinality(P) : InOrder(P)[n] \in P
           /\ \A m, n \in 1..Cardinality(P) : m < n => Before(InOrder(P)[m], InOrder(P)[n])
           /\ \A p \in P : \E n \in 1..Cardinality(P) : InOrder(P)[n] = p
<1> DEFINE R == {x \in P \X P : Before(x[1], x[2])}
           rank == Ranks(P, R)
           s == InOrder(P)
<1>1. \A p, q \in P : <<p, q>> \in R <=> Before(p, q)
    OBVIOUS
<1>2. s = [n \in 1..Cardinality(P) |-> CHOOSE p \in P : rank[p] = n]
  <2>1. \A p \in P : {q \in P : ~Before(p, q)} = {q \in P : <<p, q>> \notin R}
      BY <1>1
  <2> DEFINE counted == [p \in P |-> Cardinality({q \in P : ~Before(p, q)})]
  <2>2. counted = rank
      BY <2>1 DEF Ranks
  <2>3. s = [n \in 1..Cardinality(P) |-> CHOOSE p \in P : counted[p] = n]
      BY DEF InOrder
  <2> HIDE DEF counted, rank, s
  <2> QED
      BY <2>2, <2>3
<1> HIDE DEF R, rank, s
<1>3. TotalOrder(P, R)
    BY <1>1, BeforeIsOrder DEF TotalOrder
<1>4. /\ Cardinality(P) \in Nat
      /\ rank \in [P -> 1..Cardinality(P)]
      /\ \A n \in 1..Cardinality(P) : \E p \in P : rank[p] = n
      /\ \A p, q \in P : <<p, q>> \in R => rank[p] < rank[q]
      /\ \A p, q \in P : rank[p] = rank[q] => p = q
    BY <1>3, RanksAreAll DEF rank
<1>5. DOMAIN s = 1..Cardinality(P)
    BY <1>2
<1>6. \A n \in 1..Cardinality(P) : s[n] \in P /\ rank[s[n]] = n
    BY <1>2, <1>4
<1>7. \A m, n \in 1..Cardinality(P) : m < n => Before(s[m], s[n])
  <2> SUFFICES ASSUME NEW m \in 1..Cardinality(P), NEW n \in 1..Cardinality(P), m < n
               PROVE  Before(s[m], s[n])
      OBVIOUS
  <2>1. m \in Nat /\ n \in Nat /\ m # n /\ ~(n < m)
      BY <1>4
  <2>2. s[m] \in P /\ s[n] \in P /\ rank[s[m]] = m /\ rank[s[n]] = n
      BY <1>6
  <2>3. s[m] # s[n] /\ <<s[n], s[m]>> \notin R
      BY <1>4, <2>1, <2>2
  <2> QED
      BY <1>1, <2>2, <2>3, BeforeIsOrder
<1>8. \A p \in P : s[rank[p]] = p
    BY <1>4, <1>6
<1> QED
    BY <1>4, <1>5, <1>6, <1>7, <1>8 DEF s

-----------------------------------------------------------------------------
(* Without "Uncore" the loader forms no uncore group.                      *)

NoUncore(s) == Groups(s) \cap UncoreEvent = {}

UncoreFormed ==
    "Uncore" \notin metadata =>
        /\ NoUncore(todo) /\ NoUncore(formed.other) /\ NoUncore(groups.other)
        /\ open.uncore = NewGroup /\ formed.uncore = <<>> /\ groups.uncore = <<>>

LEMMA UncoreFormedInit == Init => UncoreFormed
BY DEF Init, UncoreFormed, NoUncore, Groups, NoGroups, NewGroups

\* The steps that collect the events of a metric.
LEMMA UncoreFormedCollect ==
    ASSUME TypeOK, UncoreFormed, "Uncore" \notin metadata, metadata' = metadata,
           StartMetric \/ AddToCoreGroup \/ AddToUncoreGroup \/ AddOther
    PROVE  UncoreFormed'
<1>1. /\ NoUncore(todo) /\ NoUncore(formed.other) /\ NoUncore(groups.other)
      /\ open.uncore = NewGroup /\ formed.uncore = <<>> /\ groups.uncore = <<>>
    BY DEF UncoreFormed
<1>2. todo \in Seq(Events) /\ formed \in GroupLists /\ open \in [core : CoreGroup, uncore : UncoreGroup]
    BY DEF TypeOK
<1>3. NoUncore(Tail(todo)) \/ todo = <<>>
  <2> SUFFICES ASSUME todo # <<>> PROVE NoUncore(Tail(todo))
      OBVIOUS
  <2>1. \A n \in DOMAIN Tail(todo) : n + 1 \in DOMAIN todo /\ Tail(todo)[n] = todo[n + 1]
      BY <1>2
  <2> QED
      BY <1>1, <2>1 DEF NoUncore, Groups
<1>4. NoUncore(<<>>)
    BY DEF NoUncore, Groups
<1>5. CASE StartMetric
  <2>1. todo' = Head(metrics) /\ Collectable(Head(metrics)) /\ groups' = groups
        /\ formed' = NoGroups /\ open' = NewGroups
      BY <1>5 DEF StartMetric
  <2>2. \A n \in DOMAIN Head(metrics) : Head(metrics)[n] \notin UncoreEvent
      BY <2>1 DEF Collectable, IsCollectable
  <2>3. NoUncore(todo')
      BY <2>1, <2>2 DEF NoUncore, Groups
  <2> QED
      BY <1>1, <1>4, <2>1, <2>3 DEF UncoreFormed, NoGroups, NewGroups, NoUncore
<1>6. CASE AddToCoreGroup
  <2>1. AddToGroup("core") /\ todo # <<>>
      BY <1>6 DEF AddToCoreGroup, Collecting
  <2>2. todo' = Tail(todo) \/ todo' = <<>>
      BY <2>1 DEF AddToGroup
  <2>3. groups' = groups /\ formed'.uncore = formed.uncore /\ formed'.other = formed.other
        /\ open'.uncore = open.uncore
      BY <1>2, <2>1 DEF AddToGroup, GroupLists
  <2>4. NoUncore(todo')
      BY <1>3, <1>4, <2>1, <2>2
  <2> QED
      BY <1>1, <2>3, <2>4 DEF UncoreFormed, NoUncore
<1>7. CASE AddToUncoreGroup
  <2>1. Head(todo) \in UncoreEvent /\ 1 \in DOMAIN todo /\ Head(todo) = todo[1]
      BY <1>2, <1>7 DEF AddToUncoreGroup, Collecting
  <2> QED
      BY <1>1, <2>1 DEF NoUncore, Groups
<1>8. CASE AddOther
  <2>1. todo # <<>> /\ todo' = Tail(todo) /\ groups' = groups /\ open' = open
      BY <1>8 DEF AddOther, Collecting
  <2>2. CASE formed' = formed
      BY <1>1, <1>3, <2>1, <2>2 DEF UncoreFormed, NoUncore
  <2>3. CASE Head(todo) \in OtherEvent /\ formed' = [formed EXCEPT !.other = Append(@, Head(todo))]
    <3>1. formed.other \in Seq(OtherEvent)
        BY <1>2 DEF GroupLists
    <3>2. formed'.uncore = formed.uncore /\ formed'.other = Append(formed.other, Head(todo))
        BY <1>2, <2>3 DEF GroupLists
    <3>3. Range(formed'.other) = Range(formed.other) \cup {Head(todo)}
        BY <2>3, <3>1, <3>2, RangeOfAppend
    <3>4. 1 \in DOMAIN todo /\ Head(todo) = todo[1]
        BY <1>2, <2>1
    <3>5. NoUncore(formed'.other)
        BY <1>1, <3>3, <3>4 DEF NoUncore, Groups, Range
    <3> QED
        BY <1>1, <1>3, <2>1, <3>2, <3>5 DEF UncoreFormed, NoUncore
  <2> QED
      BY <1>8, <2>2, <2>3 DEF AddOther
<1> QED
    BY <1>5, <1>6, <1>7, <1>8

\* The steps after that; of the uncore groups there is no pair, and none to merge.
LEMMA UncoreFormedLoad ==
    ASSUME TypeOK, UncoreFormed, "Uncore" \notin metadata, metadata' = metadata,
           \/ EndMetric \/ AllMetricsDone \/ SkipMetric \/ CompareGroups \/ NextRow \/ EndPass
           \/ StartMerge \/ MergeFixed \/ MergeGP \/ CompleteMerge
    PROVE  UncoreFormed'
<1>1. /\ NoUncore(todo) /\ NoUncore(formed.other) /\ NoUncore(groups.other)
      /\ open.uncore = NewGroup /\ formed.uncore = <<>> /\ groups.uncore = <<>>
    BY DEF UncoreFormed
<1>2. /\ groups \in GroupLists /\ formed \in GroupLists /\ kind \in Kinds
      /\ i \in Nat \ {0} /\ j \in Nat /\ i < j
    BY DEF TypeOK
<1>3. ASSUME UNCHANGED <<todo, formed, open>>, groups'.uncore = <<>>, groups'.other = groups.other
      PROVE  UncoreFormed'
    BY <1>1, <1>3 DEF UncoreFormed, NoUncore
<1>4. ~(Pair /\ kind = "uncore")
  <2>1. Len(<<>>) = 0 /\ ~(j <= 0)
      BY <1>2
  <2> QED
      BY <1>1, <2>1 DEF Pair
<1>5. ASSUME kind = "core", NEW s, groups' = [groups EXCEPT ![kind] = s], UNCHANGED <<todo, formed, open>>
      PROVE  UncoreFormed'
  <2>1. groups'.uncore = groups.uncore /\ groups'.other = groups.other
      BY <1>2, <1>5 DEF GroupLists
  <2> QED
      BY <1>1, <1>3, <1>5, <2>1
<1>6. ASSUME UNCHANGED <<todo, formed, open, groups>> PROVE UncoreFormed'
    BY <1>1, <1>3, <1>6
<1>7. CASE EndMetric
  <2>1. /\ groups'.uncore = groups.uncore \o Completed("uncore")
        /\ groups'.other = groups.other \o formed.other
        /\ UNCHANGED <<todo, formed, open>>
      BY <1>7 DEF EndMetric, collectVars
  <2>2. groups'.uncore = <<>>
    <3>1. EventsOf(NewGroup) = {}
        BY DEF EventsOf, OnGP, NewGroup, Range
    <3>2. Completed("uncore") = <<>> \o <<>>
        BY <1>1, <3>1 DEF Completed
    <3> QED
        BY <1>1, <2>1, <3>2
  <2>3. Groups(groups'.other) = Groups(groups.other) \cup Groups(formed.other)
    <3>1. groups.other \in Seq(OtherEvent) /\ formed.other \in Seq(OtherEvent)
        BY <1>2 DEF GroupLists
    <3> QED
        BY <2>1, <3>1, ConcatFacts
  <2> QED
      BY <1>1, <2>1, <2>2, <2>3 DEF UncoreFormed, NoUncore
<1>8. CASE AllMetricsDone \/ SkipMetric \/ NextRow \/ StartMerge
    BY <1>6, <1>8 DEF AllMetricsDone, SkipMetric, NextRow, StartMerge, collectVars
<1>9. CASE MergeFixed \/ MergeGP
    BY <1>6, <1>9 DEF MergeFixed, MergeGP, MergeEvent, collectVars
<1>10. CASE CompareGroups
  <2>1. Pair /\ UNCHANGED <<todo, formed, open>>
      BY <1>10 DEF CompareGroups, collectVars
  <2>2. kind = "core"
      BY <1>2, <1>4, <2>1 DEF Kinds
  <2> QED
      BY <1>5, <1>6, <1>10, <2>1, <2>2 DEF CompareGroups
<1>11. CASE EndPass
  <2>1. UNCHANGED <<todo, formed, open>>
      BY <1>11 DEF EndPass, collectVars
  <2>2. CASE groups' = groups
      BY <1>6, <2>1, <2>2
  <2>3. CASE groups' = [groups EXCEPT !.uncore = RemoveRepeated(@)]
    <3>1. groups'.uncore = RemoveRepeated(<<>>) /\ groups'.other = groups.other
        BY <1>1, <1>2, <2>3 DEF GroupLists
    <3>2. RemoveRepeated(<<>>) = <<>>
        BY DEF RemoveRepeated
    <3> QED
        BY <1>3, <2>1, <3>1, <3>2
  <2> QED
      BY <1>11, <2>2, <2>3 DEF EndPass
<1>12. CASE CompleteMerge
  <2>1. attempt # NoAttempt /\ UNCHANGED <<todo, formed, open>>
      BY <1>12 DEF CompleteMerge, Merging, collectVars
  <2>2. kind = "core"
    <3>1. j \in DOMAIN groups[kind]
        BY <2>1 DEF TypeOK, AttemptOK
    <3>2. kind # "uncore"
        BY <1>1, <3>1
    <3> QED
        BY <1>2, <3>2 DEF Kinds
  <2> QED
      BY <1>5, <1>12, <2>1, <2>2 DEF CompleteMerge
<1> QED
    BY <1>7, <1>8, <1>9, <1>10, <1>11, <1>12

LEMMA UncoreFormedStep == TypeOK /\ UncoreFormed /\ [Next]_vars => UncoreFormed'
<1> SUFFICES ASSUME TypeOK, UncoreFormed, [Next]_vars PROVE UncoreFormed'
    OBVIOUS
<1>1. CASE UNCHANGED vars
    BY <1>1 DEF vars, collectVars, UncoreFormed, NoUncore
<1>2. CASE Next
  <2>1. metadata' = metadata
      BY <1>2 DEF Next, SkipMetric, StartMetric, AddToCoreGroup, AddToUncoreGroup, AddToGroup, AddOther,
             EndMetric, AllMetricsDone, CompareGroups, NextRow, EndPass, StartMerge, MergeFixed, MergeGP,
             MergeEvent, CompleteMerge
  <2>2. CASE "Uncore" \in metadata
      BY <2>1, <2>2 DEF UncoreFormed
  <2>3. CASE "Uncore" \notin metadata
      BY <1>2, <2>1, <2>3, UncoreFormedCollect, UncoreFormedLoad DEF Next
  <2> QED
      BY <2>2, <2>3
<1> QED
    BY <1>1, <1>2

\* The loader is the one of EventGrouping, whatever perf does.
\* What the theorems about the loader say holds while perf runs, too.
LEMMA LoaderAlways ==
    FramesSpec => [](GroupsInv /\ UncoreInv /\ HasEventsInv /\ UncoreFormed)
<1>1. FramesInit => Init
    BY DEF FramesInit
<1>2. [FramesNext]_<<vars, frameVars>> => [Next]_vars
  <2>1. Load => Next
      BY DEF Load
  <2>2. StartPerf => UNCHANGED vars
      BY DEF StartPerf
  <2>3. \A all, n : ProcessEvents(all, n) => UNCHANGED vars
      BY DEF ProcessEvents
  <2>4. Interval => UNCHANGED vars
      BY <2>3 DEF Interval
  <2> QED
      BY <2>1, <2>2, <2>4 DEF FramesNext
<1>3. Init => CoveredInv /\ UncoreInv /\ HasEventsInv
    BY DEF Init, CoveredInv, FormedGroupsKept, Copied, UncoreInv, EachCounted, Apart, UncoreCopied,
           HasEventsInv, HasEvents, Groups, NoGroups
<1>4. GroupsInv => TypeOK
    BY DEF GroupsInv
<1> QED
    BY <1>1, <1>2, <1>3, <1>4, GroupsInit, GroupsStep, CoveredStep, UncoreStep, HasEventsStep,
       UncoreFormedInit, UncoreFormedStep, PTL DEF FramesSpec

-----------------------------------------------------------------------------
(* What perf prints.                                                       *)

\* A group has core events only, uncore events only, or one other event.
Definition == Seq(CoreEvent) \cup Seq(UncoreEvent) \cup {<<e>> : e \in OtherEvent}

LEMMA CountersFinite ==
    ASSUME NEW S \in SUBSET GPCounters PROVE S \in SUBSET Nat /\ IsFiniteSet(S)
<1>1. 0 \in Int /\ NumGeneralPurposeCounters - 1 \in Int
    BY EventAssumption
<1>2. IsFiniteSet(0..(NumGeneralPurposeCounters - 1))
    BY <1>1, FS_Interval
<1>3. IsFiniteSet(GPCounters) /\ GPCounters \in SUBSET Nat
    BY <1>1, <1>2 DEF GPCounters
<1> QED
    BY <1>3, FS_Subset

LEMMA GroupDefinitionFacts ==
    /\ \A g \in CoreGroup : GroupDefinition(g) \in Seq(CoreEvent)
    /\ \A g \in UncoreGroup : GroupDefinition(g) \in Seq(UncoreEvent)
<1>1. ASSUME NEW E, NEW g, g.fixed \in Seq(E), g.gp \in [GPCounters -> E \cup {NoEvent}]
      PROVE  GroupDefinition(g) \in Seq(E)
  <2> DEFINE S == GPCounters \ Free(g)
             others == [n \in 1..Cardinality(S) |-> g.gp[Indices(S)[n]]]
  <2>1. S \in SUBSET Nat /\ IsFiniteSet(S)
    <3>1. S \in SUBSET GPCounters
        OBVIOUS
    <3> HIDE DEF S
    <3> QED
        BY <3>1, CountersFinite
  <2>2. Cardinality(S) \in Nat /\ \A n \in 1..Cardinality(S) : Indices(S)[n] \in S
    <3> HIDE DEF S
    <3> QED
        BY <2>1, IndicesAreAll
  <2>3. \A c \in S : g.gp[c] \in E
      BY <1>1 DEF Free
  <2>4. others \in Seq(E)
    <3> HIDE DEF S
    <3>1. \A n \in 1..Cardinality(S) : g.gp[Indices(S)[n]] \in E
        BY <2>2, <2>3
    <3> QED
        BY <2>2, <3>1
  <2>5. GroupDefinition(g) = g.fixed \o others
      BY DEF GroupDefinition
  <2> HIDE DEF others
  <2> QED
      BY <1>1, <2>4, <2>5
<1>2. \A g \in CoreGroup : g.fixed \in Seq(CoreEvent) /\ g.gp \in [GPCounters -> CoreEvent \cup {NoEvent}]
    BY DEF CoreGroup
<1>3. \A g \in UncoreGroup : g.fixed \in Seq(UncoreEvent) /\ g.gp \in [GPCounters -> UncoreEvent \cup {NoEvent}]
  <2>1. <<>> \in Seq(UncoreEvent)
      OBVIOUS
  <2> QED
      BY <2>1 DEF UncoreGroup
<1> QED
    BY <1>1, <1>2, <1>3

\* No event of the groups is an uncore event.
NoUncoreIn(d) == \A g \in DOMAIN d : \A n \in DOMAIN d[g] : d[g][n] \notin UncoreEvent

LEMMA LoadedDefinitionsFacts ==
    ASSUME TypeOK, UncoreFormed
    PROVE  /\ LoadedDefinitions \in Seq(Definition)
           /\ "Uncore" \notin metadata => NoUncoreIn(LoadedDefinitions)
<1> DEFINE grouped == [n \in DOMAIN AllGroupSeq |-> GroupDefinition(AllGroupSeq[n])]
           others  == [n \in DOMAIN groups.other |-> <<groups.other[n]>>]
           G == {GroupDefinition(g) : g \in Groups(groups.core) \cup Groups(groups.uncore)}
           O == {<<e>> : e \in Groups(groups.other)}
<1>1. groups.core \in Seq(CoreGroup) /\ groups.uncore \in Seq(UncoreGroup) /\ groups.other \in Seq(OtherEvent)
    BY DEF TypeOK, GroupLists
<1>2. AllGroupSeq \in Seq(CoreGroup \cup UncoreGroup)
      /\ Groups(AllGroupSeq) = Groups(groups.core) \cup Groups(groups.uncore)
  <2>1. groups.core \in Seq(CoreGroup \cup UncoreGroup) /\ groups.uncore \in Seq(CoreGroup \cup UncoreGroup)
      BY <1>1
  <2> QED
      BY <2>1, ConcatFacts DEF AllGroupSeq
<1>3. grouped \in Seq(G)
  <2>1. DOMAIN AllGroupSeq = 1..Len(AllGroupSeq) /\ Len(AllGroupSeq) \in Nat
      BY <1>2
  <2>2. \A n \in DOMAIN AllGroupSeq : GroupDefinition(AllGroupSeq[n]) \in G
      BY <1>2 DEF Groups
  <2>3. grouped \in [1..Len(AllGroupSeq) -> G]
      BY <2>1, <2>2
  <2> HIDE DEF G, grouped
  <2> QED
      BY <2>1, <2>3
<1>4. others \in Seq(O)
  <2>1. DOMAIN groups.other = 1..Len(groups.other) /\ Len(groups.other) \in Nat
      BY <1>1
  <2>2. \A n \in DOMAIN groups.other : <<groups.other[n]>> \in O
      BY DEF Groups
  <2>3. others \in [1..Len(groups.other) -> O]
      BY <2>1, <2>2
  <2> HIDE DEF O, others
  <2> QED
      BY <2>1, <2>3
<1>5. LoadedDefinitions \in Seq(G \cup O)
  <2>1. LoadedDefinitions = grouped \o others
      BY DEF LoadedDefinitions
  <2> HIDE DEF G, O, grouped, others
  <2>2. grouped \in Seq(G \cup O) /\ others \in Seq(G \cup O)
      BY <1>3, <1>4
  <2> QED
      BY <2>1, <2>2
<1>6. G \cup O \subseteq Definition
  <2>1. Groups(groups.core) \subseteq CoreGroup /\ Groups(groups.uncore) \subseteq UncoreGroup
        /\ Groups(groups.other) \subseteq OtherEvent
      BY <1>1 DEF Groups
  <2>2. G \subseteq Definition
      BY <2>1, GroupDefinitionFacts DEF Definition
  <2>3. O \subseteq Definition
      BY <2>1 DEF Definition
  <2> QED
      BY <2>2, <2>3
<1>7. ASSUME "Uncore" \notin metadata, NEW d \in G \cup O, NEW n \in DOMAIN d PROVE d[n] \notin UncoreEvent
  <2>1. groups.uncore = <<>> /\ NoUncore(groups.other)
      BY <1>7 DEF UncoreFormed
  <2>2. CASE d \in G
    <3>1. d \in {GroupDefinition(g) : g \in Groups(groups.core)}
        BY <2>1, <2>2 DEF Groups
    <3>2. Groups(groups.core) \subseteq CoreGroup
        BY <1>1 DEF Groups
    <3>3. d \in Seq(CoreEvent)
        BY <3>1, <3>2, GroupDefinitionFacts
    <3>4. d[n] \in CoreEvent
        BY <1>7, <3>3
    <3> QED
        BY <3>4, EventAssumption
  <2>3. CASE d \in O
    <3>1. PICK e \in Groups(groups.other) : d = <<e>>
        BY <2>3
    <3>2. d[n] = e
        BY <1>7, <3>1
    <3> QED
        BY <2>1, <3>2 DEF NoUncore
  <2> QED
      BY <1>7, <2>2, <2>3
<1> HIDE DEF G, O
<1>8. \A g \in DOMAIN LoadedDefinitions : LoadedDefinitions[g] \in G \cup O
    BY <1>5
<1>9. LoadedDefinitions \in Seq(Definition)
    BY <1>5, <1>6
<1> QED
    BY <1>7, <1>8, <1>9 DEF NoUncoreIn

LEMMA ConcatIs ==
    ASSUME NEW S, NEW s \in Seq(S), NEW t \in Seq(S)
    PROVE  /\ s \o t \in Seq(S) /\ DOMAIN (s \o t) = 1..(Len(s) + Len(t))
           /\ \A n \in 1..(Len(s) + Len(t)) : (s \o t)[n] = IF n <= Len(s) THEN s[n] ELSE t[n - Len(s)]
OBVIOUS

\* The definition of a group has each of its events once.
LEMMA GroupDefinitionEvents ==
    ASSUME NEW E, NoEvent \notin E, NEW g, g.fixed \in Seq(E), g.gp \in [GPCounters -> E \cup {NoEvent}],
           OnCounters(g)
    PROVE  /\ GroupDefinition(g) \in Seq(E)
           /\ \A m, n \in DOMAIN GroupDefinition(g) : GroupDefinition(g)[m] = GroupDefinition(g)[n] => m = n
           /\ Range(GroupDefinition(g)) = EventsOf(g)
<1> DEFINE S == GPCounters \ Free(g)
           C == Cardinality(S)
           idx == Indices(S)
           others == [n \in 1..C |-> g.gp[idx[n]]]
           F == Len(g.fixed)
           d == GroupDefinition(g)
<1>1. /\ C \in Nat
      /\ \A n \in 1..C : idx[n] \in S
      /\ \A m, n \in 1..C : idx[m] = idx[n] => m = n
      /\ \A x \in S : \E n \in 1..C : idx[n] = x
  <2>1. S \in SUBSET Nat /\ IsFiniteSet(S)
    <3>1. S \in SUBSET GPCounters
        OBVIOUS
    <3> HIDE DEF S
    <3> QED
        BY <3>1, CountersFinite
  <2> HIDE DEF S
  <2> QED
      BY <2>1, IndicesAreAll
<1>2. d = g.fixed \o others
    BY DEF GroupDefinition
<1>3. \A c \in S : g.gp[c] \in E /\ g.gp[c] \in OnGP(g)
    BY DEF Free, OnGP
<1>4. \A e \in OnGP(g) : \E c \in S : g.gp[c] = e
    BY DEF Free, OnGP
<1>5. \A c, x \in S : g.gp[c] = g.gp[x] => c = x
    BY DEF OnCounters
<1> HIDE DEF S, C, idx
<1>6. /\ others \in Seq(E) /\ Len(others) = C
      /\ \A n \in 1..C : others[n] = g.gp[idx[n]] /\ others[n] \in OnGP(g)
      /\ \A m, n \in 1..C : others[m] = others[n] => m = n
  <2>1. \A n \in 1..C : g.gp[idx[n]] \in E /\ g.gp[idx[n]] \in OnGP(g)
      BY <1>1, <1>3
  <2> QED
      BY <1>1, <1>5, <2>1
<1>7. F \in Nat /\ DOMAIN g.fixed = 1..F /\ g.fixed \in Seq(E)
    OBVIOUS
<1>8. \A e \in OnGP(g) : \E n \in 1..C : others[n] = e
    BY <1>1, <1>4, <1>6
<1> HIDE DEF others, F
<1>9. /\ d \in Seq(E) /\ DOMAIN d = 1..(F + C)
      /\ \A n \in 1..(F + C) : d[n] = IF n <= F THEN g.fixed[n] ELSE others[n - F]
    BY <1>2, <1>6, <1>7, ConcatIs DEF F
<1> HIDE DEF d
<1>10. \A n \in DOMAIN d : \/ n \in 1..F /\ d[n] = g.fixed[n]
                           \/ n - F \in 1..C /\ n \in Nat /\ ~(n <= F) /\ d[n] = others[n - F]
    BY <1>1, <1>7, <1>9
<1>11. /\ \A n \in 1..F : n \in DOMAIN d /\ d[n] = g.fixed[n]
       /\ \A n \in 1..C : n + F \in DOMAIN d /\ d[n + F] = others[n]
  <2>1. \A n \in 1..F : n \in 1..(F + C) /\ n <= F
      BY <1>1, <1>7
  <2>2. \A n \in 1..C : n + F \in 1..(F + C) /\ ~(n + F <= F) /\ (n + F) - F = n
      BY <1>1, <1>7
  <2> QED
      BY <1>9, <2>1, <2>2
<1>12. \A n \in 1..F : g.fixed[n] \in Range(g.fixed)
    BY <1>7 DEF Range
<1>13. ASSUME NEW m \in DOMAIN d, NEW n \in DOMAIN d, d[m] = d[n] PROVE m = n
  <2>1. CASE m \in 1..F /\ n \in 1..F /\ d[m] = g.fixed[m] /\ d[n] = g.fixed[n]
      BY <1>7, <1>13, <2>1 DEF OnCounters
  <2>2. CASE m - F \in 1..C /\ n - F \in 1..C /\ m \in Nat /\ n \in Nat
             /\ d[m] = others[m - F] /\ d[n] = others[n - F]
    <3>1. m - F = n - F
        BY <1>6, <1>13, <2>2
    <3> QED
        BY <1>7, <2>2, <3>1
  <2>3. CASE m \in 1..F /\ n - F \in 1..C /\ d[m] = g.fixed[m] /\ d[n] = others[n - F]
    <3>1. d[m] \in Range(g.fixed) /\ d[n] \in OnGP(g)
        BY <1>6, <1>12, <2>3
    <3> QED
        BY <1>13, <3>1 DEF OnCounters
  <2>4. CASE n \in 1..F /\ m - F \in 1..C /\ d[n] = g.fixed[n] /\ d[m] = others[m - F]
    <3>1. d[n] \in Range(g.fixed) /\ d[m] \in OnGP(g)
        BY <1>6, <1>12, <2>4
    <3> QED
        BY <1>13, <3>1 DEF OnCounters
  <2> QED
      BY <1>10, <2>1, <2>2, <2>3, <2>4
<1>14. Range(d) \subseteq EventsOf(g)
  <2>1. \A n \in DOMAIN d : d[n] \in EventsOf(g)
      BY <1>6, <1>10, <1>12 DEF EventsOf
  <2> QED
      BY <2>1 DEF Range
<1>15. EventsOf(g) \subseteq Range(d)
  <2>1. \A e \in OnGP(g) : \E n \in DOMAIN d : d[n] = e
      BY <1>8, <1>11
  <2>2. \A e \in Range(g.fixed) : \E n \in DOMAIN d : d[n] = e
    <3>1. \A e \in Range(g.fixed) : \E n \in 1..F : g.fixed[n] = e
        BY <1>7 DEF Range
    <3> QED
        BY <1>11, <3>1
  <2> QED
      BY <2>1, <2>2 DEF EventsOf, Range
<1> QED
    BY <1>9, <1>13, <1>14, <1>15 DEF d

\* The groups that perf is given: each has events and no event twice, an uncore event is in
\* one group only, and the groups of core events come first.
WellFormed(d) ==
    /\ \A g \in DOMAIN d : d[g] # <<>> /\ \A a, b \in DOMAIN d[g] : d[g][a] = d[g][b] => a = b
    /\ \A g, h \in DOMAIN d : \A a \in DOMAIN d[g], b \in DOMAIN d[h] :
          d[g][a] = d[h][b] /\ d[g][a] \in UncoreEvent => g = h
    /\ \A g, h \in DOMAIN d : h < g /\ d[g][1] \in CoreEvent => d[h][1] \in CoreEvent

\* A definition of events in E, those of group G.
DefinitionOf(d, E, G) ==
    /\ d \in Seq(E) /\ d # <<>> /\ Range(d) = EventsOf(G)
    /\ \A a, b \in DOMAIN d : d[a] = d[b] => a = b

LEMMA DefinitionsOfGroups ==
    ASSUME GroupsInv, HasEventsInv, stage = "done"
    PROVE  /\ \A n \in DOMAIN groups.core :
                DefinitionOf(GroupDefinition(groups.core[n]), CoreEvent, groups.core[n])
           /\ \A n \in DOMAIN groups.uncore :
                DefinitionOf(GroupDefinition(groups.uncore[n]), UncoreEvent, groups.uncore[n])
<1>1. groups.core \in Seq(CoreGroup) /\ groups.uncore \in Seq(UncoreGroup)
    BY DEF GroupsInv, TypeOK, GroupLists
<1>2. NoEvent \notin CoreEvent /\ NoEvent \notin UncoreEvent
    BY GroupSets
<1>3. ASSUME NEW d, NEW E, d \in Seq(E), NEW G, Range(d) = EventsOf(G), EventsOf(G) # {} PROVE d # <<>>
    BY <1>3 DEF Range
<1>4. ASSUME NEW n \in DOMAIN groups.core
      PROVE  DefinitionOf(GroupDefinition(groups.core[n]), CoreEvent, groups.core[n])
  <2> DEFINE g == groups.core[n]
  <2>1. g \in CoreGroup /\ g \in AllGroups("core") /\ g \in Groups(groups.core)
      BY <1>1 DEF AllGroups, Groups
  <2>2. OnCounters(g) /\ EventsOf(g) # {}
      BY <2>1 DEF GroupsInv, FineInv, Fine, Kept, Kinds, HasEventsInv, HasEvents
  <2> HIDE DEF g
  <2>3. g.fixed \in Seq(CoreEvent) /\ g.gp \in [GPCounters -> CoreEvent \cup {NoEvent}]
      BY <2>1 DEF CoreGroup
  <2>4. /\ GroupDefinition(g) \in Seq(CoreEvent)
        /\ \A a, b \in DOMAIN GroupDefinition(g) : GroupDefinition(g)[a] = GroupDefinition(g)[b] => a = b
        /\ Range(GroupDefinition(g)) = EventsOf(g)
      BY <1>2, <2>2, <2>3, GroupDefinitionEvents
  <2>5. DefinitionOf(GroupDefinition(g), CoreEvent, g)
      BY <1>3, <2>2, <2>4 DEF DefinitionOf
  <2> QED
      BY <2>5 DEF g
<1>5. ASSUME NEW n \in DOMAIN groups.uncore
      PROVE  DefinitionOf(GroupDefinition(groups.uncore[n]), UncoreEvent, groups.uncore[n])
  <2> DEFINE g == groups.uncore[n]
  <2>1. g \in UncoreGroup /\ g \in AllGroups("uncore") /\ ~NotYetTaken(n)
      BY <1>1 DEF AllGroups, Groups, NotYetTaken
  <2>2. OnCounters(g) /\ EventsOf(g) # {}
      BY <2>1 DEF GroupsInv, FineInv, Fine, Kinds, HasEventsInv
  <2> HIDE DEF g
  <2>3. g.fixed \in Seq(UncoreEvent) /\ g.gp \in [GPCounters -> UncoreEvent \cup {NoEvent}]
    <3>1. <<>> \in Seq(UncoreEvent)
        OBVIOUS
    <3> QED
        BY <2>1, <3>1 DEF UncoreGroup
  <2>4. /\ GroupDefinition(g) \in Seq(UncoreEvent)
        /\ \A a, b \in DOMAIN GroupDefinition(g) : GroupDefinition(g)[a] = GroupDefinition(g)[b] => a = b
        /\ Range(GroupDefinition(g)) = EventsOf(g)
      BY <1>2, <2>2, <2>3, GroupDefinitionEvents
  <2>5. DefinitionOf(GroupDefinition(g), UncoreEvent, g)
      BY <1>3, <2>2, <2>4 DEF DefinitionOf
  <2> QED
      BY <2>5 DEF g
<1> QED
    BY <1>4, <1>5

LEMMA LoadedWellFormed ==
    ASSUME GroupsInv, UncoreInv, HasEventsInv, stage = "done"
    PROVE  WellFormed(LoadedDefinitions)
<1> DEFINE C == Len(groups.core)
           U == Len(groups.uncore)
           O == Len(groups.other)
           d == LoadedDefinitions
           Core(g)   == g \in 1..C /\ DefinitionOf(d[g], CoreEvent, groups.core[g])
           Uncore(g) == /\ g \in Nat /\ C < g /\ g - C \in DOMAIN groups.uncore
                        /\ DefinitionOf(d[g], UncoreEvent, groups.uncore[g - C])
           Other(g)  == g \in Nat /\ C < g /\ \E e \in OtherEvent : d[g] = <<e>>
<1>1. /\ groups.core \in Seq(CoreGroup) /\ groups.uncore \in Seq(UncoreGroup)
      /\ groups.other \in Seq(OtherEvent)
    BY DEF GroupsInv, TypeOK, GroupLists
<1>2. /\ C \in Nat /\ U \in Nat /\ O \in Nat
      /\ DOMAIN groups.core = 1..C /\ DOMAIN groups.uncore = 1..U /\ DOMAIN groups.other = 1..O
    BY <1>1
<1>3. /\ DOMAIN AllGroupSeq = 1..(C + U)
      /\ \A n \in 1..(C + U) : AllGroupSeq[n] = IF n <= C THEN groups.core[n] ELSE groups.uncore[n - C]
  <2>1. groups.core \in Seq(CoreGroup \cup UncoreGroup) /\ groups.uncore \in Seq(CoreGroup \cup UncoreGroup)
      BY <1>1
  <2> QED
      BY <2>1, ConcatIs DEF AllGroupSeq
<1> DEFINE grouped == [n \in DOMAIN AllGroupSeq |-> GroupDefinition(AllGroupSeq[n])]
           others  == [n \in DOMAIN groups.other |-> <<groups.other[n]>>]
           T == {GroupDefinition(AllGroupSeq[n]) : n \in DOMAIN AllGroupSeq}
                \cup {<<groups.other[n]>> : n \in DOMAIN groups.other}
<1>4. d = grouped \o others
    BY DEF LoadedDefinitions
<1>5. grouped \in Seq(T) /\ Len(grouped) = C + U /\ others \in Seq(T) /\ Len(others) = O
  <2>1. /\ \A n \in DOMAIN AllGroupSeq : GroupDefinition(AllGroupSeq[n]) \in T
        /\ \A n \in DOMAIN groups.other : <<groups.other[n]>> \in T
      OBVIOUS
  <2>2. grouped \in [1..(C + U) -> T] /\ others \in [1..O -> T]
    <3> HIDE DEF T, C, U, O
    <3> QED
        BY <1>2, <1>3, <2>1
  <2> HIDE DEF T, C, U, O, grouped, others
  <2>3. C + U \in Nat
      BY <1>2
  <2> QED
      BY <1>2, <2>2, <2>3
<1>6. /\ \A n \in 1..(C + U) : grouped[n] = GroupDefinition(AllGroupSeq[n])
      /\ \A n \in 1..O : others[n] = <<groups.other[n]>>
    BY <1>2, <1>3
<1> HIDE DEF grouped, others, T
<1>7. /\ DOMAIN d = 1..((C + U) + O)
      /\ \A n \in 1..((C + U) + O) : d[n] = IF n <= C + U THEN grouped[n] ELSE others[n - (C + U)]
  <2>1. /\ DOMAIN (grouped \o others) = 1..(Len(grouped) + Len(others))
        /\ \A n \in 1..(Len(grouped) + Len(others)) :
              (grouped \o others)[n] = IF n <= Len(grouped) THEN grouped[n] ELSE others[n - Len(grouped)]
    <3>1. grouped \in Seq(T) /\ others \in Seq(T)
        BY <1>5
    <3> QED
        BY ONLY <3>1, ConcatIs, Zenon
  <2> HIDE DEF d, C, U, O
  <2> QED
      BY <1>4, <1>5, <2>1
<1>8. /\ \A n \in 1..C : DefinitionOf(GroupDefinition(groups.core[n]), CoreEvent, groups.core[n])
      /\ \A n \in 1..U : DefinitionOf(GroupDefinition(groups.uncore[n]), UncoreEvent, groups.uncore[n])
    BY <1>2, DefinitionsOfGroups
<1>9. ASSUME NEW g \in DOMAIN d PROVE Core(g) \/ Uncore(g) \/ Other(g)
  <2> HIDE DEF C, U, O, d
  <2>1. CASE g <= C
    <3>1. g \in 1..C /\ g \in 1..(C + U) /\ g <= C + U
        BY <1>2, <1>7, <2>1
    <3>2. d[g] = GroupDefinition(groups.core[g])
        BY <1>3, <1>6, <1>7, <2>1, <3>1
    <3> QED
        BY <1>8, <3>1, <3>2
  <2>2. CASE ~(g <= C) /\ g <= C + U
    <3>1. g \in 1..(C + U) /\ g - C \in 1..U /\ g \in Nat /\ C < g
        BY <1>2, <1>7, <2>2
    <3>2. d[g] = GroupDefinition(groups.uncore[g - C])
        BY <1>3, <1>6, <1>7, <2>2, <3>1
    <3> QED
        BY <1>2, <1>8, <3>1, <3>2
  <2>3. CASE ~(g <= C + U)
    <3>1. g - (C + U) \in 1..O /\ g \in Nat /\ C < g
        BY <1>2, <1>7, <2>3
    <3>2. d[g] = <<groups.other[g - (C + U)]>>
        BY <1>6, <1>7, <2>3, <3>1
    <3>3. groups.other[g - (C + U)] \in OtherEvent
        BY <1>1, <1>2, <3>1
    <3> QED
        BY <3>1, <3>2, <3>3
  <2> QED
      BY <2>1, <2>2, <2>3
<1> HIDE DEF d
<1>10. ASSUME NEW g \in DOMAIN d PROVE d[g] # <<>> /\ \A a, b \in DOMAIN d[g] : d[g][a] = d[g][b] => a = b
    BY <1>9 DEF DefinitionOf
<1>11. ASSUME NEW g \in DOMAIN d, NEW a \in DOMAIN d[g], d[g][a] \in UncoreEvent
       PROVE  Uncore(g) /\ d[g][a] \in EventsOf(groups.uncore[g - C])
  <2>1. ~Core(g)
    <3>1. Core(g) => d[g][a] \in CoreEvent
        BY DEF DefinitionOf
    <3> QED
        BY <1>11, <3>1, EventAssumption
  <2>2. ~Other(g)
    <3>1. Other(g) => d[g][a] \in OtherEvent
        OBVIOUS
    <3> QED
        BY <1>11, <3>1, EventAssumption
  <2>3. Uncore(g)
      BY <1>9, <2>1, <2>2
  <2>4. d[g][a] \in Range(d[g])
      BY DEF Range
  <2> QED
      BY <2>3, <2>4 DEF DefinitionOf
<1>12. ASSUME NEW g \in DOMAIN d, NEW h \in DOMAIN d, NEW a \in DOMAIN d[g], NEW b \in DOMAIN d[h],
              d[g][a] = d[h][b], d[g][a] \in UncoreEvent
       PROVE  g = h
  <2>1. /\ Uncore(g) /\ d[g][a] \in EventsOf(groups.uncore[g - C])
        /\ Uncore(h) /\ d[h][b] \in EventsOf(groups.uncore[h - C])
      BY <1>11, <1>12
  <2>2. Disjoint(groups.uncore)
      BY DEF UncoreInv, Apart
  <2>3. g - C = h - C
      BY <1>12, <2>1, <2>2 DEF Disjoint
  <2> HIDE DEF C
  <2> QED
      BY <1>2, <2>1, <2>3
<1>13. ASSUME NEW g \in DOMAIN d, NEW h \in DOMAIN d, h < g, d[g][1] \in CoreEvent PROVE d[h][1] \in CoreEvent
  <2>1. ~Uncore(g)
    <3>1. Uncore(g) => d[g][1] \in UncoreEvent
        BY DEF DefinitionOf
    <3> QED
        BY <1>13, <3>1, EventAssumption
  <2>2. ~Other(g)
    <3>1. Other(g) => d[g][1] \in OtherEvent
        OBVIOUS
    <3> QED
        BY <1>13, <3>1, EventAssumption
  <2>3. Core(g)
      BY <1>9, <2>1, <2>2
  <2>4. ~Uncore(h) /\ ~Other(h)
    <3> HIDE DEF C
    <3> QED
        BY <1>2, <1>13, <2>3
  <2>5. DefinitionOf(d[h], CoreEvent, groups.core[h])
      BY <1>9, <2>4
  <2> QED
      BY <2>5 DEF DefinitionOf
<1>14. WellFormed(d)
    BY <1>10, <1>12, <1>13 DEF WellFormed
<1> QED
    BY <1>14 DEF d

\* The inductive invariant: perf prints the lines of its groups in order, there is no uncore
\* event with CPU granularity, and ProcessEvents has not failed.
LayoutInv ==
    /\ ~failed
    /\ mode # "none" =>
         /\ mode \in Mode
         /\ definitions \in Seq(Definition)
         /\ mode = "cpu" => NoUncoreIn(definitions)
         /\ counters = InOrder(Places)

\* What a group in which an event is printed is like.
LEMMA DefinitionFacts ==
    ASSUME NEW d \in Definition, NEW n \in DOMAIN d
    PROVE  /\ Len(d) \in Nat /\ DOMAIN d = 1..Len(d)
           /\ d[1] \in UncoreEvent => d[n] \in UncoreEvent
<1>1. CASE d \in Seq(CoreEvent)
  <2>1. Len(d) \in Nat /\ DOMAIN d = 1..Len(d) /\ 1 \in DOMAIN d
      BY <1>1
  <2>2. d[1] \in CoreEvent
      BY <1>1, <2>1
  <2> QED
      BY <2>1, <2>2, EventAssumption
<1>2. CASE d \in Seq(UncoreEvent)
    BY <1>2
<1>3. CASE d \in {<<e>> : e \in OtherEvent}
    BY <1>3
<1> QED
    BY <1>1, <1>2, <1>3 DEF Definition

\* The places of one group.
PlacesIn(g) ==
    [cgroup : IF mode = "cgroup" THEN 1..Cgroups ELSE {0}, group : {g}, device : DevicesOf(g),
     at : DOMAIN definitions[g], cpu : CPUsOf(g)]

LEMMA PlaceFacts ==
    ASSUME definitions \in Seq(Definition), mode \in Mode, NEW p \in Places
    PROVE  /\ p \in Numbers
           /\ p.group \in DOMAIN definitions /\ p \in PlacesIn(p.group)
           /\ p.at \in DOMAIN definitions[p.group]
           /\ p.device \in DevicesOf(p.group)
           /\ p.cgroup \in (IF mode = "cgroup" THEN 1..Cgroups ELSE {0})
           /\ mode \in {"socket", "cpu"} => p.cpu \in CPU
<1>1. PICK g \in DOMAIN definitions : p \in PlacesIn(g)
    BY DEF Places, PlacesIn
<1>2. /\ p = [cgroup |-> p.cgroup, group |-> g, device |-> p.device, at |-> p.at, cpu |-> p.cpu]
      /\ p.cgroup \in (IF mode = "cgroup" THEN 1..Cgroups ELSE {0})
      /\ p.device \in DevicesOf(g) /\ p.at \in DOMAIN definitions[g] /\ p.cpu \in CPUsOf(g)
      /\ p.group = g
    BY <1>1 DEF PlacesIn
<1>3. /\ CPU \subseteq Nat /\ Representative \subseteq CPU
      /\ Devices \in Nat /\ Cgroups \in Nat
    BY FramesAssumption DEF Representative
<1>4. p.cpu \in Nat /\ (mode \in {"socket", "cpu"} => p.cpu \in CPU)
    BY <1>2, <1>3 DEF CPUsOf
<1>5. p.device \in Nat /\ p.cgroup \in Nat
    BY <1>2, <1>3 DEF DevicesOf
<1>6. g \in Nat /\ p.at \in Nat
  <2>1. definitions[g] \in Definition
      OBVIOUS
  <2>2. DOMAIN definitions[g] = 1..Len(definitions[g])
      BY <1>2, <2>1, DefinitionFacts
  <2> QED
      BY <1>2, <2>2
<1>7. p \in Numbers
    BY <1>2, <1>4, <1>5, <1>6 DEF Numbers
<1> QED
    BY <1>1, <1>2, <1>4, <1>7

\* There are finitely many places.
LEMMA PlacesFinite ==
    ASSUME definitions \in Seq(Definition), mode \in Mode
    PROVE  IsFiniteSet(Places)
<1>1. /\ CPU \subseteq Nat /\ Representative \subseteq CPU /\ IsFiniteSet(CPU)
      /\ Devices \in Nat /\ Cgroups \in Nat
    BY FramesAssumption DEF Representative
<1>2. ASSUME NEW n \in Nat PROVE IsFiniteSet(1..n)
  <2>1. 1 \in Int /\ n \in Int
      OBVIOUS
  <2> QED
      BY <2>1, FS_Interval
<1>3. \A x : IsFiniteSet({x})
    BY FS_Singleton
<1>4. ASSUME NEW g \in DOMAIN definitions PROVE IsFiniteSet(PlacesIn(g))
  <2> DEFINE C == IF mode = "cgroup" THEN 1..Cgroups ELSE {0}
             D == DevicesOf(g)
             A == DOMAIN definitions[g]
             U == CPUsOf(g)
             T == (C \X D) \X (A \X U)
             f == [t \in T |-> [cgroup |-> t[1][1], group |-> g, device |-> t[1][2],
                                at |-> t[2][1], cpu |-> t[2][2]]]
  <2>1. IsFiniteSet(C)
      BY <1>1, <1>2, <1>3
  <2>2. IsFiniteSet(D)
      BY <1>1, <1>2, <1>3 DEF DevicesOf
  <2>3. IsFiniteSet(A)
    <3>1. definitions[g] \in Definition
        OBVIOUS
    <3>2. \A d \in Definition : Len(d) \in Nat /\ DOMAIN d = 1..Len(d)
        BY DEF Definition
    <3> QED
        BY <1>2, <3>1, <3>2
  <2>4. IsFiniteSet(U)
    <3>1. IsFiniteSet(Representative)
        BY <1>1, FS_Subset
    <3> QED
        BY <1>1, <1>3, <3>1 DEF CPUsOf
  <2>5. IsFiniteSet(T)
    <3> HIDE DEF C, D, A, U
    <3> QED
        BY <2>1, <2>2, <2>3, <2>4, FS_Product
  <2>6. PlacesIn(g) = [cgroup : C, group : {g}, device : D, at : A, cpu : U]
      BY DEF PlacesIn
  <2>7. f \in Surjection(T, PlacesIn(g))
    <3> HIDE DEF C, D, A, U
    <3>1. \A t \in T : f[t] \in PlacesIn(g)
        BY <2>6
    <3>2. ASSUME NEW p \in PlacesIn(g) PROVE \E t \in T : f[t] = p
      <4>1. /\ p = [cgroup |-> p.cgroup, group |-> g, device |-> p.device, at |-> p.at, cpu |-> p.cpu]
            /\ p.cgroup \in C /\ p.device \in D /\ p.at \in A /\ p.cpu \in U
          BY <2>6
      <4>2. <<<<p.cgroup, p.device>>, <<p.at, p.cpu>>>> \in T
          BY <4>1
      <4>3. f[<<<<p.cgroup, p.device>>, <<p.at, p.cpu>>>>] = p
          BY <4>1, <4>2
      <4> QED
          BY <4>2, <4>3
    <3> QED
        BY <3>1, <3>2 DEF Surjection
  <2> HIDE DEF T, f
  <2> QED
      BY <2>5, <2>7, FS_Surjection
<1>5. IsFiniteSet({PlacesIn(g) : g \in DOMAIN definitions})
  <2> DEFINE F == [g \in DOMAIN definitions |-> PlacesIn(g)]
  <2>1. F \in Surjection(DOMAIN definitions, {PlacesIn(g) : g \in DOMAIN definitions})
      BY DEF Surjection
  <2>2. DOMAIN definitions = 1..Len(definitions) /\ Len(definitions) \in Nat
      OBVIOUS
  <2>3. IsFiniteSet(DOMAIN definitions)
      BY <1>2, <2>2
  <2> HIDE DEF F
  <2> QED
      BY <2>1, <2>3, FS_Surjection
<1>6. Places = UNION {PlacesIn(g) : g \in DOMAIN definitions}
    BY DEF Places, PlacesIn
<1> QED
    BY <1>4, <1>5, <1>6, FS_UNION

\* Line l is not after line m in its group, or it is of an earlier group.
Ahead(l, m) == l.group < m.group \/ (l.group = m.group /\ l.at <= m.at)

\* Line l is of the event at its place of its group.
Placed(l) ==
    /\ l.group \in DOMAIN definitions /\ l.at \in DOMAIN definitions[l.group]
    /\ l.event = definitions[l.group][l.at]

\* The lines that perf has printed: of those of a bucket and the first device, no line is
\* before one of an earlier group or event; a line of another device is of an uncore event,
\* and one of the first device is before it.
Printed(ls) ==
    /\ Len(ls) \in Nat /\ DOMAIN ls = 1..Len(ls)
    /\ \A n \in DOMAIN ls :
         /\ ls[n].group \in DOMAIN definitions /\ ls[n].at \in DOMAIN definitions[ls[n].group]
         /\ ls[n].event = definitions[ls[n].group][ls[n].at]
         /\ ls[n].counted \in BOOLEAN /\ KeyOf(ls[n]) \in Keys
         /\ ls[n].device \notin {0, 1} =>
              /\ mode = "socket" /\ ls[n].event \in UncoreEvent
              /\ \E m \in DOMAIN ls :
                    /\ m < n /\ ls[m].device \in {0, 1}
                    /\ ls[m].event = ls[n].event /\ KeyOf(ls[m]) = KeyOf(ls[n])
    /\ \A m, n \in DOMAIN ls : m < n =>
         /\ ls[m] # ls[n]
         /\ KeyOf(ls[m]) = KeyOf(ls[n]) /\ ls[m].device \in {0, 1} /\ ls[n].device \in {0, 1} =>
              Ahead(ls[m], ls[n])

\* The first lines that perf prints are those of its first counters.
PrintedAt(ls) ==
    /\ Len(ls) \in Nat /\ DOMAIN ls = 1..Len(ls)
    /\ \A n \in DOMAIN ls :
         /\ counters[n] \in Places
         /\ ls[n].cgroup = counters[n].cgroup /\ ls[n].group = counters[n].group
         /\ ls[n].device = counters[n].device /\ ls[n].at = counters[n].at
         /\ ls[n].cpu = counters[n].cpu
         /\ ls[n].event = definitions[counters[n].group][counters[n].at]
         /\ ls[n].counted \in BOOLEAN
         /\ KeyOf(ls[n]) = KeyOf(counters[n])
    /\ \A m, n \in DOMAIN ls : m < n => Before(counters[m], counters[n])
    /\ \A n \in DOMAIN ls : \A p \in Places :
         Before(p, counters[n]) => \E m \in DOMAIN ls : m < n /\ counters[m] = p

LEMMA LinesOfCounters ==
    ASSUME LayoutInv, mode # "none", NEW counted, NEW idle, NEW n \in DOMAIN counters
    PROVE  PrintedAt(SubSeq([k \in DOMAIN counters |-> Line(counters[k], counted, idle)], 1, n))
<1> DEFINE all == [k \in DOMAIN counters |-> Line(counters[k], counted, idle)]
           ls == SubSeq(all, 1, n)
           K == Cardinality(Places)
<1>1. mode \in Mode /\ definitions \in Seq(Definition) /\ counters = InOrder(Places)
    BY DEF LayoutInv
<1>2. \A p \in Places : p \in Numbers
    BY <1>1, PlaceFacts
<1>3. /\ K \in Nat /\ DOMAIN counters = 1..K
      /\ \A k \in 1..K : counters[k] \in Places
      /\ \A k, m \in 1..K : k < m => Before(counters[k], counters[m])
      /\ \A p \in Places : \E k \in 1..K : counters[k] = p
  <2>1. Places \in SUBSET Numbers
      BY <1>2
  <2>2. IsFiniteSet(Places)
      BY <1>1, PlacesFinite
  <2> QED
      BY <1>1, <2>1, <2>2, InOrderFacts
<1> HIDE DEF K
<1>4. n \in 1..K /\ \A k \in 1..n : k \in 1..K
    BY <1>3
<1>5. Len(ls) = n /\ DOMAIN ls = 1..n /\ \A k \in 1..n : ls[k] = Line(counters[k], counted, idle)
  <2>1. ls = [k \in 1..n |-> all[k]]
      BY <1>3, <1>4
  <2>2. \A k \in 1..n : all[k] = Line(counters[k], counted, idle)
      BY <1>3, <1>4
  <2> HIDE DEF all, ls
  <2> QED
      BY <1>3, <1>4, <2>1, <2>2
<1> HIDE DEF all, ls
<1>6. \A k \in 1..n :
         /\ counters[k] \in Places
         /\ ls[k].cgroup = counters[k].cgroup /\ ls[k].group = counters[k].group
         /\ ls[k].device = counters[k].device /\ ls[k].at = counters[k].at
         /\ ls[k].cpu = counters[k].cpu
         /\ ls[k].event = definitions[counters[k].group][counters[k].at]
         /\ ls[k].counted \in BOOLEAN
  <2>1. \A p : /\ Line(p, counted, idle).cgroup = p.cgroup /\ Line(p, counted, idle).group = p.group
               /\ Line(p, counted, idle).device = p.device /\ Line(p, counted, idle).at = p.at
               /\ Line(p, counted, idle).cpu = p.cpu
               /\ Line(p, counted, idle).event = definitions[p.group][p.at]
      BY DEF Line
  <2>2. \A p : Line(p, counted, idle).counted = (p.group \in counted /\ p.cgroup \notin idle)
      BY DEF Line
  <2>3. \A p : Line(p, counted, idle).counted \in BOOLEAN
      BY <2>2
  <2> QED
      BY <1>3, <1>4, <1>5, <2>1, <2>3
<1>7. \A k \in 1..n : KeyOf(ls[k]) = KeyOf(counters[k])
    BY <1>6 DEF KeyOf
<1>8. ASSUME NEW m \in 1..n, NEW p \in Places, Before(p, counters[m])
      PROVE  \E k \in 1..n : k < m /\ counters[k] = p
  <2>1. PICK k \in 1..K : counters[k] = p
      BY <1>3
  <2>2. m \in 1..K /\ counters[m] \in Places
      BY <1>3, <1>4
  <2>3. ~Before(counters[m], p) /\ ~Before(p, p)
    <3>1. Places \in SUBSET Numbers
        BY <1>2
    <3> QED
        BY <1>8, <2>2, <3>1, BeforeIsOrder
  <2>4. k # m /\ ~(m < k)
      BY <1>3, <1>8, <2>1, <2>2, <2>3
  <2>5. k < m /\ k \in 1..n
      BY <1>3, <1>4, <2>2, <2>4
  <2> QED
      BY <2>1, <2>5
<1>9. n \in Nat /\ \A k, m \in 1..n : k < m => Before(counters[k], counters[m])
    BY <1>3, <1>4
<1>10. PrintedAt(ls)
  <2>1. \A k \in DOMAIN ls : k \in 1..n
      BY <1>5
  <2>2. \A m \in DOMAIN ls : \A p \in Places :
          Before(p, counters[m]) => \E k \in DOMAIN ls : k < m /\ counters[k] = p
      BY <1>5, <1>8
  <2> QED
      BY <1>5, <1>6, <1>7, <1>9, <2>1, <2>2 DEF PrintedAt
<1> QED
    BY <1>10 DEF ls, all

\* What a place is like, its bucket included.
LEMMA PlaceKeys ==
    ASSUME LayoutInv, mode # "none"
    PROVE  /\ mode \in Mode /\ definitions \in Seq(Definition)
           /\ \A p \in Places :
                /\ p \in Numbers /\ KeyOf(p) \in Keys
                /\ p.group \in DOMAIN definitions /\ p \in PlacesIn(p.group)
                /\ p.at \in DOMAIN definitions[p.group]
                /\ p.device \in DevicesOf(p.group) /\ p.cpu \in CPUsOf(p.group)
                /\ p.device \notin {0, 1} => mode = "socket" /\ definitions[p.group][p.at] \in UncoreEvent
                /\ mode \in {"socket", "cpu"} => p.cpu \in CPU
           /\ \A p, q \in Places : KeyOf(p) = KeyOf(q) => p.cgroup = q.cgroup
<1>1. /\ mode \in Mode /\ definitions \in Seq(Definition)
      /\ mode = "cpu" => NoUncoreIn(definitions)
    BY DEF LayoutInv
<1>2. \A p \in Places :
         /\ p \in Numbers
         /\ p.group \in DOMAIN definitions /\ p \in PlacesIn(p.group)
         /\ p.at \in DOMAIN definitions[p.group]
         /\ p.device \in DevicesOf(p.group)
         /\ p.cgroup \in (IF mode = "cgroup" THEN 1..Cgroups ELSE {0})
         /\ mode \in {"socket", "cpu"} => p.cpu \in CPU
    BY <1>1, PlaceFacts
<1>3. \A p \in Places : KeyOf(p) \in Keys
  <2> SUFFICES ASSUME NEW p \in Places PROVE KeyOf(p) \in Keys
      OBVIOUS
  <2>1. mode = "socket" => SocketOf[p.cpu] \in Range(SocketOf)
      BY <1>2, FramesAssumption DEF Range
  <2> QED
      BY <1>1, <1>2, <2>1 DEF KeyOf, Keys, Mode
<1>4. \A p, q \in Places : KeyOf(p) = KeyOf(q) => p.cgroup = q.cgroup
  <2> SUFFICES ASSUME NEW p \in Places, NEW q \in Places, KeyOf(p) = KeyOf(q) PROVE p.cgroup = q.cgroup
      OBVIOUS
  <2> QED
      BY <1>1, <1>2 DEF KeyOf, Mode
<1>5. ASSUME NEW p \in Places, p.device \notin {0, 1}
      PROVE  mode = "socket" /\ definitions[p.group][p.at] \in UncoreEvent
  <2> DEFINE d == definitions[p.group]
  <2>1. /\ p.group \in DOMAIN definitions /\ p.at \in DOMAIN d /\ p.device \in DevicesOf(p.group)
      BY <1>2
  <2>2. mode \in {"socket", "cpu"} /\ d[1] \in UncoreEvent
      BY <1>5, <2>1 DEF DevicesOf
  <2>3. d[p.at] \in UncoreEvent
    <3>1. d \in Definition
        BY <1>1, <2>1
    <3> QED
        BY <2>1, <2>2, <3>1, DefinitionFacts
  <2> QED
      BY <1>1, <2>1, <2>2, <2>3 DEF NoUncoreIn
<1>6. \A p \in Places : p.cpu \in CPUsOf(p.group)
    BY <1>2 DEF PlacesIn
<1> QED
    BY <1>1, <1>2, <1>3, <1>4, <1>5, <1>6

LEMMA LinesArePrinted ==
    ASSUME LayoutInv, mode # "none", NEW ls, PrintedAt(ls)
    PROVE  Printed(ls)
<1>1. /\ mode \in Mode /\ definitions \in Seq(Definition)
      /\ \A p \in Places :
            /\ p \in Numbers /\ KeyOf(p) \in Keys
            /\ p.group \in DOMAIN definitions /\ p \in PlacesIn(p.group)
            /\ p.at \in DOMAIN definitions[p.group]
            /\ p.device \in DevicesOf(p.group) /\ p.cpu \in CPUsOf(p.group)
            /\ p.device \notin {0, 1} => mode = "socket" /\ definitions[p.group][p.at] \in UncoreEvent
            /\ mode \in {"socket", "cpu"} => p.cpu \in CPU
      /\ \A p, q \in Places : KeyOf(p) = KeyOf(q) => p.cgroup = q.cgroup
    BY PlaceKeys
<1>2. \A n \in DOMAIN ls :
         /\ counters[n] \in Places
         /\ ls[n].cgroup = counters[n].cgroup /\ ls[n].group = counters[n].group
         /\ ls[n].device = counters[n].device /\ ls[n].at = counters[n].at
         /\ ls[n].cpu = counters[n].cpu
         /\ ls[n].event = definitions[counters[n].group][counters[n].at]
         /\ ls[n].counted \in BOOLEAN
         /\ KeyOf(ls[n]) = KeyOf(counters[n])
    BY DEF PrintedAt
<1>3. ASSUME NEW k \in DOMAIN ls, ls[k].device \notin {0, 1}
      PROVE  /\ mode = "socket" /\ ls[k].event \in UncoreEvent
             /\ \E m \in DOMAIN ls :
                   /\ m < k /\ ls[m].device \in {0, 1}
                   /\ ls[m].event = ls[k].event /\ KeyOf(ls[m]) = KeyOf(ls[k])
  <2> DEFINE p == counters[k]
             q == [p EXCEPT !.device = 1]
  <2>1. /\ p \in Places /\ p.device \notin {0, 1}
        /\ p \in Numbers /\ p.group \in DOMAIN definitions /\ p \in PlacesIn(p.group)
        /\ p.device \in DevicesOf(p.group)
        /\ mode = "socket" /\ definitions[p.group][p.at] \in UncoreEvent
      BY <1>1, <1>2, <1>3
  <2>2. Devices \in Nat /\ p.device \in 1..Devices /\ DevicesOf(p.group) = 1..Devices
      BY <2>1, FramesAssumption DEF DevicesOf
  <2>3. 1 \in 1..Devices /\ 1 < p.device
      BY <2>1, <2>2
  <2>4. /\ q \in PlacesIn(p.group) /\ q.device = 1 /\ q.group = p.group /\ q.at = p.at
        /\ q.cpu = p.cpu /\ q.cgroup = p.cgroup
      BY <2>1, <2>2, <2>3 DEF PlacesIn
  <2>5. q \in Places
      BY <2>1, <2>4 DEF Places, PlacesIn
  <2> HIDE DEF q
  <2>6. Before(q, p)
    <3>1. /\ p.cgroup \in Nat /\ p.group \in Nat /\ p.device \in Nat /\ p.at \in Nat /\ p.cpu \in Nat
        BY <2>1 DEF Numbers
    <3> QED
        BY <2>3, <2>4, <3>1 DEF Before
  <2>7. PICK m \in DOMAIN ls : m < k /\ counters[m] = q
      BY <2>5, <2>6 DEF PrintedAt
  <2>8. ls[m].device = 1 /\ ls[m].event = ls[k].event
      BY <1>2, <2>4, <2>7
  <2>9. KeyOf(ls[m]) = KeyOf(ls[k])
    <3>1. KeyOf(q) = KeyOf(p)
        BY <2>4 DEF KeyOf
    <3> QED
        BY <1>2, <2>7, <3>1
  <2> QED
      BY <1>2, <2>1, <2>7, <2>8, <2>9
<1>4. ASSUME NEW k \in DOMAIN ls, NEW m \in DOMAIN ls, k < m
      PROVE  /\ ls[k] # ls[m]
             /\ KeyOf(ls[k]) = KeyOf(ls[m]) /\ ls[k].device \in {0, 1} /\ ls[m].device \in {0, 1} =>
                  Ahead(ls[k], ls[m])
  <2> DEFINE p == counters[k]
             q == counters[m]
  <2>1. p \in Places /\ q \in Places /\ Before(p, q)
      BY <1>2, <1>4 DEF PrintedAt
  <2>2. /\ p.cgroup \in Nat /\ p.group \in Nat /\ p.device \in Nat /\ p.at \in Nat /\ p.cpu \in Nat
        /\ q.cgroup \in Nat /\ q.group \in Nat /\ q.device \in Nat /\ q.at \in Nat /\ q.cpu \in Nat
        /\ p.device \in DevicesOf(p.group) /\ q.device \in DevicesOf(q.group)
      BY <1>1, <2>1 DEF Numbers
  <2>3. ~(p.cgroup = q.cgroup /\ p.group = q.group /\ p.device = q.device /\ p.at = q.at /\ p.cpu = q.cpu)
      BY <2>1, <2>2 DEF Before
  <2>4. ls[k] # ls[m]
      BY <1>2, <2>3
  <2>5. ASSUME KeyOf(p) = KeyOf(q), p.device \in {0, 1}, q.device \in {0, 1} PROVE Ahead(p, q)
    <3>1. p.cgroup = q.cgroup
        BY <1>1, <2>1, <2>5
    <3>2. p.group = q.group => p.device = q.device
        BY <2>2, <2>5, FramesAssumption DEF DevicesOf
    <3> HIDE DEF p, q
    <3> QED
        BY <2>1, <2>2, <3>1, <3>2 DEF Before, Ahead
  <2>6. Ahead(p, q) => Ahead(ls[k], ls[m])
      BY <1>2 DEF Ahead
  <2> QED
      BY <1>2, <2>4, <2>5, <2>6
<1>5. \A k \in DOMAIN ls :
         /\ ls[k].group \in DOMAIN definitions /\ ls[k].at \in DOMAIN definitions[ls[k].group]
         /\ ls[k].event = definitions[ls[k].group][ls[k].at]
         /\ ls[k].counted \in BOOLEAN /\ KeyOf(ls[k]) \in Keys
    BY <1>1, <1>2
<1>6. Len(ls) \in Nat /\ DOMAIN ls = 1..Len(ls)
    BY DEF PrintedAt
<1> QED
    BY <1>3, <1>4, <1>5, <1>6 DEF Printed

\* Two lines of one event of one group, and lines of different ones, in the order of the groups.
SameSpot(l, m) == l.group = m.group /\ l.at = m.at
Sooner(g, a, l) == g < l.group \/ (g = l.group /\ a < l.at)

\* Before a line perf has printed one for its bucket of each event that precedes its own, and
\* it prints several of its own only for a socket, together if it is not an uncore event.
Laid(ls) ==
    /\ \A n \in DOMAIN ls : \A g \in DOMAIN definitions : \A a \in DOMAIN definitions[g] :
         Sooner(g, a, ls[n]) =>
           \E m \in DOMAIN ls : /\ m < n /\ KeyOf(ls[m]) = KeyOf(ls[n]) /\ ls[m].device \in {0, 1}
                                /\ ls[m].group = g /\ ls[m].at = a
    /\ \A m, n \in DOMAIN ls :
         m < n /\ KeyOf(ls[m]) = KeyOf(ls[n]) /\ SameSpot(ls[m], ls[n]) =>
           /\ mode = "socket"
           /\ ls[n].event \notin UncoreEvent => \A o \in m..n : o \in DOMAIN ls /\ SameSpot(ls[o], ls[n])

\* An event that precedes that of a place has a line for the bucket of the place, too.
LEMMA SpotsBefore ==
    ASSUME mode \in Mode, WellFormed(definitions), NEW p, p.group \in DOMAIN definitions,
           p.cpu \in CPUsOf(p.group), mode \in {"socket", "cpu"} => p.cpu \in CPU,
           NEW g \in DOMAIN definitions, NEW a, Sooner(g, a, p)
    PROVE  \E c \in CPUsOf(g) : /\ mode = "cpu" => c = p.cpu
                                /\ mode = "socket" => SocketOf[c] = SocketOf[p.cpu]
<1>1. CASE mode \in {"system", "cgroup"}
  <2>1. CPUsOf(g) = {0} /\ mode # "cpu" /\ mode # "socket"
      BY <1>1 DEF CPUsOf
  <2> QED
      BY <2>1
<1>2. CASE mode \in {"socket", "cpu"} /\ definitions[g][1] \in CoreEvent
  <2>1. CPUsOf(g) = CPU
      BY <1>2 DEF CPUsOf
  <2> QED
      BY <1>2, <2>1
<1>3. CASE mode = "cpu" /\ definitions[g][1] \notin CoreEvent
  <2>1. CPUsOf(g) = Representative
      BY <1>3 DEF CPUsOf
  <2>2. definitions[p.group][1] \notin CoreEvent
      BY <1>3 DEF WellFormed, Sooner
  <2>3. CPUsOf(p.group) = Representative
      BY <1>3, <2>2 DEF CPUsOf
  <2> QED
      BY <1>3, <2>1, <2>3
<1>4. CASE mode = "socket" /\ definitions[g][1] \notin CoreEvent
  <2>1. CPUsOf(g) = Representative
      BY <1>4 DEF CPUsOf
  <2> DEFINE T == {c \in CPU : SocketOf[c] = SocketOf[p.cpu]}
  <2>2. T \in SUBSET Nat /\ p.cpu \in T
      BY <1>4, FramesAssumption
  <2>3. PICK c \in T : \A d \in T : c <= d
    <3> HIDE DEF T
    <3> QED
        BY <2>2, LeastNumber
  <2>4. c \in Representative
      BY <2>3 DEF Representative
  <2> QED
      BY <1>4, <2>1, <2>3, <2>4
<1> QED
    BY <1>1, <1>2, <1>3, <1>4 DEF Mode

LEMMA LinesAreLaid ==
    ASSUME LayoutInv, mode # "none", WellFormed(definitions), NEW ls, PrintedAt(ls)
    PROVE  Laid(ls)
<1>1. /\ mode \in Mode /\ definitions \in Seq(Definition)
      /\ \A p \in Places :
            /\ p \in Numbers /\ KeyOf(p) \in Keys
            /\ p.group \in DOMAIN definitions /\ p \in PlacesIn(p.group)
            /\ p.at \in DOMAIN definitions[p.group]
            /\ p.device \in DevicesOf(p.group) /\ p.cpu \in CPUsOf(p.group)
            /\ p.device \notin {0, 1} => mode = "socket" /\ definitions[p.group][p.at] \in UncoreEvent
            /\ mode \in {"socket", "cpu"} => p.cpu \in CPU
      /\ \A p, q \in Places : KeyOf(p) = KeyOf(q) => p.cgroup = q.cgroup
    BY PlaceKeys
<1>2. \A n \in DOMAIN ls :
         /\ counters[n] \in Places
         /\ ls[n].cgroup = counters[n].cgroup /\ ls[n].group = counters[n].group
         /\ ls[n].device = counters[n].device /\ ls[n].at = counters[n].at
         /\ ls[n].cpu = counters[n].cpu
         /\ ls[n].event = definitions[counters[n].group][counters[n].at]
         /\ KeyOf(ls[n]) = KeyOf(counters[n])
    BY DEF PrintedAt
<1>3. ASSUME NEW n \in DOMAIN ls, NEW g \in DOMAIN definitions, NEW a \in DOMAIN definitions[g],
             Sooner(g, a, ls[n])
      PROVE  \E m \in DOMAIN ls : /\ m < n /\ KeyOf(ls[m]) = KeyOf(ls[n]) /\ ls[m].device \in {0, 1}
                                  /\ ls[m].group = g /\ ls[m].at = a
  <2> DEFINE p == counters[n]
  <2>1. /\ p \in Places /\ p \in Numbers /\ p.group \in DOMAIN definitions
        /\ p.device \in DevicesOf(p.group) /\ p.cpu \in CPUsOf(p.group) /\ p \in PlacesIn(p.group)
        /\ mode \in {"socket", "cpu"} => p.cpu \in CPU
      BY <1>1, <1>2
  <2>2. Sooner(g, a, p)
      BY <1>2, <1>3 DEF Sooner
  <2>3. PICK c \in CPUsOf(g) : /\ mode = "cpu" => c = p.cpu
                               /\ mode = "socket" => SocketOf[c] = SocketOf[p.cpu]
      BY <1>1, <2>1, <2>2, SpotsBefore
  <2>4. PICK v \in DevicesOf(g) : /\ v \in {0, 1}
                                  /\ g = p.group => v <= p.device
    <3>1. Devices \in Nat /\ 1 \in 1..Devices
        BY FramesAssumption
    <3> QED
        BY <2>1, <3>1 DEF DevicesOf
  <2> DEFINE q == [cgroup |-> p.cgroup, group |-> g, device |-> v, at |-> a, cpu |-> c]
  <2>5. q \in Places
    <3>1. q \in PlacesIn(g)
        BY <2>1, <2>3, <2>4 DEF PlacesIn
    <3> QED
        BY <3>1 DEF Places, PlacesIn
  <2>6. q.cgroup = p.cgroup /\ q.group = g /\ q.device = v /\ q.at = a /\ q.cpu = c
      OBVIOUS
  <2> HIDE DEF q
  <2>7. KeyOf(q) = KeyOf(p)
      BY <1>1, <2>3, <2>6 DEF KeyOf, Mode
  <2>8. Before(q, p)
    <3>1. /\ p.cgroup \in Nat /\ p.group \in Nat /\ p.device \in Nat /\ p.at \in Nat /\ p.cpu \in Nat
          /\ q.cgroup \in Nat /\ q.group \in Nat /\ q.device \in Nat /\ q.at \in Nat /\ q.cpu \in Nat
        BY <1>1, <2>1, <2>5 DEF Numbers
    <3> HIDE DEF p
    <3> QED
        BY <2>2, <2>4, <2>6, <3>1 DEF Before, Sooner
  <2>9. PICK m \in DOMAIN ls : m < n /\ counters[m] = q
      BY <2>5, <2>8 DEF PrintedAt
  <2> QED
      BY <1>2, <2>4, <2>6, <2>7, <2>9
<1>4. ASSUME NEW m \in DOMAIN ls, NEW n \in DOMAIN ls, m < n, KeyOf(ls[m]) = KeyOf(ls[n]),
             SameSpot(ls[m], ls[n])
      PROVE  /\ mode = "socket"
             /\ ls[n].event \notin UncoreEvent => \A o \in m..n : o \in DOMAIN ls /\ SameSpot(ls[o], ls[n])
  <2> DEFINE p == counters[m]
             q == counters[n]
             d == definitions[q.group]
  <2>1. /\ p \in Places /\ q \in Places /\ Before(p, q) /\ KeyOf(p) = KeyOf(q)
        /\ p.group = q.group /\ p.at = q.at /\ ls[n].event = d[q.at]
      BY <1>2, <1>4 DEF PrintedAt, SameSpot
  <2>2. /\ p.cgroup = q.cgroup
        /\ p.device \in DevicesOf(q.group) /\ q.device \in DevicesOf(q.group)
        /\ p.cpu \in CPUsOf(q.group) /\ q.cpu \in CPUsOf(q.group)
        /\ d \in Definition /\ q.at \in DOMAIN d /\ q.group \in DOMAIN definitions
      BY <1>1, <2>1
  <2>3. p.device # q.device \/ p.cpu # q.cpu
    <3>1. /\ p.cgroup \in Nat /\ p.group \in Nat /\ p.device \in Nat /\ p.at \in Nat /\ p.cpu \in Nat
        BY <1>1, <2>1 DEF Numbers
    <3> QED
        BY <2>1, <2>2, <3>1 DEF Before
  <2>4. d[q.at] \notin UncoreEvent => DevicesOf(q.group) = {0}
    <3>1. d[1] \in UncoreEvent => d[q.at] \in UncoreEvent
        BY <2>2, DefinitionFacts
    <3> QED
        BY <3>1 DEF DevicesOf
  <2>5. mode = "socket"
    <3>1. mode \notin {"system", "cgroup"}
        BY <2>2, <2>3 DEF CPUsOf, DevicesOf
    <3>2. mode # "cpu"
      <4> SUFFICES ASSUME mode = "cpu" PROVE FALSE
          OBVIOUS
      <4>1. p.cpu = q.cpu
          BY <2>1 DEF KeyOf
      <4>2. d[q.at] \notin UncoreEvent
          BY <2>2 DEF LayoutInv, NoUncoreIn
      <4> QED
          BY <2>2, <2>3, <2>4, <4>1, <4>2
    <3> QED
        BY <1>1, <3>1, <3>2 DEF Mode
  <2>6. ASSUME ls[n].event \notin UncoreEvent, NEW o \in m..n PROVE o \in DOMAIN ls /\ SameSpot(ls[o], ls[n])
    <3>1. o \in DOMAIN ls /\ (o = m \/ m < o) /\ (o = n \/ o < n)
        BY DEF PrintedAt
    <3> DEFINE r == counters[o]
    <3>2. r \in Places /\ (r = p \/ Before(p, r)) /\ (r = q \/ Before(r, q))
        BY <1>2, <3>1 DEF PrintedAt
    <3>3. /\ p.cgroup \in Nat /\ p.group \in Nat /\ p.device \in Nat /\ p.at \in Nat /\ p.cpu \in Nat
          /\ q.cgroup \in Nat /\ q.group \in Nat /\ q.device \in Nat /\ q.at \in Nat /\ q.cpu \in Nat
          /\ r.cgroup \in Nat /\ r.group \in Nat /\ r.device \in Nat /\ r.at \in Nat /\ r.cpu \in Nat
          /\ r.device \in DevicesOf(r.group)
        BY <1>1, <2>1, <3>2 DEF Numbers
    <3>4. p.device = 0 /\ q.device = 0 /\ (r.group = q.group => r.device = 0)
        BY <2>1, <2>2, <2>4, <2>6, <3>3
    <3>5. r.group = q.group /\ r.at = q.at
      <4> HIDE DEF p, q, r
      <4> QED
          BY <2>1, <2>2, <3>2, <3>3, <3>4 DEF Before
    <3> QED
        BY <1>2, <3>1, <3>5 DEF SameSpot
  <2> QED
      BY <2>5, <2>6
<1> QED
    BY <1>3, <1>4 DEF Laid

-----------------------------------------------------------------------------
(* The buckets.                                                            *)

\* What can be in a bucket, and the buckets, for the lines ls.
Values(ls)   == [nan : BOOLEAN, of : SUBSET {ls[n] : n \in DOMAIN ls}]
Names(ls)    == {ls[n].event : n \in DOMAIN ls} \cup {NoEvent}
Elements(ls) == [event : Names(ls), value : Values(ls)]
Buckets(ls)  == [list : [Keys -> Seq(Elements(ls))], current : Names(ls)]

\* A value is added to one of the elements.
AddedTo(b, k, v) == [b EXCEPT ![k].value = Plus(@, v)]

LEMMA PlusFacts ==
    ASSUME NEW ls, NEW b \in Seq(Elements(ls)), NEW k \in DOMAIN b, NEW v \in Values(ls)
    PROVE  /\ AddedTo(b, k, v) \in Seq(Elements(ls))
           /\ Len(AddedTo(b, k, v)) = Len(b)
           /\ AddedTo(b, k, v)[k].event = b[k].event
           /\ AddedTo(b, k, v)[k].value.of = b[k].value.of \cup v.of
           /\ \A d \in DOMAIN b : d # k => AddedTo(b, k, v)[d] = b[d]
<1> DEFINE V == {ls[n] : n \in DOMAIN ls}
           x == [b[k] EXCEPT !.value = Plus(@, v)]
           c == [b EXCEPT ![k] = x]
<1>1. b[k] \in Elements(ls) /\ DOMAIN b = 1..Len(b) /\ Len(b) \in Nat
    OBVIOUS
<1>2. b[k].value \in Values(ls) /\ b[k].event \in Names(ls)
    BY <1>1 DEF Elements
<1>3. Plus(b[k].value, v) \in Values(ls) /\ Plus(b[k].value, v).of = b[k].value.of \cup v.of
  <2> HIDE DEF V
  <2> QED
      BY <1>2 DEF Values, Plus
<1>4. x \in Elements(ls) /\ x.event = b[k].event /\ x.value = Plus(b[k].value, v)
    BY <1>1, <1>3 DEF Elements
<1>5. c = AddedTo(b, k, v)
    BY DEF AddedTo
<1> HIDE DEF x
<1>6. c \in Seq(Elements(ls)) /\ Len(c) = Len(b) /\ c[k] = x /\ \A d \in DOMAIN b : d # k => c[d] = b[d]
    BY <1>1, <1>4
<1> HIDE DEF c
<1> QED
    BY <1>3, <1>4, <1>5, <1>6

LEMMA ParsedFacts ==
    ASSUME NEW ls, Printed(ls), NEW n \in DOMAIN ls
    PROVE  /\ Parsed(ls[n]) \in Elements(ls)
           /\ Parsed(ls[n]).event = ls[n].event /\ Parsed(ls[n]).value.of = {ls[n]}
<1>1. ls[n].counted \in BOOLEAN
    BY DEF Printed
<1>2. (~ls[n].counted) \in BOOLEAN
    BY <1>1
<1> QED
    BY <1>2 DEF Parsed, Elements, Names, Values

\* The same for the value of line n of ls and the last element.
LEMMA AddedFacts ==
    ASSUME NEW ls, Printed(ls), NEW n \in DOMAIN ls, NEW b \in Seq(Elements(ls)), NEW k \in DOMAIN b
    PROVE  /\ Added(b, k, ls[n]) \in Seq(Elements(ls))
           /\ Len(Added(b, k, ls[n])) = Len(b)
           /\ Added(b, k, ls[n])[k].event = b[k].event
           /\ Added(b, k, ls[n])[k].value.of = b[k].value.of \cup {ls[n]}
           /\ \A d \in DOMAIN b : d # k => Added(b, k, ls[n])[d] = b[d]
<1> DEFINE v == Parsed(ls[n]).value
<1>1. Added(b, k, ls[n]) = AddedTo(b, k, v)
    BY DEF Added, AddedTo
<1>2. v \in Values(ls) /\ v.of = {ls[n]}
    BY ParsedFacts DEF Elements
<1> HIDE DEF v
<1>3. /\ AddedTo(b, k, v) \in Seq(Elements(ls))
      /\ Len(AddedTo(b, k, v)) = Len(b)
      /\ AddedTo(b, k, v)[k].event = b[k].event
      /\ AddedTo(b, k, v)[k].value.of = b[k].value.of \cup v.of
      /\ \A d \in DOMAIN b : d # k => AddedTo(b, k, v)[d] = b[d]
    BY <1>2, PlusFacts
<1> QED
    BY <1>1, <1>2, <1>3

\* Line l is added to the last element of bucket b.
Joins(b, current, l) ==
    mode = "socket" /\ b # <<>> /\ b[Len(b)].event = l.event /\ current = l.event

\* A line goes to the bucket of its key only: it is added to the last element, which is of
\* its event, or appended.
Bucketed(state, ls, n, next) ==
    LET s == KeyOf(ls[n])
        b == state.list[s]
    IN  /\ next \in Buckets(ls) /\ next.current = ls[n].event
        /\ \A t \in Keys \ {s} : next.list[t] = state.list[t]
        /\ \/ next.list[s] = Append(b, Parsed(ls[n])) /\ ~Joins(b, state.current, ls[n])
           \/ b # <<>> /\ b[Len(b)].event = ls[n].event /\ next.list[s] = Added(b, Len(b), ls[n])

LEMMA BucketStepFacts ==
    ASSUME NEW ls, Printed(ls), NEW n \in DOMAIN ls, NEW state \in Buckets(ls)
    PROVE  Bucketed(state, ls, n, BucketStep(state, ls[n]))
<1> DEFINE l == ls[n]
           s == KeyOf(l)
           b == state.list[s]
           next == BucketStep(state, l)
           new == IF mode = "socket" /\ b # <<>> /\ Last(b).event = state.current /\ l.event = state.current
                  THEN Added(b, Len(b), l) ELSE Append(b, Parsed(l))
<1>1. s \in Keys /\ state.list \in [Keys -> Seq(Elements(ls))] /\ state.current \in Names(ls)
      /\ state = [list |-> state.list, current |-> state.current]
    BY DEF Printed, Buckets
<1>2. b \in Seq(Elements(ls))
    BY <1>1
<1>3. l.event \in Names(ls)
    BY DEF Names
<1>4. new \in Seq(Elements(ls))
  <2>1. Parsed(l) \in Elements(ls)
      BY ParsedFacts
  <2>2. Append(b, Parsed(l)) \in Seq(Elements(ls))
    <3> HIDE DEF b, l
    <3> QED
        BY <1>2, <2>1
  <2>3. b # <<>> => Added(b, Len(b), l) \in Seq(Elements(ls))
    <3>1. b # <<>> => Len(b) \in DOMAIN b
      <4> HIDE DEF b
      <4> QED
          BY <1>2
    <3>2. Parsed(l).value \in Values(ls)
      <4> HIDE DEF l
      <4> QED
          BY <2>1 DEF Elements
    <3>3. Added(b, Len(b), l) = AddedTo(b, Len(b), Parsed(l).value)
        BY DEF Added, AddedTo
    <3> HIDE DEF b, l
    <3> QED
        BY <1>2, <3>1, <3>2, <3>3, PlusFacts
  <2> HIDE DEF b, l
  <2> QED
      BY <2>2, <2>3
<1>5. next.list = [state.list EXCEPT ![s] = new] /\ next.current = l.event
      /\ next = [list |-> next.list, current |-> next.current]
    BY <1>1 DEF BucketStep
<1>6. Last(b) = b[Len(b)]
    BY DEF Last
<1>7. \/ new = Append(b, Parsed(l)) /\ ~Joins(b, state.current, l)
      \/ b # <<>> /\ b[Len(b)].event = l.event /\ new = Added(b, Len(b), l)
    BY <1>6 DEF Joins
<1> HIDE DEF new, next, b, s, l
<1>8. next.list \in [Keys -> Seq(Elements(ls))] /\ next.list[s] = new
      /\ \A t \in Keys \ {s} : next.list[t] = state.list[t]
    BY <1>1, <1>4, <1>5
<1>9. next \in Buckets(ls)
    BY <1>3, <1>5, <1>8 DEF Buckets
<1> QED
    BY <1>5, <1>7, <1>8, <1>9 DEF Bucketed, next, b, s, l

LEMMA BucketingIsDefined ==
    ASSUME NEW ls, Printed(ls)
    PROVE  /\ \A n \in 0..Len(ls) : Bucketing(ls)[n] \in Buckets(ls)
           /\ Bucketing(ls)[0] = [list |-> [s \in Keys |-> <<>>], current |-> NoEvent]
           /\ \A n \in 1..Len(ls) : Bucketing(ls)[n] = BucketStep(Bucketing(ls)[n - 1], ls[n])
<1> DEFINE K == Len(ls)
           D == Buckets(ls)
           a == [list |-> [s \in Keys |-> <<>>], current |-> NoEvent]
           g == [p \in (1..K) \X D |-> BucketStep(p[2], ls[p[1]])]
           E(h) == [n \in 0..K |-> IF n = 0 THEN a ELSE BucketStep(h[n - 1], ls[n])]
           c == Bucketing(ls)
<1>1. K \in Nat /\ DOMAIN ls = 1..K
    BY DEF Printed
<1>2. a \in D
    BY DEF Buckets, Names
<1>3. \A n \in 1..K : \A state \in D : BucketStep(state, ls[n]) \in D
  <2> HIDE DEF D, K
  <2>1. \A n \in 1..K : \A state \in D : n \in DOMAIN ls
      BY <1>1
  <2> QED
      BY <2>1, BucketStepFacts DEF D, Bucketed
<1>4. g \in [(1..K) \X D -> D]
  <2> HIDE DEF D, K
  <2>1. \A p \in (1..K) \X D : BucketStep(p[2], ls[p[1]]) \in D
      BY <1>3
  <2> QED
      BY <2>1
<1>5. c = (CHOOSE h : h = E(h))
    BY DEF Bucketing
<1>6. PICK h \in [0..K -> D] : h = Recursion(a, K, g, h)
  <2> HIDE DEF K, D, a, g
  <2>1. IsDefined(D, a, K, g)
      BY <1>1, <1>2, <1>4, RecursionIsSome
  <2> QED
      BY <2>1 DEF IsDefined
<1>7. h = E(h)
  <2>1. \A n \in 0..K : n # 0 => n \in 1..K /\ n - 1 \in 0..K
      BY <1>1
  <2>2. \A n \in 0..K : n # 0 => g[<<n, h[n - 1]>>] = BucketStep(h[n - 1], ls[n])
    <3> HIDE DEF K, D
    <3> QED
        BY <2>1
  <2> HIDE DEF K, D, a, g
  <2> QED
      BY <1>6, <2>2 DEF Recursion
<1>8. c = E(c)
  <2> HIDE DEF E, c
  <2> QED
      BY <1>5, <1>7
<1>9. c[0] = a /\ \A n \in 1..K : c[n] = BucketStep(c[n - 1], ls[n])
  <2>1. 0 \in 0..K /\ \A n \in 1..K : n \in 0..K /\ n # 0
      BY <1>1
  <2> HIDE DEF c, a, K
  <2> QED
      BY <1>8, <2>1
<1>10. \A n \in 0..K : c[n] \in D
  <2> DEFINE S == {n \in 0..K : c[n] \in D}
  <2>1. 0 \in S
    <3> HIDE DEF c, a, K, D
    <3> QED
        BY <1>1, <1>2, <1>9
  <2>2. \A n \in 1..K : n - 1 \in S => n \in S
    <3>1. \A n \in 1..K : n \in 0..K
        BY <1>1
    <3> HIDE DEF c, a, K, D
    <3> QED
        BY <1>3, <1>9, <3>1
  <2>3. \A n \in 0..K : n \in S
    <3> HIDE DEF c, a, K, D, S
    <3> QED
        BY <1>1, <2>1, <2>2, UpTo
  <2> QED
      BY <2>3
<1> QED
    BY <1>9, <1>10

\* Bucket b has the first n of the lines that have key s, each element those of one event,
\* the elements in the order of the lines.
Filled(b, ls, s, n) ==
    /\ \A k \in DOMAIN b :
         /\ b[k].value.of # {}
         /\ \A l \in b[k].value.of : l.event = b[k].event /\ KeyOf(l) = s /\ \E m \in 1..n : l = ls[m]
    /\ \A m \in 1..n : KeyOf(ls[m]) = s => \E k \in DOMAIN b : ls[m] \in b[k].value.of
    /\ \A d, k \in DOMAIN b : d < k =>
         \A m, o \in 1..n : ls[m] \in b[d].value.of /\ ls[o] \in b[k].value.of => m < o

LEMMA LinesDiffer ==
    ASSUME NEW ls, Printed(ls)
    PROVE  \A m, n \in DOMAIN ls : ls[m] = ls[n] => m = n
<1> SUFFICES ASSUME NEW m \in DOMAIN ls, NEW n \in DOMAIN ls, ls[m] = ls[n] PROVE m = n
    OBVIOUS
<1>1. m \in Nat /\ n \in Nat
    BY DEF Printed
<1>2. ~(m < n) /\ ~(n < m)
    BY DEF Printed
<1> QED
    BY <1>1, <1>2

LEMMA OtherBucketStaysFilled ==
    ASSUME NEW ls, Printed(ls), NEW n \in DOMAIN ls, NEW s, KeyOf(ls[n]) # s,
           NEW b, Filled(b, ls, s, n - 1)
    PROVE  Filled(b, ls, s, n)
<1>1. n \in Nat /\ \A m \in 1..n : m \in 1..(n - 1) \/ m = n
    BY DEF Printed
<1>2. \A m \in 1..(n - 1) : m \in 1..n
    BY <1>1
<1>3. \A k \in DOMAIN b : ls[n] \notin b[k].value.of
    BY DEF Filled
<1> QED
    BY <1>1, <1>2, <1>3 DEF Filled

LEMMA BucketIsFilled ==
    ASSUME NEW ls, Printed(ls), NEW n \in DOMAIN ls,
           NEW b \in Seq(Elements(ls)), Filled(b, ls, KeyOf(ls[n]), n - 1), NEW c,
           \/ c = Append(b, Parsed(ls[n]))
           \/ b # <<>> /\ b[Len(b)].event = ls[n].event /\ c = Added(b, Len(b), ls[n])
    PROVE  Filled(c, ls, KeyOf(ls[n]), n)
<1> DEFINE l == ls[n]
           s == KeyOf(l)
           B == Len(b)
<1>1. /\ n \in Nat /\ n \in 1..n /\ n \notin 1..(n - 1)
      /\ \A m \in 1..n : (m \in 1..(n - 1) /\ m < n) \/ m = n
      /\ \A m \in 1..(n - 1) : m \in 1..n
      /\ \A m \in 1..n : m \in DOMAIN ls
    BY DEF Printed
<1>2. B \in Nat /\ DOMAIN b = 1..B
    OBVIOUS
<1>3. \A k \in DOMAIN b : \A m \in 1..n : ls[m] \in b[k].value.of => m \in 1..(n - 1)
  <2> SUFFICES ASSUME NEW k \in DOMAIN b, NEW m \in 1..n, ls[m] \in b[k].value.of PROVE m \in 1..(n - 1)
      OBVIOUS
  <2>1. PICK o \in 1..(n - 1) : ls[m] = ls[o]
      BY DEF Filled
  <2>2. m = o
      BY <1>1, <2>1, LinesDiffer
  <2> QED
      BY <2>2
<1>4. \A m \in 1..n : ls[m] = l => m = n
    BY <1>1, LinesDiffer
<1>5. CASE c = Append(b, Parsed(l))
  <2>1. /\ DOMAIN c = 1..(B + 1)
        /\ \A k \in 1..(B + 1) : c[k] = IF k = B + 1 THEN Parsed(l) ELSE b[k]
    <3>1. Parsed(l) \in Elements(ls)
        BY ParsedFacts
    <3> HIDE DEF l
    <3> QED
        BY <1>5, <3>1, SequenceFacts
  <2>2. Parsed(l).event = l.event /\ Parsed(l).value.of = {l}
      BY ParsedFacts
  <2> HIDE DEF B
  <2>3. \A k \in DOMAIN c : (k \in DOMAIN b /\ c[k] = b[k]) \/ (k = B + 1 /\ c[k] = Parsed(l))
      BY <1>2, <2>1
  <2>4. B + 1 \in DOMAIN c /\ \A k \in DOMAIN b : k \in DOMAIN c /\ c[k] = b[k] /\ k < B + 1
      BY <1>2, <2>1
  <2>5. c[B + 1] = Parsed(l)
      BY <1>2, <2>1
  <2>6. ASSUME NEW k \in DOMAIN c
        PROVE  /\ c[k].value.of # {}
               /\ \A x \in c[k].value.of : x.event = c[k].event /\ KeyOf(x) = s /\ \E m \in 1..n : x = ls[m]
    <3>1. CASE c[k] = Parsed(l)
        BY <1>1, <2>2, <3>1
    <3>2. CASE k \in DOMAIN b /\ c[k] = b[k]
        BY <1>1, <3>2 DEF Filled
    <3> QED
        BY <2>3, <3>1, <3>2
  <2>7. ASSUME NEW m \in 1..n, KeyOf(ls[m]) = s PROVE \E k \in DOMAIN c : ls[m] \in c[k].value.of
      BY <1>1, <2>2, <2>4, <2>5, <2>7 DEF Filled
  <2>8. ASSUME NEW d \in DOMAIN c, NEW k \in DOMAIN c, d < k, NEW m \in 1..n, NEW o \in 1..n,
               ls[m] \in c[d].value.of, ls[o] \in c[k].value.of
        PROVE  m < o
    <3>1. d \in DOMAIN b /\ c[d] = b[d]
        BY <1>2, <2>1, <2>3, <2>8
    <3>2. m \in 1..(n - 1)
        BY <1>3, <2>8, <3>1
    <3>3. CASE k \in DOMAIN b /\ c[k] = b[k]
      <4>1. o \in 1..(n - 1)
          BY <1>3, <2>8, <3>3
      <4> QED
          BY <2>8, <3>1, <3>2, <3>3, <4>1 DEF Filled
    <3>4. CASE c[k] = Parsed(l)
      <4>1. o = n
          BY <1>4, <2>2, <2>8, <3>4
      <4> QED
          BY <1>1, <3>2, <4>1
    <3> QED
        BY <2>3, <3>3, <3>4
  <2> QED
      BY <2>6, <2>7, <2>8 DEF Filled
<1>6. CASE b # <<>> /\ b[B].event = l.event /\ c = Added(b, B, l)
  <2>1. B \in DOMAIN b /\ \A k \in DOMAIN b : k # B => k < B
      BY <1>2, <1>6
  <2>3. /\ c \in Seq(Elements(ls)) /\ Len(c) = B
        /\ c[B].event = b[B].event /\ c[B].value.of = b[B].value.of \cup {l}
        /\ \A k \in DOMAIN b : k # B => c[k] = b[k]
    <3>1. c = Added(b, B, ls[n]) /\ Len(b) = B
        BY <1>6
    <3> HIDE DEF B
    <3> QED
        BY <2>1, <3>1, AddedFacts
  <2>4. DOMAIN c = DOMAIN b
      BY <1>2, <2>3
  <2> HIDE DEF B
  <2>5. ASSUME NEW k \in DOMAIN c
        PROVE  /\ c[k].value.of # {}
               /\ \A x \in c[k].value.of : x.event = c[k].event /\ KeyOf(x) = s /\ \E m \in 1..n : x = ls[m]
    <3>1. CASE k = B
        BY <1>1, <1>6, <2>1, <2>3, <3>1 DEF Filled
    <3>2. CASE k # B
        BY <1>1, <2>3, <2>4, <3>2 DEF Filled
    <3> QED
        BY <3>1, <3>2
  <2>6. \A k \in DOMAIN b : b[k].value.of \subseteq c[k].value.of
      BY <2>3
  <2>7. ASSUME NEW m \in 1..n, KeyOf(ls[m]) = s PROVE \E k \in DOMAIN c : ls[m] \in c[k].value.of
    <3>1. CASE m = n
        BY <2>1, <2>3, <2>4, <3>1
    <3>2. CASE m \in 1..(n - 1)
        BY <2>4, <2>6, <2>7, <3>2 DEF Filled
    <3> QED
        BY <1>1, <3>1, <3>2
  <2>8. ASSUME NEW d \in DOMAIN c, NEW k \in DOMAIN c, d < k, NEW m \in 1..n, NEW o \in 1..n,
               ls[m] \in c[d].value.of, ls[o] \in c[k].value.of
        PROVE  m < o
    <3>1. d # B /\ c[d] = b[d]
      <4>1. ~(B < k)
          BY <1>2, <2>4, <2>8
      <4> QED
          BY <2>3, <2>4, <2>8, <4>1
    <3>2. m \in 1..(n - 1) /\ ls[m] \in b[d].value.of
        BY <1>3, <2>4, <2>8, <3>1
    <3>3. CASE o = n
        BY <1>1, <3>2, <3>3
    <3>4. CASE o \in 1..(n - 1)
      <4>1. ls[o] # l
          BY <1>1, <1>4, <3>4
      <4>2. ls[o] \in b[k].value.of
          BY <2>3, <2>4, <2>8, <4>1
      <4> QED
          BY <2>4, <2>8, <3>2, <3>4, <4>2 DEF Filled
    <3> QED
        BY <1>1, <3>3, <3>4
  <2> QED
      BY <2>5, <2>7, <2>8 DEF Filled
<1> QED
    BY <1>5, <1>6

\* Every bucket has all lines of its key.
LEMMA BucketsAreFilled ==
    ASSUME NEW ls, Printed(ls), NEW s \in Keys
    PROVE  \A n \in 0..Len(ls) :
             /\ Bucketing(ls)[n].list[s] \in Seq(Elements(ls))
             /\ Filled(Bucketing(ls)[n].list[s], ls, s, n)
<1> DEFINE K == Len(ls)
           c == Bucketing(ls)
           S == {n \in 0..K : Filled(c[n].list[s], ls, s, n)}
<1>1. K \in Nat /\ DOMAIN ls = 1..K
    BY DEF Printed
<1>2. /\ \A n \in 0..K : c[n] \in Buckets(ls)
      /\ c[0] = [list |-> [t \in Keys |-> <<>>], current |-> NoEvent]
      /\ \A n \in 1..K : c[n] = BucketStep(c[n - 1], ls[n])
    BY BucketingIsDefined
<1> HIDE DEF c, K
<1>3. \A n \in 0..K : c[n].list[s] \in Seq(Elements(ls))
    BY <1>2 DEF Buckets
<1>4. 0 \in S
  <2>1. c[0].list[s] = <<>>
      BY <1>2
  <2>2. Filled(<<>>, ls, s, 0)
      BY DEF Filled
  <2> QED
      BY <1>1, <2>1, <2>2
<1>5. ASSUME NEW n \in 1..K, n - 1 \in S PROVE n \in S
  <2>1. n \in DOMAIN ls /\ n - 1 \in 0..K /\ n \in 0..K
      BY <1>1
  <2>2. c[n - 1] \in Buckets(ls) /\ c[n] = BucketStep(c[n - 1], ls[n])
        /\ c[n - 1].list[s] \in Seq(Elements(ls)) /\ Filled(c[n - 1].list[s], ls, s, n - 1)
      BY <1>2, <1>3, <1>5, <2>1
  <2> DEFINE b == c[n - 1].list[s]
             d == c[n].list[s]
  <2>3. /\ KeyOf(ls[n]) = s => \/ d = Append(b, Parsed(ls[n]))
                               \/ b # <<>> /\ b[Len(b)].event = ls[n].event /\ d = Added(b, Len(b), ls[n])
        /\ KeyOf(ls[n]) # s => d = b
    <3>1. PICK state \in Buckets(ls) : state = c[n - 1]
        BY <2>2
    <3>2. Bucketed(state, ls, n, BucketStep(state, ls[n]))
        BY <2>1, BucketStepFacts
    <3>3. Bucketed(c[n - 1], ls, n, c[n])
        BY <2>2, <3>1, <3>2
    <3> QED
        BY <3>3 DEF Bucketed
  <2>4. CASE KeyOf(ls[n]) = s
    <3> HIDE DEF b, d
    <3>1. Filled(d, ls, s, n)
        BY <2>1, <2>2, <2>3, <2>4, BucketIsFilled DEF b
    <3> QED
        BY <2>1, <3>1 DEF d
  <2>5. CASE KeyOf(ls[n]) # s
    <3>1. c[n].list[s] = c[n - 1].list[s]
        BY <2>3, <2>5
    <3>2. Filled(c[n].list[s], ls, s, n)
        BY <2>1, <2>2, <2>5, <3>1, OtherBucketStaysFilled
    <3> QED
        BY <2>1, <3>2
  <2> QED
      BY <2>4, <2>5
<1>6. \A n \in 0..K : n \in S
  <2> HIDE DEF S
  <2> QED
      BY <1>1, <1>4, <1>5, UpTo
<1>7. \A n \in 0..K : c[n].list[s] \in Seq(Elements(ls)) /\ Filled(c[n].list[s], ls, s, n)
    BY <1>3, <1>6
<1> QED
    BY <1>7 DEF c, K

-----------------------------------------------------------------------------
(* The events of a bucket, with those of the devices added up.             *)

\* An event is appended, or its value is added to that of the element of its name.
Aggregated(c, x, a) ==
    \/ /\ x.event \in UncoreEvent
       /\ DOMAIN a = DOMAIN c
       /\ \A k \in DOMAIN c : a[k].event = c[k].event /\ c[k].value.of \subseteq a[k].value.of
       /\ \E k \in DOMAIN c :
            /\ c[k].event = x.event
            /\ a[k].value.of = c[k].value.of \cup x.value.of
            /\ \A d \in DOMAIN c : d # k => a[d] = c[d]
    \/ /\ a = Append(c, x)
       /\ x.event \in UncoreEvent => \A k \in DOMAIN c : c[k].event # x.event

LEMMA AggregateStepFacts ==
    ASSUME NEW ls, NEW c \in Seq(Elements(ls)), NEW x \in Elements(ls)
    PROVE  AggregateStep(c, x) \in Seq(Elements(ls)) /\ Aggregated(c, x, AggregateStep(c, x))
<1> DEFINE same == {n \in DOMAIN c : c[n].event = x.event}
           k == Min(same)
<1>1. CASE x.event \in UncoreEvent /\ same # {}
  <2>1. k \in same
    <3>1. DOMAIN c \in SUBSET Nat
        OBVIOUS
    <3>2. same \in SUBSET Nat
        BY <3>1
    <3> HIDE DEF same
    <3>3. \E d \in same : \A m \in same : d <= m
        BY <1>1, <3>2, LeastNumber
    <3> QED
        BY <3>3 DEF Min
  <2>2. AggregateStep(c, x) = AddedTo(c, k, x.value)
      BY <1>1 DEF AggregateStep, AddedTo
  <2>3. k \in DOMAIN c /\ c[k].event = x.event
      BY <2>1
  <2>4. x.value \in Values(ls)
      BY DEF Elements
  <2> HIDE DEF k, same
  <2>5. /\ AddedTo(c, k, x.value) \in Seq(Elements(ls))
        /\ Len(AddedTo(c, k, x.value)) = Len(c)
        /\ AddedTo(c, k, x.value)[k].event = c[k].event
        /\ AddedTo(c, k, x.value)[k].value.of = c[k].value.of \cup x.value.of
        /\ \A d \in DOMAIN c : d # k => AddedTo(c, k, x.value)[d] = c[d]
      BY <2>3, <2>4, PlusFacts
  <2> DEFINE a == AggregateStep(c, x)
  <2>6. /\ a \in Seq(Elements(ls)) /\ Len(a) = Len(c) /\ \A d \in DOMAIN c : a[d].event = c[d].event
        /\ a[k].value.of = c[k].value.of \cup x.value.of /\ \A d \in DOMAIN c : d # k => a[d] = c[d]
      BY <2>2, <2>5
  <2> HIDE DEF a
  <2>7. DOMAIN a = DOMAIN c
      BY <2>6
  <2>8. \A d \in DOMAIN c : c[d].value.of \subseteq a[d].value.of
      BY <2>6
  <2>9. Aggregated(c, x, a)
      BY <1>1, <2>3, <2>6, <2>7, <2>8 DEF Aggregated
  <2> QED
      BY <2>6, <2>9 DEF a
<1>2. CASE ~(x.event \in UncoreEvent /\ same # {})
  <2>1. AggregateStep(c, x) = Append(c, x)
      BY <1>2 DEF AggregateStep
  <2>2. x.event \in UncoreEvent => \A d \in DOMAIN c : c[d].event # x.event
      BY <1>2
  <2>3. Append(c, x) \in Seq(Elements(ls))
      OBVIOUS
  <2> QED
      BY <2>1, <2>2, <2>3 DEF Aggregated
<1> QED
    BY <1>1, <1>2

LEMMA AggregatingIsDefined ==
    ASSUME NEW ls, NEW b \in Seq(Elements(ls))
    PROVE  /\ \A n \in 0..Len(b) : Aggregating(b)[n] \in Seq(Elements(ls))
           /\ Aggregating(b)[0] = <<>>
           /\ \A n \in 1..Len(b) : Aggregating(b)[n] = AggregateStep(Aggregating(b)[n - 1], b[n])
<1> DEFINE K == Len(b)
           D == Seq(Elements(ls))
           a == <<>>
           g == [p \in (1..K) \X D |-> AggregateStep(p[2], b[p[1]])]
           E(h) == [n \in 0..K |-> IF n = 0 THEN a ELSE AggregateStep(h[n - 1], b[n])]
           c == Aggregating(b)
<1>1. K \in Nat /\ DOMAIN b = 1..K
    OBVIOUS
<1>2. a \in D
    OBVIOUS
<1>3. \A n \in 1..K : \A x \in D : AggregateStep(x, b[n]) \in D
  <2>1. \A n \in 1..K : b[n] \in Elements(ls)
      BY <1>1
  <2> HIDE DEF K
  <2> QED
      BY <2>1, AggregateStepFacts
<1>4. g \in [(1..K) \X D -> D]
  <2> HIDE DEF D, K
  <2>1. \A p \in (1..K) \X D : AggregateStep(p[2], b[p[1]]) \in D
      BY <1>3
  <2> QED
      BY <2>1
<1>5. c = (CHOOSE h : h = E(h))
    BY DEF Aggregating
<1>6. PICK h \in [0..K -> D] : h = Recursion(a, K, g, h)
  <2> HIDE DEF K, D, a, g
  <2>1. IsDefined(D, a, K, g)
      BY <1>1, <1>2, <1>4, RecursionIsSome
  <2> QED
      BY <2>1 DEF IsDefined
<1>7. h = E(h)
  <2>1. \A n \in 0..K : n # 0 => n \in 1..K /\ n - 1 \in 0..K
      BY <1>1
  <2>2. \A n \in 0..K : n # 0 => g[<<n, h[n - 1]>>] = AggregateStep(h[n - 1], b[n])
    <3> HIDE DEF K, D
    <3> QED
        BY <2>1
  <2> HIDE DEF K, D, a, g
  <2> QED
      BY <1>6, <2>2 DEF Recursion
<1>8. c = E(c)
  <2> HIDE DEF E, c
  <2> QED
      BY <1>5, <1>7
<1>9. c[0] = a /\ \A n \in 1..K : c[n] = AggregateStep(c[n - 1], b[n])
  <2>1. 0 \in 0..K /\ \A n \in 1..K : n \in 0..K /\ n # 0
      BY <1>1
  <2> HIDE DEF c, a, K
  <2> QED
      BY <1>8, <2>1
<1>10. \A n \in 0..K : c[n] \in D
  <2> DEFINE S == {n \in 0..K : c[n] \in D}
  <2>1. 0 \in S
    <3> HIDE DEF c, a, K, D
    <3> QED
        BY <1>1, <1>2, <1>9
  <2>2. \A n \in 1..K : n - 1 \in S => n \in S
    <3>1. \A n \in 1..K : n \in 0..K
        BY <1>1
    <3> HIDE DEF c, a, K, D
    <3> QED
        BY <1>3, <1>9, <3>1
  <2>3. \A n \in 0..K : n \in S
    <3> HIDE DEF c, a, K, D, S
    <3> QED
        BY <1>1, <2>1, <2>2, UpTo
  <2> QED
      BY <2>3
<1> QED
    BY <1>9, <1>10

\* Line f[k] of ls, of key s and of the first device, is one of element k of c: the events
\* are in the order in which perf has printed them.
Led(c, ls, s, f) ==
    /\ f \in [DOMAIN c -> DOMAIN ls]
    /\ \A k \in DOMAIN c :
         /\ ls[f[k]].event = c[k].event /\ ls[f[k]].device \in {0, 1} /\ KeyOf(ls[f[k]]) = s
         /\ ls[f[k]] \in c[k].value.of
    /\ \A d, k \in DOMAIN c : d < k => f[d] < f[k]

\* Of the first n elements of bucket b: every event that was added up is there, and none
\* is led by a line of a later element.
Gathered(c, b, ls, s, n) ==
    /\ \E f : /\ Led(c, ls, s, f)
              /\ \A k \in DOMAIN c : \E m \in 1..n : ls[f[k]] \in b[m].value.of
    /\ \A m \in 1..n : b[m].event \in UncoreEvent => \E k \in DOMAIN c : c[k].event = b[m].event
    /\ n # 0 => c # <<>>

LEMMA ElementsHaveLines ==
    ASSUME NEW ls, Printed(ls), NEW s, NEW b, Filled(b, ls, s, Len(ls)), NEW k \in DOMAIN b
    PROVE  \E m \in DOMAIN ls : ls[m] \in b[k].value.of
<1>1. PICK l : l \in b[k].value.of
    BY DEF Filled
<1>2. \E m \in 1..Len(ls) : l = ls[m]
    BY <1>1 DEF Filled
<1>3. DOMAIN ls = 1..Len(ls)
    BY DEF Printed
<1> QED
    BY <1>1, <1>2, <1>3

\* The lines of an element that is appended have one of the first device among them.
LEMMA FirstDeviceLine ==
    ASSUME NEW ls, Printed(ls), NEW s, NEW b \in Seq(Elements(ls)), Filled(b, ls, s, Len(ls)),
           NEW n \in 1..Len(b), NEW c,
           \A m \in 1..(n - 1) : b[m].event \in UncoreEvent => \E k \in DOMAIN c : c[k].event = b[m].event,
           b[n].event \in UncoreEvent => \A k \in DOMAIN c : c[k].event # b[n].event
    PROVE  \E m \in DOMAIN ls : ls[m] \in b[n].value.of /\ ls[m].device \in {0, 1}
<1>1. n \in Nat /\ DOMAIN b = 1..Len(b) /\ Len(ls) \in Nat /\ DOMAIN ls = 1..Len(ls)
    BY DEF Printed
<1>2. PICK m \in DOMAIN ls : ls[m] \in b[n].value.of
    BY <1>1, ElementsHaveLines
<1>3. ls[m].event = b[n].event /\ KeyOf(ls[m]) = s
    BY <1>1, <1>2 DEF Filled
<1>4. CASE ls[m].device \in {0, 1}
    BY <1>2, <1>4
<1>5. CASE ls[m].device \notin {0, 1}
  <2>1. /\ ls[m].event \in UncoreEvent
        /\ \E o \in DOMAIN ls : /\ o < m /\ ls[o].device \in {0, 1}
                                /\ ls[o].event = ls[m].event /\ KeyOf(ls[o]) = KeyOf(ls[m])
      BY <1>2, <1>5 DEF Printed
  <2>2. PICK o \in DOMAIN ls : /\ o < m /\ ls[o].device \in {0, 1}
                               /\ ls[o].event = ls[m].event /\ KeyOf(ls[o]) = KeyOf(ls[m])
      BY <2>1
  <2>3. PICK k \in DOMAIN b : ls[o] \in b[k].value.of
      BY <1>1, <1>3, <2>2 DEF Filled
  <2>4. b[k].event = ls[o].event
      BY <2>3 DEF Filled
  <2>5. ~(n < k)
    <3>1. n < k => m < o
        BY <1>1, <1>2, <2>3 DEF Filled
    <3>2. m \in Nat /\ o \in Nat
        BY <1>1
    <3> QED
        BY <2>2, <3>1, <3>2
  <2>6. k \notin 1..(n - 1)
      BY <1>3, <2>1, <2>2, <2>4
  <2>7. k = n
      BY <1>1, <2>5, <2>6
  <2> QED
      BY <2>2, <2>3, <2>7
<1> QED
    BY <1>4, <1>5

LEMMA GatheringGoesOn ==
    ASSUME NEW ls, Printed(ls), NEW s, NEW b \in Seq(Elements(ls)), Filled(b, ls, s, Len(ls)),
           NEW n \in 1..Len(b), NEW c \in Seq(Elements(ls)), Gathered(c, b, ls, s, n - 1)
    PROVE  Gathered(AggregateStep(c, b[n]), b, ls, s, n)
<1> DEFINE x == b[n]
           a == AggregateStep(c, x)
           K == Len(c)
<1>1. /\ n \in Nat /\ n # 0 /\ DOMAIN b = 1..Len(b) /\ n \in 1..n
      /\ \A m \in 1..n : m \in 1..(n - 1) \/ m = n
      /\ \A m \in 1..(n - 1) : m \in 1..n /\ m < n /\ m \in DOMAIN b
    OBVIOUS
<1>2. PICK f : /\ Led(c, ls, s, f)
               /\ \A k \in DOMAIN c : \E m \in 1..(n - 1) : ls[f[k]] \in b[m].value.of
    BY DEF Gathered
<1>3. \A m \in 1..(n - 1) : b[m].event \in UncoreEvent => \E k \in DOMAIN c : c[k].event = b[m].event
    BY DEF Gathered
<1>4. x \in Elements(ls) /\ DOMAIN c = 1..K /\ K \in Nat
    BY <1>1
<1>5. \/ /\ x.event \in UncoreEvent
         /\ DOMAIN a = DOMAIN c
         /\ \A k \in DOMAIN c : a[k].event = c[k].event /\ c[k].value.of \subseteq a[k].value.of
         /\ \E k \in DOMAIN c : c[k].event = x.event
      \/ /\ a = Append(c, x)
         /\ x.event \in UncoreEvent => \A k \in DOMAIN c : c[k].event # x.event
  <2> HIDE DEF x
  <2>1. Aggregated(c, x, a)
      BY <1>4, AggregateStepFacts
  <2> HIDE DEF a
  <2> QED
      BY <2>1 DEF Aggregated
<1>6. ASSUME DOMAIN a = DOMAIN c,
             \A k \in DOMAIN c : a[k].event = c[k].event /\ c[k].value.of \subseteq a[k].value.of,
             \E k \in DOMAIN c : c[k].event = x.event
      PROVE  Gathered(a, b, ls, s, n)
  <2> HIDE DEF a
  <2>1. Led(a, ls, s, f)
      BY <1>2, <1>6 DEF Led
  <2>2. \A k \in DOMAIN a : \E m \in 1..n : ls[f[k]] \in b[m].value.of
      BY <1>1, <1>2, <1>6
  <2>3. \A m \in 1..n : b[m].event \in UncoreEvent => \E k \in DOMAIN a : a[k].event = b[m].event
      BY <1>1, <1>3, <1>6
  <2>4. a # <<>>
      BY <1>6
  <2> QED
      BY <2>1, <2>2, <2>3, <2>4 DEF Gathered
<1>7. ASSUME a = Append(c, x), x.event \in UncoreEvent => \A k \in DOMAIN c : c[k].event # x.event
      PROVE  Gathered(a, b, ls, s, n)
  <2>1. PICK m \in DOMAIN ls : ls[m] \in x.value.of /\ ls[m].device \in {0, 1}
    <3>1. x.event \in UncoreEvent => \A k \in DOMAIN c : c[k].event # x.event
        BY <1>7
    <3>2. \E m \in DOMAIN ls : ls[m] \in b[n].value.of /\ ls[m].device \in {0, 1}
        BY ONLY <1>3, <3>1, FirstDeviceLine, Printed(ls), b \in Seq(Elements(ls)), Filled(b, ls, s, Len(ls)),
                n \in 1..Len(b)
    <3> QED
        BY <3>2
  <2>2. ls[m].event = x.event /\ KeyOf(ls[m]) = s
      BY <1>1, <2>1 DEF Filled
  <2> DEFINE h == [k \in 1..(K + 1) |-> IF k = K + 1 THEN m ELSE f[k]]
  <2>3. /\ DOMAIN a = 1..(K + 1)
        /\ \A k \in 1..(K + 1) : a[k] = IF k = K + 1 THEN x ELSE c[k]
    <3> HIDE DEF a, x
    <3> QED
        BY <1>4, <1>7, SequenceFacts
  <2> HIDE DEF a, K
  <2>4. /\ \A k \in DOMAIN a : (k \in DOMAIN c /\ a[k] = c[k] /\ h[k] = f[k])
                               \/ (k = K + 1 /\ a[k] = x /\ h[k] = m)
        /\ \A k \in DOMAIN c : k \in DOMAIN a /\ a[k] = c[k] /\ k < K + 1 /\ h[k] = f[k]
        /\ K + 1 \in DOMAIN a /\ a[K + 1] = x /\ h[K + 1] = m /\ DOMAIN h = DOMAIN a
      BY <1>4, <2>3
  <2>5. ASSUME NEW k \in DOMAIN c PROVE f[k] < m
    <3>1. PICK o \in 1..(n - 1) : ls[f[k]] \in b[o].value.of
        BY <1>2
    <3>2. f[k] \in DOMAIN ls
        BY <1>2 DEF Led
    <3>3. DOMAIN ls = 1..Len(ls)
        BY DEF Printed
    <3> QED
        BY <1>1, <2>1, <3>1, <3>2, <3>3 DEF Filled
  <2>6. h \in [DOMAIN a -> DOMAIN ls]
    <3>1. \A k \in DOMAIN c : f[k] \in DOMAIN ls
        BY <1>2 DEF Led
    <3>2. \A k \in DOMAIN a : h[k] \in DOMAIN ls
        BY <2>1, <2>4, <3>1
    <3>3. h = [k \in DOMAIN a |-> h[k]]
        BY <2>3
    <3> HIDE DEF h
    <3> QED
        BY <3>2, <3>3
  <2> HIDE DEF h
  <2>7. ASSUME NEW k \in DOMAIN a
        PROVE  /\ ls[h[k]].event = a[k].event /\ ls[h[k]].device \in {0, 1} /\ KeyOf(ls[h[k]]) = s
               /\ ls[h[k]] \in a[k].value.of
               /\ \E o \in 1..n : ls[h[k]] \in b[o].value.of
    <3>1. CASE k \in DOMAIN c /\ a[k] = c[k] /\ h[k] = f[k]
      <4>1. /\ ls[f[k]].event = c[k].event /\ ls[f[k]].device \in {0, 1} /\ KeyOf(ls[f[k]]) = s
            /\ ls[f[k]] \in c[k].value.of
          BY <1>2, <3>1 DEF Led
      <4>2. \E o \in 1..n : ls[f[k]] \in b[o].value.of
          BY <1>1, <1>2, <3>1
      <4> QED
          BY <3>1, <4>1, <4>2
    <3>2. CASE a[k] = x /\ h[k] = m
        BY <1>1, <2>1, <2>2, <3>2
    <3> QED
        BY <2>4, <3>1, <3>2
  <2>8. ASSUME NEW d \in DOMAIN a, NEW k \in DOMAIN a, d < k PROVE h[d] < h[k]
    <3>1. d \in DOMAIN c /\ h[d] = f[d]
        BY <1>4, <2>3, <2>4, <2>8
    <3>2. CASE k \in DOMAIN c /\ h[k] = f[k]
        BY <1>2, <2>8, <3>1, <3>2 DEF Led
    <3>3. CASE h[k] = m
        BY <2>5, <3>1, <3>3
    <3> QED
        BY <2>4, <3>2, <3>3
  <2>9. Led(a, ls, s, h)
      BY <2>6, <2>7, <2>8 DEF Led
  <2>10. \A o \in 1..n : b[o].event \in UncoreEvent => \E k \in DOMAIN a : a[k].event = b[o].event
      BY <1>1, <1>3, <2>4
  <2>11. a # <<>>
      BY <2>4
  <2> QED
      BY <2>7, <2>9, <2>10, <2>11 DEF Gathered
<1> QED
    BY <1>5, <1>6, <1>7

\* The events of a bucket are in the order of lines of the first device.
LEMMA EventsAreLed ==
    ASSUME NEW ls, Printed(ls), NEW s, NEW b \in Seq(Elements(ls)), b # <<>>,
           Filled(b, ls, s, Len(ls))
    PROVE  /\ AggregateUncoreEvents(b) \in Seq(Elements(ls)) /\ AggregateUncoreEvents(b) # <<>>
           /\ \E f : Led(AggregateUncoreEvents(b), ls, s, f)
<1> DEFINE K == Len(b)
<1>1. K \in Nat /\ K # 0 /\ DOMAIN b = 1..K
    OBVIOUS
<1>2. CASE mode = "socket"
  <2> DEFINE c == Aggregating(b)
             S == {n \in 0..K : Gathered(c[n], b, ls, s, n)}
  <2>1. /\ \A n \in 0..K : c[n] \in Seq(Elements(ls))
        /\ c[0] = <<>>
        /\ \A n \in 1..K : c[n] = AggregateStep(c[n - 1], b[n])
      BY AggregatingIsDefined
  <2> HIDE DEF c
  <2>2. 0 \in S
    <3>1. Led(<<>>, ls, s, <<>>)
        BY DEF Led
    <3>2. Gathered(<<>>, b, ls, s, 0)
        BY <3>1 DEF Gathered
    <3> QED
        BY <1>1, <2>1, <3>2
  <2>3. ASSUME NEW n \in 1..K, n - 1 \in S PROVE n \in S
    <3>1. n - 1 \in 0..K /\ n \in 0..K
        BY <1>1
    <3>2. PICK d \in Seq(Elements(ls)) : d = c[n - 1]
        BY <2>1, <3>1
    <3>3. Gathered(d, b, ls, s, n - 1)
        BY <2>3, <3>2
    <3>4. Gathered(AggregateStep(d, b[n]), b, ls, s, n)
        BY <3>3, GatheringGoesOn
    <3> QED
        BY <2>1, <3>1, <3>2, <3>4
  <2>4. K \in 0..K
      BY <1>1
  <2>5. K \in S
    <3> HIDE DEF S, K
    <3> QED
        BY <1>1, <2>2, <2>3, <2>4, UpTo
  <2>6. c[K] # <<>> /\ \E f : Led(c[K], ls, s, f)
      BY <1>1, <2>5 DEF Gathered
  <2>7. AggregateUncoreEvents(b) = c[K]
      BY <1>2 DEF AggregateUncoreEvents, c
  <2> HIDE DEF K
  <2> QED
      BY <2>1, <2>4, <2>6, <2>7
<1>3. CASE mode # "socket"
  <2>1. AggregateUncoreEvents(b) = b
      BY <1>3 DEF AggregateUncoreEvents
  <2> DEFINE f == [k \in DOMAIN b |-> CHOOSE m \in DOMAIN ls : ls[m] \in b[k].value.of]
  <2>2. DOMAIN ls = 1..Len(ls)
      BY DEF Printed
  <2>3. \A k \in DOMAIN b : \E m \in DOMAIN ls : ls[m] \in b[k].value.of
      BY ElementsHaveLines
  <2>4. \A k \in DOMAIN b : f[k] \in DOMAIN ls /\ ls[f[k]] \in b[k].value.of
      BY <2>3
  <2>5. f \in [DOMAIN b -> DOMAIN ls]
      BY <2>4
  <2> HIDE DEF f
  <2>6. \A k \in DOMAIN b :
          ls[f[k]].event = b[k].event /\ ls[f[k]].device \in {0, 1} /\ KeyOf(ls[f[k]]) = s
    <3>1. \A m \in DOMAIN ls : ls[m].device \in {0, 1}
        BY <1>3 DEF Printed
    <3> QED
        BY <2>4, <3>1 DEF Filled
  <2>7. \A d, k \in DOMAIN b : d < k => f[d] < f[k]
      BY <2>2, <2>4 DEF Filled
  <2>8. Led(b, ls, s, f)
      BY <2>4, <2>5, <2>6, <2>7 DEF Led
  <2> QED
      BY <2>1, <2>8
<1> QED
    BY <1>2, <1>3

-----------------------------------------------------------------------------
(* The groups that are counted.                                            *)

Spots == [group : Nat \ {0}, event : Nat]

\* The spot is before the place of line l in the groups, or not after it.
SpotBefore(p, l) == p.group < l.group \/ (p.group = l.group /\ p.event < l.at)
NotPast(p, l)    == p.group < l.group \/ (p.group = l.group /\ p.event <= l.at)

IsNew(b, n) == IF n > 1 /\ b[n].event = b[n - 1].event THEN 0 ELSE 1

LEMMA NextPlaceFacts ==
    ASSUME definitions \in Seq(Definition), NEW p \in Spots, NEW new \in {0, 1}
    PROVE  /\ NextPlace(p, new) \in Spots
           /\ \A l : Placed(l) =>
                /\ new = 0 /\ NotPast(p, l) => NotPast(NextPlace(p, new), l)
                /\ new = 1 /\ SpotBefore(p, l) => NotPast(NextPlace(p, new), l)
<1> DEFINE N == Len(definitions)
           g == p.group
           L == Len(definitions[g])
           q == NextPlace(p, new)
<1>1. N \in Nat /\ DOMAIN definitions = 1..N
    OBVIOUS
<1>2. g \in Nat /\ g # 0 /\ p.event \in Nat /\ new \in Nat /\ p = [group |-> g, event |-> p.event]
    BY DEF Spots
<1>3. \A k \in 1..N : Len(definitions[k]) \in Nat /\ DOMAIN definitions[k] = 1..Len(definitions[k])
  <2>1. \A k \in 1..N : definitions[k] \in Definition
      BY <1>1
  <2> QED
      BY <2>1 DEF Definition
<1>4. g <= N => g \in 1..N
  <2> HIDE DEF N
  <2> QED
      BY <1>1, <1>2
<1>5. \/ g > N /\ q = p
      \/ g <= N /\ p.event + new > L /\ q.group = g + 1 /\ q.event = 1 /\ q = [group |-> g + 1, event |-> 1]
      \/ g <= N /\ ~(p.event + new > L) /\ q = [group |-> g, event |-> p.event + new]
         /\ q.group = g /\ q.event = p.event + new
  <2>1. CASE g > N
      BY <2>1 DEF NextPlace
  <2>2. CASE ~(g > N) /\ g <= N /\ p.event + new > L
      BY <2>2 DEF NextPlace
  <2>3. CASE ~(g > N) /\ g <= N /\ ~(p.event + new > L)
    <3>1. q = [p EXCEPT !.event = @ + new]
        BY <2>3 DEF NextPlace
    <3>2. q = [group |-> g, event |-> p.event + new]
        BY <1>2, <3>1
    <3> QED
        BY <2>3, <3>2
  <2>4. g > N \/ (~(g > N) /\ g <= N)
    <3> HIDE DEF N, g
    <3> QED
        BY <1>1, <1>2
  <2> QED
      BY <2>1, <2>2, <2>3, <2>4
<1> HIDE DEF q, N
<1>6. q \in Spots
    BY <1>2, <1>5 DEF Spots
<1>7. ASSUME NEW l, Placed(l)
      PROVE  /\ new = 0 /\ NotPast(p, l) => NotPast(q, l)
             /\ new = 1 /\ SpotBefore(p, l) => NotPast(q, l)
  <2>1. l.group \in 1..N /\ l.at \in 1..Len(definitions[l.group]) /\ Len(definitions[l.group]) \in Nat
      BY <1>1, <1>3, <1>7 DEF Placed
  <2>2. l.group \in Nat /\ l.at \in Nat /\ 1 <= l.at /\ l.group <= N /\ l.at <= Len(definitions[l.group])
      BY <1>1, <2>1
  <2>3. g = l.group => L = Len(definitions[l.group])
      OBVIOUS
  <2>4. g <= N => L \in Nat
      BY <1>3, <1>4
  <2> HIDE DEF g, L
  <2> QED
      BY <1>1, <1>2, <1>5, <2>1, <2>2, <2>3, <2>4 DEF NotPast, SpotBefore, g
<1> QED
    BY <1>6, <1>7 DEF q

LEMMA AssigningIsDefined ==
    ASSUME definitions \in Seq(Definition), NEW b, Len(b) \in Nat
    PROVE  /\ \A n \in 0..Len(b) : Assigning(b)[n] \in Spots
           /\ Assigning(b)[0] = [group |-> 1, event |-> 0]
           /\ \A n \in 1..Len(b) : Assigning(b)[n] = NextPlace(Assigning(b)[n - 1], IsNew(b, n))
<1> DEFINE K == Len(b)
           D == Spots
           a == [group |-> 1, event |-> 0]
           g == [p \in (1..K) \X D |-> NextPlace(p[2], IsNew(b, p[1]))]
           E(h) == [n \in 0..K |-> IF n = 0 THEN a ELSE NextPlace(h[n - 1], IsNew(b, n))]
           c == Assigning(b)
<1>1. K \in Nat
    OBVIOUS
<1>2. a \in D
    BY DEF Spots
<1>3. \A n \in 1..K : \A x \in D : NextPlace(x, IsNew(b, n)) \in D
  <2>1. \A n \in 1..K : IsNew(b, n) \in {0, 1}
      BY DEF IsNew
  <2> HIDE DEF K
  <2> QED
      BY <2>1, NextPlaceFacts
<1>4. g \in [(1..K) \X D -> D]
  <2> HIDE DEF D, K
  <2>1. \A p \in (1..K) \X D : NextPlace(p[2], IsNew(b, p[1])) \in D
      BY <1>3
  <2> QED
      BY <2>1
<1>5. c = (CHOOSE h : h = E(h))
    BY DEF Assigning, IsNew
<1>6. PICK h \in [0..K -> D] : h = Recursion(a, K, g, h)
  <2> HIDE DEF K, D, a, g
  <2>1. IsDefined(D, a, K, g)
      BY <1>1, <1>2, <1>4, RecursionIsSome
  <2> QED
      BY <2>1 DEF IsDefined
<1>7. h = E(h)
  <2>1. \A n \in 0..K : n # 0 => n \in 1..K /\ n - 1 \in 0..K
      BY <1>1
  <2>2. \A n \in 0..K : n # 0 => g[<<n, h[n - 1]>>] = NextPlace(h[n - 1], IsNew(b, n))
    <3> HIDE DEF K, D
    <3> QED
        BY <2>1
  <2> HIDE DEF K, D, a, g
  <2> QED
      BY <1>6, <2>2 DEF Recursion
<1>8. c = E(c)
  <2> HIDE DEF E, c
  <2> QED
      BY <1>5, <1>7
<1>9. c[0] = a /\ \A n \in 1..K : c[n] = NextPlace(c[n - 1], IsNew(b, n))
  <2>1. 0 \in 0..K /\ \A n \in 1..K : n \in 0..K /\ n # 0
      BY <1>1
  <2> HIDE DEF c, a, K
  <2> QED
      BY <1>8, <2>1
<1>10. \A n \in 0..K : c[n] \in D
  <2> DEFINE S == {n \in 0..K : c[n] \in D}
  <2>1. 0 \in S
    <3> HIDE DEF c, a, K, D
    <3> QED
        BY <1>1, <1>2, <1>9
  <2>2. \A n \in 1..K : n - 1 \in S => n \in S
    <3>1. \A n \in 1..K : n \in 0..K
        BY <1>1
    <3> HIDE DEF c, a, K, D
    <3> QED
        BY <1>3, <1>9, <3>1
  <2>3. \A n \in 0..K : n \in S
    <3> HIDE DEF c, a, K, D, S
    <3> QED
        BY <1>1, <2>1, <2>2, UpTo
  <2> QED
      BY <2>3
<1> QED
    BY <1>9, <1>10

\* The place that is counted for an event is never past that of the line that leads it.
LEMMA GroupsSuffice ==
    ASSUME definitions \in Seq(Definition), NEW ls, Printed(ls), NEW s, NEW b \in Seq(Elements(ls)),
           b # <<>>, \E f : Led(b, ls, s, f)
    PROVE  ~Misaligned(b)
<1> DEFINE K == Len(b)
           c == Assigning(b)
<1>1. K \in Nat /\ K # 0 /\ DOMAIN b = 1..K
    OBVIOUS
<1>2. PICK f : Led(b, ls, s, f)
    OBVIOUS
<1>3. \A n \in 1..K : Placed(ls[f[n]]) /\ f[n] \in DOMAIN ls /\ ls[f[n]].event = b[n].event
    BY <1>1, <1>2 DEF Led, Printed, Placed
<1>4. \A m, n \in 1..K : m < n => Ahead(ls[f[m]], ls[f[n]])
  <2> SUFFICES ASSUME NEW m \in 1..K, NEW n \in 1..K, m < n PROVE Ahead(ls[f[m]], ls[f[n]])
      OBVIOUS
  <2>1. /\ f[m] \in DOMAIN ls /\ f[n] \in DOMAIN ls /\ f[m] < f[n]
        /\ ls[f[m]].device \in {0, 1} /\ ls[f[n]].device \in {0, 1}
        /\ KeyOf(ls[f[m]]) = KeyOf(ls[f[n]])
      BY <1>1, <1>2 DEF Led
  <2>2. PICK o \in DOMAIN ls, q \in DOMAIN ls : o = f[m] /\ q = f[n]
      BY <2>1
  <2>3. o < q /\ ls[o].device \in {0, 1} /\ ls[q].device \in {0, 1} /\ KeyOf(ls[o]) = KeyOf(ls[q])
      BY <2>1, <2>2
  <2>4. Ahead(ls[o], ls[q])
      BY <2>3 DEF Printed
  <2> QED
      BY <2>2, <2>4
<1>5. /\ \A n \in 0..K : c[n] \in Spots
      /\ c[0] = [group |-> 1, event |-> 0]
      /\ \A n \in 1..K : c[n] = NextPlace(c[n - 1], IsNew(b, n))
    BY <1>1, AssigningIsDefined
<1> HIDE DEF c, K
<1>6. \A n \in 1..K : /\ ls[f[n]].group \in Nat /\ ls[f[n]].group # 0
                      /\ ls[f[n]].at \in Nat /\ ls[f[n]].at # 0
                      /\ ls[f[n]].group <= Len(definitions)
  <2> SUFFICES ASSUME NEW n \in 1..K
               PROVE  /\ ls[f[n]].group \in Nat /\ ls[f[n]].group # 0
                      /\ ls[f[n]].at \in Nat /\ ls[f[n]].at # 0
                      /\ ls[f[n]].group <= Len(definitions)
      OBVIOUS
  <2>1. ls[f[n]].group \in DOMAIN definitions /\ ls[f[n]].at \in DOMAIN definitions[ls[f[n]].group]
      BY <1>3 DEF Placed
  <2>2. DOMAIN definitions = 1..Len(definitions) /\ Len(definitions) \in Nat
      OBVIOUS
  <2>3. definitions[ls[f[n]].group] \in Definition
      BY <2>1
  <2>4. ls[f[n]].at \in Nat /\ ls[f[n]].at # 0
      BY <2>1, <2>3 DEF Definition
  <2> QED
      BY <2>1, <2>2, <2>4
<1> DEFINE S == {n \in 0..K : n = 0 \/ NotPast(c[n], ls[f[n]])}
<1>7. 0 \in S
    BY <1>1
<1>8. ASSUME NEW n \in 1..K, n - 1 \in S PROVE n \in S
  <2>1. n - 1 \in 0..K /\ n \in 0..K /\ n \in Nat /\ (n # 1 => n - 1 \in 1..K /\ n > 1 /\ n - 1 < n)
      BY <1>1
  <2> DEFINE p == c[n - 1]
             new == IsNew(b, n)
             l == ls[f[n]]
  <2>2. p \in Spots /\ new \in {0, 1} /\ Placed(l) /\ c[n] = NextPlace(p, new)
      BY <1>3, <1>5, <2>1 DEF IsNew
  <2>3. /\ l.group \in Nat /\ l.group # 0 /\ l.at \in Nat /\ l.at # 0
        /\ p.group \in Nat /\ p.event \in Nat
      BY <1>6, <2>2 DEF Spots
  <2>4. new = 0 => NotPast(p, l)
    <3> SUFFICES ASSUME new = 0 PROVE NotPast(p, l)
        OBVIOUS
    <3>1. n # 1
        BY DEF IsNew
    <3>2. n - 1 \in 1..K /\ n - 1 < n
        BY <2>1, <3>1
    <3> DEFINE m == ls[f[n - 1]]
    <3>3. NotPast(p, m) /\ m.group \in Nat /\ m.at \in Nat
        BY <1>6, <1>8, <3>1, <3>2
    <3>4. Ahead(m, l)
        BY <1>4, <3>2
    <3> HIDE DEF p, m, l
    <3> QED
        BY <2>3, <3>3, <3>4 DEF NotPast, Ahead
  <2>5. new = 1 => SpotBefore(p, l)
    <3>1. CASE n = 1
      <4>1. p.group = 1 /\ p.event = 0
          BY <1>5, <3>1
      <4> HIDE DEF p, l
      <4> QED
          BY <2>3, <4>1 DEF SpotBefore
    <3>2. CASE n # 1 /\ new = 1
      <4>1. n - 1 \in 1..K /\ n - 1 < n /\ b[n].event # b[n - 1].event
          BY <2>1, <3>2 DEF IsNew
      <4> DEFINE m == ls[f[n - 1]]
      <4>2. NotPast(p, m) /\ m.group \in Nat /\ m.at \in Nat
          BY <1>6, <1>8, <3>2, <4>1
      <4>3. Ahead(m, l)
          BY <1>4, <4>1
      <4>4. ~(m.group = l.group /\ m.at = l.at)
        <5>1. m.event # l.event /\ Placed(m) /\ Placed(l)
            BY <1>3, <4>1
        <5> HIDE DEF m, l
        <5> QED
            BY <5>1 DEF Placed
      <4> HIDE DEF p, m, l
      <4> QED
          BY <2>3, <4>2, <4>3, <4>4 DEF NotPast, Ahead, SpotBefore
    <3> QED
        BY <3>1, <3>2
  <2>6. NotPast(c[n], l)
    <3> HIDE DEF p, new, l
    <3> QED
        BY <2>2, <2>4, <2>5, NextPlaceFacts
  <2> QED
      BY <2>1, <2>6
<1>9. K \in 0..K /\ K \in 1..K
    BY <1>1
<1>10. K \in S
  <2> HIDE DEF S
  <2> QED
      BY <1>1, <1>7, <1>8, <1>9, UpTo
<1>11. NotPast(c[K], ls[f[K]]) /\ c[K] \in Spots
    BY <1>1, <1>5, <1>9, <1>10
<1>12. c[K].group <= Len(definitions)
  <2>1. c[K].group \in Nat /\ Len(definitions) \in Nat
      BY <1>11 DEF Spots
  <2>2. ls[f[K]].group \in Nat /\ ls[f[K]].group <= Len(definitions)
      BY <1>6, <1>9
  <2> QED
      BY <1>11, <2>1, <2>2 DEF NotPast
<1>13. Last(AssignedGroups(b)) = c[K].group
  <2> DEFINE ids == AssignedGroups(b)
  <2>1. ids = [n \in 1..K |-> c[n].group]
      BY <1>1 DEF AssignedGroups, c
  <2>2. Len(ids) = K
      BY <1>1, <2>1
  <2>3. Last(ids) = ids[Len(ids)]
      BY DEF Last
  <2> HIDE DEF ids
  <2> QED
      BY <1>9, <2>1, <2>2, <2>3 DEF ids
<1>14. Len(definitions) \in Nat /\ c[K].group \in Nat
    BY <1>11 DEF Spots
<1> QED
    BY <1>12, <1>13, <1>14 DEF Misaligned

-----------------------------------------------------------------------------
(* ProcessEvents does not fail.                                            *)

LEMMA KeysAreNumbers == Keys \in SUBSET Nat
<1>1. SocketOf \in [CPU -> Nat] /\ CPU \subseteq Nat /\ Cgroups \in Nat
    BY FramesAssumption
<1>2. Range(SocketOf) \in SUBSET Nat
    BY <1>1 DEF Range
<1>3. 1..Cgroups \in SUBSET Nat
    OBVIOUS
<1>4. {0} \in SUBSET Nat
    OBVIOUS
<1> QED
    BY <1>1, <1>2, <1>3, <1>4 DEF Keys

\* The events of every bucket of the lines of an interval find groups.
LEMMA NoneMisaligned ==
    ASSUME definitions \in Seq(Definition), NEW ls, Printed(ls), NEW k \in DOMAIN BucketEvents(ls)
    PROVE  ~Misaligned(AggregateUncoreEvents(BucketEvents(ls)[k]))
<1> DEFINE list == Bucketing(ls)[Len(ls)].list
           F == {s \in Keys : list[s] # <<>>}
           s == Indices(F)[k]
           b == list[s]
<1>1. F \in SUBSET Nat /\ IsFiniteSet(F) /\ F \in SUBSET Keys
  <2>1. F \in SUBSET Keys
      OBVIOUS
  <2> HIDE DEF F
  <2> QED
      BY <2>1, KeysFinite, KeysAreNumbers, FS_Subset
<1>2. DOMAIN Indices(F) = 1..Cardinality(F)
    BY DEF Indices
<1>3. k \in DOMAIN Indices(F) /\ BucketEvents(ls)[k] = b
    BY DEF BucketEvents
<1>4. s \in F
  <2> HIDE DEF F
  <2> QED
      BY <1>1, <1>2, <1>3, IndicesAreAll DEF s
<1>5. s \in Keys /\ b # <<>>
    BY <1>4
<1> HIDE DEF F, s
<1>6. b \in Seq(Elements(ls)) /\ Filled(b, ls, s, Len(ls))
  <2>1. Len(ls) \in 0..Len(ls)
      BY DEF Printed
  <2> QED
      BY <1>5, <2>1, BucketsAreFilled
<1> HIDE DEF b
<1>7. PICK c : c = AggregateUncoreEvents(b)
    OBVIOUS
<1>8. c \in Seq(Elements(ls)) /\ c # <<>> /\ \E f : Led(c, ls, s, f)
    BY <1>5, <1>6, <1>7, EventsAreLed
<1>9. ~Misaligned(c)
    BY <1>8, GroupsSuffice
<1> QED
    BY <1>3, <1>7, <1>9

LEMMA LayoutInit == FramesInit => LayoutInv
BY DEF FramesInit, LayoutInv

LEMMA LayoutStep ==
    TypeOK /\ UncoreFormed /\ LayoutInv /\ [FramesNext]_<<vars, frameVars>> => LayoutInv'
<1> SUFFICES ASSUME TypeOK, UncoreFormed, LayoutInv, [FramesNext]_<<vars, frameVars>>
             PROVE  LayoutInv'
    OBVIOUS
<1>1. CASE UNCHANGED <<mode, definitions, counters, failed>>
  <2>1. Places' = Places
      BY <1>1 DEF Places, CPUsOf, DevicesOf
  <2>2. InOrder(Places)' = InOrder(Places)
      BY <2>1 DEF InOrder, Before
  <2>3. (mode = "none")' = (mode = "none")
      BY <1>1
  <2> QED
      BY <1>1, <2>1, <2>2 DEF LayoutInv, NoUncoreIn
<1>2. CASE StartPerf
  <2>1. /\ definitions' = LoadedDefinitions /\ mode' \in Modes /\ failed' = failed
        /\ mode' \in {"cpu", "cgroup"} => "Uncore" \notin metadata
        /\ counters' = InOrder(Places')
      BY <1>2 DEF StartPerf
  <2>2. definitions' \in Seq(Definition) /\ ("Uncore" \notin metadata => NoUncoreIn(definitions'))
      BY <2>1, LoadedDefinitionsFacts
  <2>3. mode' \in Mode
      BY <2>1, FramesAssumption
  <2> QED
      BY <2>1, <2>2, <2>3 DEF LayoutInv
<1>3. CASE Interval
  <2>1. mode # "none" /\ ~failed
      BY <1>3 DEF Interval
  <2>2. PICK counted \in SUBSET DOMAIN definitions,
             idle \in SUBSET (IF mode = "cgroup" THEN 1..Cgroups ELSE {}) :
             \E n \in DOMAIN counters :
                ProcessEvents([k \in DOMAIN counters |-> Line(counters[k], counted, idle)], n)
      BY <1>3 DEF Interval
  <2> DEFINE all == [k \in DOMAIN counters |-> Line(counters[k], counted, idle)]
  <2>3. PICK n \in DOMAIN counters : ProcessEvents(all, n)
      BY <2>2
  <2>4. Printed(SubSeq(all, 1, n))
    <3>1. PrintedAt(SubSeq(all, 1, n))
        BY <2>1, LinesOfCounters
    <3> QED
        BY <2>1, <3>1, LinesArePrinted
  <2>5. definitions \in Seq(Definition)
      BY <2>1 DEF LayoutInv
  <2> HIDE DEF all
  <2> DEFINE buckets == BucketEvents(SubSeq(all, 1, n))
             events  == [k \in DOMAIN buckets |-> AggregateUncoreEvents(buckets[k])]
  <2>6. \A k \in DOMAIN buckets : ~Misaligned(AggregateUncoreEvents(buckets[k]))
      BY <2>4, <2>5, NoneMisaligned
  <2>7. ~\E k \in DOMAIN events : Misaligned(events[k])
      BY <2>6
  <2>8. failed' = failed
      BY <2>3, <2>7 DEF ProcessEvents
  <2>9. UNCHANGED <<mode, definitions, counters>>
      BY <2>3 DEF ProcessEvents
  <2> QED
      BY <1>1, <2>8, <2>9
<1>4. CASE Load
    BY <1>1, <1>4 DEF Load, frameVars
<1>5. CASE UNCHANGED <<vars, frameVars>>
    BY <1>1, <1>5 DEF frameVars
<1> QED
    BY <1>2, <1>3, <1>4, <1>5 DEF FramesNext

LEMMA LayoutAlways == FramesSpec => []LayoutInv
<1>1. GroupsInv => TypeOK
    BY DEF GroupsInv
<1> QED
    BY <1>1, LayoutInit, LayoutStep, LoaderAlways, PTL DEF FramesSpec

\* The events that perf prints never run out of groups, whatever groups the loader forms,
\* whatever their sizes and however many CPUs, sockets, devices and cgroups there are:
\* ProcessEvents does not fail (assignEventsToGroups).
THEOREM GroupsAreAligned == FramesSpec => []Aligned
<1>1. LayoutInv => Aligned
    BY DEF LayoutInv, Aligned
<1> QED
    BY <1>1, LayoutAlways, PTL

-----------------------------------------------------------------------------
(* Each element of a bucket has the lines of one event of one group.       *)

LEMMA PlacedLines ==
    ASSUME definitions \in Seq(Definition), NEW l, Placed(l)
    PROVE  /\ l.group \in Nat /\ l.group # 0 /\ l.group <= Len(definitions)
           /\ l.at \in Nat /\ l.at # 0 /\ l.at <= Len(definitions[l.group])
           /\ definitions[l.group] \in Definition
           /\ Len(definitions[l.group]) \in Nat
           /\ DOMAIN definitions[l.group] = 1..Len(definitions[l.group])
           /\ Len(definitions) \in Nat /\ DOMAIN definitions = 1..Len(definitions)
<1>1. Len(definitions) \in Nat /\ DOMAIN definitions = 1..Len(definitions)
    OBVIOUS
<1>2. definitions[l.group] \in Definition /\ l.at \in DOMAIN definitions[l.group]
    BY <1>1 DEF Placed
<1>3. Len(definitions[l.group]) \in Nat /\ DOMAIN definitions[l.group] = 1..Len(definitions[l.group])
    BY <1>2, DefinitionFacts
<1> QED
    BY <1>1, <1>2, <1>3 DEF Placed

LEMMA EventsOnce ==
    ASSUME WellFormed(definitions), NEW g \in DOMAIN definitions,
           NEW a \in DOMAIN definitions[g], NEW b \in DOMAIN definitions[g],
           definitions[g][a] = definitions[g][b]
    PROVE  a = b
BY DEF WellFormed

LEMMA UncoreSpot ==
    ASSUME WellFormed(definitions), NEW l, NEW m, Placed(l), Placed(m), l.event = m.event,
           l.event \in UncoreEvent
    PROVE  SameSpot(l, m)
<1>1. l.group = m.group
    BY DEF WellFormed, Placed
<1>2. /\ l.group \in DOMAIN definitions
      /\ l.at \in DOMAIN definitions[l.group] /\ m.at \in DOMAIN definitions[l.group]
      /\ definitions[l.group][l.at] = definitions[l.group][m.at]
    BY <1>1 DEF Placed
<1>3. l.at = m.at
    BY <1>2, EventsOnce
<1> QED
    BY <1>1, <1>3 DEF SameSpot

\* Between two events of one name there is another.
LEMMA SpotBetween ==
    ASSUME NoSharedBorder, WellFormed(definitions), definitions \in Seq(Definition),
           NEW l, NEW m, Placed(l), Placed(m), l.event = m.event, Sooner(l.group, l.at, m)
    PROVE  \E g \in DOMAIN definitions : \E a \in DOMAIN definitions[g] :
             Sooner(g, a, m) /\ (l.group < g \/ (l.group = g /\ l.at < a))
<1> DEFINE N == Len(definitions)
           L(g) == Len(definitions[g])
<1>1. /\ l.group \in Nat /\ l.group # 0 /\ l.group <= N
      /\ l.at \in Nat /\ l.at # 0 /\ l.at <= L(l.group)
      /\ m.group \in Nat /\ m.group # 0 /\ m.group <= N
      /\ m.at \in Nat /\ m.at # 0 /\ m.at <= L(m.group)
      /\ L(m.group) \in Nat /\ DOMAIN definitions[m.group] = 1..L(m.group)
      /\ N \in Nat /\ DOMAIN definitions = 1..N
    BY PlacedLines
<1>2. \A g \in DOMAIN definitions :
         /\ L(g) \in Nat /\ DOMAIN definitions[g] = 1..L(g) /\ L(g) # 0 /\ L(g) \in DOMAIN definitions[g]
  <2> SUFFICES ASSUME NEW g \in DOMAIN definitions
               PROVE  /\ L(g) \in Nat /\ DOMAIN definitions[g] = 1..L(g) /\ L(g) # 0
                      /\ L(g) \in DOMAIN definitions[g]
      OBVIOUS
  <2>1. definitions[g] \in Definition /\ definitions[g] # <<>>
      BY DEF WellFormed
  <2>2. L(g) \in Nat /\ DOMAIN definitions[g] = 1..L(g) /\ L(g) # 0
      BY <2>1 DEF Definition
  <2> HIDE DEF L
  <2> QED
      BY <2>2
<1>3. l.event = definitions[l.group][l.at] /\ m.event = definitions[m.group][m.at]
    BY DEF Placed
<1> HIDE DEF N, L
<1>4. CASE m.at # 1
  <2>1. m.at - 1 \in DOMAIN definitions[m.group] /\ m.group \in DOMAIN definitions
        /\ Sooner(m.group, m.at - 1, m)
      BY <1>1, <1>4 DEF Sooner
  <2>2. l.group # m.group \/ l.at # m.at - 1
    <3>1. ASSUME l.group = m.group PROVE l.at = m.at
      <4>1. /\ m.group \in DOMAIN definitions
            /\ l.at \in DOMAIN definitions[m.group] /\ m.at \in DOMAIN definitions[m.group]
            /\ definitions[m.group][l.at] = definitions[m.group][m.at]
          BY <1>1, <1>3, <3>1 DEF Placed
      <4> QED
          BY <4>1, EventsOnce
    <3> QED
        BY <1>1, <3>1
  <2>3. l.group < m.group \/ (l.group = m.group /\ l.at < m.at - 1)
      BY <1>1, <2>2 DEF Sooner
  <2> QED
      BY <2>1, <2>3
<1>5. CASE m.at = 1
  <2> DEFINE g == m.group - 1
  <2>1. g \in DOMAIN definitions /\ g \in Nat /\ l.group <= g /\ g < m.group /\ g \in 1..(N - 1)
      BY <1>1, <1>5 DEF Sooner
  <2>2. L(g) \in DOMAIN definitions[g] /\ L(g) \in Nat /\ Sooner(g, L(g), m)
      BY <1>2, <2>1 DEF Sooner
  <2>3. l.group # g \/ l.at # L(g)
    <3>1. Last(definitions[g]) # Head(definitions[g + 1])
        BY <2>1 DEF NoSharedBorder, N
    <3>2. Last(definitions[g]) = definitions[g][L(g)]
        BY DEF Last, L
    <3>3. Head(definitions[m.group]) = definitions[m.group][1]
      <4>1. definitions[m.group] \in Definition /\ definitions[m.group] # <<>>
          BY <1>1 DEF WellFormed
      <4> QED
          BY <4>1 DEF Definition
    <3>4. g + 1 = m.group
        BY <1>1
    <3> QED
        BY <1>3, <1>5, <3>1, <3>2, <3>3, <3>4
  <2>4. l.group < g \/ (l.group = g /\ l.at < L(g))
    <3>1. l.group = g => l.at <= L(g)
        BY <1>1
    <3> QED
        BY <1>1, <2>1, <2>2, <2>3, <3>1
  <2> QED
      BY <2>1, <2>2, <2>4
<1> QED
    BY <1>4, <1>5

\* The lines of an element are of one event of one group; those of another element are of
\* others, but for the devices of an uncore event of a socket.
Uniform(b) ==
    /\ \A k \in DOMAIN b : \A l, m \in b[k].value.of : SameSpot(l, m)
    /\ \A d, k \in DOMAIN b : d < k =>
         \A l \in b[d].value.of, m \in b[k].value.of :
            SameSpot(l, m) => mode = "socket" /\ m.event \in UncoreEvent

LEMMA SpotsHaveEvents ==
    ASSUME NEW l, NEW m, Placed(l), Placed(m), SameSpot(l, m)
    PROVE  l.event = m.event
BY DEF Placed, SameSpot

\* A line that has the event of the last element is of its event of its group.
LEMMA JoinedSpot ==
    ASSUME NoSharedBorder, WellFormed(definitions), definitions \in Seq(Definition),
           NEW ls, Printed(ls), Laid(ls), NEW n \in DOMAIN ls,
           NEW b \in Seq(Elements(ls)), Filled(b, ls, KeyOf(ls[n]), n - 1), Uniform(b),
           b # <<>>, b[Len(b)].event = ls[n].event, NEW x \in b[Len(b)].value.of
    PROVE  SameSpot(x, ls[n])
<1> DEFINE B == Len(b)
           l == ls[n]
<1>1. B \in DOMAIN b /\ DOMAIN b = 1..B /\ B \in Nat
    OBVIOUS
<1>2. DOMAIN ls = 1..Len(ls) /\ Len(ls) \in Nat
    BY DEF Printed
<1>3. PICK m \in 1..(n - 1) : x = ls[m]
    BY <1>1 DEF Filled
<1>4. m \in DOMAIN ls /\ m < n
    BY <1>2
<1>5. x.event = l.event /\ KeyOf(x) = KeyOf(l)
    BY <1>1 DEF Filled
<1>6. Placed(x) /\ Placed(l)
    BY <1>3, <1>4 DEF Printed, Placed
<1>7. CASE l.event \in UncoreEvent
    BY <1>5, <1>6, <1>7, UncoreSpot
<1>8. CASE l.event \notin UncoreEvent
  <2>1. x.device \in {0, 1} /\ l.device \in {0, 1}
      BY <1>3, <1>4, <1>5, <1>8 DEF Printed
  <2>2. Ahead(x, l)
      BY <1>3, <1>4, <1>5, <2>1 DEF Printed
  <2>3. /\ x.group \in Nat /\ x.at \in Nat /\ l.group \in Nat /\ l.at \in Nat
      BY <1>6, PlacedLines
  <2> SUFFICES ASSUME ~SameSpot(x, l) PROVE FALSE
      OBVIOUS
  <2>4. Sooner(x.group, x.at, l)
    <3> HIDE DEF l
    <3> QED
        BY <2>2, <2>3 DEF Ahead, SameSpot, Sooner
  <2>5a. PICK g \in DOMAIN definitions : \E a \in DOMAIN definitions[g] :
            Sooner(g, a, l) /\ (x.group < g \/ (x.group = g /\ x.at < a))
    <3> HIDE DEF l
    <3> QED
        BY <1>5, <1>6, <2>4, SpotBetween
  <2>5. PICK a \in DOMAIN definitions[g] :
            Sooner(g, a, l) /\ (x.group < g \/ (x.group = g /\ x.at < a))
      BY <2>5a
  <2>6. PICK o \in DOMAIN ls : /\ o < n /\ KeyOf(ls[o]) = KeyOf(l) /\ ls[o].device \in {0, 1}
                               /\ ls[o].group = g /\ ls[o].at = a
      BY <2>5 DEF Laid
  <2>7. o \in 1..(n - 1)
      BY <1>2, <2>6
  <2>8. PICK k \in DOMAIN b : ls[o] \in b[k].value.of
      BY <2>6, <2>7 DEF Filled
  <2>9. g \in Nat /\ a \in Nat
    <3>1. Placed(ls[o])
        BY DEF Printed, Placed
    <3>2. ls[o].group \in Nat /\ ls[o].at \in Nat
        BY <3>1, PlacedLines
    <3> QED
        BY <2>6, <3>2
  <2>10. k # B
    <3>1. ASSUME k = B PROVE SameSpot(ls[o], x)
        BY <1>1, <2>8, <3>1 DEF Uniform
    <3>2. ~SameSpot(ls[o], x)
        BY <2>3, <2>5, <2>6, <2>9 DEF SameSpot
    <3> QED
        BY <3>1, <3>2
  <2>11. k < B
      BY <1>1, <2>10
  <2>12. o < m
      BY <1>1, <1>3, <2>7, <2>8, <2>11 DEF Filled
  <2>13. Ahead(ls[o], ls[m])
      BY <1>3, <1>4, <1>5, <2>1, <2>6, <2>12 DEF Printed
  <2> QED
      BY <1>3, <2>3, <2>5, <2>6, <2>9, <2>13 DEF Ahead
<1> QED
    BY <1>7, <1>8

LEMMA JoiningIsUniform ==
    ASSUME NoSharedBorder, WellFormed(definitions), definitions \in Seq(Definition),
           NEW ls, Printed(ls), Laid(ls), NEW n \in DOMAIN ls,
           NEW b \in Seq(Elements(ls)), Filled(b, ls, KeyOf(ls[n]), n - 1), Uniform(b),
           b # <<>>, b[Len(b)].event = ls[n].event
    PROVE  Uniform(Added(b, Len(b), ls[n]))
<1> DEFINE B == Len(b)
           l == ls[n]
           c == Added(b, B, l)
<1>1. B \in DOMAIN b /\ DOMAIN b = 1..B /\ B \in Nat
    OBVIOUS
<1>2. /\ c \in Seq(Elements(ls)) /\ Len(c) = B
      /\ c[B].value.of = b[B].value.of \cup {l}
      /\ \A k \in DOMAIN b : k # B => c[k] = b[k]
    BY <1>1, AddedFacts
<1> HIDE DEF c
<1>3. DOMAIN c = 1..B
    BY <1>2
<1>4. \A x \in b[B].value.of : SameSpot(x, l)
    BY JoinedSpot
<1>5. \A x \in c[B].value.of : SameSpot(x, l)
    BY <1>2, <1>4 DEF SameSpot
<1>6. ASSUME NEW k \in DOMAIN c, NEW x \in c[k].value.of, NEW y \in c[k].value.of PROVE SameSpot(x, y)
  <2>1. CASE k = B
    <3>1. SameSpot(x, l) /\ SameSpot(y, l)
        BY <1>5, <2>1
    <3> QED
        BY <3>1 DEF SameSpot
  <2>2. CASE k # B
      BY <1>1, <1>2, <1>3, <2>2 DEF Uniform
  <2> QED
      BY <2>1, <2>2
<1>7. ASSUME NEW d \in DOMAIN c, NEW k \in DOMAIN c, d < k, NEW x \in c[d].value.of, NEW y \in c[k].value.of,
             SameSpot(x, y)
      PROVE  mode = "socket" /\ y.event \in UncoreEvent
  <2>1. d # B /\ d \in DOMAIN b /\ k \in DOMAIN b /\ c[d] = b[d]
      BY <1>1, <1>2, <1>3, <1>7
  <2>2. CASE y \in b[k].value.of
      BY <1>7, <2>1, <2>2 DEF Uniform
  <2>3. CASE y \notin b[k].value.of
    <3>1. k = B /\ y = l
        BY <1>2, <2>1, <2>3
    <3>2. PICK z : z \in b[B].value.of
        BY <1>1 DEF Filled
    <3>3. SameSpot(z, l) /\ SameSpot(x, z)
        BY <1>4, <1>7, <3>1, <3>2 DEF SameSpot
    <3>4. mode = "socket" /\ z.event \in UncoreEvent
        BY <1>1, <1>7, <2>1, <3>1, <3>2, <3>3 DEF Uniform
    <3>5. z.event = l.event
        BY <1>1, <3>2 DEF Filled
    <3> QED
        BY <3>1, <3>4, <3>5
  <2> QED
      BY <2>2, <2>3
<1>8. Uniform(c)
    BY <1>6, <1>7 DEF Uniform
<1> QED
    BY <1>8 DEF c

LEMMA AppendingIsUniform ==
    ASSUME NEW ls, Printed(ls), Laid(ls), NEW n \in DOMAIN ls,
           NEW b \in Seq(Elements(ls)), Filled(b, ls, KeyOf(ls[n]), n - 1), Uniform(b),
           NEW current, n > 1 => current = ls[n - 1].event, ~Joins(b, current, ls[n])
    PROVE  Uniform(Append(b, Parsed(ls[n])))
<1> DEFINE B == Len(b)
           l == ls[n]
           c == Append(b, Parsed(l))
<1>1. B \in Nat /\ DOMAIN b = 1..B
    OBVIOUS
<1>2. /\ DOMAIN c = 1..(B + 1)
      /\ \A k \in 1..(B + 1) : c[k] = IF k = B + 1 THEN Parsed(l) ELSE b[k]
  <2>1. Parsed(l) \in Elements(ls)
      BY ParsedFacts
  <2> HIDE DEF l
  <2> QED
      BY <2>1, SequenceFacts
<1>3. Parsed(l).value.of = {l}
    BY ParsedFacts
<1>4. DOMAIN ls = 1..Len(ls) /\ Len(ls) \in Nat /\ \A o \in DOMAIN ls : Placed(ls[o])
    BY DEF Printed, Placed
<1> HIDE DEF c, B
<1>5. \A k \in DOMAIN c : (k \in DOMAIN b /\ c[k] = b[k]) \/ (k = B + 1 /\ c[k] = Parsed(l))
    BY <1>1, <1>2
<1>6. ASSUME NEW k \in DOMAIN c, NEW x \in c[k].value.of, NEW y \in c[k].value.of PROVE SameSpot(x, y)
  <2>1. CASE k \in DOMAIN b /\ c[k] = b[k]
      BY <2>1 DEF Uniform
  <2>2. CASE c[k] = Parsed(l)
      BY <1>3, <2>2 DEF SameSpot
  <2> QED
      BY <1>5, <2>1, <2>2
<1>7. ASSUME NEW d \in DOMAIN b, NEW x \in b[d].value.of, SameSpot(x, l)
      PROVE  mode = "socket" /\ l.event \in UncoreEvent
  <2>1. PICK m \in 1..(n - 1) : x = ls[m]
      BY DEF Filled
  <2>2. m \in DOMAIN ls /\ m < n /\ n - 1 \in m..n /\ n > 1 /\ n - 1 \in DOMAIN ls
      BY <1>4
  <2>3. KeyOf(x) = KeyOf(l) /\ x.event = b[d].event
      BY DEF Filled
  <2>4. mode = "socket" /\ (l.event \notin UncoreEvent => \A o \in m..n : o \in DOMAIN ls /\ SameSpot(ls[o], l))
      BY <1>7, <2>1, <2>2, <2>3 DEF Laid
  <2> SUFFICES ASSUME l.event \notin UncoreEvent PROVE FALSE
      BY <2>4
  <2>5. \A o \in m..n : o \in DOMAIN ls /\ ls[o].event = l.event
    <3>1. \A o \in m..n : o \in DOMAIN ls /\ SameSpot(ls[o], l)
        BY <2>4
    <3> QED
        BY <1>4, <3>1, SpotsHaveEvents
  <2>6. current = l.event
      BY <2>2, <2>5
  <2>7. B \in DOMAIN b /\ b # <<>> /\ (d = B \/ d < B)
    <3>1. d \in 1..B
        BY <1>1
    <3> QED
        BY <1>1, <3>1 DEF B
  <2>8. b[B].event = l.event
    <3>1. CASE d = B
      <4>1. m \in m..n
          BY <1>4, <2>2
      <4> QED
          BY <2>1, <2>3, <2>5, <3>1, <4>1
    <3>2. CASE d < B
      <4>1. PICK z : z \in b[B].value.of
          BY <2>7 DEF Filled
      <4>2. z.event = b[B].event /\ \E q \in 1..(n - 1) : z = ls[q]
          BY <2>7, <4>1 DEF Filled
      <4>3. PICK q \in 1..(n - 1) : z = ls[q]
          BY <4>2
      <4>4. m < q
          BY <2>1, <2>7, <3>2, <4>1, <4>3 DEF Filled
      <4>5. q \in m..n
          BY <1>4, <4>4
      <4> QED
          BY <2>5, <4>2, <4>3, <4>5
    <3> QED
        BY <2>7, <3>1, <3>2
  <2> QED
      BY <2>4, <2>6, <2>7, <2>8 DEF Joins, B
<1>8. ASSUME NEW d \in DOMAIN c, NEW k \in DOMAIN c, d < k, NEW x \in c[d].value.of, NEW y \in c[k].value.of,
             SameSpot(x, y)
      PROVE  mode = "socket" /\ y.event \in UncoreEvent
  <2>1. d \in DOMAIN b /\ c[d] = b[d]
      BY <1>1, <1>2, <1>5, <1>8
  <2>2. CASE k \in DOMAIN b /\ c[k] = b[k]
      BY <1>8, <2>1, <2>2 DEF Uniform
  <2>3. CASE c[k] = Parsed(l)
    <3>1. y = l
        BY <1>3, <2>3
    <3> QED
        BY <1>7, <1>8, <2>1, <3>1
  <2> QED
      BY <1>5, <2>2, <2>3
<1>9. Uniform(c)
    BY <1>6, <1>8 DEF Uniform
<1> QED
    BY <1>9 DEF c

LEMMA StepIsUniform ==
    ASSUME NoSharedBorder, WellFormed(definitions), definitions \in Seq(Definition),
           NEW ls, Printed(ls), Laid(ls), NEW n \in DOMAIN ls, NEW state \in Buckets(ls),
           NEW next, Bucketed(state, ls, n, next), n > 1 => state.current = ls[n - 1].event,
           NEW s \in Keys, Filled(state.list[s], ls, s, n - 1), Uniform(state.list[s])
    PROVE  Uniform(next.list[s])
<1>1. CASE KeyOf(ls[n]) # s
  <2>1. next.list[s] = state.list[s]
      BY <1>1 DEF Bucketed
  <2> QED
      BY <2>1
<1>2. CASE KeyOf(ls[n]) = s
  <2> DEFINE b == state.list[s]
             cur == state.current
  <2>1. b \in Seq(Elements(ls))
      BY DEF Buckets
  <2>2. \/ next.list[s] = Append(b, Parsed(ls[n])) /\ ~Joins(b, cur, ls[n])
        \/ b # <<>> /\ b[Len(b)].event = ls[n].event /\ next.list[s] = Added(b, Len(b), ls[n])
      BY <1>2 DEF Bucketed
  <2>3. n > 1 => cur = ls[n - 1].event
      OBVIOUS
  <2>4. Filled(b, ls, KeyOf(ls[n]), n - 1) /\ Uniform(b)
      BY <1>2
  <2> HIDE DEF b, cur
  <2>5. CASE next.list[s] = Append(b, Parsed(ls[n])) /\ ~Joins(b, cur, ls[n])
    <3>1. Uniform(Append(b, Parsed(ls[n])))
        BY <2>1, <2>3, <2>4, <2>5, AppendingIsUniform
    <3> QED
        BY <2>5, <3>1
  <2>6. CASE b # <<>> /\ b[Len(b)].event = ls[n].event /\ next.list[s] = Added(b, Len(b), ls[n])
    <3>1. Uniform(Added(b, Len(b), ls[n]))
        BY <2>1, <2>4, <2>6, JoiningIsUniform
    <3> QED
        BY <2>6, <3>1
  <2> QED
      BY <2>2, <2>5, <2>6
<1> QED
    BY <1>1, <1>2

\* Each element of a bucket has the lines of one event of one group.
LEMMA BucketsAreUniform ==
    ASSUME NoSharedBorder, WellFormed(definitions), definitions \in Seq(Definition),
           NEW ls, Printed(ls), Laid(ls), NEW s \in Keys
    PROVE  Uniform(Bucketing(ls)[Len(ls)].list[s])
<1> DEFINE K == Len(ls)
           c == Bucketing(ls)
           S == {n \in 0..K : Uniform(c[n].list[s]) /\ (n > 0 => c[n].current = ls[n].event)}
<1>1. K \in Nat /\ DOMAIN ls = 1..K
    BY DEF Printed
<1>2. /\ \A n \in 0..K : c[n] \in Buckets(ls)
      /\ c[0] = [list |-> [t \in Keys |-> <<>>], current |-> NoEvent]
      /\ \A n \in 1..K : c[n] = BucketStep(c[n - 1], ls[n])
    BY BucketingIsDefined
<1>3. \A n \in 0..K : Filled(c[n].list[s], ls, s, n)
    BY BucketsAreFilled
<1> HIDE DEF c, K
<1>4. 0 \in S
  <2>1. c[0].list[s] = <<>>
      BY <1>2
  <2>2. Uniform(<<>>)
      BY DEF Uniform
  <2> QED
      BY <1>1, <2>1, <2>2
<1>5. ASSUME NEW n \in 1..K, n - 1 \in S PROVE n \in S
  <2>1. n \in DOMAIN ls /\ n - 1 \in 0..K /\ n \in 0..K /\ (n > 1 => n - 1 > 0)
      BY <1>1
  <2>2. PICK state \in Buckets(ls) : state = c[n - 1]
      BY <1>2, <2>1
  <2>3. PICK next : next = BucketStep(state, ls[n])
      OBVIOUS
  <2>4. Bucketed(state, ls, n, next)
      BY <2>1, <2>3, BucketStepFacts
  <2>5. c[n] = next
      BY <1>2, <2>2, <2>3
  <2>6. /\ Filled(state.list[s], ls, s, n - 1) /\ Uniform(state.list[s])
        /\ n > 1 => state.current = ls[n - 1].event
      BY <1>3, <1>5, <2>1, <2>2
  <2>7. Uniform(next.list[s])
      BY <2>1, <2>4, <2>6, StepIsUniform
  <2>8. next.current = ls[n].event
      BY <2>4 DEF Bucketed
  <2> QED
      BY <2>1, <2>5, <2>7, <2>8
<1>6. K \in 0..K
    BY <1>1
<1>7. K \in S
  <2> HIDE DEF S
  <2> QED
      BY <1>1, <1>4, <1>5, <1>6, UpTo
<1> QED
    BY <1>7 DEF c, K

-----------------------------------------------------------------------------
(* So has each event of a bucket, and it has all of them.                  *)

\* Events c have the lines of the first n elements of b, each event those of one event of
\* one group, and no other event has lines of it.
Parted(c, b, n) ==
    /\ \A k \in DOMAIN c :
         /\ c[k].value.of # {}
         /\ \A l \in c[k].value.of :
              /\ l.event = c[k].event /\ \E m \in 1..n : l \in b[m].value.of
              /\ \A x \in c[k].value.of : SameSpot(l, x)
    /\ \A m \in 1..n : \A l \in b[m].value.of : \E k \in DOMAIN c : l \in c[k].value.of
    /\ \A d, k \in DOMAIN c : d # k =>
         \A l \in c[d].value.of, x \in c[k].value.of : ~SameSpot(l, x)

\* What the elements of a bucket are like.
Elementary(b) ==
    /\ \A k \in DOMAIN b : /\ b[k].value.of # {}
                           /\ \A l \in b[k].value.of : Placed(l) /\ l.event = b[k].event
    /\ Uniform(b)

LEMMA AddingParts ==
    ASSUME WellFormed(definitions), NEW b, NEW n \in DOMAIN b, Elementary(b),
           \A m \in 1..n : m \in DOMAIN b /\ (m \in 1..(n - 1) \/ m = n),
           n \in 1..n, \A m \in 1..(n - 1) : m \in 1..n /\ m < n,
           NEW c, Parted(c, b, n - 1), NEW a, DOMAIN a = DOMAIN c,
           b[n].event \in UncoreEvent, \A k \in DOMAIN c : a[k].event = c[k].event,
           NEW k \in DOMAIN c, c[k].event = b[n].event,
           a[k].value.of = c[k].value.of \cup b[n].value.of,
           \A d \in DOMAIN c : d # k => a[d] = c[d]
    PROVE  Parted(a, b, n)
<1> DEFINE x == b[n]
<1>1. \A l \in x.value.of : Placed(l) /\ l.event = x.event
    BY DEF Elementary
<1>2. ASSUME NEW d \in DOMAIN c, NEW l \in c[d].value.of
      PROVE  Placed(l) /\ l.event = c[d].event /\ \E m \in 1..n : l \in b[m].value.of
  <2>1. l.event = c[d].event /\ \E m \in 1..(n - 1) : l \in b[m].value.of
      BY DEF Parted
  <2> QED
      BY <2>1 DEF Elementary
<1>3. ASSUME NEW l \in a[k].value.of
      PROVE  Placed(l) /\ l.event = x.event /\ \E m \in 1..n : l \in b[m].value.of
  <2>1. CASE l \in c[k].value.of
      BY <1>2, <2>1
  <2>2. CASE l \in x.value.of
      BY <1>1, <2>2
  <2> QED
      BY <2>1, <2>2
<1>4. \A l, m \in a[k].value.of : SameSpot(l, m)
    BY <1>3, UncoreSpot
<1>5. ASSUME NEW d \in DOMAIN a
      PROVE  /\ a[d].value.of # {}
             /\ \A l \in a[d].value.of :
                  /\ l.event = a[d].event /\ \E m \in 1..n : l \in b[m].value.of
                  /\ \A y \in a[d].value.of : SameSpot(l, y)
  <2>1. CASE d = k
    <3>1. a[k].value.of # {}
        BY DEF Parted
    <3> QED
        BY <1>3, <1>4, <2>1, <3>1
  <2>2. CASE d # k
    <3>1. a[d] = c[d] /\ d \in DOMAIN c
        BY <2>2
    <3> QED
        BY <1>2, <3>1 DEF Parted
  <2> QED
      BY <2>1, <2>2
<1>6. ASSUME NEW m \in 1..n, NEW l \in b[m].value.of PROVE \E d \in DOMAIN a : l \in a[d].value.of
  <2>1. CASE m = n
      BY <2>1
  <2>2. CASE m \in 1..(n - 1)
    <3>1. PICK d \in DOMAIN c : l \in c[d].value.of
        BY <2>2 DEF Parted
    <3>2. l \in a[d].value.of
        BY <3>1
    <3> QED
        BY <3>2
  <2> QED
      BY <2>1, <2>2
<1>7. ASSUME NEW d \in DOMAIN c, d # k, NEW l \in c[d].value.of, NEW y \in a[k].value.of, SameSpot(l, y)
      PROVE  FALSE
  <2>1. PICK z : z \in c[k].value.of
      BY DEF Parted
  <2>2. SameSpot(z, y)
      BY <1>4, <2>1
  <2>3. SameSpot(l, z)
      BY <1>7, <2>2 DEF SameSpot
  <2> QED
      BY <1>7, <2>1, <2>3 DEF Parted
<1>8. ASSUME NEW d \in DOMAIN a, NEW e \in DOMAIN a, d # e, NEW l \in a[d].value.of, NEW y \in a[e].value.of
      PROVE  ~SameSpot(l, y)
  <2>1. CASE e = k
      BY <1>7, <1>8, <2>1
  <2>2. CASE d = k
    <3>1. SameSpot(l, y) => SameSpot(y, l)
        BY DEF SameSpot
    <3>2. e # k /\ a[e] = c[e]
        BY <1>8, <2>2
    <3> QED
        BY <1>7, <2>2, <3>1, <3>2
  <2>3. CASE d # k /\ e # k
    <3>1. a[d] = c[d] /\ a[e] = c[e]
        BY <2>3
    <3> QED
        BY <1>8, <3>1 DEF Parted
  <2> QED
      BY <2>1, <2>2, <2>3
<1> QED
    BY <1>5, <1>6, <1>8 DEF Parted

LEMMA AppendingParts ==
    ASSUME NEW b, NEW n \in DOMAIN b, Elementary(b),
           \A m \in 1..n : m \in DOMAIN b /\ (m \in 1..(n - 1) \/ m = n),
           n \in 1..n, \A m \in 1..(n - 1) : m \in 1..n /\ m < n,
           NEW c, Parted(c, b, n - 1), NEW a, NEW K, K \notin DOMAIN c, DOMAIN a = DOMAIN c \cup {K},
           a[K] = b[n], \A d \in DOMAIN c : a[d] = c[d],
           b[n].event \in UncoreEvent => \A d \in DOMAIN c : c[d].event # b[n].event
    PROVE  Parted(a, b, n)
<1> DEFINE x == b[n]
<1>1. x.value.of # {} /\ \A l \in x.value.of : Placed(l) /\ l.event = x.event
    BY DEF Elementary
<1>2. \A l, y \in x.value.of : SameSpot(l, y)
    BY DEF Elementary, Uniform
<1>3. ASSUME NEW d \in DOMAIN a
      PROVE  /\ a[d].value.of # {}
             /\ \A l \in a[d].value.of :
                  /\ l.event = a[d].event /\ \E m \in 1..n : l \in b[m].value.of
                  /\ \A y \in a[d].value.of : SameSpot(l, y)
  <2>1. CASE d = K
      BY <1>1, <1>2, <2>1
  <2>2. CASE d \in DOMAIN c
    <3>1. a[d] = c[d]
        BY <2>2
    <3> QED
        BY <2>2, <3>1 DEF Parted
  <2> QED
      BY <2>1, <2>2
<1>4. ASSUME NEW m \in 1..n, NEW l \in b[m].value.of PROVE \E d \in DOMAIN a : l \in a[d].value.of
  <2>1. CASE m = n
      BY <2>1
  <2>2. CASE m \in 1..(n - 1)
    <3>1. PICK d \in DOMAIN c : l \in c[d].value.of
        BY <2>2 DEF Parted
    <3> QED
        BY <3>1
  <2> QED
      BY <2>1, <2>2
<1>5. ASSUME NEW d \in DOMAIN c, NEW l \in c[d].value.of, NEW y \in x.value.of, SameSpot(l, y)
      PROVE  FALSE
  <2>1. PICK m \in 1..(n - 1) : l \in b[m].value.of
      BY DEF Parted
  <2>2. m \in DOMAIN b /\ m < n
      OBVIOUS
  <2>3. y.event \in UncoreEvent
      BY <1>5, <2>1, <2>2 DEF Elementary, Uniform
  <2>4. Placed(l) /\ Placed(y)
      BY <1>1, <2>1, <2>2 DEF Elementary
  <2>5. l.event = y.event
      BY <1>5, <2>4, SpotsHaveEvents
  <2>6. l.event = c[d].event /\ y.event = x.event
      BY <1>1 DEF Parted
  <2> QED
      BY <2>3, <2>5, <2>6
<1>6. ASSUME NEW d \in DOMAIN a, NEW e \in DOMAIN a, d # e, NEW l \in a[d].value.of, NEW y \in a[e].value.of
      PROVE  ~SameSpot(l, y)
  <2>1. CASE e = K
    <3>1. d \in DOMAIN c /\ a[d] = c[d]
        BY <1>6, <2>1
    <3> QED
        BY <1>5, <2>1, <3>1
  <2>2. CASE d = K
    <3>1. SameSpot(l, y) => SameSpot(y, l)
        BY DEF SameSpot
    <3>2. e \in DOMAIN c /\ a[e] = c[e]
        BY <1>6, <2>2
    <3> QED
        BY <1>5, <2>2, <3>1, <3>2
  <2>3. CASE d \in DOMAIN c /\ e \in DOMAIN c
    <3>1. a[d] = c[d] /\ a[e] = c[e]
        BY <2>3
    <3> QED
        BY <1>6, <2>3, <3>1 DEF Parted
  <2> QED
      BY <2>1, <2>2, <2>3
<1> QED
    BY <1>3, <1>4, <1>6 DEF Parted

LEMMA PartingGoesOn ==
    ASSUME WellFormed(definitions), NEW ls, NEW b \in Seq(Elements(ls)), Elementary(b), NEW n \in DOMAIN b,
           NEW c \in Seq(Elements(ls)), Parted(c, b, n - 1)
    PROVE  Parted(AggregateStep(c, b[n]), b, n)
<1>1. PICK a : a = AggregateStep(c, b[n])
    OBVIOUS
<1>2. b[n] \in Elements(ls)
    OBVIOUS
<1>3. Aggregated(c, b[n], a)
    BY <1>1, <1>2, AggregateStepFacts
<1>4. /\ \A m \in 1..n : m \in DOMAIN b /\ (m \in 1..(n - 1) \/ m = n)
      /\ n \in 1..n /\ \A m \in 1..(n - 1) : m \in 1..n /\ m < n
    OBVIOUS
<1>5. CASE /\ b[n].event \in UncoreEvent
           /\ DOMAIN a = DOMAIN c
           /\ \A k \in DOMAIN c : a[k].event = c[k].event
           /\ \E k \in DOMAIN c :
                /\ c[k].event = b[n].event
                /\ a[k].value.of = c[k].value.of \cup b[n].value.of
                /\ \A d \in DOMAIN c : d # k => a[d] = c[d]
  <2>1. PICK k \in DOMAIN c : /\ c[k].event = b[n].event
                              /\ a[k].value.of = c[k].value.of \cup b[n].value.of
                              /\ \A d \in DOMAIN c : d # k => a[d] = c[d]
      BY <1>5
  <2>2. Parted(a, b, n)
      BY <1>4, <1>5, <2>1, AddingParts
  <2> QED
      BY <1>1, <2>2
<1>6. CASE /\ a = Append(c, b[n])
           /\ b[n].event \in UncoreEvent => \A k \in DOMAIN c : c[k].event # b[n].event
  <2> DEFINE K == Len(c) + 1
  <2>1. Len(c) \in Nat /\ DOMAIN c = 1..Len(c) /\ K \notin DOMAIN c
      OBVIOUS
  <2>2. DOMAIN a = 1..K /\ \A k \in 1..K : a[k] = IF k = K THEN b[n] ELSE c[k]
      BY <1>2, <1>6, SequenceFacts
  <2>3. DOMAIN a = DOMAIN c \cup {K} /\ K \in DOMAIN a
      BY <2>1, <2>2
  <2> HIDE DEF K
  <2>4. a[K] = b[n] /\ \A d \in DOMAIN c : a[d] = c[d]
      BY <2>1, <2>2, <2>3
  <2>5. Parted(a, b, n)
      BY <1>4, <1>6, <2>1, <2>3, <2>4, AppendingParts
  <2> QED
      BY <1>1, <2>5
<1> QED
    BY <1>3, <1>5, <1>6 DEF Aggregated

\* Events c have the lines of key s, each event those of one event of one group, and no
\* other event has lines of it.
Whole(c, ls, s) ==
    /\ \A k \in DOMAIN c :
         /\ c[k].value.of # {}
         /\ \A l \in c[k].value.of :
              /\ l.event = c[k].event /\ KeyOf(l) = s /\ Placed(l) /\ \E m \in DOMAIN ls : l = ls[m]
              /\ \A x \in c[k].value.of : SameSpot(l, x)
    /\ \A n \in DOMAIN ls : KeyOf(ls[n]) = s => \E k \in DOMAIN c : ls[n] \in c[k].value.of
    /\ \A d, k \in DOMAIN c : d # k =>
         \A l \in c[d].value.of, x \in c[k].value.of : ~SameSpot(l, x)

LEMMA EventsAreWhole ==
    ASSUME WellFormed(definitions), NEW ls, Printed(ls), NEW s, NEW b \in Seq(Elements(ls)),
           Filled(b, ls, s, Len(ls)), Uniform(b)
    PROVE  Whole(AggregateUncoreEvents(b), ls, s)
<1> DEFINE K == Len(b)
<1>1. K \in Nat /\ DOMAIN b = 1..K /\ DOMAIN ls = 1..Len(ls)
    BY DEF Printed
<1>2. \A k \in DOMAIN b :
        /\ b[k].value.of # {}
        /\ \A l \in b[k].value.of :
             l.event = b[k].event /\ KeyOf(l) = s /\ Placed(l) /\ \E m \in DOMAIN ls : l = ls[m]
  <2> SUFFICES ASSUME NEW k \in DOMAIN b
               PROVE  /\ b[k].value.of # {}
                      /\ \A l \in b[k].value.of :
                           l.event = b[k].event /\ KeyOf(l) = s /\ Placed(l) /\ \E m \in DOMAIN ls : l = ls[m]
      OBVIOUS
  <2>1. \A m \in DOMAIN ls : Placed(ls[m])
      BY DEF Printed, Placed
  <2>2. /\ b[k].value.of # {}
        /\ \A l \in b[k].value.of : l.event = b[k].event /\ KeyOf(l) = s /\ \E m \in 1..Len(ls) : l = ls[m]
      BY DEF Filled
  <2> QED
      BY <1>1, <2>1, <2>2
<1>3. \A n \in DOMAIN ls : KeyOf(ls[n]) = s => \E k \in DOMAIN b : ls[n] \in b[k].value.of
    BY <1>1 DEF Filled
<1>4. CASE mode = "socket"
  <2> DEFINE c == Aggregating(b)
             S == {n \in 0..K : Parted(c[n], b, n)}
  <2>1. /\ \A n \in 0..K : c[n] \in Seq(Elements(ls))
        /\ c[0] = <<>>
        /\ \A n \in 1..K : c[n] = AggregateStep(c[n - 1], b[n])
      BY AggregatingIsDefined
  <2>2. Elementary(b)
      BY <1>2 DEF Elementary
  <2> HIDE DEF c
  <2>3. 0 \in S
    <3>1. Parted(<<>>, b, 0)
        BY DEF Parted
    <3> QED
        BY <1>1, <2>1, <3>1
  <2>4. ASSUME NEW n \in 1..K, n - 1 \in S PROVE n \in S
    <3>1. n - 1 \in 0..K /\ n \in 0..K /\ n \in DOMAIN b
        BY <1>1
    <3>2. PICK d \in Seq(Elements(ls)) : d = c[n - 1]
        BY <2>1, <3>1
    <3>3. Parted(d, b, n - 1)
        BY <2>4, <3>2
    <3>4. Parted(AggregateStep(d, b[n]), b, n)
        BY <2>2, <3>1, <3>3, PartingGoesOn
    <3> QED
        BY <2>1, <3>1, <3>2, <3>4
  <2>5. K \in 0..K
      BY <1>1
  <2>6. K \in S
    <3> HIDE DEF S, K
    <3> QED
        BY <1>1, <2>3, <2>4, <2>5, UpTo
  <2>7. PICK a : a = c[K]
      OBVIOUS
  <2>8. Parted(a, b, K)
      BY <2>6, <2>7
  <2>9. AggregateUncoreEvents(b) = a
      BY <1>4, <2>7 DEF AggregateUncoreEvents, c
  <2> HIDE DEF K
  <2>10. ASSUME NEW k \in DOMAIN a
         PROVE  /\ a[k].value.of # {}
                /\ \A l \in a[k].value.of :
                     /\ l.event = a[k].event /\ KeyOf(l) = s /\ Placed(l) /\ \E m \in DOMAIN ls : l = ls[m]
                     /\ \A x \in a[k].value.of : SameSpot(l, x)
    <3>1. a[k].value.of # {}
        BY <2>8 DEF Parted
    <3>2. ASSUME NEW l \in a[k].value.of
          PROVE  KeyOf(l) = s /\ Placed(l) /\ \E m \in DOMAIN ls : l = ls[m]
      <4>1. PICK m \in 1..K : l \in b[m].value.of
          BY <2>8 DEF Parted
      <4> QED
          BY <1>1, <1>2, <4>1
    <3> QED
        BY <2>8, <3>1, <3>2 DEF Parted
  <2>11. ASSUME NEW n \in DOMAIN ls, KeyOf(ls[n]) = s PROVE \E k \in DOMAIN a : ls[n] \in a[k].value.of
    <3>1. PICK m \in DOMAIN b : ls[n] \in b[m].value.of
        BY <1>3, <2>11
    <3> QED
        BY <1>1, <2>8, <3>1 DEF Parted
  <2>12. \A d, k \in DOMAIN a : d # k => \A l \in a[d].value.of, x \in a[k].value.of : ~SameSpot(l, x)
      BY <2>8 DEF Parted
  <2> QED
      BY <2>9, <2>10, <2>11, <2>12 DEF Whole
<1>5. CASE mode # "socket"
  <2>1. AggregateUncoreEvents(b) = b
      BY <1>5 DEF AggregateUncoreEvents
  <2>2. ASSUME NEW d \in DOMAIN b, NEW k \in DOMAIN b, d # k, NEW l \in b[d].value.of, NEW x \in b[k].value.of
        PROVE  ~SameSpot(l, x)
    <3>1. d < k \/ k < d
        BY <1>1, <2>2
    <3>2. CASE d < k
        BY <1>5, <2>2, <3>2 DEF Uniform
    <3>3. CASE k < d
      <4>1. ~SameSpot(x, l)
          BY <1>5, <2>2, <3>3 DEF Uniform
      <4> QED
          BY <4>1 DEF SameSpot
    <3> QED
        BY <3>1, <3>2, <3>3
  <2>3. \A k \in DOMAIN b : \A l, x \in b[k].value.of : SameSpot(l, x)
      BY DEF Uniform
  <2>4. Whole(b, ls, s)
      BY <1>2, <1>3, <2>2, <2>3 DEF Whole
  <2> QED
      BY <2>1, <2>4
<1> QED
    BY <1>4, <1>5

-----------------------------------------------------------------------------
(* The events are assigned to the groups of their lines.                   *)

\* The elements of events c are in the order of the groups.
LEMMA EventsAscend ==
    ASSUME definitions \in Seq(Definition), NEW ls, Printed(ls), NEW s,
           NEW c \in Seq(Elements(ls)), NEW f, Led(c, ls, s, f),
           Whole(c, ls, s), NEW d \in DOMAIN c, NEW k \in DOMAIN c, d < k,
           NEW l \in c[d].value.of, NEW m \in c[k].value.of
    PROVE  Sooner(l.group, l.at, m)
<1>1. PICK x \in c[d].value.of, y \in c[k].value.of : x = ls[f[d]] /\ y = ls[f[k]]
    BY DEF Led
<1>2. Ahead(x, y)
  <2>1. /\ f[d] \in DOMAIN ls /\ f[k] \in DOMAIN ls /\ f[d] < f[k]
        /\ ls[f[d]].device \in {0, 1} /\ ls[f[k]].device \in {0, 1}
        /\ KeyOf(ls[f[d]]) = KeyOf(ls[f[k]])
      BY DEF Led
  <2>2. PICK o \in DOMAIN ls, q \in DOMAIN ls : o = f[d] /\ q = f[k]
      BY <2>1
  <2>3. o < q /\ ls[o].device \in {0, 1} /\ ls[q].device \in {0, 1} /\ KeyOf(ls[o]) = KeyOf(ls[q])
      BY <2>1, <2>2
  <2>4. Ahead(ls[o], ls[q])
      BY <2>3 DEF Printed
  <2> QED
      BY <1>1, <2>2, <2>4
<1>3. SameSpot(l, x) /\ SameSpot(m, y) /\ ~SameSpot(x, y) /\ Placed(x) /\ Placed(y)
  <2>1. d # k
      OBVIOUS
  <2> QED
      BY <1>1, <2>1 DEF Whole
<1>4. x.group \in Nat /\ x.at \in Nat /\ y.group \in Nat /\ y.at \in Nat
    BY <1>3, PlacedLines
<1> QED
    BY <1>2, <1>3, <1>4 DEF SameSpot, Ahead, Sooner

\* An event of a group that precedes that of an element has an element before it.
LEMMA NoneIsSkipped ==
    ASSUME definitions \in Seq(Definition), NEW ls, Printed(ls), Laid(ls), NEW s,
           NEW c \in Seq(Elements(ls)), NEW f, Led(c, ls, s, f),
           Whole(c, ls, s), NEW k \in DOMAIN c, NEW l \in c[k].value.of,
           NEW g \in DOMAIN definitions, NEW a \in DOMAIN definitions[g], Sooner(g, a, l)
    PROVE  \E d \in DOMAIN c : d < k /\ \E y \in c[d].value.of : y.group = g /\ y.at = a
<1>1. PICK n \in DOMAIN ls : l = ls[n]
    BY DEF Whole
<1>2. KeyOf(l) = s
    BY DEF Whole
<1>3. PICK o \in DOMAIN ls : KeyOf(ls[o]) = s /\ ls[o].group = g /\ ls[o].at = a
    BY <1>1, <1>2 DEF Laid
<1>4. PICK d \in DOMAIN c : ls[o] \in c[d].value.of
    BY <1>3 DEF Whole
<1>5. Placed(l) /\ Placed(ls[o])
    BY <1>4 DEF Whole
<1>6. l.group \in Nat /\ l.at \in Nat /\ g \in Nat /\ a \in Nat
  <2>1. l.group \in Nat /\ l.at \in Nat /\ ls[o].group \in Nat /\ ls[o].at \in Nat
      BY <1>5, PlacedLines
  <2> QED
      BY <1>3, <2>1
<1>7. d # k
  <2>1. ASSUME d = k PROVE SameSpot(l, ls[o])
      BY <1>4, <2>1 DEF Whole
  <2>2. ~SameSpot(l, ls[o])
      BY <1>3, <1>6 DEF SameSpot, Sooner
  <2> QED
      BY <2>1, <2>2
<1>8. ~(k < d)
  <2>1. ASSUME k < d PROVE Sooner(l.group, l.at, ls[o])
      BY <1>4, <2>1, EventsAscend
  <2>2. ~Sooner(l.group, l.at, ls[o])
      BY <1>3, <1>6 DEF Sooner
  <2> QED
      BY <2>1, <2>2
<1>9. DOMAIN c = 1..Len(c) /\ Len(c) \in Nat
    OBVIOUS
<1>10. d < k
    BY <1>7, <1>8, <1>9
<1> QED
    BY <1>3, <1>4, <1>10

\* The place that follows p is that of line l when no event of a group is between them.
LEMMA NextPlaceIs ==
    ASSUME WellFormed(definitions), definitions \in Seq(Definition), NEW p \in Spots,
           NEW l, Placed(l), SpotBefore(p, l),
           \A g \in DOMAIN definitions : \A a \in DOMAIN definitions[g] :
              Sooner(g, a, l) => ~(p.group < g \/ (p.group = g /\ p.event < a))
    PROVE  NextPlace(p, 1).group = l.group /\ NextPlace(p, 1).event = l.at
<1> DEFINE N == Len(definitions)
           g == p.group
           L == Len(definitions[g])
           q == NextPlace(p, 1)
<1>1. /\ l.group \in Nat /\ l.group # 0 /\ l.group <= N
      /\ l.at \in Nat /\ l.at # 0 /\ l.at <= Len(definitions[l.group])
      /\ N \in Nat /\ DOMAIN definitions = 1..N
    BY PlacedLines
<1>2. g \in Nat /\ g # 0 /\ p.event \in Nat /\ p = [group |-> g, event |-> p.event]
    BY DEF Spots
<1>3. g <= N /\ g \in DOMAIN definitions
  <2> HIDE DEF g, N
  <2> QED
      BY <1>1, <1>2 DEF SpotBefore, g
<1>4. L \in Nat /\ DOMAIN definitions[g] = 1..L
  <2>1. definitions[g] \in Definition
      BY <1>3
  <2> QED
      BY <2>1 DEF Definition
<1>5. \/ p.event + 1 > L /\ q.group = g + 1 /\ q.event = 1
      \/ ~(p.event + 1 > L) /\ q.group = g /\ q.event = p.event + 1
  <2>0. ~(g > N)
    <3> HIDE DEF g, N
    <3> QED
        BY <1>1, <1>2, <1>3
  <2>1. CASE p.event + 1 > L
      BY <1>3, <2>0, <2>1 DEF NextPlace
  <2>2. CASE ~(p.event + 1 > L)
    <3>1. q = [p EXCEPT !.event = @ + 1]
        BY <1>3, <2>0, <2>2 DEF NextPlace
    <3>2. q = [group |-> g, event |-> p.event + 1]
        BY <1>2, <3>1
    <3> QED
        BY <2>2, <3>2
  <2> QED
      BY <2>1, <2>2
<1> HIDE DEF q
<1>6. CASE p.event + 1 > L /\ q.group = g + 1 /\ q.event = 1
  <2>1. l.group # g
    <3>1. l.group = g => l.at <= L
        BY <1>1
    <3> HIDE DEF L, g
    <3> QED
        BY <1>1, <1>2, <1>4, <1>6, <3>1 DEF SpotBefore, g
  <2>2. g < l.group
    <3> QED
        BY <2>1 DEF SpotBefore
  <2>3. g + 1 \in DOMAIN definitions
    <3> HIDE DEF g, N
    <3> QED
        BY <1>1, <1>2, <2>2
  <2>4. 1 \in DOMAIN definitions[g + 1]
    <3>1. definitions[g + 1] \in Definition /\ definitions[g + 1] # <<>>
        BY <2>3 DEF WellFormed
    <3> QED
        BY <3>1 DEF Definition
  <2>5. ~Sooner(g + 1, 1, l)
    <3>1. g < g + 1
        BY <1>2
    <3> QED
        BY <2>3, <2>4, <3>1
  <2>6. l.group = g + 1 /\ l.at = 1
    <3> HIDE DEF g
    <3> QED
        BY <1>1, <1>2, <2>2, <2>5 DEF Sooner
  <2> QED
      BY <1>6, <2>6 DEF q
<1>7. CASE ~(p.event + 1 > L) /\ q.group = g /\ q.event = p.event + 1
  <2>1. p.event + 1 \in DOMAIN definitions[g]
    <3> HIDE DEF L, g
    <3> QED
        BY <1>2, <1>4, <1>7
  <2>2. ~Sooner(g, p.event + 1, l)
    <3>1. p.event < p.event + 1
        BY <1>2
    <3> QED
        BY <1>3, <2>1, <3>1
  <2>3. l.group = g /\ l.at = p.event + 1
    <3>1. g < l.group \/ (g = l.group /\ p.event < l.at)
        BY DEF SpotBefore
    <3> HIDE DEF g
    <3> QED
        BY <1>1, <1>2, <2>2, <3>1 DEF Sooner
  <2> QED
      BY <1>7, <2>3 DEF q
<1> QED
    BY <1>5, <1>6, <1>7

\* Each event is assigned to the place of its lines.
LEMMA PlacesAreOwn ==
    ASSUME NoSharedBorder, WellFormed(definitions), definitions \in Seq(Definition),
           NEW ls, Printed(ls), Laid(ls), NEW s,
           NEW c \in Seq(Elements(ls)), NEW f, Led(c, ls, s, f), Whole(c, ls, s)
    PROVE  \A n \in DOMAIN c : \A l \in c[n].value.of :
             Assigning(c)[n].group = l.group /\ Assigning(c)[n].event = l.at
<1> DEFINE K == Len(c)
           at == Assigning(c)
           Own(n) == \A l \in c[n].value.of : at[n].group = l.group /\ at[n].event = l.at
           S == {n \in 0..K : n = 0 \/ Own(n)}
<1>1. K \in Nat /\ DOMAIN c = 1..K
    OBVIOUS
<1>2. /\ \A n \in 0..K : at[n] \in Spots
      /\ at[0] = [group |-> 1, event |-> 0]
      /\ \A n \in 1..K : at[n] = NextPlace(at[n - 1], IsNew(c, n))
    BY <1>1, AssigningIsDefined
<1> HIDE DEF at, K
<1>3. 0 \in S
    BY <1>1
<1>4. ASSUME NEW n \in 1..K, n - 1 \in S PROVE n \in S
  <2>1. n - 1 \in 0..K /\ n \in 0..K /\ n \in DOMAIN c /\ (n # 1 => n - 1 \in 1..K /\ n - 1 \in DOMAIN c /\ n - 1 < n /\ n > 1)
      BY <1>1
  <2>2. PICK p \in Spots : p = at[n - 1]
      BY <1>2, <2>1
  <2>3. ASSUME NEW l \in c[n].value.of
        PROVE  at[n].group = l.group /\ at[n].event = l.at
    <3>1. Placed(l) /\ l.event = c[n].event
        BY <2>1 DEF Whole
    <3>2. l.group \in Nat /\ l.group # 0 /\ l.at \in Nat /\ l.at # 0
        BY <3>1, PlacedLines
    <3>3. p.group \in Nat /\ p.event \in Nat
        BY DEF Spots
    <3>4. CASE n = 1
      <4>1. p.group = 1 /\ p.event = 0
          BY <1>2, <2>2, <3>4
      <4>2. SpotBefore(p, l)
          BY <3>2, <4>1 DEF SpotBefore
      <4>3. ASSUME NEW g \in DOMAIN definitions, NEW a \in DOMAIN definitions[g], Sooner(g, a, l)
            PROVE  FALSE
        <5>1. \E d \in DOMAIN c : d < n /\ \E y \in c[d].value.of : y.group = g /\ y.at = a
            BY <2>1, <4>3, NoneIsSkipped
        <5> QED
            BY <1>1, <3>4, <5>1
      <4>4. NextPlace(p, 1).group = l.group /\ NextPlace(p, 1).event = l.at
          BY <3>1, <4>2, <4>3, NextPlaceIs
      <4>5. IsNew(c, n) = 1
          BY <3>4 DEF IsNew
      <4> QED
          BY <1>2, <2>2, <4>4, <4>5
    <3>5. CASE n # 1
      <4>1. n - 1 \in DOMAIN c /\ n - 1 < n /\ n > 1
          BY <2>1, <3>5
      <4>2. Own(n - 1)
          BY <1>4, <2>1, <3>5
      <4>3. PICK m : m \in c[n - 1].value.of
          BY <4>1 DEF Whole
      <4>4. p.group = m.group /\ p.event = m.at
          BY <2>2, <4>2, <4>3
      <4>5. Sooner(m.group, m.at, l)
          BY <2>1, <4>1, <4>3, EventsAscend
      <4>6. SpotBefore(p, l)
          BY <4>4, <4>5 DEF SpotBefore, Sooner
      <4>7. ASSUME NEW g \in DOMAIN definitions, NEW a \in DOMAIN definitions[g], Sooner(g, a, l)
            PROVE  ~(m.group < g \/ (m.group = g /\ m.at < a))
        <5>1. \E d \in DOMAIN c : d < n /\ \E y \in c[d].value.of : y.group = g /\ y.at = a
            BY <2>1, <4>7, NoneIsSkipped
        <5>2. PICK d \in DOMAIN c : d < n /\ \E y \in c[d].value.of : y.group = g /\ y.at = a
            BY <5>1
        <5>3. PICK y \in c[d].value.of : y.group = g /\ y.at = a
            BY <5>2
        <5>4. Placed(m) /\ Placed(y)
            BY <4>1, <4>3 DEF Whole
        <5>5. m.group \in Nat /\ m.at \in Nat /\ y.group \in Nat /\ y.at \in Nat
            BY <5>4, PlacedLines
        <5>6. CASE d = n - 1
          <6>1. SameSpot(m, y)
              BY <4>1, <4>3, <5>6 DEF Whole
          <6> QED
              BY <5>3, <5>5, <6>1 DEF SameSpot
        <5>7. CASE d < n - 1
          <6>1. Sooner(y.group, y.at, m)
              BY <4>1, <4>3, <5>7, EventsAscend
          <6> QED
              BY <5>3, <5>5, <6>1 DEF Sooner
        <5>8. d = n - 1 \/ d < n - 1
            BY <1>1, <5>2
        <5> QED
            BY <5>6, <5>7, <5>8
      <4>8. NextPlace(p, 1).group = l.group /\ NextPlace(p, 1).event = l.at
          BY <3>1, <4>4, <4>6, <4>7, NextPlaceIs
      <4>9. m.event = c[n - 1].event /\ Placed(m)
          BY <4>1, <4>3 DEF Whole
      <4>10. m.event # l.event
        <5> SUFFICES ASSUME m.event = l.event PROVE FALSE
            OBVIOUS
        <5>1. \E g \in DOMAIN definitions : \E a \in DOMAIN definitions[g] :
                Sooner(g, a, l) /\ (m.group < g \/ (m.group = g /\ m.at < a))
            BY <3>1, <4>5, <4>9, SpotBetween
        <5> QED
            BY <4>7, <5>1
      <4>11. IsNew(c, n) = 1
          BY <3>1, <4>9, <4>10 DEF IsNew
      <4> QED
          BY <1>2, <2>2, <4>8, <4>11
    <3> QED
        BY <3>4, <3>5
  <2> QED
      BY <2>1, <2>3
<1>5. \A n \in 0..K : n \in S
  <2> HIDE DEF S
  <2> QED
      BY <1>1, <1>3, <1>4, UpTo
<1>6. \A n \in 1..K : Own(n)
  <2>1. \A n \in 1..K : n \in 0..K /\ n # 0
      BY <1>1
  <2> QED
      BY <1>5, <2>1
<1> QED
    BY <1>1, <1>6 DEF at

-----------------------------------------------------------------------------
(* The frames.                                                             *)

\* The values of frame F are those of the lines of key s, each in the group and under the
\* event of its lines.
FrameOf(F, ls, s) ==
    /\ \A k \in DOMAIN F : \A e \in DOMAIN F[k] : \A l \in F[k][e].of :
         l.group = k /\ KeyOf(l) = s /\ \E n \in DOMAIN ls : l = ls[n]
    /\ \A n \in DOMAIN ls : KeyOf(ls[n]) = s =>
         /\ ls[n].group \in DOMAIN F /\ ls[n].event \in DOMAIN F[ls[n].group]
         /\ ls[n] \in F[ls[n].group][ls[n].event].of

\* A group has one element of an event.
LEMMA OneOfEvent ==
    ASSUME WellFormed(definitions), definitions \in Seq(Definition), NEW ls, NEW s, NEW c, Whole(c, ls, s),
           NEW n \in DOMAIN c, NEW m \in DOMAIN c, c[n].event = c[m].event,
           NEW l \in c[n].value.of, NEW x \in c[m].value.of, l.group = x.group
    PROVE  n = m
<1>1. Placed(l) /\ Placed(x) /\ l.event = x.event
    BY DEF Whole
<1>2. /\ l.group \in DOMAIN definitions
      /\ l.at \in DOMAIN definitions[l.group] /\ x.at \in DOMAIN definitions[l.group]
      /\ definitions[l.group][l.at] = definitions[l.group][x.at]
    BY <1>1 DEF Placed
<1>3. l.at = x.at
    BY <1>2, EventsOnce
<1>4. SameSpot(l, x)
    BY <1>3 DEF SameSpot
<1> QED
    BY <1>4 DEF Whole

LEMMA FrameHasLines ==
    ASSUME NoSharedBorder, WellFormed(definitions), definitions \in Seq(Definition),
           NEW ls, Printed(ls), Laid(ls), NEW s,
           NEW c \in Seq(Elements(ls)), c # <<>>, NEW f, Led(c, ls, s, f), Whole(c, ls, s)
    PROVE  FrameOf(Frame(c), ls, s)
<1> DEFINE K == Len(c)
           ids == AssignedGroups(c)
           Of(k) == {n \in DOMAIN c : ids[n] = k}
           Named(k, e) == {n \in Of(k) : c[n].event = e}
           F == Frame(c)
<1>1. K \in Nat /\ DOMAIN c = 1..K /\ K \in DOMAIN c
    OBVIOUS
<1>2. DOMAIN ids = DOMAIN c /\ \A n \in DOMAIN c : ids[n] = Assigning(c)[n].group
    BY DEF AssignedGroups
<1>3. Last(ids) = ids[K]
  <2>1. ids = [n \in 1..K |-> Assigning(c)[n].group]
      BY <1>1 DEF AssignedGroups
  <2>2. Len(ids) = K
      BY <1>1, <2>1
  <2> QED
      BY <2>2 DEF Last
<1>4. \A n \in DOMAIN c : \A l \in c[n].value.of : ids[n] = l.group
    BY <1>2, PlacesAreOwn
<1>5. /\ DOMAIN F = 1..ids[K]
      /\ \A k \in 1..ids[K] :
           /\ DOMAIN F[k] = {c[n].event : n \in Of(k)}
           /\ \A e \in DOMAIN F[k] : F[k][e] = c[Max(Named(k, e))].value
    BY <1>3 DEF Frame
<1> HIDE DEF F, K, ids
<1>6. \A n \in DOMAIN c : ids[n] \in 1..ids[K]
  <2> SUFFICES ASSUME NEW n \in DOMAIN c PROVE ids[n] \in 1..ids[K]
      OBVIOUS
  <2>1. PICK l \in c[n].value.of, m \in c[K].value.of : TRUE
      BY <1>1 DEF Whole
  <2>2. ids[n] = l.group /\ ids[K] = m.group
      BY <1>1, <1>4, <2>1
  <2>3. l.group \in Nat /\ l.group # 0 /\ m.group \in Nat
    <3>1. Placed(l) /\ Placed(m)
        BY <1>1 DEF Whole
    <3> QED
        BY <3>1, PlacedLines
  <2>4. l.group <= m.group
    <3>1. CASE n = K
        BY <2>2, <2>3, <3>1
    <3>2. CASE n < K
      <4>1. Sooner(l.group, l.at, m)
          BY <1>1, <3>2, EventsAscend
      <4> QED
          BY <2>3, <4>1 DEF Sooner
    <3> QED
        BY <1>1, <3>1, <3>2
  <2> QED
      BY <2>2, <2>3, <2>4
<1>7. ASSUME NEW n \in DOMAIN c PROVE Max(Named(ids[n], c[n].event)) = n
  <2>1. n \in Named(ids[n], c[n].event)
      OBVIOUS
  <2>2. \A m \in Named(ids[n], c[n].event) : m = n
    <3> SUFFICES ASSUME NEW m \in DOMAIN c, ids[m] = ids[n], c[m].event = c[n].event PROVE m = n
        OBVIOUS
    <3>1. PICK l \in c[n].value.of, x \in c[m].value.of : TRUE
        BY DEF Whole
    <3>2. l.group = x.group
        BY <1>4
    <3> QED
        BY <3>2, OneOfEvent
  <2>3. n >= n
      BY <1>1
  <2> HIDE DEF Named
  <2>4. Named(ids[n], c[n].event) = {n}
      BY <2>1, <2>2
  <2> QED
      BY <2>3, <2>4 DEF Max
<1>8. \A n \in DOMAIN c :
        /\ ids[n] \in DOMAIN F /\ c[n].event \in DOMAIN F[ids[n]]
        /\ F[ids[n]][c[n].event] = c[n].value
  <2> SUFFICES ASSUME NEW n \in DOMAIN c
               PROVE  /\ ids[n] \in DOMAIN F /\ c[n].event \in DOMAIN F[ids[n]]
                      /\ F[ids[n]][c[n].event] = c[n].value
      OBVIOUS
  <2>1. ids[n] \in 1..ids[K] /\ n \in Of(ids[n])
      BY <1>6
  <2>2. c[n].event \in DOMAIN F[ids[n]]
      BY <1>5, <2>1
  <2> HIDE DEF Named, Of
  <2> QED
      BY <1>5, <1>7, <2>1, <2>2
<1>9. ASSUME NEW k \in DOMAIN F, NEW e \in DOMAIN F[k], NEW l \in F[k][e].of
      PROVE  l.group = k /\ KeyOf(l) = s /\ \E n \in DOMAIN ls : l = ls[n]
  <2>1. PICK n \in DOMAIN c : ids[n] = k /\ c[n].event = e
      BY <1>5
  <2>2. l \in c[n].value.of
      BY <1>8, <2>1
  <2> QED
      BY <1>4, <2>1, <2>2 DEF Whole
<1>10. ASSUME NEW n \in DOMAIN ls, KeyOf(ls[n]) = s
       PROVE  /\ ls[n].group \in DOMAIN F /\ ls[n].event \in DOMAIN F[ls[n].group]
              /\ ls[n] \in F[ls[n].group][ls[n].event].of
  <2>1. PICK k \in DOMAIN c : ls[n] \in c[k].value.of
      BY <1>10 DEF Whole
  <2>2. ls[n].event = c[k].event
      BY <2>1 DEF Whole
  <2>3. ids[k] = ls[n].group
      BY <1>4, <2>1
  <2> QED
      BY <1>8, <2>1, <2>2, <2>3
<1>11. FrameOf(F, ls, s)
    BY <1>9, <1>10 DEF FrameOf
<1> QED
    BY <1>11 DEF F

\* The frames fs have each of the lines ls in one value, as FramesFaithful says.
Faithful(fs, ls) ==
    /\ \A n \in DOMAIN fs : \A k \in DOMAIN fs[n] : \A e \in DOMAIN fs[n][k] :
          \A l \in fs[n][k][e].of : l.group = k
    /\ \A n \in DOMAIN ls :
          Cardinality({p \in (DOMAIN fs) \X (DOMAIN definitions) :
                         /\ p[2] \in DOMAIN fs[p[1]]
                         /\ ls[n].event \in DOMAIN fs[p[1]][p[2]]
                         /\ ls[n] \in fs[p[1]][p[2]][ls[n].event].of}) = 1
    /\ \A n \in DOMAIN fs : \A k, d \in DOMAIN fs[n] :
          \A e \in DOMAIN fs[n][k], x \in DOMAIN fs[n][d] :
             \A l \in fs[n][k][e].of, m \in fs[n][d][x].of : KeyOf(l) = KeyOf(m)

\* The keys of the buckets that have lines.
FoundKeys(ls) == {s \in Keys : Bucketing(ls)[Len(ls)].list[s] # <<>>}

LEMMA FramesHaveLines ==
    ASSUME NoSharedBorder, WellFormed(definitions), definitions \in Seq(Definition),
           NEW ls, Printed(ls), Laid(ls), NEW s \in FoundKeys(ls)
    PROVE  FrameOf(Frame(AggregateUncoreEvents(Bucketing(ls)[Len(ls)].list[s])), ls, s)
<1>1. PICK b : b = Bucketing(ls)[Len(ls)].list[s]
    OBVIOUS
<1>2. s \in Keys /\ b # <<>>
    BY <1>1 DEF FoundKeys
<1>3. b \in Seq(Elements(ls)) /\ Filled(b, ls, s, Len(ls))
  <2>1. Len(ls) \in 0..Len(ls)
      BY DEF Printed
  <2> QED
      BY <1>1, <1>2, <2>1, BucketsAreFilled
<1>4. Uniform(b)
    BY <1>1, <1>2, BucketsAreUniform
<1>5. PICK c : c = AggregateUncoreEvents(b)
    OBVIOUS
<1>6. c \in Seq(Elements(ls)) /\ c # <<>> /\ \E f : Led(c, ls, s, f)
    BY <1>2, <1>3, <1>5, EventsAreLed
<1>7. Whole(c, ls, s)
    BY <1>3, <1>4, <1>5, EventsAreWhole
<1>8. PICK f : Led(c, ls, s, f)
    BY <1>6
<1>9. FrameOf(Frame(c), ls, s)
    BY <1>6, <1>7, <1>8, FrameHasLines
<1> QED
    BY <1>1, <1>5, <1>9

\* Frames that have the lines of keys of their own, all keys of lines among them.
LEMMA FramesAreOfKeys ==
    ASSUME definitions \in Seq(Definition), NEW ls, Printed(ls), NEW fs, NEW key,
           \A n \in DOMAIN fs : FrameOf(fs[n], ls, key[n]),
           \A m, n \in DOMAIN fs : key[m] = key[n] => m = n,
           \A n \in DOMAIN ls : \E k \in DOMAIN fs : key[k] = KeyOf(ls[n])
    PROVE  Faithful(fs, ls)
<1>1. ASSUME NEW n \in DOMAIN fs, NEW k \in DOMAIN fs[n], NEW e \in DOMAIN fs[n][k], NEW l \in fs[n][k][e].of
      PROVE  l.group = k /\ KeyOf(l) = key[n]
    BY DEF FrameOf
<1>2. ASSUME NEW n \in DOMAIN ls
      PROVE  Cardinality({p \in (DOMAIN fs) \X (DOMAIN definitions) :
                            /\ p[2] \in DOMAIN fs[p[1]]
                            /\ ls[n].event \in DOMAIN fs[p[1]][p[2]]
                            /\ ls[n] \in fs[p[1]][p[2]][ls[n].event].of}) = 1
  <2> DEFINE l == ls[n]
             P == {p \in (DOMAIN fs) \X (DOMAIN definitions) :
                     /\ p[2] \in DOMAIN fs[p[1]]
                     /\ l.event \in DOMAIN fs[p[1]][p[2]]
                     /\ l \in fs[p[1]][p[2]][l.event].of}
  <2>1. PICK k \in DOMAIN fs : key[k] = KeyOf(l)
      OBVIOUS
  <2>2. /\ l.group \in DOMAIN fs[k] /\ l.event \in DOMAIN fs[k][l.group]
        /\ l \in fs[k][l.group][l.event].of
      BY <2>1 DEF FrameOf
  <2>3. l.group \in DOMAIN definitions
      BY DEF Printed
  <2>4. <<k, l.group>> \in P
      BY <2>2, <2>3
  <2>5. ASSUME NEW p \in P PROVE p = <<k, l.group>>
    <3>1. /\ p = <<p[1], p[2]>> /\ p[1] \in DOMAIN fs /\ p[2] \in DOMAIN fs[p[1]]
          /\ l.event \in DOMAIN fs[p[1]][p[2]] /\ l \in fs[p[1]][p[2]][l.event].of
        OBVIOUS
    <3>2. l.group = p[2] /\ KeyOf(l) = key[p[1]]
        BY <1>1, <3>1
    <3>3. p[1] = k
        BY <2>1, <3>1, <3>2
    <3> QED
        BY <3>1, <3>2, <3>3
  <2> HIDE DEF P
  <2>6. P = {<<k, l.group>>}
      BY <2>4, <2>5
  <2>7. Cardinality(P) = 1
      BY <2>6, FS_Singleton
  <2> QED
      BY <2>7 DEF P
<1>3. \A n \in DOMAIN fs : \A k, d \in DOMAIN fs[n] :
        \A e \in DOMAIN fs[n][k], x \in DOMAIN fs[n][d] :
           \A l \in fs[n][k][e].of, m \in fs[n][d][x].of : KeyOf(l) = KeyOf(m)
    BY <1>1
<1> QED
    BY <1>1, <1>2, <1>3 DEF Faithful

\* The frames of the lines of an interval.
FramesOf(ls) ==
    LET buckets == BucketEvents(ls)
        events  == [k \in DOMAIN buckets |-> AggregateUncoreEvents(buckets[k])]
    IN  [k \in DOMAIN events |-> Frame(events[k])]

LEMMA FramesOfLinesFaithful ==
    ASSUME NoSharedBorder, WellFormed(definitions), definitions \in Seq(Definition),
           NEW ls, Printed(ls), Laid(ls)
    PROVE  Faithful(FramesOf(ls), ls)
<1> DEFINE list == Bucketing(ls)[Len(ls)].list
           S == FoundKeys(ls)
           key == Indices(S)
           fs == FramesOf(ls)
<1>1. S \in SUBSET Nat /\ IsFiniteSet(S) /\ S \in SUBSET Keys
  <2>1. S \in SUBSET Keys
      BY DEF FoundKeys
  <2> HIDE DEF S
  <2> QED
      BY <2>1, KeysFinite, KeysAreNumbers, FS_Subset
<1>2. /\ DOMAIN key = 1..Cardinality(S)
      /\ \A n \in DOMAIN key : key[n] \in S
      /\ \A m, n \in DOMAIN key : key[m] = key[n] => m = n
      /\ \A s \in S : \E n \in DOMAIN key : key[n] = s
  <2>1. DOMAIN key = 1..Cardinality(S)
      BY DEF Indices
  <2> HIDE DEF S
  <2> QED
      BY <1>1, <2>1, IndicesAreAll
<1>3. DOMAIN fs = DOMAIN key /\ \A n \in DOMAIN key : fs[n] = Frame(AggregateUncoreEvents(list[key[n]]))
  <2>1. BucketEvents(ls) = [n \in DOMAIN key |-> list[key[n]]]
      BY DEF BucketEvents, FoundKeys
  <2> HIDE DEF key, list
  <2> QED
      BY <2>1 DEF FramesOf
<1> HIDE DEF fs, S, key
<1>4. \A n \in DOMAIN fs : FrameOf(fs[n], ls, key[n])
    BY <1>2, <1>3, FramesHaveLines DEF S
<1>5. \A n \in DOMAIN ls : \E k \in DOMAIN fs : key[k] = KeyOf(ls[n])
  <2> SUFFICES ASSUME NEW n \in DOMAIN ls PROVE \E k \in DOMAIN fs : key[k] = KeyOf(ls[n])
      OBVIOUS
  <2>1. PICK s \in Keys : s = KeyOf(ls[n])
      BY DEF Printed
  <2>2. Len(ls) \in 0..Len(ls) /\ DOMAIN ls = 1..Len(ls)
      BY DEF Printed
  <2>3. Filled(list[s], ls, s, Len(ls))
      BY <2>2, BucketsAreFilled
  <2>4. list[s] # <<>>
    <3> HIDE DEF list
    <3> QED
        BY <2>1, <2>2, <2>3 DEF Filled
  <2>5. s \in S
      BY <2>4 DEF S, FoundKeys
  <2> QED
      BY <1>2, <1>3, <2>1, <2>5
<1>6. \A m, n \in DOMAIN fs : key[m] = key[n] => m = n
    BY <1>2, <1>3
<1> HIDE DEF list
<1>7. Faithful(fs, ls)
    BY ONLY <1>4, <1>5, <1>6, definitions \in Seq(Definition), Printed(ls), FramesAreOfKeys
<1> QED
    BY <1>7 DEF fs

-----------------------------------------------------------------------------
(* The frames are faithful to the lines.                                   *)

LEMMA FaithfulIs == FramesFaithful <=> (NoSharedBorder => Faithful(frames, lines))
<1>1. EventsInOwnGroup <=>
        \A n \in DOMAIN frames : \A k \in DOMAIN frames[n] : \A e \in DOMAIN frames[n][k] :
          \A l \in frames[n][k][e].of : l.group = k
    BY DEF EventsInOwnGroup
<1>2. (\A n \in DOMAIN lines : Cardinality(PlacesOf(lines[n])) = 1) <=>
        \A n \in DOMAIN lines :
          Cardinality({p \in (DOMAIN frames) \X (DOMAIN definitions) :
                         /\ p[2] \in DOMAIN frames[p[1]]
                         /\ lines[n].event \in DOMAIN frames[p[1]][p[2]]
                         /\ lines[n] \in frames[p[1]][p[2]][lines[n].event].of}) = 1
    BY DEF PlacesOf
<1> QED
    BY <1>1, <1>2 DEF FramesFaithful, Faithful

\* The inductive invariant: the groups are as perf is given them, and the frames of the last
\* interval are faithful to its lines.
FaithfulInv ==
    /\ mode # "none" => WellFormed(definitions)
    /\ mode = "none" => frames = <<>> /\ lines = <<>>
    /\ FramesFaithful

LEMMA FaithfulInit == FramesInit => FaithfulInv
<1> SUFFICES ASSUME FramesInit PROVE FaithfulInv
    OBVIOUS
<1>1. mode = "none" /\ frames = <<>> /\ lines = <<>>
    BY DEF FramesInit
<1>2. Faithful(<<>>, <<>>)
    BY DEF Faithful
<1> QED
    BY <1>1, <1>2, FaithfulIs DEF FaithfulInv

LEMMA FaithfulStays ==
    ASSUME FramesFaithful, UNCHANGED <<mode, definitions, frames, lines>>
    PROVE  FramesFaithful'
BY DEF FramesFaithful, EventsInOwnGroup, PlacesOf, KeyOf, NoSharedBorder

LEMMA FaithfulStep ==
    GroupsInv /\ UncoreInv /\ HasEventsInv /\ LayoutInv /\ FaithfulInv
        /\ [FramesNext]_<<vars, frameVars>> => FaithfulInv'
<1> SUFFICES ASSUME GroupsInv, UncoreInv, HasEventsInv, LayoutInv, FaithfulInv,
                    [FramesNext]_<<vars, frameVars>>
             PROVE  FaithfulInv'
    OBVIOUS
<1>1. CASE UNCHANGED <<mode, definitions, frames, lines>>
  <2>1. FramesFaithful'
      BY <1>1, FaithfulStays DEF FaithfulInv
  <2> QED
      BY <1>1, <2>1 DEF FaithfulInv, WellFormed
<1>2. CASE StartPerf
  <2>1. /\ stage = "done" /\ mode = "none" /\ definitions' = LoadedDefinitions /\ mode' \in Modes
        /\ frames' = frames /\ lines' = lines
      BY <1>2 DEF StartPerf
  <2>2. mode' # "none"
      BY <2>1, FramesAssumption DEF Mode
  <2>3. WellFormed(definitions')
      BY <2>1, LoadedWellFormed
  <2>4. frames' = <<>> /\ lines' = <<>>
      BY <2>1 DEF FaithfulInv
  <2>5. FramesFaithful'
      BY <2>4 DEF FramesFaithful, EventsInOwnGroup
  <2> QED
      BY <2>2, <2>3, <2>5 DEF FaithfulInv, WellFormed
<1>3. CASE Interval
  <2>1. mode # "none"
      BY <1>3 DEF Interval
  <2>2. PICK counted \in SUBSET DOMAIN definitions,
             idle \in SUBSET (IF mode = "cgroup" THEN 1..Cgroups ELSE {}) :
             \E n \in DOMAIN counters :
                ProcessEvents([k \in DOMAIN counters |-> Line(counters[k], counted, idle)], n)
      BY <1>3 DEF Interval
  <2> DEFINE all == [k \in DOMAIN counters |-> Line(counters[k], counted, idle)]
  <2>3. PICK n \in DOMAIN counters : ProcessEvents(all, n)
      BY <2>2
  <2>4. PICK ls : ls = SubSeq(all, 1, n)
      OBVIOUS
  <2>5. PrintedAt(ls)
      BY <2>1, <2>4, LinesOfCounters
  <2> HIDE DEF all
  <2>6. Printed(ls) /\ Laid(ls) /\ definitions \in Seq(Definition) /\ WellFormed(definitions)
    <3>1. definitions \in Seq(Definition) /\ WellFormed(definitions)
        BY <2>1 DEF LayoutInv, FaithfulInv
    <3> QED
        BY <2>1, <2>5, <3>1, LinesArePrinted, LinesAreLaid
  <2> DEFINE buckets == BucketEvents(ls)
             events  == [k \in DOMAIN buckets |-> AggregateUncoreEvents(buckets[k])]
  <2>7. ~\E k \in DOMAIN events : Misaligned(events[k])
      BY <2>6, NoneMisaligned
  <2>8. lines' = ls /\ frames' = FramesOf(ls) /\ definitions' = definitions /\ mode' = mode
      BY <2>3, <2>4, <2>7 DEF ProcessEvents, FramesOf
  <2>9. NoSharedBorder => Faithful(FramesOf(ls), ls)
      BY <2>6, FramesOfLinesFaithful
  <2>10. (NoSharedBorder => Faithful(frames, lines))'
      BY <2>8, <2>9 DEF NoSharedBorder, Faithful, KeyOf
  <2>11. FramesFaithful'
      BY <2>10, FaithfulIs, PTL
  <2> QED
      BY <2>1, <2>6, <2>8, <2>11 DEF FaithfulInv, WellFormed
<1>4. CASE Load
    BY <1>1, <1>4 DEF Load, frameVars
<1>5. CASE UNCHANGED <<vars, frameVars>>
    BY <1>1, <1>5 DEF frameVars
<1> QED
    BY <1>2, <1>3, <1>4, <1>5 DEF FramesNext

\* Between two groups that share no border every line that perf prints is added to one
\* value, that of its event in the group in which perf has counted it, and a frame has the
\* values of one socket, CPU or cgroup: for all groups that the loader forms, all CPUs,
\* sockets, devices and cgroups, and wherever the output of perf ends (GetEventFrames).
THEOREM FramesAreFaithful == FramesSpec => []FramesFaithful
<1>1. FaithfulInv => FramesFaithful
    BY DEF FaithfulInv
<1> QED
    BY <1>1, LoaderAlways, LayoutAlways, FaithfulInit, FaithfulStep, PTL DEF FramesSpec
=============================================================================
