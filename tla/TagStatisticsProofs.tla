------------------------ MODULE TagStatisticsProofs ------------------------
(***************************************************************************)
(* Proofs about AlertTags and TagStatistics, for all combinations of tags. *)
(***************************************************************************)
EXTENDS TagStatistics, FiniteSetTheorems, WellFoundedInduction, TLAPS

-----------------------------------------------------------------------------
(* The order of combinations.                                              *)

\* A set of numbers that is not empty has a least one.
LEMMA LeastNumber ==
  ASSUME NEW T \in SUBSET Nat, T # {}
  PROVE  \E x \in T : \A y \in T : x <= y
<1> DEFINE R == OpToRel(<, Nat)
<1>1. IsWellFoundedOn(R, Nat)
  BY NatLessThanWellFounded
<1>2. \A x, y \in Nat : <<x, y>> \in R <=> x < y
  BY DEF OpToRel
<1> HIDE DEF R
<1>3. \E x \in T : \A y \in T : ~ (<<y, x>> \in R)
  BY <1>1, WFMin
<1>4. \A x, y \in Nat : ~ (<<y, x>> \in R) => x <= y
  BY <1>2
<1> QED
  BY <1>3, <1>4

\* The tags of a combination are numbers.
LEMMA TagIsNumber ==
  \A t \in AlertTags : t \in [Fields -> 0 .. 10] /\ \A k \in Fields : t[k] \in Nat
<1>1. AlertTags \subseteq [Fields -> 0 .. 10]
  BY DEF AlertTags
<1> QED
  BY <1>1

\* Of two combinations that differ in a field, one is less (the end of operator<,
\* AlertTags.cpp 219, is reached for equal ones only).
THEOREM LessTotal ==
  ASSUME NEW t \in AlertTags, NEW u \in AlertTags, t # u
  PROVE  Less(t, u) \/ Less(u, t)
<1> DEFINE T == {k \in Fields : t[k] # u[k]}
<1>1. T \in SUBSET Nat
  BY DEF Fields
<1>2. T # {}
  BY TagIsNumber
<1>3. PICK k \in T : \A j \in T : k <= j
  BY <1>1, <1>2, LeastNumber
<1>4. k \in Fields /\ k \in 1 .. 12 /\ t[k] # u[k]
  BY <1>3 DEF Fields
<1>5. \A j \in 1 .. k - 1 : j \in Fields /\ ~ (k <= j)
  BY <1>4 DEF Fields
<1>6. \A j \in 1 .. k - 1 : t[j] = u[j]
  BY <1>3, <1>5
<1>7. t[k] < u[k] \/ u[k] < t[k]
  BY <1>4, TagIsNumber
<1> QED
  BY <1>4, <1>6, <1>7 DEF Less

\* No combination is less than itself, or than one that is less than it.
THEOREM LessIrreflexive ==
  ASSUME NEW t \in AlertTags
  PROVE  ~ Less(t, t)
BY TagIsNumber DEF Less

\* operator< is transitive, as std::map requires (AlertTags.cpp 173-221).
THEOREM LessTransitive ==
  ASSUME NEW t \in AlertTags, NEW u \in AlertTags, NEW w \in AlertTags,
         Less(t, u), Less(u, w)
  PROVE  Less(t, w)
<1>1. PICK a \in Fields : t[a] < u[a] /\ \A j \in 1 .. a - 1 : t[j] = u[j]
  BY DEF Less
<1>2. PICK b \in Fields : u[b] < w[b] /\ \A j \in 1 .. b - 1 : u[j] = w[j]
  BY DEF Less
<1>3. a \in 1 .. 12 /\ b \in 1 .. 12
  BY DEF Fields
<1>4. \A k \in Fields : t[k] \in Nat /\ u[k] \in Nat /\ w[k] \in Nat
  BY TagIsNumber
<1>5. CASE a < b
  <2>1. t[a] < w[a]
    BY <1>1, <1>2, <1>3, <1>5
  <2>2. \A j \in 1 .. a - 1 : t[j] = w[j]
    BY <1>1, <1>2, <1>3, <1>5
  <2> QED
    BY <2>1, <2>2 DEF Less
<1>6. CASE a = b
  <2>1. t[a] < w[a]
    BY <1>1, <1>2, <1>4, <1>6
  <2>2. \A j \in 1 .. a - 1 : t[j] = w[j]
    BY <1>1, <1>2, <1>6
  <2> QED
    BY <2>1, <2>2 DEF Less
<1>7. CASE b < a
  <2>1. t[b] < w[b]
    BY <1>1, <1>2, <1>3, <1>7
  <2>2. \A j \in 1 .. b - 1 : t[j] = w[j]
    BY <1>1, <1>2, <1>3, <1>7
  <2> QED
    BY <2>1, <2>2 DEF Less
<1> QED
  BY <1>3, <1>5, <1>6, <1>7

\* A std::map under operator< finds a combination under itself and no other.
LEMMA KeyIsTheCombination ==
  ASSUME NEW m, DOMAIN m \subseteq AlertTags, NEW t \in AlertTags
  PROVE  KeyOf(m, t) = t
<1>1. \A u \in Found(m, t) : u = t
  BY LessTotal DEF Found
<1> QED
  BY <1>1 DEF KeyOf

-----------------------------------------------------------------------------
(* The ids of tags.                                                        *)

\* The two tables, entry by entry.
LEMMA Tables ==
  /\ Count[1] = 2 /\ Count[2] = 4 /\ Count[3] = 11 /\ Count[4] = 7 /\ Count[5] = 5
  /\ Count[6] = 5 /\ Count[7] = 3 /\ Count[8] = 3 /\ Count[9] = 3 /\ Count[10] = 3
  /\ Count[11] = 3 /\ Count[12] = 3
  /\ FirstId[1] = 1 /\ FirstId[2] = 3 /\ FirstId[3] = 7 /\ FirstId[4] = 18
  /\ FirstId[5] = 25 /\ FirstId[6] = 30 /\ FirstId[7] = 35 /\ FirstId[8] = 38
  /\ FirstId[9] = 41 /\ FirstId[10] = 47 /\ FirstId[11] = 44 /\ FirstId[12] = 50
BY DEF Count, FirstId

LEMMA FieldCases ==
  ASSUME NEW k \in Fields
  PROVE  \/ k = 1 \/ k = 2 \/ k = 3 \/ k = 4 \/ k = 5 \/ k = 6
         \/ k = 7 \/ k = 8 \/ k = 9 \/ k = 10 \/ k = 11 \/ k = 12
BY DEF Fields

\* Every tag has an id of its own, and all are bits of a bitmap.
LEMMA IdsDistinct ==
  ASSUME NEW t \in AlertTags, NEW u \in AlertTags, NEW k \in Fields, NEW l \in Fields
  PROVE  /\ Id(k, t[k]) \in 1 .. 52
         /\ Id(k, t[k]) = Id(l, u[l]) => k = l /\ t[k] = u[k]
<1>1. t[k] \in Nat /\ t[k] < Count[k]
  BY TagIsNumber DEF AlertTags
<1>2. u[l] \in Nat /\ u[l] < Count[l]
  BY TagIsNumber DEF AlertTags
<1>3. Id(k, t[k]) = FirstId[k] + t[k] /\ Id(l, u[l]) = FirstId[l] + u[l]
  BY DEF Id
<1> DEFINE x == t[k]
           y == u[l]
<1>4. x \in Nat /\ x < Count[k] /\ y \in Nat /\ y < Count[l]
  BY <1>1, <1>2
<1>5. (x = y /\ k = l) => t[k] = u[k]
  OBVIOUS
<1> HIDE DEF x, y
<1>6. FirstId[k] + x \in 1 .. 52
  BY <1>4, FieldCases, Tables
<1>7. FirstId[k] + x = FirstId[l] + y => k = l /\ x = y
  BY <1>4, FieldCases, Tables, SMTT(60)
<1> QED
  BY <1>3, <1>5, <1>6, <1>7 DEF x, y

\* The ids of a combination come back from its bitmap, twelve of them.
LEMMA BitmapKeepsIds ==
  ASSUME NEW t \in AlertTags
  PROVE  /\ bitmaskToTags(convertToBitmask(convertAlert(t))) = convertAlert(t)
         /\ Cardinality(convertAlert(t)) = 12
<1>1. convertAlert(t) \subseteq 0 .. 63
  <2>1. \A k \in Fields : Id(k, t[k]) \in 1 .. 52
    BY IdsDistinct
  <2> QED
    BY <2>1 DEF convertAlert
<1>2. bitmaskToTags(convertToBitmask(convertAlert(t))) = convertAlert(t)
  BY <1>1 DEF bitmaskToTags, convertToBitmask
<1> DEFINE f == [k \in Fields |-> Id(k, t[k])]
           S == {f[k] : k \in Fields}
<1>3. S = convertAlert(t)
  BY DEF convertAlert
<1>4. IsFiniteSet(Fields) /\ Cardinality(Fields) = 12
  <2>1. IsFiniteSet(1 .. 12) /\ Cardinality(1 .. 12) = IF 1 > 12 THEN 0 ELSE 12 - 1 + 1
    BY FS_Interval, 1 \in Int, 12 \in Int
  <2> QED
    BY <2>1 DEF Fields
<1>5. f \in Injection(Fields, S)
  <2>1. \A k, l \in Fields : f[k] = f[l] => k = l
    BY IdsDistinct
  <2>2. f \in [Fields -> S]
    OBVIOUS
  <2> QED
    BY <2>1, <2>2 DEF Injection, IsInjective
<1>6. f \in Surjection(Fields, S)
  BY DEF Surjection
<1>7. ExistsBijection(Fields, S)
  BY <1>5, <1>6 DEF ExistsBijection, Bijection
<1>8. Cardinality(S) = Cardinality(Fields)
  BY <1>4, <1>7, FS_Bijection
<1> QED
  BY <1>2, <1>3, <1>4, <1>8

\* Two combinations with the same bitmap are the same.
LEMMA BitmapTells ==
  ASSUME NEW t \in AlertTags, NEW u \in AlertTags,
         convertToBitmask(convertAlert(t)) = convertToBitmask(convertAlert(u))
  PROVE  t = u
<1>1. convertAlert(t) = convertAlert(u)
  BY BitmapKeepsIds
<1>2. \A k \in Fields : t[k] = u[k]
  <2> SUFFICES ASSUME NEW k \in Fields
               PROVE  t[k] = u[k]
    OBVIOUS
  <2>1. Id(k, t[k]) \in convertAlert(u)
    BY <1>1 DEF convertAlert
  <2>2. PICK l \in Fields : Id(k, t[k]) = Id(l, u[l])
    BY <2>1 DEF convertAlert
  <2> QED
    BY <2>2, IdsDistinct
<1> QED
  BY <1>2, TagIsNumber

-----------------------------------------------------------------------------
(* The statistics.                                                         *)

KeysInv == DOMAIN alertSpecificStats_ \subseteq AlertTags

\* A step asks with combinations of AlertTags only.
LEMMA KeysKept ==
  ASSUME KeysInv, [Next]_vars
  PROVE  KeysInv'
<1> USE AlertsAssumption
<1>1. ASSUME NEW t \in Alerts, NEW o \in Outcomes, updateStats(t, o)
      PROVE  KeysInv'
  <2>1. KeyOf(alertSpecificStats_, t) = t
    BY KeyIsTheCombination DEF KeysInv
  <2>2. DOMAIN alertSpecificStats_' = DOMAIN alertSpecificStats_ \cup {t}
    BY <1>1, <2>1 DEF updateStats, updateStatsMap, With
  <2> QED
    BY <2>2 DEF KeysInv
<1>2. ASSUME NEW t \in Alerts, alertSpecificStats(t)
      PROVE  KeysInv'
  <2>1. KeyOf(alertSpecificStats_, t) = t
    BY KeyIsTheCombination DEF KeysInv
  <2>2. DOMAIN alertSpecificStats_' = DOMAIN alertSpecificStats_ \cup {t}
    BY <1>2, <2>1 DEF alertSpecificStats, checkStatsMap, With
  <2> QED
    BY <2>2 DEF KeysInv
<1>3. ASSUME UNCHANGED alertSpecificStats_
      PROVE  KeysInv'
  BY <1>3 DEF KeysInv
<1> QED
  BY <1>1, <1>2, <1>3 DEF Next, vars, statVars, singleTagStats, logAllTagStats, post, get

\* Asking leaves what a map answers as it was.
LEMMA CheckKeepsAnswers ==
  ASSUME NEW m, NEW key, NEW other
  PROVE  StatsAt(checkStatsMap(m, key), other) = StatsAt(m, other)
BY DEF StatsAt, checkStatsMap, With

\* Statistics are only kept of combinations of AlertTags.
THEOREM KeysAreTags == Spec => []KeysInv
<1>1. Init => KeysInv
  BY DEF Init, KeysInv
<1>2. KeysInv /\ [Next]_vars => KeysInv'
  BY KeysKept
<1> QED
  BY <1>1, <1>2, PTL DEF Spec

\* Combinations with statistics of their own have bitmaps of their own.
THEOREM BitmapsUnique == Spec => []CombinationsUnique
<1>1. KeysInv => CombinationsUnique
  BY BitmapKeepsIds, BitmapTells DEF KeysInv, CombinationsUnique
<1> QED
  BY <1>1, KeysAreTags, PTL

-----------------------------------------------------------------------------
(* Sums over finite sets, as SumFunction folds them.                       *)

\* Among finite sets there is one that leaves the others when it loses an element.
LEMMA SmallestSet ==
  ASSUME NEW S, IsFiniteSet(S), NEW bad \in SUBSET SUBSET S, bad # {}
  PROVE  \E s \in bad : \A x \in s : s \ {x} \notin bad
<1>1. \A s \in bad : IsFiniteSet(s) /\ Cardinality(s) \in Nat
  BY FS_Subset, FS_CardinalityType
<1> DEFINE sizes == {Cardinality(s) : s \in bad}
<1>2. sizes \in SUBSET Nat /\ sizes # {}
  BY <1>1
<1>3. PICK n \in sizes : \A k \in sizes : n <= k
  <2> HIDE DEF sizes
  <2> QED
    BY <1>2, LeastNumber
<1>4. PICK s \in bad : Cardinality(s) = n
  BY <1>3
<1>5. ASSUME NEW x \in s, s \ {x} \in bad PROVE FALSE
  <2>1. Cardinality(s \ {x}) = Cardinality(s) - 1
    BY <1>1, FS_RemoveElement
  <2>2. n <= Cardinality(s \ {x})
    BY <1>3, <1>5
  <2> QED
    BY <1>1, <1>4, <2>1, <2>2
<1> QED
  BY <1>5

Chosen(s) == CHOOSE x \in s : TRUE

\* The recursion of a fold, with its operator as a function.
Folded(g, op, base, f, s) ==
  IF s = {} THEN base ELSE op[<<f[Chosen(s)], g[s \ {Chosen(s)}]>>]

IsFold(g, op, base, f, S, V) ==
  g \in [SUBSET S -> V] /\ \A s \in SUBSET S : g[s] = Folded(g, op, base, f, s)

\* A function that obeys the recursion exists.
LEMMA FoldExists ==
  ASSUME NEW S, IsFiniteSet(S), NEW V, NEW base \in V, NEW f \in [S -> V],
         NEW op \in [V \X V -> V]
  PROVE  \E g : IsFold(g, op, base, f, S, V)
<1> DEFINE Part(n) == {s \in SUBSET S : Cardinality(s) <= n}
           Works(n) == \E g \in [Part(n) -> V] : \A s \in Part(n) : g[s] = Folded(g, op, base, f, s)
           bad == {n \in Nat : ~Works(n)}
<1>1. \A s \in SUBSET S : IsFiniteSet(s) /\ Cardinality(s) \in Nat
  BY FS_Subset, FS_CardinalityType
<1>2. \A s \in SUBSET S : s # {} => /\ Chosen(s) \in s /\ s \ {Chosen(s)} \in SUBSET S
                                    /\ Cardinality(s \ {Chosen(s)}) = Cardinality(s) - 1
  BY <1>1, FS_RemoveElement DEF Chosen
<1>3. bad = {}
  <2>1. SUFFICES ASSUME bad # {} PROVE FALSE
    OBVIOUS
  <2>2. PICK n \in bad : \A k \in bad : n <= k
    <3>1. bad \in SUBSET Nat
      OBVIOUS
    <3> HIDE DEF bad
    <3> QED
      BY <2>1, <3>1, LeastNumber
  <2>3. n \in Nat /\ ~Works(n)
    BY <2>2
  <2>4. CASE n = 0
    <3> DEFINE g == [s \in Part(0) |-> base]
    <3>1. \A s \in Part(0) : s = {}
      BY <1>1, FS_EmptySet
    <3>2. g \in [Part(0) -> V] /\ \A s \in Part(0) : g[s] = Folded(g, op, base, f, s)
      BY <3>1 DEF Folded
    <3> QED
      BY <2>3, <2>4, <3>2
  <2>5. CASE n # 0
    <3>1. n - 1 \in Nat /\ Works(n - 1)
      <4>1. n - 1 \in Nat /\ ~(n <= n - 1)
        BY <2>3, <2>5
      <4>2. n - 1 \notin bad
        BY <2>2, <4>1
      <4> QED
        BY <4>1, <4>2
    <3>2. PICK g \in [Part(n - 1) -> V] :
            \A s \in Part(n - 1) : g[s] = Folded(g, op, base, f, s)
      BY <3>1
    <3> DEFINE new == [s \in Part(n) |-> Folded(g, op, base, f, s)]
    <3>3. \A s \in Part(n) : s # {} => s \ {Chosen(s)} \in Part(n - 1) /\ Chosen(s) \in S
      <4> SUFFICES ASSUME NEW s \in Part(n), s # {}
                   PROVE  s \ {Chosen(s)} \in Part(n - 1) /\ Chosen(s) \in S
        OBVIOUS
      <4>1. Cardinality(s \ {Chosen(s)}) = Cardinality(s) - 1 /\ Cardinality(s) \in Nat
        BY <1>1, <1>2
      <4>2. Cardinality(s) - 1 <= n - 1
        BY <2>3, <4>1
      <4> QED
        BY <1>2, <4>1, <4>2
    <3>4. Part(n - 1) \subseteq Part(n)
      BY <1>1, <2>3
    <3> HIDE DEF Part
    <3>5. new \in [Part(n) -> V]
      <4>1. \A s \in Part(n) : Folded(g, op, base, f, s) \in V
        BY <3>3 DEF Folded
      <4> QED
        BY <4>1
    <3>6. \A s \in Part(n - 1) : new[s] = g[s]
      BY <3>2, <3>4
    <3>7. \A s \in Part(n) : new[s] = Folded(new, op, base, f, s)
      <4> TAKE s \in Part(n)
      <4>1. s # {} => new[s \ {Chosen(s)}] = g[s \ {Chosen(s)}]
        BY <3>3, <3>6
      <4>2. new[s] = Folded(g, op, base, f, s)
        OBVIOUS
      <4> HIDE DEF new
      <4> QED
        BY <4>1, <4>2 DEF Folded
    <3> HIDE DEF new
    <3> QED
      BY <2>3, <3>5, <3>7
  <2> QED
    BY <2>4, <2>5
<1>4. Part(Cardinality(S)) = SUBSET S /\ Cardinality(S) \in Nat
  <2>1. \A s \in SUBSET S : Cardinality(s) <= Cardinality(S)
    BY FS_Subset
  <2> QED
    BY <1>1, <2>1
<1>5. Works(Cardinality(S))
  BY <1>3, <1>4
<1> QED
  BY <1>4, <1>5 DEF IsFold

IsSum(h, f, S) ==
  /\ h \in [SUBSET S -> Int] /\ h[{}] = 0
  /\ \A s \in SUBSET S : s # {} => \E x \in s : h[s] = f[x] + h[s \ {x}]

\* A sum over a finite set obeys the recursion of the fold for some choice of elements.
LEMMA SumFold ==
  ASSUME NEW S, IsFiniteSet(S), NEW f \in [S -> Int]
  PROVE  \E h : IsSum(h, f, S) /\ SumFunctionOnSet(f, S) = h[S]
<1> DEFINE IsIter(g) == g = [s \in SUBSET S |->
                               IF s = {} THEN 0
                               ELSE LET x == CHOOSE x \in s : TRUE IN f[x] + g[s \ {x}]]
           iter == CHOOSE g : IsIter(g)
           plus == [p \in Int \X Int |-> p[1] + p[2]]
<1>1. SumFunctionOnSet(f, S) = iter[S]
  BY DEF SumFunctionOnSet, FoldFunctionOnSet, MapThenFoldSet
<1>2. PICK g : IsFold(g, plus, 0, f, S, Int)
  <2>1. plus \in [Int \X Int -> Int] /\ 0 \in Int
    OBVIOUS
  <2> HIDE DEF plus
  <2> QED
    BY <2>1, FoldExists
<1>3. \A s \in SUBSET S : s # {} => Chosen(s) \in s /\ s \ {Chosen(s)} \in SUBSET S
  BY DEF Chosen
<1>4. \A s \in SUBSET S : g[s] = IF s = {} THEN 0 ELSE f[Chosen(s)] + g[s \ {Chosen(s)}]
  <2> TAKE s \in SUBSET S
  <2>1. CASE s = {}
    BY <1>2, <2>1 DEF IsFold, Folded
  <2>2. CASE s # {}
    <3>1. f[Chosen(s)] \in Int /\ g[s \ {Chosen(s)}] \in Int
      BY <1>2, <1>3, <2>2 DEF IsFold
    <3>2. plus[<<f[Chosen(s)], g[s \ {Chosen(s)}]>>] = f[Chosen(s)] + g[s \ {Chosen(s)}]
      BY <3>1
    <3> HIDE DEF plus
    <3> QED
      BY <1>2, <2>2, <3>2 DEF IsFold, Folded
  <2> QED
    BY <2>1, <2>2
<1>5. IsIter(g)
  BY <1>2, <1>4 DEF Chosen, IsFold
<1>6. IsIter(iter)
  BY <1>5
<1>7. \A s \in SUBSET S : iter[s] = IF s = {} THEN 0 ELSE f[Chosen(s)] + iter[s \ {Chosen(s)}]
  BY <1>6 DEF Chosen
<1>8. iter = [s \in SUBSET S |-> iter[s]]
  BY <1>6
<1> HIDE DEF iter
<1> DEFINE bad == {s \in SUBSET S : iter[s] \notin Int}
<1>9. bad = {}
  <2>1. SUFFICES ASSUME bad # {} PROVE FALSE
    OBVIOUS
  <2>2. bad \in SUBSET SUBSET S
    OBVIOUS
  <2>3. PICK s \in bad : \A x \in s : s \ {x} \notin bad
    <3> HIDE DEF bad
    <3> QED
      BY <2>1, <2>2, SmallestSet
  <2>4. s # {}
    <3>1. iter[{}] = 0
      BY <1>7
    <3>2. iter[s] \notin Int
      BY <2>3
    <3> QED
      BY <3>1, <3>2
  <2>5. Chosen(s) \in s /\ s \ {Chosen(s)} \in SUBSET S
    BY <1>3, <2>3, <2>4
  <2>6. iter[s \ {Chosen(s)}] \in Int /\ f[Chosen(s)] \in Int
    BY <2>3, <2>5
  <2>7. iter[s] = f[Chosen(s)] + iter[s \ {Chosen(s)}]
    BY <1>7, <2>3, <2>4
  <2> QED
    BY <2>3, <2>6, <2>7
<1>10. iter \in [SUBSET S -> Int]
  BY <1>8, <1>9
<1> QED
  BY <1>1, <1>3, <1>7, <1>10 DEF IsSum

\* Any element may be taken out first, and a sum depends on the values in its set only.
LEMMA SumRule ==
  ASSUME NEW S, IsFiniteSet(S), NEW f \in [S -> Int]
  PROVE  /\ SumFunctionOnSet(f, S) \in Int
         /\ S = {} => SumFunctionOnSet(f, S) = 0
         /\ \A x \in S : SumFunctionOnSet(f, S) =
                           f[x] + SumFunctionOnSet([i \in S \ {x} |-> f[i]], S \ {x})
<1>1. PICK h : IsSum(h, f, S) /\ SumFunctionOnSet(f, S) = h[S]
  BY SumFold
<1> DEFINE Parts(s) == \A x \in s : h[s] = f[x] + h[s \ {x}]
           bad == {s \in SUBSET S : ~Parts(s)}
<1>2. bad = {}
  <2>1. SUFFICES ASSUME bad # {} PROVE FALSE
    OBVIOUS
  <2>2. PICK s \in bad : \A x \in s : s \ {x} \notin bad
    <3>1. bad \in SUBSET SUBSET S
      OBVIOUS
    <3> HIDE DEF bad
    <3> QED
      BY <2>1, <3>1, SmallestSet
  <2>3. PICK x \in s : h[s] # f[x] + h[s \ {x}]
    BY <2>2
  <2>4. s \in SUBSET S /\ s # {}
    BY <2>2, <2>3
  <2>5. PICK y \in s : h[s] = f[y] + h[s \ {y}]
    BY <1>1, <2>4 DEF IsSum
  <2>6. x # y
    BY <2>3, <2>5
  <2> DEFINE rest == (s \ {x}) \ {y}
  <2>7. rest = (s \ {y}) \ {x} /\ rest \in SUBSET S
    BY <2>4
  <2>8. h[s \ {x}] = f[y] + h[rest]
    BY <2>2, <2>4, <2>5, <2>6
  <2>9. h[s \ {y}] = f[x] + h[rest]
    <3>1. s \ {y} \in SUBSET S /\ x \in s \ {y} /\ Parts(s \ {y})
      BY <2>2, <2>4, <2>5, <2>6
    <3>2. h[s \ {y}] = f[x] + h[(s \ {y}) \ {x}]
      BY <3>1
    <3> HIDE DEF rest
    <3> QED
      BY <2>7, <3>2
  <2>10. f[x] \in Int /\ f[y] \in Int /\ h[rest] \in Int
    BY <1>1, <2>4, <2>5, <2>7 DEF IsSum
  <2> HIDE DEF rest
  <2> QED
    BY <2>3, <2>5, <2>8, <2>9, <2>10
<1>3. ASSUME NEW x \in S
      PROVE  SumFunctionOnSet([i \in S \ {x} |-> f[i]], S \ {x}) = h[S \ {x}]
  <2> DEFINE T == S \ {x}
             f1 == [i \in T |-> f[i]]
  <2>1. IsFiniteSet(T) /\ f1 \in [T -> Int]
    BY FS_Subset
  <2>2. PICK k : IsSum(k, f1, T) /\ SumFunctionOnSet(f1, T) = k[T]
    <3> HIDE DEF T, f1
    <3> QED
      BY <2>1, SumFold
  <2> DEFINE worse == {s \in SUBSET T : k[s] # h[s]}
  <2>3. worse = {}
    <3>1. SUFFICES ASSUME worse # {} PROVE FALSE
      OBVIOUS
    <3>2. PICK s \in worse : \A z \in s : s \ {z} \notin worse
      <4>1. worse \in SUBSET SUBSET T
        OBVIOUS
      <4> HIDE DEF worse, T
      <4> QED
        BY <2>1, <3>1, <4>1, SmallestSet
    <3>3. s \in SUBSET T /\ s \in SUBSET S
      BY <3>2
    <3>4. s # {}
      BY <1>1, <2>2, <3>2 DEF IsSum
    <3>5. PICK z \in s : k[s] = f1[z] + k[s \ {z}]
      BY <2>2, <3>3, <3>4 DEF IsSum
    <3>6. k[s \ {z}] = h[s \ {z}] /\ f1[z] = f[z]
      BY <3>2, <3>3, <3>5
    <3>7. h[s] = f[z] + h[s \ {z}]
      BY <1>2, <3>3, <3>5
    <3> QED
      BY <3>2, <3>5, <3>6, <3>7
  <2> QED
    BY <2>2, <2>3
<1>4. \A x \in S : h[S] = f[x] + h[S \ {x}]
  BY <1>2
<1> QED
  BY <1>1, <1>3, <1>4 DEF IsSum

\* One more value, and none.
LEMMA SumAdds ==
  ASSUME NEW S, IsFiniteSet(S), NEW x, x \notin S, NEW f \in [S \cup {x} -> Int],
         NEW g \in [S -> Int], \A i \in S : g[i] = f[i]
  PROVE  Sum(f) = f[x] + Sum(g) /\ Sum(g) \in Int
<1> DEFINE T == S \cup {x}
<1>1. IsFiniteSet(T) /\ f \in [T -> Int] /\ x \in T /\ T \ {x} = S
  BY FS_AddElement
<1>2. DOMAIN f = T /\ DOMAIN g = S /\ [i \in S |-> f[i]] = g
  OBVIOUS
<1> HIDE DEF T
<1>3. SumFunctionOnSet(f, T) = f[x] + SumFunctionOnSet([i \in T \ {x} |-> f[i]], T \ {x})
  BY <1>1, SumRule
<1>4. SumFunctionOnSet(g, S) \in Int
  BY SumRule
<1> QED
  BY <1>1, <1>2, <1>3, <1>4 DEF Sum, SumFunction

LEMMA SumOfNone ==
  ASSUME NEW f \in [{} -> Int]
  PROVE  Sum(f) = 0
<1>1. IsFiniteSet({}) /\ DOMAIN f = {}
  BY FS_EmptySet
<1>2. SumFunctionOnSet(f, {}) = 0
  BY <1>1, SumRule
<1> QED
  BY <1>1, <1>2 DEF Sum, SumFunction

-----------------------------------------------------------------------------
(* The statistics count every outcome once.                                *)

Update == [tags : AlertTags, outcome : {0, 1, 2} \X Int]

Won(S, u) == {i \in S : u[i].outcome[1] > 0}
Halves(S, u)  == Sum([i \in S |-> u[i].outcome[1]])
Percent(S, u) == Sum([i \in Won(S, u) |-> u[i].outcome[2]])

\* Expected, for the outcomes u, with the counters that updateAlertStats goes by.
Exact(s, S, u) ==
  /\ s.total = Cardinality(S) /\ s.weightedWins = Halves(S, u)
  /\ s.unweightedWins = Cardinality(Won(S, u))
  /\ s.winRate[1] * Cardinality(S) = Halves(S, u) * s.winRate[2]
  /\ s.averageWin[1] \in Int /\ s.averageWin[2] \in Int
  /\ s.averageWin[1] * Cardinality(Won(S, u)) = Percent(S, u) * s.averageWin[2]
  /\ Won(S, u) = {} => s.averageWin[1] = 0

LEMMA OutcomeType ==
  ASSUME NEW u \in Seq(Update), NEW S \in SUBSET DOMAIN u
  PROVE  /\ IsFiniteSet(S) /\ Cardinality(S) \in Nat /\ Len(u) \in Nat /\ DOMAIN u = 1 .. Len(u)
         /\ IsFiniteSet(Won(S, u)) /\ Cardinality(Won(S, u)) \in Nat
         /\ \A i \in S : u[i].outcome[1] \in {0, 1, 2} /\ u[i].outcome[2] \in Int
         /\ [i \in S |-> u[i].outcome[1]] \in [S -> Int]
         /\ [i \in Won(S, u) |-> u[i].outcome[2]] \in [Won(S, u) -> Int]
<1>1. Len(u) \in Nat /\ DOMAIN u = 1 .. Len(u)
  OBVIOUS
<1>2. IsFiniteSet(S) /\ Cardinality(S) \in Nat
  <2>1. 1 \in Int /\ Len(u) \in Int
    BY <1>1
  <2>2. IsFiniteSet(DOMAIN u)
    BY <1>1, <2>1, FS_Interval
  <2> QED
    BY <2>2, FS_Subset, FS_CardinalityType
<1>3. Won(S, u) \subseteq S
  BY DEF Won
<1>4. IsFiniteSet(Won(S, u)) /\ Cardinality(Won(S, u)) \in Nat
  BY <1>2, <1>3, FS_Subset, FS_CardinalityType
<1>5. \A i \in S : u[i].outcome[1] \in {0, 1, 2} /\ u[i].outcome[2] \in Int
  <2> TAKE i \in S
  <2>1. u[i] \in Update
    BY <1>1
  <2>2. u[i].outcome \in {0, 1, 2} \X Int
    BY <2>1 DEF Update
  <2> QED
    BY <2>2
<1>6. [i \in S |-> u[i].outcome[1]] \in [S -> Int]
  BY <1>5
<1>7. [i \in Won(S, u) |-> u[i].outcome[2]] \in [Won(S, u) -> Int]
  BY <1>3, <1>5
<1> QED
  BY <1>1, <1>2, <1>4, <1>5, <1>6, <1>7

\* An outcome that is not among them changes nothing.
LEMMA ExactKeeps ==
  ASSUME NEW u \in Seq(Update), NEW S \in SUBSET DOMAIN u, NEW e, NEW s, Exact(s, S, u)
  PROVE  Exact(s, S, Append(u, e))
<1> DEFINE w == Append(u, e)
<1>1. \A i \in S : w[i] = u[i]
  BY OutcomeType
<1> HIDE DEF w
<1>2. Won(S, w) = Won(S, u)
  BY <1>1 DEF Won
<1>3. [i \in S |-> w[i].outcome[1]] = [i \in S |-> u[i].outcome[1]]
  BY <1>1
<1>4. [i \in Won(S, u) |-> w[i].outcome[2]] = [i \in Won(S, u) |-> u[i].outcome[2]]
  BY <1>1 DEF Won
<1>5. Halves(S, w) = Halves(S, u) /\ Percent(S, w) = Percent(S, u)
  BY <1>2, <1>3, <1>4 DEF Halves, Percent
<1> QED
  BY <1>2, <1>5 DEF Exact, w

\* A new outcome is counted once.
LEMMA ExactCounts ==
  ASSUME NEW u \in Seq(Update), NEW S \in SUBSET DOMAIN u, NEW e \in Update, NEW s, Exact(s, S, u)
  PROVE  Exact(updateAlertStats(s, e.outcome), S \cup {Len(u) + 1}, Append(u, e))
<1> DEFINE w == Append(u, e)
           x == Len(u) + 1
           T == S \cup {x}
           o == e.outcome
           W == Won(S, u)
           new == updateAlertStats(s, o)
<1>1. w \in Seq(Update) /\ DOMAIN w = 1 .. Len(u) + 1 /\ w[x] = e /\ \A i \in S : w[i] = u[i]
  BY OutcomeType
<1>2. /\ IsFiniteSet(S) /\ Cardinality(S) \in Nat /\ x \notin S /\ T \in SUBSET DOMAIN w
      /\ IsFiniteSet(W) /\ Cardinality(W) \in Nat /\ W \subseteq S /\ x \notin W
  <2>1. x \notin S /\ T \in SUBSET DOMAIN w
    BY <1>1, OutcomeType
  <2> HIDE DEF x, T, w
  <2> QED
    BY <2>1, OutcomeType DEF Won
<1>3. o[1] \in {0, 1, 2} /\ o[2] \in Int
  <2>1. o \in {0, 1, 2} \X Int
    BY DEF Update
  <2> QED
    BY <2>1
<1> HIDE DEF w, x, o
<1>4. Cardinality(T) = Cardinality(S) + 1
  BY <1>2, FS_AddElement
<1>5. Halves(T, w) = Halves(S, u) + o[1] /\ Halves(S, u) \in Int
  <2> DEFINE f == [i \in T |-> w[i].outcome[1]]
             g == [i \in S |-> u[i].outcome[1]]
  <2>1. f \in [T -> Int]
    BY <1>1, <1>2, OutcomeType
  <2>2. g \in [S -> Int]
    BY OutcomeType
  <2>3. f[x] = o[1] /\ \A i \in S : g[i] = f[i]
    BY <1>1 DEF o
  <2> HIDE DEF f, g
  <2>4. Sum(f) = f[x] + Sum(g) /\ Sum(g) \in Int
    BY <1>2, <2>1, <2>2, <2>3, SumAdds DEF T
  <2>5. o[1] \in Int
    BY <1>3
  <2> QED
    BY <2>3, <2>4, <2>5 DEF Halves, f, g
<1>6. CASE o[1] = 0
  <2>1. Won(T, w) = W
    BY <1>1, <1>6 DEF Won, o
  <2>2. [i \in W |-> w[i].outcome[2]] = [i \in W |-> u[i].outcome[2]]
    BY <1>1, <1>2
  <2>3. Percent(T, w) = Percent(S, u)
    BY <2>1, <2>2 DEF Percent
  <2>4. /\ new.winRate = <<s.weightedWins + o[1], s.total + 1>> /\ new.averageWin = s.averageWin
        /\ new.unweightedWins = s.unweightedWins + 0
        /\ new.weightedWins = s.weightedWins + o[1] /\ new.total = s.total + 1
    BY <1>6 DEF updateAlertStats
  <2> HIDE DEF T, W, new
  <2>5. /\ s.total = Cardinality(S) /\ s.weightedWins = Halves(S, u)
        /\ s.unweightedWins = Cardinality(W)
        /\ s.averageWin[1] \in Int /\ s.averageWin[2] \in Int
        /\ s.averageWin[1] * Cardinality(W) = Percent(S, u) * s.averageWin[2]
        /\ W = {} => s.averageWin[1] = 0
    BY DEF Exact, W
  <2>6. /\ new.winRate[1] = Halves(T, w) /\ new.winRate[2] = Cardinality(T)
        /\ new.weightedWins = Halves(T, w) /\ new.total = Cardinality(T)
        /\ new.unweightedWins = Cardinality(W)
    BY <1>2, <1>3, <1>4, <1>5, <2>4, <2>5
  <2> QED
    BY <2>1, <2>3, <2>4, <2>5, <2>6 DEF Exact, x, T, w, new, o
<1>7. CASE o[1] # 0
  <2> DEFINE V == W \cup {x}
  <2>1. Won(T, w) = V
    BY <1>1, <1>3, <1>7 DEF Won, o
  <2>2. Cardinality(V) = Cardinality(W) + 1 /\ V # {}
    BY <1>2, FS_AddElement
  <2>3. Percent(T, w) = Percent(S, u) + o[2] /\ Percent(S, u) \in Int
    <3> DEFINE f == [i \in V |-> w[i].outcome[2]]
               g == [i \in W |-> u[i].outcome[2]]
    <3>1. [i \in Won(T, w) |-> w[i].outcome[2]] \in [Won(T, w) -> Int]
      BY <1>1, <1>2, OutcomeType
    <3>2. f \in [V -> Int]
      BY <2>1, <3>1
    <3>3. g \in [W -> Int]
      BY OutcomeType
    <3>4. f[x] = o[2] /\ \A i \in W : g[i] = f[i]
      BY <1>1, <1>2 DEF o
    <3>5. Percent(T, w) = Sum(f) /\ Percent(S, u) = Sum(g)
      BY <2>1 DEF Percent
    <3> HIDE DEF f, g, W
    <3>6. Sum(f) = f[x] + Sum(g) /\ Sum(g) \in Int
      BY <1>2, <3>2, <3>3, <3>4, SumAdds
    <3> HIDE DEF V
    <3> QED
      BY <1>3, <3>4, <3>5, <3>6
  <2> DEFINE k == s.unweightedWins + 1
             a == s.averageWin
  <2>4. /\ new.winRate = <<s.weightedWins + o[1], s.total + 1>>
        /\ new.averageWin = <<a[1] * k + (o[2] * a[2] - a[1]), a[2] * k>>
        /\ new.unweightedWins = k
        /\ new.weightedWins = s.weightedWins + o[1] /\ new.total = s.total + 1
    BY <1>7 DEF updateAlertStats
  <2>5. /\ s.total = Cardinality(S) /\ s.weightedWins = Halves(S, u)
        /\ s.unweightedWins = Cardinality(W)
        /\ a[1] \in Int /\ a[2] \in Int
        /\ a[1] * Cardinality(W) = Percent(S, u) * a[2]
        /\ W = {} => a[1] = 0
    BY DEF Exact
  <2> DEFINE c == Cardinality(W)
             p == Percent(S, u)
             x1 == a[1]
             x2 == a[2]
             q == o[2]
  <2>6. c \in Nat /\ p \in Int /\ x1 \in Int /\ x2 \in Int /\ q \in Int /\ k = c + 1
        /\ x1 * c = p * x2 /\ Cardinality(V) = c + 1 /\ Percent(T, w) = p + q
    BY <1>2, <1>3, <2>2, <2>3, <2>5
  <2>7. new.averageWin[1] = x1 * k + (q * x2 - x1) /\ new.averageWin[2] = x2 * k
        /\ new.unweightedWins = k
    BY <2>4
  <2> HIDE DEF T, V, W, new, k, a, c, p, x1, x2, q
  <2>8. new.averageWin[1] \in Int /\ new.averageWin[2] \in Int
        /\ new.averageWin[1] * Cardinality(V) = Percent(T, w) * new.averageWin[2]
    <3>1. x1 * k + (q * x2 - x1) = p * x2 + q * x2
      <4>1. x1 * k = x1 * c + x1
        BY <2>6
      <4>2. x1 * c \in Int /\ q * x2 \in Int /\ p * x2 \in Int
        BY <2>6
      <4> DEFINE m1 == x1 * k
                 m2 == q * x2
                 m3 == p * x2
      <4> HIDE DEF m1, m2, m3
      <4>3. m1 = m3 + x1 /\ m3 \in Int /\ m2 \in Int
        BY <2>6, <4>1, <4>2 DEF m1, m2, m3
      <4>4. m1 + (m2 - x1) = m3 + m2
        BY <2>6, <4>3
      <4> QED
        BY <4>4 DEF m1, m2, m3
    <3>2. p * x2 + q * x2 \in Int /\ x2 * k \in Int /\ k \in Int
      BY <2>6
    <3>3. (p * x2 + q * x2) * k = (p + q) * (x2 * k)
      BY <2>6
    <3> QED
      BY <2>6, <2>7, <3>1, <3>2, <3>3
  <2>9. /\ new.winRate[1] = Halves(T, w) /\ new.winRate[2] = Cardinality(T)
        /\ new.weightedWins = Halves(T, w) /\ new.total = Cardinality(T)
        /\ new.unweightedWins = Cardinality(V)
    BY <1>2, <1>3, <1>4, <1>5, <2>4, <2>5, <2>6, <2>7
  <2> QED
    BY <2>1, <2>2, <2>8, <2>9 DEF Exact, x, T, w, new, o
<1> QED
  BY <1>6, <1>7

\* The outcomes of a combination, and of a tag.
OfTags(t, u)   == {i \in DOMAIN u : u[i].tags = t}
OfTag(k, v, u) == {i \in DOMAIN u : u[i].tags[k] = v}

CountInv ==
  /\ updates \in Seq(Update)
  /\ \A t \in AlertTags : Exact(StatsAt(alertSpecificStats_, t), OfTags(t, updates), updates)
  /\ \A k \in Fields : \A v \in Nat :
       Exact(StatsAt(tagStats[k], v), OfTag(k, v, updates), updates)

LEMMA ExactAtFirst ==
  Exact(NoStats, {}, <<>>)
<1>1. Won({}, <<>>) = {}
  BY DEF Won
<1>2. \A f \in [{} -> Int] : Sum(f) = 0
  BY SumOfNone
<1>3. Halves({}, <<>>) = 0
  BY <1>2 DEF Halves
<1>4. Percent({}, <<>>) = 0
  BY <1>1, <1>2 DEF Percent
<1>5. Cardinality({}) = 0
  BY FS_EmptySet
<1> QED
  <2>1. /\ NoStats.total = 0 /\ NoStats.weightedWins = 0 /\ NoStats.unweightedWins = 0
        /\ NoStats.winRate[1] = 0 /\ NoStats.winRate[2] = 1
        /\ NoStats.averageWin[1] = 0 /\ NoStats.averageWin[2] = 1
    BY DEF NoStats
  <2> DEFINE h == Halves({}, <<>>)
             p == Percent({}, <<>>)
             W == Won({}, <<>>)
             s == NoStats
  <2>2. h = 0 /\ p = 0 /\ W = {} /\ Cardinality({}) = 0 /\ Cardinality(W) = 0
    BY <1>1, <1>3, <1>4, <1>5
  <2> HIDE DEF h, p, W, s
  <2>3. /\ s.total = 0 /\ s.weightedWins = h /\ s.unweightedWins = 0
        /\ s.winRate[1] * 0 = h * s.winRate[2]
        /\ s.averageWin[1] \in Int /\ s.averageWin[2] \in Int
        /\ s.averageWin[1] * 0 = p * s.averageWin[2] /\ s.averageWin[1] = 0
    BY <2>1, <2>2 DEF s
  <2> QED
    BY <2>2, <2>3 DEF Exact, h, p, W, s

LEMMA CountInit ==
  ASSUME Init
  PROVE  CountInv
<1>1. updates = <<>> /\ <<>> \in Seq(Update) /\ DOMAIN <<>> = {}
  BY DEF Init
<1>2. \A t : StatsAt(alertSpecificStats_, t) = NoStats
  BY DEF Init, StatsAt
<1>3. \A k \in Fields : \A v : StatsAt(tagStats[k], v) = NoStats
  BY DEF Init, StatsAt
<1>4. (\A t : OfTags(t, <<>>) = {}) /\ (\A k, v : OfTag(k, v, <<>>) = {})
  BY <1>1 DEF OfTags, OfTag
<1> QED
  BY <1>1, <1>2, <1>3, <1>4, ExactAtFirst DEF CountInv

\* What a map answers after an outcome was added to one of its entries.
LEMMA AnswerAfter ==
  ASSUME NEW m, NEW key, NEW o, NEW other
  PROVE  StatsAt(updateStatsMap(m, key, o), other)
           = IF other = key THEN updateAlertStats(StatsAt(m, key), o) ELSE StatsAt(m, other)
BY DEF StatsAt, updateStatsMap, With

LEMMA CountUpdate ==
  ASSUME CountInv, KeysInv, NEW t \in AlertTags, NEW o \in {0, 1, 2} \X Int, updateStats(t, o)
  PROVE  CountInv'
<1> DEFINE u == updates
           e == [tags |-> t, outcome |-> o]
           w == Append(u, e)
           x == Len(u) + 1
<1>1. u \in Seq(Update) /\ e \in Update /\ updates' = w
  BY DEF CountInv, Update, updateStats
<1>2. w \in Seq(Update) /\ DOMAIN u = 1 .. Len(u) /\ DOMAIN w = 1 .. Len(u) + 1 /\ Len(u) \in Nat
      /\ w[x] = e /\ \A i \in DOMAIN u : w[i] = u[i]
  BY <1>1
<1>3. alertSpecificStats_' = updateStatsMap(alertSpecificStats_, t, o)
      /\ tagStats' = [k \in Fields |-> updateStatsMap(tagStats[k], t[k], o)]
  BY KeyIsTheCombination DEF updateStats, KeysInv
<1>4. DOMAIN w = DOMAIN u \cup {x} /\ e.outcome = o /\ e.tags = t
  BY <1>2
<1> HIDE DEF u, e, x, w
<1>5. ASSUME NEW S \in SUBSET DOMAIN u, NEW s, Exact(s, S, u)
      PROVE  Exact(s, S, w) /\ Exact(updateAlertStats(s, o), S \cup {x}, w)
  BY <1>1, <1>4, <1>5, ExactKeeps, ExactCounts DEF w, x
<1>6. ASSUME NEW r \in AlertTags
      PROVE  Exact(StatsAt(alertSpecificStats_', r), OfTags(r, w), w)
  <2>1. /\ OfTags(r, u) \in SUBSET DOMAIN u
        /\ Exact(StatsAt(alertSpecificStats_, r), OfTags(r, u), u)
    BY DEF OfTags, CountInv, u
  <2>2. OfTags(r, w) = IF r = t THEN OfTags(r, u) \cup {x} ELSE OfTags(r, u)
    BY <1>2, <1>4 DEF OfTags
  <2>3. StatsAt(alertSpecificStats_', r)
          = IF r = t THEN updateAlertStats(StatsAt(alertSpecificStats_, r), o)
            ELSE StatsAt(alertSpecificStats_, r)
    BY <1>3, AnswerAfter
  <2> QED
    BY <1>5, <2>1, <2>2, <2>3
<1>7. ASSUME NEW k \in Fields, NEW v \in Nat
      PROVE  Exact(StatsAt(tagStats'[k], v), OfTag(k, v, w), w)
  <2>1. /\ OfTag(k, v, u) \in SUBSET DOMAIN u
        /\ Exact(StatsAt(tagStats[k], v), OfTag(k, v, u), u)
    BY DEF OfTag, CountInv, u
  <2>2. OfTag(k, v, w) = IF v = t[k] THEN OfTag(k, v, u) \cup {x} ELSE OfTag(k, v, u)
    BY <1>2, <1>4 DEF OfTag
  <2>3. StatsAt(tagStats'[k], v)
          = IF v = t[k] THEN updateAlertStats(StatsAt(tagStats[k], v), o)
            ELSE StatsAt(tagStats[k], v)
    BY <1>3, AnswerAfter
  <2> QED
    BY <1>5, <2>1, <2>2, <2>3
<1> QED
  BY <1>1, <1>2, <1>6, <1>7 DEF CountInv

LEMMA CountAsk ==
  ASSUME CountInv, updates' = updates,
         \A t : StatsAt(alertSpecificStats_', t) = StatsAt(alertSpecificStats_, t),
         \A k \in Fields : \A v : StatsAt(tagStats'[k], v) = StatsAt(tagStats[k], v)
  PROVE  CountInv'
BY DEF CountInv

LEMMA CountStep ==
  ASSUME CountInv, KeysInv, [Next]_vars
  PROVE  CountInv'
<1> USE AlertsAssumption
<1>1. ASSUME NEW t \in Alerts, NEW o \in Outcomes, updateStats(t, o)
      PROVE  CountInv'
  BY <1>1, CountUpdate
<1>2. ASSUME NEW t \in Alerts, alertSpecificStats(t)
      PROVE  CountInv'
  <2>1. /\ alertSpecificStats_' = checkStatsMap(alertSpecificStats_, t)
        /\ tagStats' = tagStats /\ updates' = updates
    BY <1>2, KeyIsTheCombination DEF alertSpecificStats, KeysInv
  <2> QED
    BY <2>1, CheckKeepsAnswers, CountAsk
<1>3. ASSUME NEW p \in Asked, singleTagStats(p[1], p[2])
      PROVE  CountInv'
  <2>1. alertSpecificStats_' = alertSpecificStats_ /\ updates' = updates
    BY <1>3 DEF singleTagStats
  <2>2. \A k \in Fields : \/ tagStats'[k] = tagStats[k]
                          \/ tagStats'[k] = checkStatsMap(tagStats[k], p[2])
    BY <1>3 DEF singleTagStats
  <2> QED
    BY <2>1, <2>2, CheckKeepsAnswers, CountAsk
<1>4. ASSUME logAllTagStats
      PROVE  CountInv'
  <2>1. alertSpecificStats_' = alertSpecificStats_ /\ updates' = updates
    BY <1>4 DEF logAllTagStats
  <2>2. \A k \in Fields : \/ tagStats'[k] = tagStats[k]
                          \/ tagStats'[k] = EveryTag(tagStats[k], k)
    BY <1>4 DEF logAllTagStats
  <2>3. \A m, k, v : StatsAt(EveryTag(m, k), v) = StatsAt(m, v)
    BY DEF StatsAt, EveryTag
  <2> QED
    BY <2>1, <2>2, <2>3, CountAsk
<1>5. ASSUME UNCHANGED statVars
      PROVE  CountInv'
  BY <1>5, CountAsk DEF statVars
<1> QED
  BY <1>1, <1>2, <1>3, <1>4, <1>5 DEF Next, vars, post, get

LEMMA CountsFollow ==
  ASSUME CountInv, KeysInv
  PROVE  AnswersExact
<1>1. ASSUME NEW s, NEW S, Exact(s, S, updates)
      PROVE  Expected(s, S)
  <2>1. Won(S, updates) = {i \in S : updates[i].outcome[1] > 0}
    BY DEF Won
  <2> QED
    BY <1>1, <2>1 DEF Expected, Exact, Halves, Percent
<1>2. ASSUME NEW t \in Alerts
      PROVE  Expected(StatsAt(alertSpecificStats_, KeyOf(alertSpecificStats_, t)),
                      Among(LAMBDA u : u = t))
  <2>1. t \in AlertTags
    BY AlertsAssumption
  <2>2. KeyOf(alertSpecificStats_, t) = t
    BY <2>1, KeyIsTheCombination DEF KeysInv
  <2>3. Among(LAMBDA u : u = t) = OfTags(t, updates)
    BY DEF Among, OfTags
  <2> QED
    BY <1>1, <2>1, <2>2, <2>3 DEF CountInv
<1>3. ASSUME NEW k \in Fields, NEW v \in 0 .. Count[k] - 1
      PROVE  Expected(StatsAt(tagStats[k], v), Among(LAMBDA u : u[k] = v))
  <2>1. v \in Nat
    OBVIOUS
  <2>2. Among(LAMBDA u : u[k] = v) = OfTag(k, v, updates)
    BY DEF Among, OfTag
  <2> QED
    BY <1>1, <2>1, <2>2 DEF CountInv
<1> QED
  BY <1>2, <1>3 DEF AnswersExact

\* What the statistics answer for a combination or a tag is the count, the win rate and the
\* average win of exactly the alerts that had it, for any number of outcomes and whatever was
\* asked before (AlertTags.cpp 24-34, 44-91, 161-221).
THEOREM AnswersAlwaysExact == Spec => []AnswersExact
<1>1. Init => CountInv /\ KeysInv
  BY CountInit DEF Init, KeysInv
<1>2. CountInv /\ KeysInv /\ [Next]_vars => CountInv' /\ KeysInv'
  BY CountStep, KeysKept
<1>3. CountInv /\ KeysInv => AnswersExact
  BY CountsFollow
<1> QED
  BY <1>1, <1>2, <1>3, PTL DEF Spec

-----------------------------------------------------------------------------
(* The table of candles.                                                   *)

\* An id is the name of its tag.
LEMMA NameOfId ==
  ASSUME NEW t \in AlertTags, NEW k \in Fields
  PROVE  intToTag(Id(k, t[k])) = Name(k, t[k])
<1> DEFINE P(p) == p[2] < Count[p[1]] /\ Id(p[1], p[2]) = Id(k, t[k])
           at == CHOOSE p \in Fields \X (0 .. 10) : P(p)
<1>1. t[k] \in 0 .. 10 /\ t[k] < Count[k]
  BY TagIsNumber DEF AlertTags
<1>2. <<k, t[k]>> \in Fields \X (0 .. 10) /\ P(<<k, t[k]>>)
  BY <1>1
<1>3. at \in Fields \X (0 .. 10) /\ P(at)
  <2> HIDE DEF P
  <2> QED
    BY <1>2
<1> DEFINE l == at[1]
           y == at[2]
           x == t[k]
<1>4. l \in Fields /\ y \in 0 .. 10 /\ y < Count[l] /\ Id(l, y) = Id(k, x)
  BY <1>3
<1>5. x \in Nat /\ x < Count[k] /\ y \in Nat
  BY <1>1, <1>4
<1> HIDE DEF at, x, y, l
<1>6. FirstId[k] + x = FirstId[l] + y => k = l /\ x = y
  BY <1>4, <1>5, FieldCases, Tables, SMTT(60)
<1>7. l = k /\ y = x
  BY <1>4, <1>6 DEF Id
<1>8. intToTag(Id(k, t[k])) = Name(l, y)
  BY DEF intToTag, at, l, y
<1> QED
  BY <1>7, <1>8 DEF x

LEMMA Places ==
  /\ \A i \in 1 .. 12 : Placed[i] \in Fields /\ Columns[i] = Placed[i]
  /\ \A k \in Fields : \E i \in 1 .. 12 : Placed[i] = k
  /\ Placed[4] = 3
<1>1. /\ Placed[1] = 2 /\ Placed[2] = 1 /\ Placed[3] = 4 /\ Placed[4] = 3 /\ Placed[5] = 5
      /\ Placed[6] = 6 /\ Placed[7] = 8 /\ Placed[8] = 11 /\ Placed[9] = 12 /\ Placed[10] = 7
      /\ Placed[11] = 9 /\ Placed[12] = 10
  BY DEF Placed
<1>2. Columns = Placed
  BY DEF Columns, Placed
<1>3. \A i \in 1 .. 12 : \/ i = 1 \/ i = 2 \/ i = 3 \/ i = 4 \/ i = 5 \/ i = 6
                         \/ i = 7 \/ i = 8 \/ i = 9 \/ i = 10 \/ i = 11 \/ i = 12
  OBVIOUS
<1>4. \A i \in 1 .. 12 : Placed[i] \in Fields
  BY <1>1, <1>3 DEF Fields
<1>5. ASSUME NEW k \in Fields PROVE \E i \in 1 .. 12 : Placed[i] = k
  BY <1>1, FieldCases
<1> QED
  BY <1>1, <1>2, <1>4, <1>5

\* A row is read again when the distance from the price is ATM, and then as it was.
LEMMA RowIsRead ==
  ASSUME NEW t \in AlertTags
  PROVE  /\ Understood(ReadOrder(Row(t))) <=> t[Rtm] = ATM
         /\ Decoded(ReadOrder(Row(t))) = t
<1> DEFINE ids == ReadOrder(Row(t))
<1>1. \A i \in 1 .. 12 : ids[i] = Id(Placed[i], t[Placed[i]])
  BY Places DEF ReadOrder, Row
<1> HIDE DEF ids
<1>2. \A i \in 1 .. 12 : intToTag(ids[i]) = <<NameKind[Placed[i]], t[Placed[i]]>>
  BY <1>1, Places, NameOfId DEF Name
<1>3. \A i \in 1 .. 12 : Readable(Placed[i], intToTag(ids[i]))
                           <=> (Placed[i] = Rtm => t[Placed[i]] = ATM)
  BY <1>2 DEF Readable
<1>4. Understood(ids) <=> t[Rtm] = ATM
  <2>1. 4 \in 1 .. 12 /\ Placed[4] = Rtm
    BY Places DEF Rtm
  <2> QED
    BY <1>3, <2>1 DEF Understood
<1>5. ASSUME NEW k \in Fields
      PROVE  intToTag(ids[CHOOSE i \in 1 .. 12 : Placed[i] = k])[2] = t[k]
  <2> DEFINE i == CHOOSE j \in 1 .. 12 : Placed[j] = k
  <2>1. i \in 1 .. 12 /\ Placed[i] = k
    BY Places
  <2> HIDE DEF i
  <2>2. intToTag(ids[i])[2] = t[k]
    BY <1>2, <2>1
  <2> QED
    BY <2>2 DEF i
<1>6. Decoded(ids) = [k \in Fields |-> t[k]]
  BY <1>5 DEF Decoded
<1> QED
  BY <1>4, <1>6, TagIsNumber DEF ids

TableInv ==
  /\ posted \in Seq(AlertTags) /\ OptionCandles \in Seq([Fields -> Int])
  /\ Len(OptionCandles) = Len(posted)
  /\ \A i \in 1 .. Len(posted) : OptionCandles[i] = Row(posted[i])

LEMMA RowType ==
  ASSUME NEW t \in AlertTags
  PROVE  Row(t) \in [Fields -> Int]
<1>1. \A k \in Fields : Id(k, t[k]) \in Int
  BY IdsDistinct
<1> QED
  BY <1>1 DEF Row

\* Two sequences end to end: the elements of the first, then those of the second.
LEMMA JoinFacts ==
  ASSUME NEW S, NEW s \in Seq(S), NEW t \in Seq(S)
  PROVE  /\ s \o t \in Seq(S) /\ Len(s \o t) = Len(s) + Len(t)
         /\ \A i \in 1 .. Len(s) : (s \o t)[i] = s[i]
         /\ \A i \in 1 .. Len(t) : (s \o t)[Len(s) + i] = t[i]
OBVIOUS

\* A batch is appended, row by row.
LEMMA TablePost ==
  ASSUME TableInv, NEW batch \in Seq(AlertTags), post(batch)
  PROVE  TableInv' /\ got'.read = FALSE
<1> DEFINE n == Len(posted)
           k == Len(batch)
           rows == [i \in 1 .. k |-> Row(batch[i])]
<1>1. /\ posted \in Seq(AlertTags) /\ OptionCandles \in Seq([Fields -> Int])
      /\ Len(OptionCandles) = n /\ n \in Nat /\ k \in Nat
      /\ \A i \in 1 .. n : OptionCandles[i] = Row(posted[i])
  BY DEF TableInv
<1>2. posted' = posted \o batch /\ OptionCandles' = OptionCandles \o rows /\ got' = NotRead
  BY DEF post
<1>3. rows \in Seq([Fields -> Int]) /\ Len(rows) = k /\ \A i \in 1 .. k : rows[i] = Row(batch[i])
  <2>1. \A i \in 1 .. k : Row(batch[i]) \in [Fields -> Int]
    BY RowType
  <2> QED
    BY <1>1, <2>1
<1> HIDE DEF rows, k, n
<1>4. /\ posted' \in Seq(AlertTags) /\ Len(posted') = n + k
      /\ \A i \in 1 .. n : posted'[i] = posted[i]
      /\ \A i \in 1 .. k : posted'[n + i] = batch[i]
  BY <1>1, <1>2 DEF n, k
<1>5. /\ OptionCandles' \in Seq([Fields -> Int]) /\ Len(OptionCandles') = n + k
      /\ \A i \in 1 .. n : OptionCandles'[i] = OptionCandles[i]
      /\ \A i \in 1 .. k : OptionCandles'[n + i] = rows[i]
  <2> DEFINE S == [Fields -> Int]
  <2>1. OptionCandles \in Seq(S) /\ rows \in Seq(S)
    BY <1>1, <1>3
  <2> HIDE DEF S
  <2>2. /\ OptionCandles \o rows \in Seq(S)
        /\ Len(OptionCandles \o rows) = Len(OptionCandles) + Len(rows)
        /\ \A i \in 1 .. Len(OptionCandles) : (OptionCandles \o rows)[i] = OptionCandles[i]
        /\ \A i \in 1 .. Len(rows) : (OptionCandles \o rows)[Len(OptionCandles) + i] = rows[i]
    BY <2>1, JoinFacts
  <2>3. /\ OptionCandles' \in Seq(S) /\ Len(OptionCandles') = n + k
        /\ \A i \in 1 .. n : OptionCandles'[i] = OptionCandles[i]
        /\ \A i \in 1 .. k : OptionCandles'[n + i] = rows[i]
    BY <1>1, <1>2, <1>3, <2>2
  <2> QED
    BY <2>3 DEF S
<1>6. ASSUME NEW i \in 1 .. Len(posted')
      PROVE  OptionCandles'[i] = Row(posted'[i])
  <2>1. CASE i \in 1 .. n
    BY <1>1, <1>4, <1>5, <2>1
  <2>2. CASE i \notin 1 .. n
    <3>1. i - n \in 1 .. k /\ n + (i - n) = i
      BY <1>1, <1>4, <2>2
    <3> DEFINE j == i - n
    <3> HIDE DEF j
    <3>2. OptionCandles'[n + j] = Row(posted'[n + j])
      BY <1>3, <1>4, <1>5, <3>1 DEF j
    <3> QED
      BY <3>1, <3>2 DEF j
  <2> QED
    BY <2>1, <2>2
<1> QED
  BY <1>2, <1>4, <1>5, <1>6 DEF TableInv, NotRead

\* A set of numbers with a bound has a greatest one.
LEMMA GreatestNumber ==
  ASSUME NEW b \in Nat, NEW T \in SUBSET (0 .. b), T # {}
  PROVE  \E x \in T : \A y \in T : y <= x
<1> DEFINE U == {n \in Nat : b - n \in T}
<1>1. U \in SUBSET Nat
  OBVIOUS
<1>2. U # {}
  <2>1. PICK x \in T : TRUE
    OBVIOUS
  <2>2. x \in 0 .. b
    OBVIOUS
  <2>3. b - x \in Nat /\ b - (b - x) = x
    BY <2>2
  <2>4. b - x \in U
    BY <2>3
  <2> QED
    BY <2>4
<1>3. PICK m \in U : \A n \in U : m <= n
  <2> HIDE DEF U
  <2> QED
    BY <1>1, <1>2, LeastNumber
<1>4. b - m \in T /\ m \in Nat
  BY <1>3
<1>5. ASSUME NEW y \in T PROVE y <= b - m
  <2>1. y \in 0 .. b
    OBVIOUS
  <2>2. b - y \in Nat /\ b - (b - y) = y
    BY <2>1
  <2>3. m <= b - y
    BY <1>3, <2>2
  <2> QED
    BY <1>4, <2>1, <2>3
<1> QED
  BY <1>4, <1>5

\* What get reads.
LEMMA GetReads ==
  ASSUME TableInv, get
  PROVE  ReadBack'
<1> DEFINE n == Len(posted)
           ids == [i \in DOMAIN OptionCandles |-> ReadOrder(OptionCandles[i])]
           fine == {m \in 0 .. Len(ids) : \A i \in 1 .. m : Understood(ids[i])}
           last == CHOOSE x \in fine : \A m \in fine : m <= x
<1>1. /\ posted \in Seq(AlertTags) /\ n \in Nat /\ DOMAIN OptionCandles = 1 .. n
      /\ \A i \in 1 .. n : OptionCandles[i] = Row(posted[i]) /\ posted[i] \in AlertTags
  BY DEF TableInv
<1>2. Len(ids) = n
  <2>1. ids = [i \in 1 .. n |-> ReadOrder(OptionCandles[i])]
    BY <1>1
  <2> QED
    BY <1>1, <2>1
<1>3. \A i \in 1 .. n : /\ Understood(ids[i]) <=> posted[i][Rtm] = ATM
                        /\ Decoded(ids[i]) = posted[i]
  <2>1. \A i \in 1 .. n : ids[i] = ReadOrder(Row(posted[i]))
    BY <1>1
  <2> HIDE DEF ids
  <2> QED
    BY <1>1, <2>1, RowIsRead
<1>4. /\ got' = [read |-> TRUE, candles |-> [i \in 1 .. last |-> Decoded(ids[i])]]
      /\ posted' = posted
  BY DEF get, tableVars
<1> HIDE DEF ids
<1>5. fine \in SUBSET (0 .. n) /\ 0 \in fine
  BY <1>1, <1>2
<1>6. last \in fine /\ \A m \in fine : m <= last
  <2>1. \E x \in fine : \A m \in fine : m <= x
    <3> HIDE DEF fine
    <3> QED
      BY <1>1, <1>5, GreatestNumber
  <2> HIDE DEF fine
  <2> QED
    BY <2>1
<1>7. last \in 0 .. n /\ \A i \in 1 .. last : Understood(ids[i])
  <2> HIDE DEF last
  <2> QED
    BY <1>2, <1>6
<1>8. last < n => ~ Understood(ids[last + 1])
  <2> SUFFICES ASSUME last < n, Understood(ids[last + 1])
               PROVE  FALSE
    OBVIOUS
  <2> DEFINE m == last + 1
  <2> HIDE DEF last
  <2>1. m \in 0 .. n /\ ~(m <= last) /\ \A i \in 1 .. m : i \in 1 .. last \/ i = m
    BY <1>1, <1>7
  <2>2. m \in fine
    BY <1>2, <1>7, <2>1
  <2> QED
    BY <1>6, <2>1, <2>2
<1> HIDE DEF last, fine
<1>9. Len(got'.candles) = last /\ \A i \in 1 .. last : got'.candles[i] = Decoded(ids[i])
  BY <1>1, <1>4, <1>7
<1>10. last <= n /\ (\A i \in 1 .. last : i \in 1 .. n) /\ (last < n => last + 1 \in 1 .. n)
  BY <1>1, <1>7
<1>11. \A i \in 1 .. last : got'.candles[i] = posted[i] /\ posted[i][Rtm] = ATM
  BY <1>3, <1>7, <1>9, <1>10
<1>12. last < n => posted[last + 1][Rtm] # ATM
  BY <1>3, <1>8, <1>10
<1> HIDE DEF n
<1> QED
  BY <1>4, <1>9, <1>10, <1>11, <1>12 DEF ReadBack, n

\* The candles read back are those posted, with their tags, up to the first that is not at
\* the money, whatever the tags and however many rows (CandleRoutes.h 308-319, 377-399).
THEOREM CandlesReadBack == Spec => []ReadBack
<1> DEFINE Inv == TableInv /\ ReadBack
<1>1. Init => Inv
  <2>1. SUFFICES ASSUME Init PROVE Inv
    OBVIOUS
  <2>2. TableInv
    BY <2>1 DEF Init, TableInv
  <2> QED
    BY <2>1, <2>2 DEF Init, ReadBack, NotRead
<1>2. Inv /\ [Next]_vars => Inv'
  <2> SUFFICES ASSUME Inv, [Next]_vars PROVE Inv'
    OBVIOUS
  <2> USE AlertsAssumption
  <2>1. ASSUME NEW batch \in Seq(AlertTags), post(batch)
        PROVE  Inv'
    BY <2>1, TablePost DEF ReadBack
  <2>2. ASSUME NEW t \in Alerts, NEW u \in Alerts
        PROVE  <<t>> \in Seq(AlertTags) /\ <<t, u>> \in Seq(AlertTags)
    OBVIOUS
  <2>3. CASE get
    <3>1. TableInv'
      BY <2>3 DEF get, tableVars, TableInv
    <3> QED
      BY <2>3, <3>1, GetReads
  <2>4. ASSUME UNCHANGED tableVars, got' = NotRead
        PROVE  Inv'
    BY <2>4 DEF tableVars, TableInv, ReadBack, NotRead
  <2>5. ASSUME UNCHANGED vars
        PROVE  Inv'
    BY <2>5 DEF vars, tableVars, TableInv, ReadBack
  <2> QED
    BY <2>1, <2>2, <2>3, <2>4, <2>5 DEF Next, updateStats, alertSpecificStats, singleTagStats,
       logAllTagStats
<1> QED
  BY <1>1, <1>2, PTL DEF Spec
=============================================================================
