------------------------- MODULE ContractDataProofs -------------------------
(***************************************************************************)
(* Proofs about ContractData, for every ratio between the time frames,     *)
(* every set of bars and every bound.                                      *)
(***************************************************************************)
EXTENDS ContractData, FiniteSetTheorems, WellFoundedInduction, TLAPS

-----------------------------------------------------------------------------
(* Folds over finite sets.                                                 *)

\* A set of naturals has a least element.
LEMMA LeastElement ==
  ASSUME NEW T \in SUBSET Nat, T # {}
  PROVE  \E x \in T : \A y \in T : x <= y
<1> DEFINE R == OpToRel(<, Nat)
<1>1. IsWellFoundedOn(R, Nat)
  BY NatLessThanWellFounded
<1>2. \A x, y \in Nat : <<x, y>> \in R <=> x < y
  BY DEF OpToRel
<1> HIDE DEF R
<1>3. \E x \in T : \A y \in T : ~ (<<y, x>> \in R)
  BY <1>1, WFMin
<1>4. \A x, y \in Nat : ~ (<<y, x>> \in R) => x <= y
  BY <1>2
<1> QED
  BY <1>3, <1>4

\* Among finite sets there is one that leaves the others when it loses an element.
LEMMA SmallestSet ==
  ASSUME NEW S, IsFiniteSet(S), NEW bad \in SUBSET SUBSET S, bad # {}
  PROVE  \E s \in bad : \A x \in s : s \ {x} \notin bad
<1>1. \A s \in bad : IsFiniteSet(s) /\ Cardinality(s) \in Nat
  BY FS_Subset, FS_CardinalityType
<1> DEFINE sizes == {Cardinality(s) : s \in bad}
<1>2. sizes \in SUBSET Nat /\ sizes # {}
  BY <1>1
<1>3. PICK n \in sizes : \A k \in sizes : n <= k
  <2> HIDE DEF sizes
  <2> QED
    BY <1>2, LeastElement
<1>4. PICK s \in bad : Cardinality(s) = n
  BY <1>3
<1>5. ASSUME NEW x \in s, s \ {x} \in bad PROVE FALSE
  <2>1. Cardinality(s \ {x}) = Cardinality(s) - 1
    BY <1>1, FS_RemoveElement
  <2>2. n <= Cardinality(s \ {x})
    BY <1>3, <1>5
  <2> QED
    BY <1>1, <1>4, <2>1, <2>2
<1> QED
  BY <1>5

Chosen(s) == CHOOSE x \in s : TRUE

\* The recursion of a fold, with its operator as a function.
Folded(g, op, base, f, s) ==
  IF s = {} THEN base ELSE op[<<f[Chosen(s)], g[s \ {Chosen(s)}]>>]

IsFold(g, op, base, f, S, V) ==
  g \in [SUBSET S -> V] /\ \A s \in SUBSET S : g[s] = Folded(g, op, base, f, s)

\* A function that obeys the recursion exists.
LEMMA FoldExists ==
  ASSUME NEW S, IsFiniteSet(S), NEW V, NEW base \in V, NEW f \in [S -> V],
         NEW op \in [V \X V -> V]
  PROVE  \E g : IsFold(g, op, base, f, S, V)
<1> DEFINE Part(n) == {s \in SUBSET S : Cardinality(s) <= n}
           Works(n) == \E g \in [Part(n) -> V] : \A s \in Part(n) : g[s] = Folded(g, op, base, f, s)
           bad == {n \in Nat : ~Works(n)}
<1>1. \A s \in SUBSET S : IsFiniteSet(s) /\ Cardinality(s) \in Nat
  BY FS_Subset, FS_CardinalityType
<1>2. \A s \in SUBSET S : s # {} => /\ Chosen(s) \in s /\ s \ {Chosen(s)} \in SUBSET S
                                    /\ Cardinality(s \ {Chosen(s)}) = Cardinality(s) - 1
  BY <1>1, FS_RemoveElement DEF Chosen
<1>3. bad = {}
  <2>1. SUFFICES ASSUME bad # {} PROVE FALSE
    OBVIOUS
  <2>2. PICK n \in bad : \A k \in bad : n <= k
    <3>1. bad \in SUBSET Nat
      OBVIOUS
    <3> HIDE DEF bad
    <3> QED
      BY <2>1, <3>1, LeastElement
  <2>3. n \in Nat /\ ~Works(n)
    BY <2>2
  <2>4. CASE n = 0
    <3> DEFINE g == [s \in Part(0) |-> base]
    <3>1. \A s \in Part(0) : s = {}
      BY <1>1, FS_EmptySet
    <3>2. g \in [Part(0) -> V] /\ \A s \in Part(0) : g[s] = Folded(g, op, base, f, s)
      BY <3>1 DEF Folded
    <3> QED
      BY <2>3, <2>4, <3>2
  <2>5. CASE n # 0
    <3>1. n - 1 \in Nat /\ Works(n - 1)
      <4>1. n - 1 \in Nat /\ ~(n <= n - 1)
        BY <2>3, <2>5
      <4>2. n - 1 \notin bad
        BY <2>2, <4>1
      <4> QED
        BY <4>1, <4>2
    <3>2. PICK g \in [Part(n - 1) -> V] :
            \A s \in Part(n - 1) : g[s] = Folded(g, op, base, f, s)
      BY <3>1
    <3> DEFINE new == [s \in Part(n) |-> Folded(g, op, base, f, s)]
    <3>3. \A s \in Part(n) : s # {} => s \ {Chosen(s)} \in Part(n - 1) /\ Chosen(s) \in S
      <4> SUFFICES ASSUME NEW s \in Part(n), s # {}
                   PROVE  s \ {Chosen(s)} \in Part(n - 1) /\ Chosen(s) \in S
        OBVIOUS
      <4>1. Cardinality(s \ {Chosen(s)}) = Cardinality(s) - 1 /\ Cardinality(s) \in Nat
        BY <1>1, <1>2
      <4>2. Cardinality(s) - 1 <= n - 1
        BY <2>3, <4>1
      <4> QED
        BY <1>2, <4>1, <4>2
    <3>4. Part(n - 1) \subseteq Part(n)
      BY <1>1, <2>3
    <3> HIDE DEF Part
    <3>5. new \in [Part(n) -> V]
      <4>1. \A s \in Part(n) : Folded(g, op, base, f, s) \in V
        BY <3>3 DEF Folded
      <4> QED
        BY <4>1
    <3>6. \A s \in Part(n - 1) : new[s] = g[s]
      BY <3>2, <3>4
    <3>7. \A s \in Part(n) : new[s] = Folded(new, op, base, f, s)
      <4> TAKE s \in Part(n)
      <4>1. s # {} => new[s \ {Chosen(s)}] = g[s \ {Chosen(s)}]
        BY <3>3, <3>6
      <4>2. new[s] = Folded(g, op, base, f, s)
        OBVIOUS
      <4> HIDE DEF new
      <4> QED
        BY <4>1, <4>2 DEF Folded
    <3> HIDE DEF new
    <3> QED
      BY <2>3, <3>5, <3>7
  <2> QED
    BY <2>4, <2>5
<1>4. Part(Cardinality(S)) = SUBSET S /\ Cardinality(S) \in Nat
  <2>1. \A s \in SUBSET S : Cardinality(s) <= Cardinality(S)
    BY FS_Subset
  <2> QED
    BY <1>1, <2>1
<1>5. Works(Cardinality(S))
  BY <1>3, <1>4
<1> QED
  BY <1>4, <1>5 DEF IsFold

IsSum(h, f, S) ==
  /\ h \in [SUBSET S -> Int] /\ h[{}] = 0
  /\ \A s \in SUBSET S : s # {} => \E x \in s : h[s] = f[x] + h[s \ {x}]

\* A sum over a finite set obeys the recursion of the fold for some choice of elements.
LEMMA SumFold ==
  ASSUME NEW S, IsFiniteSet(S), NEW f \in [S -> Int]
  PROVE  \E h : IsSum(h, f, S) /\ SumFunctionOnSet(f, S) = h[S]
<1> DEFINE IsIter(g) == g = [s \in SUBSET S |->
                               IF s = {} THEN 0
                               ELSE LET x == CHOOSE x \in s : TRUE IN f[x] + g[s \ {x}]]
           iter == CHOOSE g : IsIter(g)
           plus == [p \in Int \X Int |-> p[1] + p[2]]
<1>1. SumFunctionOnSet(f, S) = iter[S]
  BY DEF SumFunctionOnSet, FoldFunctionOnSet, MapThenFoldSet
<1>2. PICK g : IsFold(g, plus, 0, f, S, Int)
  <2>1. plus \in [Int \X Int -> Int] /\ 0 \in Int
    OBVIOUS
  <2> HIDE DEF plus
  <2> QED
    BY <2>1, FoldExists
<1>3. \A s \in SUBSET S : s # {} => Chosen(s) \in s /\ s \ {Chosen(s)} \in SUBSET S
  BY DEF Chosen
<1>4. \A s \in SUBSET S : g[s] = IF s = {} THEN 0 ELSE f[Chosen(s)] + g[s \ {Chosen(s)}]
  <2> TAKE s \in SUBSET S
  <2>1. CASE s = {}
    BY <1>2, <2>1 DEF IsFold, Folded
  <2>2. CASE s # {}
    <3>1. f[Chosen(s)] \in Int /\ g[s \ {Chosen(s)}] \in Int
      BY <1>2, <1>3, <2>2 DEF IsFold
    <3>2. plus[<<f[Chosen(s)], g[s \ {Chosen(s)}]>>] = f[Chosen(s)] + g[s \ {Chosen(s)}]
      BY <3>1
    <3> HIDE DEF plus
    <3> QED
      BY <1>2, <2>2, <3>2 DEF IsFold, Folded
  <2> QED
    BY <2>1, <2>2
<1>5. IsIter(g)
  BY <1>2, <1>4 DEF Chosen, IsFold
<1>6. IsIter(iter)
  BY <1>5
<1>7. \A s \in SUBSET S : iter[s] = IF s = {} THEN 0 ELSE f[Chosen(s)] + iter[s \ {Chosen(s)}]
  BY <1>6 DEF Chosen
<1>8. iter = [s \in SUBSET S |-> iter[s]]
  BY <1>6
<1> HIDE DEF iter
<1> DEFINE bad == {s \in SUBSET S : iter[s] \notin Int}
<1>9. bad = {}
  <2>1. SUFFICES ASSUME bad # {} PROVE FALSE
    OBVIOUS
  <2>2. bad \in SUBSET SUBSET S
    OBVIOUS
  <2>3. PICK s \in bad : \A x \in s : s \ {x} \notin bad
    <3> HIDE DEF bad
    <3> QED
      BY <2>1, <2>2, SmallestSet
  <2>4. s # {}
    <3>1. iter[{}] = 0
      BY <1>7
    <3>2. iter[s] \notin Int
      BY <2>3
    <3> QED
      BY <3>1, <3>2
  <2>5. Chosen(s) \in s /\ s \ {Chosen(s)} \in SUBSET S
    BY <1>3, <2>3, <2>4
  <2>6. iter[s \ {Chosen(s)}] \in Int /\ f[Chosen(s)] \in Int
    BY <2>3, <2>5
  <2>7. iter[s] = f[Chosen(s)] + iter[s \ {Chosen(s)}]
    BY <1>7, <2>3, <2>4
  <2> QED
    BY <2>3, <2>6, <2>7
<1>10. iter \in [SUBSET S -> Int]
  BY <1>8, <1>9
<1> QED
  BY <1>1, <1>3, <1>7, <1>10 DEF IsSum

\* Any element may be taken out first, and a sum depends on the values in its set only.
LEMMA SumRule ==
  ASSUME NEW S, IsFiniteSet(S), NEW f \in [S -> Int]
  PROVE  /\ SumFunctionOnSet(f, S) \in Int
         /\ S = {} => SumFunctionOnSet(f, S) = 0
         /\ \A x \in S : SumFunctionOnSet(f, S) =
                           f[x] + SumFunctionOnSet([i \in S \ {x} |-> f[i]], S \ {x})
<1>1. PICK h : IsSum(h, f, S) /\ SumFunctionOnSet(f, S) = h[S]
  BY SumFold
<1> DEFINE Parts(s) == \A x \in s : h[s] = f[x] + h[s \ {x}]
           bad == {s \in SUBSET S : ~Parts(s)}
<1>2. bad = {}
  <2>1. SUFFICES ASSUME bad # {} PROVE FALSE
    OBVIOUS
  <2>2. PICK s \in bad : \A x \in s : s \ {x} \notin bad
    <3>1. bad \in SUBSET SUBSET S
      OBVIOUS
    <3> HIDE DEF bad
    <3> QED
      BY <2>1, <3>1, SmallestSet
  <2>3. PICK x \in s : h[s] # f[x] + h[s \ {x}]
    BY <2>2
  <2>4. s \in SUBSET S /\ s # {}
    BY <2>2, <2>3
  <2>5. PICK y \in s : h[s] = f[y] + h[s \ {y}]
    BY <1>1, <2>4 DEF IsSum
  <2>6. x # y
    BY <2>3, <2>5
  <2> DEFINE rest == (s \ {x}) \ {y}
  <2>7. rest = (s \ {y}) \ {x} /\ rest \in SUBSET S
    BY <2>4
  <2>8. h[s \ {x}] = f[y] + h[rest]
    BY <2>2, <2>4, <2>5, <2>6
  <2>9. h[s \ {y}] = f[x] + h[rest]
    <3>1. s \ {y} \in SUBSET S /\ x \in s \ {y} /\ Parts(s \ {y})
      BY <2>2, <2>4, <2>5, <2>6
    <3>2. h[s \ {y}] = f[x] + h[(s \ {y}) \ {x}]
      BY <3>1
    <3> HIDE DEF rest
    <3> QED
      BY <2>7, <3>2
  <2>10. f[x] \in Int /\ f[y] \in Int /\ h[rest] \in Int
    BY <1>1, <2>4, <2>5, <2>7 DEF IsSum
  <2> HIDE DEF rest
  <2> QED
    BY <2>3, <2>5, <2>8, <2>9, <2>10
<1>3. ASSUME NEW x \in S
      PROVE  SumFunctionOnSet([i \in S \ {x} |-> f[i]], S \ {x}) = h[S \ {x}]
  <2> DEFINE T == S \ {x}
             f1 == [i \in T |-> f[i]]
  <2>1. IsFiniteSet(T) /\ f1 \in [T -> Int]
    BY FS_Subset
  <2>2. PICK k : IsSum(k, f1, T) /\ SumFunctionOnSet(f1, T) = k[T]
    <3> HIDE DEF T, f1
    <3> QED
      BY <2>1, SumFold
  <2> DEFINE worse == {s \in SUBSET T : k[s] # h[s]}
  <2>3. worse = {}
    <3>1. SUFFICES ASSUME worse # {} PROVE FALSE
      OBVIOUS
    <3>2. PICK s \in worse : \A z \in s : s \ {z} \notin worse
      <4>1. worse \in SUBSET SUBSET T
        OBVIOUS
      <4> HIDE DEF worse, T
      <4> QED
        BY <2>1, <3>1, <4>1, SmallestSet
    <3>3. s \in SUBSET T /\ s \in SUBSET S
      BY <3>2
    <3>4. s # {}
      BY <1>1, <2>2, <3>2 DEF IsSum
    <3>5. PICK z \in s : k[s] = f1[z] + k[s \ {z}]
      BY <2>2, <3>3, <3>4 DEF IsSum
    <3>6. k[s \ {z}] = h[s \ {z}] /\ f1[z] = f[z]
      BY <3>2, <3>3, <3>5
    <3>7. h[s] = f[z] + h[s \ {z}]
      BY <1>2, <3>3, <3>5
    <3> QED
      BY <3>2, <3>5, <3>6, <3>7
  <2> QED
    BY <2>2, <2>3
<1>4. \A x \in S : h[S] = f[x] + h[S \ {x}]
  BY <1>2
<1> QED
  BY <1>1, <1>3, <1>4 DEF IsSum

LargestOf(f, S)  == FoldFunctionOnSet(Larger, 0, f, S)
SmallestOf(f, S) == FoldFunctionOnSet(Smaller, 2147483647, f, S)

\* What the fold with Larger is: an upper bound that is reached, or the base.
LEMMA MaxRule ==
  ASSUME NEW S, IsFiniteSet(S), NEW f \in [S -> Nat]
  PROVE  LET m == LargestOf(f, S) IN
         m \in Nat /\ (\A i \in S : f[i] <= m) /\ (m = 0 \/ \E i \in S : f[i] = m)
<1> DEFINE IsIter(g) == g = [s \in SUBSET S |->
                               IF s = {} THEN 0
                               ELSE LET x == CHOOSE x \in s : TRUE IN Larger(f[x], g[s \ {x}])]
           iter == CHOOSE g : IsIter(g)
           op == [p \in Nat \X Nat |-> Larger(p[1], p[2])]
           Holds(s) == /\ iter[s] \in Nat /\ \A i \in s : f[i] <= iter[s]
                       /\ iter[s] = 0 \/ \E i \in s : f[i] = iter[s]
<1>1. LargestOf(f, S) = iter[S]
  BY DEF LargestOf, FoldFunctionOnSet, MapThenFoldSet
<1>2. PICK g : IsFold(g, op, 0, f, S, Nat)
  <2>1. op \in [Nat \X Nat -> Nat] /\ 0 \in Nat
    BY DEF Larger
  <2> HIDE DEF op
  <2> QED
    BY <2>1, FoldExists
<1>3. \A s \in SUBSET S : s # {} => Chosen(s) \in s /\ s \ {Chosen(s)} \in SUBSET S
  BY DEF Chosen
<1>4. \A s \in SUBSET S : g[s] = IF s = {} THEN 0 ELSE Larger(f[Chosen(s)], g[s \ {Chosen(s)}])
  <2> TAKE s \in SUBSET S
  <2>1. CASE s = {}
    BY <1>2, <2>1 DEF IsFold, Folded
  <2>2. CASE s # {}
    <3>1. f[Chosen(s)] \in Nat /\ g[s \ {Chosen(s)}] \in Nat
      BY <1>2, <1>3, <2>2 DEF IsFold
    <3>2. op[<<f[Chosen(s)], g[s \ {Chosen(s)}]>>] = Larger(f[Chosen(s)], g[s \ {Chosen(s)}])
      BY <3>1
    <3> HIDE DEF op
    <3> QED
      BY <1>2, <2>2, <3>2 DEF IsFold, Folded
  <2> QED
    BY <2>1, <2>2
<1>5. IsIter(g)
  BY <1>2, <1>4 DEF Chosen, IsFold
<1>6. IsIter(iter)
  BY <1>5
<1>7. \A s \in SUBSET S :
        iter[s] = IF s = {} THEN 0 ELSE Larger(f[Chosen(s)], iter[s \ {Chosen(s)}])
  BY <1>6 DEF Chosen
<1> HIDE DEF iter
<1> DEFINE bad == {s \in SUBSET S : ~Holds(s)}
<1>8. bad = {}
  <2>1. SUFFICES ASSUME bad # {} PROVE FALSE
    OBVIOUS
  <2>2. PICK s \in bad : \A x \in s : s \ {x} \notin bad
    <3>1. bad \in SUBSET SUBSET S
      OBVIOUS
    <3> HIDE DEF bad
    <3> QED
      BY <2>1, <3>1, SmallestSet
  <2>3. s \in SUBSET S /\ ~Holds(s)
    BY <2>2
  <2>4. s # {}
    BY <1>7, <2>3
  <2> DEFINE x == Chosen(s)
             rest == s \ {Chosen(s)}
  <2>5. x \in s /\ rest \in SUBSET S /\ Holds(rest)
    BY <1>3, <2>2, <2>3, <2>4
  <2>6. iter[s] = Larger(f[x], iter[rest]) /\ f[x] \in Nat /\ iter[rest] \in Nat
    BY <1>7, <2>3, <2>4, <2>5
  <2>7. \A i \in s : i = x \/ i \in rest
    OBVIOUS
  <2>8. iter[s] \in Nat /\ f[x] <= iter[s] /\ iter[rest] <= iter[s]
        /\ (iter[s] = f[x] \/ iter[s] = iter[rest])
    BY <2>6 DEF Larger
  <2>9. \A i \in rest : f[i] \in Nat /\ f[i] <= iter[rest]
    BY <2>3, <2>5
  <2>10. \A i \in rest : i \in s
    OBVIOUS
  <2> HIDE DEF x, rest
  <2>11. \A i \in s : f[i] <= iter[s]
    BY <2>6, <2>7, <2>8, <2>9
  <2>12. iter[s] = 0 \/ \E i \in s : f[i] = iter[s]
    BY <2>5, <2>8, <2>10
  <2> QED
    BY <2>3, <2>8, <2>11, <2>12
<1> QED
  BY <1>1, <1>8

\* The same of Smaller.
LEMMA MinRule ==
  ASSUME NEW S, IsFiniteSet(S), NEW f \in [S -> Nat]
  PROVE  LET m == SmallestOf(f, S) IN
         m \in Nat /\ (\A i \in S : m <= f[i]) /\ (m = 2147483647 \/ \E i \in S : f[i] = m)
<1> DEFINE Highest == 2147483647
           IsIter(g) == g = [s \in SUBSET S |->
                               IF s = {} THEN Highest
                               ELSE LET x == CHOOSE x \in s : TRUE IN Smaller(f[x], g[s \ {x}])]
           iter == CHOOSE g : IsIter(g)
           op == [p \in Nat \X Nat |-> Smaller(p[1], p[2])]
           Holds(s) == /\ iter[s] \in Nat /\ \A i \in s : iter[s] <= f[i]
                       /\ iter[s] = Highest \/ \E i \in s : f[i] = iter[s]
<1>1. SmallestOf(f, S) = iter[S]
  BY DEF SmallestOf, FoldFunctionOnSet, MapThenFoldSet
<1>9. Highest \in Nat
  OBVIOUS
<1> HIDE DEF Highest
<1>2. PICK g : IsFold(g, op, Highest, f, S, Nat)
  <2>1. op \in [Nat \X Nat -> Nat] /\ Highest \in Nat
    BY <1>9 DEF Smaller
  <2> HIDE DEF op
  <2> QED
    BY <2>1, FoldExists
<1>3. \A s \in SUBSET S : s # {} => Chosen(s) \in s /\ s \ {Chosen(s)} \in SUBSET S
  BY DEF Chosen
<1>4. \A s \in SUBSET S : g[s] = IF s = {} THEN Highest ELSE Smaller(f[Chosen(s)], g[s \ {Chosen(s)}])
  <2> TAKE s \in SUBSET S
  <2>1. CASE s = {}
    BY <1>2, <2>1 DEF IsFold, Folded
  <2>2. CASE s # {}
    <3>1. f[Chosen(s)] \in Nat /\ g[s \ {Chosen(s)}] \in Nat
      BY <1>2, <1>3, <2>2 DEF IsFold
    <3>2. op[<<f[Chosen(s)], g[s \ {Chosen(s)}]>>] = Smaller(f[Chosen(s)], g[s \ {Chosen(s)}])
      BY <3>1
    <3> HIDE DEF op
    <3> QED
      BY <1>2, <2>2, <3>2 DEF IsFold, Folded
  <2> QED
    BY <2>1, <2>2
<1>5. IsIter(g)
  BY <1>2, <1>4 DEF Chosen, IsFold
<1>6. IsIter(iter)
  BY <1>5
<1>7. \A s \in SUBSET S :
        iter[s] = IF s = {} THEN Highest ELSE Smaller(f[Chosen(s)], iter[s \ {Chosen(s)}])
  BY <1>6 DEF Chosen
<1> HIDE DEF iter
<1> DEFINE bad == {s \in SUBSET S : ~Holds(s)}
<1>8. bad = {}
  <2>1. SUFFICES ASSUME bad # {} PROVE FALSE
    OBVIOUS
  <2>2. PICK s \in bad : \A x \in s : s \ {x} \notin bad
    <3>1. bad \in SUBSET SUBSET S
      OBVIOUS
    <3> HIDE DEF bad
    <3> QED
      BY <2>1, <3>1, SmallestSet
  <2>3. s \in SUBSET S /\ ~Holds(s)
    BY <2>2
  <2>4. s # {}
    BY <1>7, <1>9, <2>3
  <2> DEFINE x == Chosen(s)
             rest == s \ {Chosen(s)}
  <2>5. x \in s /\ rest \in SUBSET S /\ Holds(rest)
    BY <1>3, <2>2, <2>3, <2>4
  <2>6. iter[s] = Smaller(f[x], iter[rest]) /\ f[x] \in Nat /\ iter[rest] \in Nat
    BY <1>7, <2>3, <2>4, <2>5
  <2>7. \A i \in s : i = x \/ i \in rest
    OBVIOUS
  <2>8. iter[s] \in Nat /\ iter[s] <= f[x] /\ iter[s] <= iter[rest]
        /\ (iter[s] = f[x] \/ iter[s] = iter[rest])
    BY <2>6 DEF Smaller
  <2>9. \A i \in rest : f[i] \in Nat /\ iter[rest] <= f[i]
    BY <2>3, <2>5
  <2>10. \A i \in rest : i \in s
    OBVIOUS
  <2> HIDE DEF x, rest
  <2>11. \A i \in s : iter[s] <= f[i]
    BY <2>6, <2>7, <2>8, <2>9
  <2>12. iter[s] = Highest \/ \E i \in s : f[i] = iter[s]
    BY <2>5, <2>8, <2>10
  <2> QED
    BY <2>3, <2>8, <2>11, <2>12
<1> QED
  BY <1>1, <1>8 DEF Highest

-----------------------------------------------------------------------------
(* Sums over intervals.                                                    *)

SumOf(f, a, b) == SumFunctionOnSet([i \in a .. b |-> f[i]], a .. b)

LEMMA SumStep ==
  ASSUME NEW a \in Int, NEW b \in Int, a <= b + 1, NEW f, \A i \in a .. b + 1 : f[i] \in Int
  PROVE  SumOf(f, a, b + 1) = SumOf(f, a, b) + f[b + 1] /\ SumOf(f, a, b) \in Int
<1> DEFINE S == a .. b + 1
           T == a .. b
           fS == [i \in S |-> f[i]]
           fT == [i \in T |-> f[i]]
<1>1. IsFiniteSet(S) /\ IsFiniteSet(T) /\ fS \in [S -> Int] /\ fT \in [T -> Int]
  BY FS_Interval
<1>2. S \ {b + 1} = T /\ b + 1 \in S
  OBVIOUS
<1>3. [i \in S \ {b + 1} |-> fS[i]] = fT
  BY <1>2
<1>4. fS[b + 1] = f[b + 1] /\ f[b + 1] \in Int
  BY <1>2
<1>5. SumOf(f, a, b + 1) = SumFunctionOnSet(fS, S) /\ SumOf(f, a, b) = SumFunctionOnSet(fT, T)
  BY DEF SumOf
<1> HIDE DEF S, T, fS, fT
<1>6. SumFunctionOnSet(fT, T) \in Int
  BY <1>1, SumRule
<1>7. SumFunctionOnSet(fS, S) = fS[b + 1] + SumFunctionOnSet([i \in S \ {b + 1} |-> fS[i]], S \ {b + 1})
  BY <1>1, <1>2, SumRule
<1>8. SumFunctionOnSet(fS, S) = fS[b + 1] + SumFunctionOnSet(fT, T)
  BY <1>2, <1>3, <1>7
<1> QED
  BY <1>4, <1>5, <1>6, <1>8

LEMMA SumEmpty ==
  ASSUME NEW a \in Int, NEW b \in Int, b < a, NEW f
  PROVE  SumOf(f, a, b) = 0
<1> DEFINE S == a .. b
           fS == [i \in S |-> f[i]]
<1>1. S = {} /\ IsFiniteSet(S) /\ fS \in [S -> Int]
  BY FS_EmptySet
<1>2. SumOf(f, a, b) = SumFunctionOnSet(fS, S)
  BY DEF SumOf
<1> HIDE DEF S, fS
<1> QED
  BY <1>1, <1>2, SumRule

LEMMA SumIsInt ==
  ASSUME NEW a \in Int, NEW b \in Int, NEW f, \A i \in a .. b : f[i] \in Int
  PROVE  SumOf(f, a, b) \in Int
<1>1. CASE b < a
  BY <1>1, SumEmpty
<1>2. CASE a <= b
  <2>1. b - 1 \in Int /\ b - 1 + 1 = b /\ a <= b - 1 + 1
    BY <1>2
  <2>2. \A i \in a .. b - 1 + 1 : f[i] \in Int
    BY <2>1
  <2>3. SumOf(f, a, b - 1 + 1) = SumOf(f, a, b - 1) + f[b - 1 + 1] /\ SumOf(f, a, b - 1) \in Int
    BY <2>1, <2>2, SumStep
  <2>4. f[b] \in Int
    BY <1>2
  <2> QED
    BY <2>1, <2>3, <2>4
<1> QED
  BY <1>1, <1>2

LEMMA SumIsNat ==
  ASSUME NEW a \in Int, NEW b \in Int, NEW f, \A i \in a .. b : f[i] \in Nat
  PROVE  SumOf(f, a, b) \in Nat
<1> DEFINE bad == {n \in Nat : a + n - 1 <= b /\ SumOf(f, a, a + n - 1) \notin Nat}
<1>1. bad = {}
  <2>1. SUFFICES ASSUME bad # {} PROVE FALSE
    OBVIOUS
  <2>2. PICK n \in bad : \A k \in bad : n <= k
    <3>1. bad \in SUBSET Nat
      OBVIOUS
    <3> HIDE DEF bad
    <3> QED
      BY <2>1, <3>1, LeastElement
  <2>3. n \in Nat /\ a + n - 1 <= b /\ SumOf(f, a, a + n - 1) \notin Nat
    BY <2>2
  <2>4. n # 0
    <3>1. SUFFICES ASSUME n = 0 PROVE FALSE
      OBVIOUS
    <3>2. SumOf(f, a, a - 1) = 0
      BY SumEmpty
    <3> QED
      BY <2>3, <3>1, <3>2
  <2> DEFINE m == n - 1
  <2>5. m \in Nat /\ m < n /\ a + m - 1 <= b /\ a + n - 1 = (a + m - 1) + 1
    BY <2>3, <2>4
  <2> HIDE DEF m
  <2>6. SumOf(f, a, a + m - 1) \in Nat
    <3>1. m \notin bad
      BY <2>2, <2>5
    <3> QED
      BY <2>5, <3>1
  <2>7. \A i \in a .. (a + m - 1) + 1 : f[i] \in Int
    BY <2>3, <2>5
  <2>8. SumOf(f, a, (a + m - 1) + 1) = SumOf(f, a, a + m - 1) + f[(a + m - 1) + 1]
    BY <2>5, <2>7, SumStep
  <2>9. f[(a + m - 1) + 1] \in Nat
    BY <2>3, <2>5
  <2> QED
    BY <2>3, <2>5, <2>6, <2>8, <2>9
<1>2. CASE b < a
  BY <1>2, SumEmpty
<1>3. CASE a <= b
  <2> DEFINE n == b - a + 1
  <2>1. n \in Nat /\ a + n - 1 = b
    BY <1>3
  <2>2. \A m \in Nat : a + m - 1 <= b => SumOf(f, a, a + m - 1) \in Nat
    BY <1>1
  <2> HIDE DEF n, bad
  <2>3. a + n - 1 <= b
    BY <2>1
  <2>4. SumOf(f, a, a + n - 1) \in Nat
    BY <2>1, <2>2, <2>3
  <2> QED
    BY <2>1, <2>4
<1> QED
  BY <1>2, <1>3

\* Adjacent intervals.
LEMMA SumJoin ==
  ASSUME NEW a \in Int, NEW b \in Int, NEW c \in Int, a <= b + 1, b <= c,
         NEW f, \A i \in a .. c : f[i] \in Int
  PROVE  SumOf(f, a, c) = SumOf(f, a, b) + SumOf(f, b + 1, c)
<1> DEFINE Joins(e) == SumOf(f, a, e) = SumOf(f, a, b) + SumOf(f, b + 1, e)
           bad == {n \in Nat : b + n <= c /\ ~Joins(b + n)}
<1>1. bad = {}
  <2>1. SUFFICES ASSUME bad # {} PROVE FALSE
    OBVIOUS
  <2>2. PICK n \in bad : \A k \in bad : n <= k
    <3>1. bad \in SUBSET Nat
      OBVIOUS
    <3> HIDE DEF bad
    <3> QED
      BY <2>1, <3>1, LeastElement
  <2>3. n \in Nat /\ b + n <= c /\ ~Joins(b + n)
    BY <2>2
  <2>4. SumOf(f, a, b) \in Int
    BY SumIsInt
  <2>5. n # 0
    <3>1. SUFFICES ASSUME n = 0 PROVE FALSE
      OBVIOUS
    <3>2. SumOf(f, b + 1, b) = 0
      BY SumEmpty
    <3>3. b + n = b
      BY <3>1
    <3> QED
      BY <2>3, <2>4, <3>2, <3>3
  <2> DEFINE e == b + (n - 1)
  <2>6. n - 1 \in Nat /\ n - 1 < n /\ e \in Int /\ e + 1 = b + n /\ b <= e /\ e + 1 <= c
    BY <2>3, <2>5
  <2>7. Joins(e)
    <3>1. n - 1 \notin bad
      BY <2>2, <2>6
    <3>2. e <= c
      BY <2>6
    <3> QED
      BY <2>6, <3>1, <3>2
  <2> HIDE DEF e
  <2>8. /\ SumOf(f, a, e + 1) = SumOf(f, a, e) + f[e + 1]
    <3>1. \A i \in a .. e + 1 : f[i] \in Int
      BY <2>6
    <3> QED
      BY <2>6, <3>1, SumStep
  <2>9. SumOf(f, b + 1, e + 1) = SumOf(f, b + 1, e) + f[e + 1] /\ SumOf(f, b + 1, e) \in Int
    <3>1. \A i \in b + 1 .. e + 1 : f[i] \in Int
      BY <2>6
    <3> QED
      BY <2>6, <3>1, SumStep
  <2>10. f[e + 1] \in Int
    BY <2>6
  <2> QED
    BY <2>3, <2>4, <2>6, <2>7, <2>8, <2>9, <2>10
<1>2. c - b \in Nat /\ b + (c - b) = c
  OBVIOUS
<1>3. \A n \in Nat : b + n <= c => Joins(b + n)
  BY <1>1
<1> HIDE DEF Joins, bad
<1>4. Joins(c)
  BY <1>2, <1>3
<1> QED
  BY <1>4 DEF Joins

-----------------------------------------------------------------------------
(* Multiples of a ratio.                                                   *)

LEMMA Multiples ==
  ASSUME NEW p \in Nat \ {0}, NEW a \in Nat, NEW b \in Nat
  PROVE  /\ a * p \in Nat /\ (a + 1) * p = a * p + p
         /\ a <= b => a * p <= b * p
         /\ a * p < b * p => a < b
  OBVIOUS

\* The interval of length p an element lies in.
LEMMA IntervalOf ==
  ASSUME NEW p \in Nat \ {0}, NEW a \in Nat, NEW b \in Nat, NEW i \in a * p + 1 .. b * p
  PROVE  \E k \in a + 1 .. b : i \in (k - 1) * p + 1 .. k * p
<1> DEFINE q == (i - 1) \div p
           k == q + 1
<1>1. a * p \in Nat /\ b * p \in Nat
  BY Multiples
<1>2. i \in Nat \ {0} /\ i > a * p /\ i <= b * p
  BY <1>1
<1>3. k \in Nat /\ k - 1 \in Nat /\ (k - 1) * p < i /\ i <= k * p
  <2>1. q \in Nat /\ q * p < i /\ i <= (q + 1) * p
    BY <1>2
  <2> HIDE DEF q
  <2>2. k - 1 = q /\ k \in Nat
    BY <2>1
  <2> QED
    BY <2>1, <2>2
<1> HIDE DEF k
<1>4. k \in Nat /\ a * p < k * p /\ (k - 1) * p < b * p
  <2>1. k \in Nat
    BY <1>3
  <2>2. k * p \in Nat /\ (k - 1) * p \in Nat
    BY <1>3, <2>1, Multiples
  <2> QED
    BY <1>1, <1>2, <1>3, <2>1, <2>2
<1>5. a < k /\ k - 1 < b
  BY <1>3, <1>4, Multiples
<1>6. k \in a + 1 .. b
  BY <1>3, <1>4, <1>5
<1>7. i \in (k - 1) * p + 1 .. k * p
  <2>1. k * p \in Nat /\ (k - 1) * p \in Nat
    BY <1>3, <1>4, Multiples
  <2> QED
    BY <1>2, <1>3, <2>1
<1> QED
  BY <1>6, <1>7

\* Each value of coarse is the sum of p values of fine.
Coarser(coarse, fine, p, n) ==
  /\ \A i \in 1 .. n * p : fine[i] \in Int
  /\ \A k \in 1 .. n : coarse[k] = SumOf(fine, (k - 1) * p + 1, k * p)

\* A sum of sums over intervals of length p is the sum over all of them.
LEMMA SumOfSums ==
  ASSUME NEW p \in Nat \ {0}, NEW n \in Nat, NEW fine, NEW coarse,
         Coarser(coarse, fine, p, n), NEW a \in 0 .. n, NEW b \in a .. n
  PROVE  SumOf(coarse, a + 1, b) = SumOf(fine, a * p + 1, b * p)
<1> USE DEF Coarser
<1> DEFINE Same(e) == SumOf(coarse, a + 1, e) = SumOf(fine, a * p + 1, e * p)
           bad == {m \in Nat : a + m <= n /\ ~Same(a + m)}
<1>1. \A k \in 0 .. n : k * p \in Nat /\ k * p <= n * p
  BY Multiples
<1>2. \A k \in 1 .. n : coarse[k] \in Int
  <2> TAKE k \in 1 .. n
  <2>1. k - 1 \in 0 .. n /\ k \in 0 .. n
    OBVIOUS
  <2>2. (k - 1) * p \in Nat /\ k * p \in Nat /\ k * p <= n * p
    BY <1>1, <2>1
  <2>3. \A i \in (k - 1) * p + 1 .. k * p : i \in 1 .. n * p
    BY <1>1, <2>2
  <2>4. \A i \in (k - 1) * p + 1 .. k * p : fine[i] \in Int
    BY <2>3
  <2>5. SumOf(fine, (k - 1) * p + 1, k * p) \in Int
    BY <2>2, <2>4, SumIsInt
  <2> QED
    BY <2>5
<1>3. bad = {}
  <2>1. SUFFICES ASSUME bad # {} PROVE FALSE
    OBVIOUS
  <2>2. PICK m \in bad : \A k \in bad : m <= k
    <3>1. bad \in SUBSET Nat
      OBVIOUS
    <3> HIDE DEF bad
    <3> QED
      BY <2>1, <3>1, LeastElement
  <2>3. m \in Nat /\ a + m <= n /\ ~Same(a + m)
    BY <2>2
  <2>4. m # 0
    <3>1. SUFFICES ASSUME m = 0 PROVE FALSE
      OBVIOUS
    <3>2. SumOf(coarse, a + 1, a) = 0
      BY SumEmpty
    <3>3. SumOf(fine, a * p + 1, a * p) = 0
      BY <1>1, SumEmpty
    <3>4. a + m = a
      BY <3>1
    <3> QED
      BY <2>3, <3>2, <3>3, <3>4
  <2> DEFINE e == a + (m - 1)
  <2>5. m - 1 \in Nat /\ m - 1 < m /\ e \in 0 .. n /\ e + 1 = a + m /\ a <= e /\ e + 1 \in 1 .. n
    BY <2>3, <2>4
  <2>6. Same(e)
    <3>1. m - 1 \notin bad
      BY <2>2, <2>5
    <3>2. e <= n
      BY <2>5
    <3> QED
      BY <2>5, <3>1, <3>2
  <2> HIDE DEF e
  <2>7. SumOf(coarse, a + 1, e + 1) = SumOf(coarse, a + 1, e) + coarse[e + 1]
    <3>1. \A i \in a + 1 .. e + 1 : coarse[i] \in Int
      BY <1>2, <2>5
    <3> QED
      BY <2>5, <3>1, SumStep
  <2>8. coarse[e + 1] = SumOf(fine, e * p + 1, (e + 1) * p)
    <3>1. (e + 1) - 1 = e
      BY <2>5
    <3>2. coarse[e + 1] = SumOf(fine, ((e + 1) - 1) * p + 1, (e + 1) * p)
      BY <2>5
    <3> QED
      BY <3>1, <3>2
  <2>9. SumOf(fine, a * p + 1, (e + 1) * p)
          = SumOf(fine, a * p + 1, e * p) + SumOf(fine, e * p + 1, (e + 1) * p)
    <3>1. /\ a * p \in Nat /\ e * p \in Nat /\ (e + 1) * p \in Nat
          /\ a * p <= e * p /\ e * p <= (e + 1) * p /\ (e + 1) * p <= n * p
      BY <1>1, <2>5, Multiples
    <3>2. \A i \in a * p + 1 .. (e + 1) * p : fine[i] \in Int
      BY <1>1, <3>1
    <3> DEFINE x == a * p + 1
               y == e * p
               z == (e + 1) * p
    <3>3. x \in Int /\ y \in Int /\ z \in Int /\ x <= y + 1 /\ y <= z
      BY <3>1
    <3>4. \A i \in x .. z : fine[i] \in Int
      BY <3>2
    <3> HIDE DEF x, y, z
    <3>5. SumOf(fine, x, z) = SumOf(fine, x, y) + SumOf(fine, y + 1, z)
      BY <3>3, <3>4, SumJoin
    <3> QED
      BY <3>5 DEF x, y, z
  <2> QED
    BY <2>3, <2>5, <2>6, <2>7, <2>8, <2>9
<1>4. b - a \in Nat /\ a + (b - a) = b /\ b <= n
  OBVIOUS
<1>5. \A m \in Nat : a + m <= n => Same(a + m)
  BY <1>3
<1> HIDE DEF Same, bad
<1>6. Same(b)
  BY <1>4, <1>5
<1> QED
  BY <1>6 DEF Same

-----------------------------------------------------------------------------
(* Candles and what an interval of them adds up to.                        *)

Candle == [time : Nat, open : Nat, high : Nat \ {0}, low : 0 .. NoLow, close : Nat, volume : Nat]

SpanIn(s, a, b) == s \in Seq(Candle) /\ a \in Nat \ {0} /\ b \in Nat /\ b <= Len(s)

Volumes(s) == [i \in DOMAIN s |-> s[i].volume]

LEMMA NoLowIsNat == NoLow \in Nat /\ NoLow < 2147483647
  BY DEF NoLow

LEMMA CandleOf ==
  ASSUME NEW s, NEW a, NEW b, SpanIn(s, a, b), NEW i \in a .. b
  PROVE  /\ i \in 1 .. Len(s) /\ i \in DOMAIN s /\ s[i] \in Candle /\ s[i].high \in Nat \ {0}
         /\ s[i].low \in 0 .. NoLow /\ s[i].low \in Nat /\ s[i].volume \in Nat
         /\ Volumes(s)[i] = s[i].volume
<1>1. i \in 1 .. Len(s) /\ i \in DOMAIN s
  BY DEF SpanIn
<1>2. s[i] \in Candle
  BY <1>1 DEF SpanIn
<1>3. s[i].high \in Nat \ {0} /\ s[i].low \in 0 .. NoLow /\ s[i].volume \in Nat
  BY <1>2 DEF Candle
<1> QED
  BY <1>1, <1>2, <1>3, NoLowIsNat DEF Volumes

LEMMA VolumeOf ==
  ASSUME NEW s, NEW a, NEW b, SpanIn(s, a, b)
  PROVE  Volume(s, a .. b) = SumOf(Volumes(s), a, b) /\ Volume(s, a .. b) \in Nat
<1>1. \A i \in a .. b : Volumes(s)[i] = s[i].volume /\ s[i].volume \in Nat
  BY CandleOf
<1>2. [i \in a .. b |-> s[i].volume] = [i \in a .. b |-> Volumes(s)[i]]
  BY <1>1
<1>3. Volume(s, a .. b) = SumOf(Volumes(s), a, b)
  BY <1>2 DEF Volume, SumOf
<1>4. a \in Int /\ b \in Int /\ \A i \in a .. b : Volumes(s)[i] \in Nat
  BY <1>1 DEF SpanIn
<1>5. SumOf(Volumes(s), a, b) \in Nat
  BY <1>4, SumIsNat
<1> QED
  BY <1>3, <1>5

IsMax(m, s, span) ==
  m \in Nat /\ (\A i \in span : s[i].high <= m) /\ (m = 0 \/ \E i \in span : s[i].high = m)
IsMin(m, s, span) ==
  m \in Nat /\ (\A i \in span : m <= s[i].low)
  /\ (m = 2147483647 \/ \E i \in span : s[i].low = m)

LEMMA MaxOf ==
  ASSUME NEW s, NEW a, NEW b, SpanIn(s, a, b)
  PROVE  IsMax(MaxHigh(s, a .. b), s, a .. b)
<1> DEFINE S == a .. b
           f == [i \in S |-> s[i].high]
<1>1. IsFiniteSet(S)
  BY FS_Interval DEF SpanIn
<1>2. \A i \in S : s[i].high \in Nat
  BY CandleOf
<1>3. f \in [S -> Nat] /\ \A i \in S : f[i] = s[i].high
  BY <1>2
<1>4. MaxHigh(s, S) = LargestOf(f, S)
  BY SMT DEF MaxHigh, LargestOf
<1> HIDE DEF S, f
<1> DEFINE m == LargestOf(f, S)
<1>5. m \in Nat /\ (\A i \in S : f[i] <= m) /\ (m = 0 \/ \E i \in S : f[i] = m)
  BY <1>1, <1>3, MaxRule
<1> HIDE DEF m
<1>6. IsMax(m, s, S)
  BY <1>3, <1>5 DEF IsMax
<1> QED
  BY <1>4, <1>6 DEF S, m

LEMMA MinOf ==
  ASSUME NEW s, NEW a, NEW b, SpanIn(s, a, b)
  PROVE  IsMin(MinLow(s, a .. b), s, a .. b)
<1> DEFINE S == a .. b
           f == [i \in S |-> s[i].low]
<1>1. IsFiniteSet(S)
  BY FS_Interval DEF SpanIn
<1>2. \A i \in S : s[i].low \in Nat
  BY CandleOf
<1>3. f \in [S -> Nat] /\ \A i \in S : f[i] = s[i].low
  BY <1>2
<1>4. MinLow(s, S) = SmallestOf(f, S)
  BY SMT DEF MinLow, SmallestOf
<1> HIDE DEF S, f
<1> DEFINE m == SmallestOf(f, S)
<1>5. m \in Nat /\ (\A i \in S : m <= f[i]) /\ (m = 2147483647 \/ \E i \in S : f[i] = m)
  BY <1>1, <1>3, MinRule
<1> HIDE DEF m
<1>6. IsMin(m, s, S)
  BY <1>3, <1>5 DEF IsMin
<1> QED
  BY <1>4, <1>6 DEF S, m

\* There is one of each.
LEMMA OneMax ==
  ASSUME NEW s, NEW a, NEW b, SpanIn(s, a, b), NEW m, IsMax(m, s, a .. b)
  PROVE  m = MaxHigh(s, a .. b)
<1> DEFINE M == MaxHigh(s, a .. b)
<1>1. IsMax(M, s, a .. b)
  BY MaxOf
<1>2. \A i \in a .. b : s[i].high \in Nat \ {0}
  BY CandleOf
<1> HIDE DEF M
<1>3. m \in Nat /\ M \in Nat /\ m <= M /\ M <= m
  BY <1>1, <1>2 DEF IsMax
<1> QED
  BY <1>3 DEF M

LEMMA OneMin ==
  ASSUME NEW s, NEW a, NEW b, SpanIn(s, a, b), NEW m, IsMin(m, s, a .. b)
  PROVE  m = MinLow(s, a .. b)
<1> DEFINE M == MinLow(s, a .. b)
<1>1. IsMin(M, s, a .. b)
  BY MinOf
<1>2. \A i \in a .. b : s[i].low \in Nat /\ s[i].low < 2147483647
  <2>1. \A i \in a .. b : s[i].low \in 0 .. NoLow
    BY CandleOf
  <2> QED
    BY <2>1, NoLowIsNat
<1> HIDE DEF M
<1>3. m \in Nat /\ M \in Nat /\ m <= M /\ M <= m
  BY <1>1, <1>2 DEF IsMin
<1> QED
  BY <1>3 DEF M

Aggregate(s, a, b) ==
  [time |-> s[b].time, open |-> s[a].open, high |-> MaxHigh(s, a .. b), low |-> MinLow(s, a .. b),
   close |-> s[b].close, volume |-> Volume(s, a .. b)]

LEMMA AggregateType ==
  ASSUME NEW s, NEW a, NEW b, SpanIn(s, a, b), a <= b
  PROVE  Aggregate(s, a, b) \in Candle
<1>1. a \in a .. b /\ b \in a .. b
  BY DEF SpanIn
<1>2. s[a] \in Candle /\ s[b] \in Candle /\ s[a].high \in Nat \ {0} /\ s[a].low \in 0 .. NoLow
  BY <1>1, CandleOf
<1>3. MaxHigh(s, a .. b) \in Nat \ {0}
  BY <1>1, <1>2, MaxOf DEF IsMax
<1>4. MinLow(s, a .. b) \in 0 .. NoLow
  <2>1. MinLow(s, a .. b) \in Nat /\ MinLow(s, a .. b) <= s[a].low
    BY <1>1, MinOf DEF IsMin
  <2> QED
    BY <1>2, <2>1, NoLowIsNat
<1>5. Volume(s, a .. b) \in Nat
  BY VolumeOf
<1> QED
  BY <1>2, <1>3, <1>4, <1>5 DEF Aggregate, Candle

\* Later candles do not change it.
LEMMA AggregatePrefix ==
  ASSUME NEW s, NEW a, NEW b, SpanIn(s, a, b), a <= b, NEW c
  PROVE  Aggregate(Append(s, c), a, b) = Aggregate(s, a, b)
<1>1. \A i \in a .. b : Append(s, c)[i] = s[i]
  BY DEF SpanIn
<1>2. a \in a .. b /\ b \in a .. b
  BY DEF SpanIn
<1>3. \A t, S : /\ MaxHigh(t, S) = LargestOf([i \in S |-> t[i].high], S)
                /\ MinLow(t, S) = SmallestOf([i \in S |-> t[i].low], S)
                /\ Volume(t, S) = SumFunctionOnSet([i \in S |-> t[i].volume], S)
  BY SMT DEF MaxHigh, MinLow, Volume, LargestOf, SmallestOf
<1> DEFINE T == Append(s, c)
           S == a .. b
<1>4. /\ [i \in S |-> T[i].high] = [i \in S |-> s[i].high]
      /\ [i \in S |-> T[i].low] = [i \in S |-> s[i].low]
      /\ [i \in S |-> T[i].volume] = [i \in S |-> s[i].volume]
  BY <1>1
<1>5. T[a] = s[a] /\ T[b] = s[b]
  BY <1>1, <1>2
<1> HIDE DEF S, T
<1>6. MaxHigh(T, S) = MaxHigh(s, S) /\ MinLow(T, S) = MinLow(s, S) /\ Volume(T, S) = Volume(s, S)
  BY <1>3, <1>4
<1> QED
  BY <1>5, <1>6 DEF Aggregate, S, T

\* Candles of a longer frame: one for every per of the shorter one.
Layer(candles, per, s) ==
  /\ candles \in Seq(Candle)
  /\ Len(candles) = Len(s) \div per
  /\ \A k \in 1 .. Len(candles) : candles[k] = Aggregate(s, (k - 1) * per + 1, k * per)

\* Their intervals lie in the shorter one.
LEMMA LayerSpan ==
  ASSUME NEW s \in Seq(Candle), NEW per \in Nat \ {0}, NEW candles, Layer(candles, per, s),
         NEW a \in Nat \ {0}, NEW b \in a .. Len(candles)
  PROVE  /\ SpanIn(s, (a - 1) * per + 1, b * per) /\ (a - 1) * per + 1 <= b * per
         /\ SpanIn(candles, a, b) /\ (a - 1) * per \in Nat /\ b * per \in Nat
<1>1. Len(candles) = Len(s) \div per /\ candles \in Seq(Candle) /\ Len(s) \in Nat
      /\ Len(candles) \in Nat
  <2>1. Len(candles) = Len(s) \div per /\ candles \in Seq(Candle)
    BY DEF Layer
  <2> HIDE DEF Candle
  <2> QED
    BY <2>1
<1>2. b \in Nat /\ a - 1 \in Nat /\ a - 1 < b /\ b <= Len(candles)
  BY <1>1
<1>3. (a - 1) * per \in Nat /\ b * per \in Nat /\ (a - 1) * per < b * per
  <2>1. a - 1 + 1 <= b /\ a - 1 + 1 \in Nat
    BY <1>2
  <2>2. (a - 1 + 1) * per <= b * per /\ (a - 1 + 1) * per = (a - 1) * per + per
    BY <1>2, <2>1, Multiples
  <2>3. (a - 1) * per \in Nat /\ b * per \in Nat
    BY <1>2, Multiples
  <2> QED
    BY <2>2, <2>3
<1>4. b * per <= Len(s)
  <2>1. Len(candles) * per <= Len(s)
    BY <1>1
  <2>2. b * per <= Len(candles) * per /\ Len(candles) * per \in Nat
    BY <1>1, <1>2, Multiples
  <2> QED
    BY <1>1, <1>3, <2>1, <2>2
<1> QED
  BY <1>1, <1>2, <1>3, <1>4 DEF SpanIn

\* The aggregate of aggregates is that of what they were made from.
LEMMA AggregateOfAggregates ==
  ASSUME NEW s \in Seq(Candle), NEW per \in Nat \ {0}, NEW candles, Layer(candles, per, s),
         NEW a \in Nat \ {0}, NEW b \in a .. Len(candles)
  PROVE  Aggregate(candles, a, b) = Aggregate(s, (a - 1) * per + 1, b * per)
<1> DEFINE lo == (a - 1) * per + 1
           hi == b * per
           Lo(k) == (k - 1) * per + 1
           Hi(k) == k * per
<1>1. /\ SpanIn(s, lo, hi) /\ lo <= hi /\ SpanIn(candles, a, b)
  BY LayerSpan
<1>2. Len(candles) \in Nat /\ b \in Nat /\ a <= b
  BY DEF Layer
<1>3. ASSUME NEW k \in 1 .. Len(candles)
      PROVE  /\ candles[k] = Aggregate(s, Lo(k), Hi(k))
             /\ SpanIn(s, Lo(k), Hi(k)) /\ Lo(k) <= Hi(k)
  <2>1. k \in Nat \ {0} /\ k \in k .. Len(candles)
    BY <1>2
  <2> QED
    BY <2>1, LayerSpan DEF Layer
<1>4. ASSUME NEW k \in a .. b
      PROVE  /\ k \in 1 .. Len(candles) /\ lo <= Lo(k) /\ Hi(k) <= hi
             /\ Lo(k) \in Nat /\ Hi(k) \in Nat
  <2>1. k \in 1 .. Len(candles) /\ k - 1 \in Nat /\ a - 1 \in Nat /\ a - 1 <= k - 1 /\ k <= b /\ k \in Nat
    BY <1>2
  <2>2. (a - 1) * per <= (k - 1) * per /\ k * per <= b * per
    BY <1>2, <2>1, Multiples
  <2>3. (a - 1) * per \in Nat /\ (k - 1) * per \in Nat /\ k * per \in Nat /\ b * per \in Nat
    BY <1>2, <2>1, Multiples
  <2> QED
    BY <2>1, <2>2, <2>3
<1>5. \A i \in lo .. hi : \E k \in a .. b : i \in Lo(k) .. Hi(k)
  <2> TAKE i \in lo .. hi
  <2>1. a - 1 \in Nat /\ b \in Nat /\ i \in (a - 1) * per + 1 .. b * per
    BY <1>2
  <2>2. \E k \in (a - 1) + 1 .. b : i \in (k - 1) * per + 1 .. k * per
    BY <2>1, IntervalOf
  <2>3. (a - 1) + 1 = a
    OBVIOUS
  <2> QED
    BY <2>2, <2>3
<1>6. \A k \in a .. b : \A i \in Lo(k) .. Hi(k) : i \in lo .. hi
  <2>1. lo \in Nat /\ hi \in Nat
    BY <1>1 DEF SpanIn
  <2> HIDE DEF lo, hi, Lo, Hi
  <2> QED
    BY <1>4, <2>1
<1>7. /\ candles[b].time = s[hi].time /\ candles[b].close = s[hi].close
      /\ candles[a].open = s[lo].open
  <2>1. a \in 1 .. Len(candles) /\ b \in 1 .. Len(candles)
    BY <1>2
  <2>2. candles[a] = Aggregate(s, Lo(a), Hi(a)) /\ candles[b] = Aggregate(s, Lo(b), Hi(b))
    BY <1>3, <2>1
  <2> QED
    BY <2>2 DEF Aggregate
<1>8. ASSUME NEW k \in a .. b
      PROVE  /\ candles[k].high = MaxHigh(s, Lo(k) .. Hi(k))
             /\ candles[k].low = MinLow(s, Lo(k) .. Hi(k))
             /\ candles[k].volume = Volume(s, Lo(k) .. Hi(k))
             /\ IsMax(candles[k].high, s, Lo(k) .. Hi(k))
             /\ IsMin(candles[k].low, s, Lo(k) .. Hi(k))
             /\ SpanIn(s, Lo(k), Hi(k))
  <2>1. candles[k] = Aggregate(s, Lo(k), Hi(k)) /\ SpanIn(s, Lo(k), Hi(k))
    BY <1>3, <1>4
  <2> HIDE DEF Lo, Hi
  <2>2. /\ candles[k].high = MaxHigh(s, Lo(k) .. Hi(k))
        /\ candles[k].low = MinLow(s, Lo(k) .. Hi(k))
        /\ candles[k].volume = Volume(s, Lo(k) .. Hi(k))
    BY <2>1 DEF Aggregate
  <2> QED
    BY <2>1, <2>2, MaxOf, MinOf
<1> DEFINE S == lo .. hi
           T == a .. b
           P(k) == Lo(k) .. Hi(k)
<1>9. \A i \in S : s[i].high \in Nat /\ s[i].low \in Nat
  BY <1>1, CandleOf
<1>10. /\ \A i \in S : \E k \in T : i \in P(k)
       /\ \A k \in T : \A i \in P(k) : i \in S
       /\ \A k \in T : IsMax(candles[k].high, s, P(k)) /\ IsMin(candles[k].low, s, P(k))
       /\ IsMax(MaxHigh(candles, T), candles, T) /\ IsMin(MinLow(candles, T), candles, T)
  BY <1>1, <1>5, <1>6, <1>8, MaxOf, MinOf
<1>11. MaxHigh(candles, a .. b) = MaxHigh(s, lo .. hi)
  <2> DEFINE m == MaxHigh(candles, T)
  <2>1. IsMax(m, s, S)
    <3> HIDE DEF S, T, P, m
    <3>1. m \in Nat /\ (m = 0 \/ \E k \in T : candles[k].high = m)
          /\ \A k \in T : candles[k].high <= m /\ candles[k].high \in Nat
      BY <1>10 DEF IsMax, m
    <3>2. \A i \in S : s[i].high <= m
      <4> TAKE i \in S
      <4>1. PICK k \in T : i \in P(k)
        BY <1>10
      <4>2. s[i].high <= candles[k].high
        BY <1>10, <4>1 DEF IsMax
      <4> QED
        BY <1>9, <3>1, <4>2
    <3>3. m = 0 \/ \E i \in S : s[i].high = m
      BY <1>10, <3>1 DEF IsMax
    <3> QED
      BY <3>1, <3>2, <3>3 DEF IsMax
  <2> HIDE DEF lo, hi
  <2> QED
    BY <1>1, <2>1, OneMax
<1>12. MinLow(candles, a .. b) = MinLow(s, lo .. hi)
  <2> DEFINE m == MinLow(candles, T)
  <2>1. IsMin(m, s, S)
    <3> HIDE DEF S, T, P, m
    <3>1. m \in Nat /\ (m = 2147483647 \/ \E k \in T : candles[k].low = m)
          /\ \A k \in T : m <= candles[k].low /\ candles[k].low \in Nat
      BY <1>10 DEF IsMin, m
    <3>2. \A i \in S : m <= s[i].low
      <4> TAKE i \in S
      <4>1. PICK k \in T : i \in P(k)
        BY <1>10
      <4>2. candles[k].low <= s[i].low
        BY <1>10, <4>1 DEF IsMin
      <4> QED
        BY <1>9, <3>1, <4>2
    <3>3. m = 2147483647 \/ \E i \in S : s[i].low = m
      BY <1>10, <3>1 DEF IsMin
    <3> QED
      BY <3>1, <3>2, <3>3 DEF IsMin
  <2> HIDE DEF lo, hi
  <2> QED
    BY <1>1, <2>1, OneMin
<1>13. Volume(candles, a .. b) = Volume(s, lo .. hi)
  <2> DEFINE n == Len(candles)
             fine == Volumes(s)
             coarse == Volumes(candles)
  <2>1. SpanIn(candles, 1, n) /\ SpanIn(s, 1, n * per)
    <3>1. n \in Nat \ {0} /\ 1 \in Nat \ {0} /\ n \in 1 .. n
      BY <1>2
    <3>2. SpanIn(s, (1 - 1) * per + 1, n * per) /\ SpanIn(candles, 1, n)
      BY <3>1, LayerSpan
    <3>3. (1 - 1) * per + 1 = 1
      OBVIOUS
    <3> QED
      BY <3>2, <3>3
  <2>2. \A i \in 1 .. n * per : fine[i] \in Int
    BY <2>1, CandleOf
  <2>3. \A k \in 1 .. n : coarse[k] = SumOf(fine, (k - 1) * per + 1, k * per)
    <3> TAKE k \in 1 .. n
    <3>1. coarse[k] = candles[k].volume
      BY <2>1, CandleOf
    <3>2. candles[k] = Aggregate(s, Lo(k), Hi(k)) /\ SpanIn(s, Lo(k), Hi(k))
      BY <1>3
    <3>3. candles[k].volume = Volume(s, Lo(k) .. Hi(k))
      BY <3>2 DEF Aggregate
    <3>4. Volume(s, Lo(k) .. Hi(k)) = SumOf(fine, Lo(k), Hi(k))
      BY <3>2, VolumeOf
    <3> QED
      BY <3>1, <3>3, <3>4
  <2> DEFINE c == a - 1
  <2>4. c \in 0 .. n /\ b \in c .. n /\ c + 1 = a /\ n \in Nat
    BY <1>2
  <2> HIDE DEF n, fine, coarse, c
  <2>5. SumOf(coarse, c + 1, b) = SumOf(fine, c * per + 1, b * per)
    <3>1. Coarser(coarse, fine, per, n)
      BY <2>2, <2>3 DEF Coarser
    <3> QED
      BY <2>4, <3>1, SumOfSums
  <2>6. Volume(candles, a .. b) = SumOf(coarse, a, b)
    BY <1>1, VolumeOf DEF coarse
  <2>7. Volume(s, lo .. hi) = SumOf(fine, lo, hi)
    BY <1>1, VolumeOf DEF fine
  <2>8. SumOf(coarse, a, b) = SumOf(fine, lo, hi)
    BY <2>4, <2>5 DEF c
  <2> QED
    BY <2>6, <2>7, <2>8
<1> HIDE DEF lo, hi
<1> QED
  BY <1>7, <1>11, <1>12, <1>13 DEF Aggregate, lo, hi

\* A sequence of candles with a new one, or as it was.
Grows(before, after) == after = before \/ \E c \in Candle : after = Append(before, c)

\* What Append does.
LEMMA AppendFacts ==
  ASSUME NEW S, NEW s \in Seq(S), NEW x \in S
  PROVE  /\ Append(s, x) \in Seq(S) /\ Len(Append(s, x)) = Len(s) + 1 /\ Len(s) \in Nat
         /\ Append(s, x)[Len(s) + 1] = x
         /\ \A k \in 1 .. Len(s) : Append(s, x)[k] = s[k]
  OBVIOUS

LEMMA DivStep ==
  ASSUME NEW n \in Nat, NEW p \in Nat \ {0}
  PROVE  /\ (n + 1) \div p = IF (n + 1) % p = 0 THEN n \div p + 1 ELSE n \div p
         /\ (n + 1) % p = 0 => (n \div p + 1) * p = n + 1
         /\ n \div p \in Nat
  OBVIOUS

LEMMA ExtendStep ==
  ASSUME NEW before \in Seq(Candle), NEW after, Grows(before, after), NEW per \in Nat \ {0},
         NEW candles, Layer(candles, per, before)
  PROVE  LET next == Extend(candles, per, before, after) IN
         /\ after \in Seq(Candle) /\ Layer(next, per, after) /\ Grows(candles, next)
         /\ next # candles =>
              /\ after # before /\ Len(after) % per = 0
              /\ Len(next) = Len(candles) + 1 /\ next[Len(next)].time = after[Len(after)].time
<1> DEFINE next == Extend(candles, per, before, after)
<1>1. CASE after = before
  BY <1>1 DEF Extend, Grows
<1>2. ASSUME NEW c \in Candle, after = Append(before, c)
      PROVE  /\ after \in Seq(Candle) /\ Layer(next, per, after) /\ Grows(candles, next)
             /\ next # candles =>
                  /\ after # before /\ Len(after) % per = 0
                  /\ Len(next) = Len(candles) + 1 /\ next[Len(next)].time = after[Len(after)].time
  <2> DEFINE n == Len(before)
  <2>1. /\ n \in Nat /\ Len(after) = n + 1 /\ after \in Seq(Candle) /\ after # before
        /\ candles \in Seq(Candle) /\ Len(candles) = n \div per /\ Len(candles) \in Nat
    <3>1. candles \in Seq(Candle) /\ Len(candles) = Len(before) \div per
      BY DEF Layer
    <3>2. n \in Nat /\ Len(after) = n + 1 /\ after \in Seq(Candle)
      BY <1>2
    <3>3. Len(after) # Len(before)
      BY <3>2
    <3>4. Len(candles) \in Nat
      BY <3>1
    <3> QED
      BY <3>1, <3>2, <3>3, <3>4
  <2>2. \A k \in 1 .. Len(candles) : candles[k] = Aggregate(after, (k - 1) * per + 1, k * per)
    <3> TAKE k \in 1 .. Len(candles)
    <3>1. k \in Nat \ {0} /\ k \in k .. Len(candles)
      BY <2>1
    <3> DEFINE a == (k - 1) * per + 1
               b == k * per
    <3>2. SpanIn(before, a, b) /\ a <= b
      BY <3>1, LayerSpan
    <3>3. candles[k] = Aggregate(before, a, b)
      BY DEF Layer
    <3> HIDE DEF a, b
    <3>4. Aggregate(after, a, b) = Aggregate(before, a, b)
      BY <1>2, <3>2, AggregatePrefix
    <3> QED
      BY <3>3, <3>4 DEF a, b
  <2>3. next = IF (n + 1) % per = 0 THEN Append(candles, createNewBars(per, after)) ELSE candles
    <3>1. Len(after) > Len(before)
      BY <2>1
    <3> HIDE DEF n
    <3> QED
      BY <2>1, <3>1 DEF Extend
  <2>4. CASE (n + 1) % per # 0
    <3>1. next = candles /\ (n + 1) \div per = n \div per
      BY <2>1, <2>3, <2>4, DivStep
    <3> HIDE DEF next, n
    <3> QED
      BY <2>1, <2>2, <3>1 DEF Layer, Grows
  <2>5. CASE (n + 1) % per = 0
    <3> DEFINE K == Len(candles) + 1
               new == createNewBars(per, after)
               a == n + 1 - per + 1
    <3>1. next = Append(candles, new) /\ (n + 1) \div per = K /\ K * per = n + 1
      BY <2>1, <2>3, <2>5, DivStep
    <3>2. (K - 1) * per = n + 1 - per /\ (K - 1) * per \in Nat
      <4>1. K - 1 = Len(candles) /\ Len(candles) * per \in Nat
        BY <2>1, Multiples
      <4>2. K * per = Len(candles) * per + per
        BY <2>1, Multiples
      <4> HIDE DEF n, K
      <4> QED
        BY <2>1, <3>1, <4>1, <4>2
    <3> HIDE DEF n, next, K
    <3>3. SpanIn(after, a, n + 1) /\ a <= n + 1
      BY <2>1, <3>2 DEF SpanIn
    <3>4. new = Aggregate(after, a, n + 1)
      <4>1. \A x, y : x .. y = x .. y
        OBVIOUS
      <4> QED
        BY <2>1 DEF createNewBars, Aggregate, Last
    <3>5. new \in Candle
      BY <3>3, <3>4, AggregateType
    <3> HIDE DEF new
    <3>6. Len(next) = K /\ next[K] = new /\ next \in Seq(Candle)
          /\ \A k \in 1 .. Len(candles) : next[k] = candles[k]
      BY <2>1, <3>1, <3>5, AppendFacts DEF K
    <3>7. \A k \in 1 .. Len(next) : next[k] = Aggregate(after, (k - 1) * per + 1, k * per)
      <4> TAKE k \in 1 .. Len(next)
      <4>1. k = K \/ k \in 1 .. Len(candles)
        BY <2>1, <3>6 DEF K
      <4>2. CASE k = K
        BY <3>1, <3>2, <3>4, <3>6, <4>2
      <4>3. CASE k \in 1 .. Len(candles)
        BY <2>2, <3>6, <4>3
      <4> QED
        BY <4>1, <4>2, <4>3
    <3>8. Layer(next, per, after)
      BY <2>1, <3>1, <3>6, <3>7 DEF Layer
    <3>9. next[Len(next)].time = after[Len(after)].time
      BY <2>1, <3>4, <3>6 DEF Aggregate
    <3> QED
      BY <2>1, <2>5, <3>1, <3>5, <3>6, <3>8, <3>9 DEF Grows, K
  <2> QED
    BY <2>4, <2>5
<1> QED
  BY <1>1, <1>2 DEF Grows

\* Two levels are one.
LEMMA LayerCompose ==
  ASSUME NEW s \in Seq(Candle), NEW p \in Nat \ {0}, NEW q \in Nat \ {0},
         NEW mid, Layer(mid, p, s), NEW top, Layer(top, q, mid)
  PROVE  Layer(top, p * q, s) /\ p * q \in Nat \ {0}
<1>1. mid \in Seq(Candle) /\ Len(mid) = Len(s) \div p /\ Len(mid) \in Nat /\ Len(s) \in Nat
  <2>1. mid \in Seq(Candle) /\ Len(mid) = Len(s) \div p
    BY DEF Layer
  <2> QED
    BY <2>1
<1>2. top \in Seq(Candle) /\ Len(top) = Len(mid) \div q /\ Len(top) \in Nat
  <2>1. top \in Seq(Candle) /\ Len(top) = Len(mid) \div q
    BY DEF Layer
  <2> QED
    BY <1>1, <2>1
<1>3. Len(top) = Len(s) \div (p * q) /\ p * q \in Nat \ {0}
  <2> DEFINE n == Len(s)
  <2>1. (n \div p) \div q = n \div (p * q) /\ p * q \in Nat \ {0}
    <3>1. n \in Nat
      BY <1>1
    <3> HIDE DEF n
    <3> QED
      BY <3>1
  <2> QED
    BY <1>1, <1>2, <2>1
<1>4. ASSUME NEW k \in 1 .. Len(top)
      PROVE  top[k] = Aggregate(s, (k - 1) * (p * q) + 1, k * (p * q))
  <2> DEFINE a == (k - 1) * q + 1
             b == k * q
  <2>1. k \in Nat \ {0} /\ k \in k .. Len(top)
    BY <1>2
  <2>2. SpanIn(mid, a, b) /\ a <= b
    BY <1>1, <2>1, LayerSpan
  <2>3. top[k] = Aggregate(mid, a, b)
    BY DEF Layer
  <2>4. (a - 1) * p = (k - 1) * (p * q) /\ b * p = k * (p * q)
    BY <2>1
  <2> HIDE DEF a, b
  <2>5. a \in Nat \ {0} /\ b \in a .. Len(mid)
    BY <1>1, <2>2 DEF SpanIn
  <2>6. Aggregate(mid, a, b) = Aggregate(s, (a - 1) * p + 1, b * p)
    BY <2>5, AggregateOfAggregates
  <2> QED
    BY <2>3, <2>4, <2>6
<1> QED
  BY <1>2, <1>3, <1>4 DEF Layer

-----------------------------------------------------------------------------
(* The candles of a session.                                               *)

CandleInv ==
  /\ fiveSec \in Seq(Candle) /\ Len(fiveSec) <= MaxBars
  /\ \A i \in 1 .. Len(fiveSec) : fiveSec[i].time = i
  /\ Layer(thirtySec, PerThirty, fiveSec)
  /\ Layer(oneMin, PerMinute, thirtySec)
  /\ Layer(fiveMin, PerFive, oneMin)

\* What a bar does to the candles of a frame.
Moved(before, after) ==
  /\ before \in Seq(Candle) /\ after \in Seq(Candle)
  /\ after # before =>
       /\ \E c \in Candle : after = Append(before, c)
       /\ Len(after) = Len(before) + 1 /\ after[Len(after)].time = Len(fiveSec) + 1

LEMMA Ratios ==
  /\ PerThirty \in Nat \ {0} /\ PerMinute \in Nat \ {0} /\ PerFive \in Nat \ {0}
  /\ HalfHour \in Nat \ {0} /\ SlotMinutes \in Nat \ {0} /\ MaxBars \in Nat \ {0}
  /\ PerThirty > 1 /\ Starts \subseteq Int
  BY RatiosAssumption

LEMMA EmptyLayer ==
  ASSUME NEW per \in Nat \ {0}
  PROVE  Layer(<<>>, per, <<>>)
  BY DEF Layer

LEMMA CandleInit ==
  ASSUME Init
  PROVE  CandleInv
<1>1. fiveSec = <<>> /\ thirtySec = <<>> /\ oneMin = <<>> /\ fiveMin = <<>>
  BY DEF Init
<1>2. <<>> \in Seq(Candle) /\ Len(<<>>) <= MaxBars
  BY Ratios
<1> QED
  BY <1>1, <1>2, EmptyLayer, Ratios DEF CandleInv

LEMMA CandleStep ==
  ASSUME CandleInv, NEW bar \in Bars, updateData(bar)
  PROVE  /\ CandleInv'
         /\ Moved(fiveSec, fiveSec') /\ Moved(thirtySec, thirtySec')
         /\ Moved(oneMin, oneMin') /\ Moved(fiveMin, fiveMin')
         /\ Len(fiveSec) \in Nat /\ Len(fiveSec') = Len(fiveSec) + 1
         /\ fiveMin' # fiveMin => oneMin' # oneMin
         /\ oneMin' # oneMin => thirtySec' # thirtySec
<1> DEFINE c == [bar EXCEPT !.time = Len(fiveSec) + 1]
<1>1. /\ fiveSec \in Seq(Candle) /\ Len(fiveSec) \in Nat
      /\ \A i \in 1 .. Len(fiveSec) : fiveSec[i].time = i
      /\ Layer(thirtySec, PerThirty, fiveSec) /\ Layer(oneMin, PerMinute, thirtySec)
      /\ Layer(fiveMin, PerFive, oneMin)
  BY DEF CandleInv
<1>2. /\ fiveSec' = Append(fiveSec, c) /\ Len(fiveSec) < MaxBars
      /\ thirtySec' = Extend(thirtySec, PerThirty, fiveSec, fiveSec')
      /\ oneMin' = Extend(oneMin, PerMinute, thirtySec, thirtySec')
      /\ fiveMin' = Extend(fiveMin, PerFive, oneMin, oneMin')
  BY DEF updateData
<1>3. c \in Candle /\ c.time = Len(fiveSec) + 1
  <2>1. Len(fiveSec) + 1 \in Nat
    BY <1>1
  <2> DEFINE n == Len(fiveSec) + 1
  <2> HIDE DEF n
  <2>2. bar \in [time : {0}, open : Nat, high : Nat \ {0}, low : 0 .. NoLow, close : Nat,
                 volume : Nat]
    BY BarsAssumption
  <2>3. [bar EXCEPT !.time = n] \in Candle /\ [bar EXCEPT !.time = n].time = n
    BY <2>1, <2>2 DEF Candle, n
  <2> QED
    BY <2>3 DEF n
<1> HIDE DEF c
<1>4. /\ fiveSec' \in Seq(Candle) /\ Len(fiveSec') = Len(fiveSec) + 1
      /\ fiveSec'[Len(fiveSec) + 1] = c /\ \A k \in 1 .. Len(fiveSec) : fiveSec'[k] = fiveSec[k]
  BY <1>1, <1>2, <1>3, AppendFacts
<1>5. \A i \in 1 .. Len(fiveSec') : fiveSec'[i].time = i
  <2> TAKE i \in 1 .. Len(fiveSec')
  <2>1. i = Len(fiveSec) + 1 \/ i \in 1 .. Len(fiveSec)
    BY <1>1, <1>4
  <2> QED
    BY <1>1, <1>3, <1>4, <2>1
<1>6. Moved(fiveSec, fiveSec') /\ Grows(fiveSec, fiveSec')
  BY <1>1, <1>2, <1>3, <1>4 DEF Moved, Grows
<1>7. ASSUME NEW before, NEW after, Moved(before, after), NEW per \in Nat \ {0}, NEW candles,
             Layer(candles, per, before)
      PROVE  LET next == Extend(candles, per, before, after) IN
             Layer(next, per, after) /\ Moved(candles, next) /\ (next # candles => after # before)
  <2> DEFINE next == Extend(candles, per, before, after)
  <2>1. before \in Seq(Candle) /\ Grows(before, after) /\ candles \in Seq(Candle)
    BY <1>7 DEF Moved, Grows, Layer
  <2>2. /\ Layer(next, per, after) /\ Grows(candles, next)
        /\ next # candles =>
             /\ after # before
             /\ Len(next) = Len(candles) + 1 /\ next[Len(next)].time = after[Len(after)].time
    BY <1>7, <2>1, ExtendStep
  <2> HIDE DEF next
  <2>3. next \in Seq(Candle)
    BY <2>2 DEF Layer
  <2>4. next # candles => next[Len(next)].time = Len(fiveSec) + 1
    BY <1>7, <2>2 DEF Moved
  <2> QED
    BY <2>1, <2>2, <2>3, <2>4 DEF Moved, Grows, next
<1>8. /\ Layer(thirtySec', PerThirty, fiveSec') /\ Moved(thirtySec, thirtySec')
  BY <1>1, <1>2, <1>6, <1>7, Ratios
<1>9. /\ Layer(oneMin', PerMinute, thirtySec') /\ Moved(oneMin, oneMin')
      /\ (oneMin' # oneMin => thirtySec' # thirtySec)
  BY <1>1, <1>2, <1>8, <1>7, Ratios
<1>10. /\ Layer(fiveMin', PerFive, oneMin') /\ Moved(fiveMin, fiveMin')
       /\ (fiveMin' # fiveMin => oneMin' # oneMin)
  BY <1>1, <1>2, <1>9, <1>7, Ratios
<1>11. Len(fiveSec') <= MaxBars
  BY <1>1, <1>2, <1>4, Ratios
<1>12. CandleInv'
  BY <1>4, <1>5, <1>8, <1>9, <1>10, <1>11 DEF CandleInv, Layer
<1> QED
  BY <1>1, <1>4, <1>6, <1>8, <1>9, <1>10, <1>12

\* Every longer frame comes straight from the bars.
LEMMA LayersOfBars ==
  ASSUME CandleInv
  PROVE  /\ Layer(thirtySec, PerThirty, fiveSec)
         /\ Layer(oneMin, PerThirty * PerMinute, fiveSec)
         /\ Layer(fiveMin, PerThirty * PerMinute * PerFive, fiveSec)
         /\ PerThirty * PerMinute \in Nat \ {0}
<1>1. /\ fiveSec \in Seq(Candle) /\ thirtySec \in Seq(Candle) /\ oneMin \in Seq(Candle)
      /\ Layer(thirtySec, PerThirty, fiveSec) /\ Layer(oneMin, PerMinute, thirtySec)
      /\ Layer(fiveMin, PerFive, oneMin)
  BY DEF CandleInv, Layer
<1>2. Layer(oneMin, PerThirty * PerMinute, fiveSec) /\ PerThirty * PerMinute \in Nat \ {0}
  BY <1>1, Ratios, LayerCompose
<1>3. Layer(fiveMin, PerThirty * PerMinute * PerFive, fiveSec)
  BY <1>1, <1>2, Ratios, LayerCompose
<1> QED
  BY <1>1, <1>2, <1>3

LEMMA AggregateOfLayer ==
  ASSUME NEW per \in Nat \ {0}, NEW candles, Layer(candles, per, fiveSec)
  PROVE  AggregateOf(candles, per)
<1>1. candles \in Seq(Candle) /\ DOMAIN candles = 1 .. Len(candles)
      /\ Len(candles) = Len(fiveSec) \div per
  BY DEF Layer
<1>2. \A k \in DOMAIN candles :
        candles[k] = Aggregate(fiveSec, (k - 1) * per + 1, k * per)
  BY <1>1 DEF Layer
<1> QED
  BY <1>1, <1>2 DEF AggregateOf, Aggregate

-----------------------------------------------------------------------------
(* Aggregates.                                                             *)

MinuteBars == PerThirty * PerMinute

\* One entry for every finished minute: the volume of all bars up to its end.
VolumeInv ==
  /\ cumulativeVolume \in Seq([time : Nat, total : Nat])
  /\ Len(cumulativeVolume) = Len(oneMin)
  /\ \A m \in 1 .. Len(cumulativeVolume) :
       cumulativeVolume[m].total = Volume(fiveSec, 1 .. m * MinuteBars)

\* What was sent with the newest bar is the newest candle of its frame.
EmittedInv ==
  \A e \in emitted :
    /\ e.frame \in Frames /\ CandlesOf(e.frame) # <<>>
    /\ e.candle = Last(CandlesOf(e.frame)) /\ e.candle.time = Len(fiveSec)
    /\ e.tags = VPT[e.frame]

\* A candle and the bars it is made of.
LEMMA CandleSpan ==
  ASSUME NEW s \in Seq(Candle), NEW W \in Nat \ {0}, NEW candles, Layer(candles, W, s),
         NEW m \in 1 .. Len(candles)
  PROVE  /\ m * W \in Nat \ {0} /\ m - 1 \in Nat
         /\ (m - 1) * W \in Nat /\ (m - 1) * W <= m * W
         /\ SpanIn(s, 1, m * W)
         /\ SpanIn(s, (m - 1) * W + 1, m * W)
         /\ candles[m].volume = Volume(s, (m - 1) * W + 1 .. m * W)
         /\ candles[m] \in Candle
<1>1. candles \in Seq(Candle) /\ Len(candles) \in Nat
  BY DEF Layer
<1>2. m \in Nat \ {0} /\ m \in m .. Len(candles) /\ m - 1 \in Nat
  BY <1>1
<1>3. /\ SpanIn(s, (m - 1) * W + 1, m * W)
      /\ (m - 1) * W + 1 <= m * W
      /\ (m - 1) * W \in Nat /\ m * W \in Nat
  BY <1>2, LayerSpan
<1>4. candles[m] = Aggregate(s, (m - 1) * W + 1, m * W)
  BY DEF Layer
<1>5. candles[m].volume = Volume(s, (m - 1) * W + 1 .. m * W)
  BY <1>4 DEF Aggregate
<1>6. candles[m] \in Candle
  BY <1>1
<1> DEFINE lo == (m - 1) * W
           hi == m * W
<1> HIDE DEF lo, hi
<1>7. lo \in Nat /\ hi \in Nat /\ lo + 1 <= hi /\ SpanIn(s, lo + 1, hi)
  BY <1>3 DEF lo, hi
<1>8. hi \in Nat \ {0} /\ SpanIn(s, 1, hi) /\ lo <= hi
  BY <1>7 DEF SpanIn
<1> QED
  BY <1>2, <1>3, <1>5, <1>6, <1>8 DEF lo, hi

\* A sum over the bars is not changed by a later bar.
LEMMA VolumePrefix ==
  ASSUME NEW s, NEW b \in Nat \ {0}, SpanIn(s, 1, b), NEW c
  PROVE  Volume(Append(s, c), 1 .. b) = Volume(s, 1 .. b)
<1>1. 1 <= b
  OBVIOUS
<1>2. Aggregate(Append(s, c), 1, b) = Aggregate(s, 1, b)
  BY <1>1, AggregatePrefix
<1> QED
  BY <1>2 DEF Aggregate

LEMMA VolumeStep ==
  ASSUME CandleInv, VolumeInv, NEW bar \in Bars, updateData(bar)
  PROVE  VolumeInv'
<1>1. /\ CandleInv' /\ Moved(fiveSec, fiveSec') /\ Moved(oneMin, oneMin')
      /\ Len(fiveSec) \in Nat /\ Len(fiveSec') = Len(fiveSec) + 1
  BY CandleStep
<1>2. cumulativeVolume' = IF oneMin' # oneMin THEN updateCumulativeVolume(Last(oneMin'))
                                              ELSE cumulativeVolume
  BY DEF updateData
<1>3. oneMin \in Seq(Candle) /\ Len(oneMin) \in Nat /\ oneMin' \in Seq(Candle)
      /\ Len(oneMin') \in Nat
  <2>1. oneMin \in Seq(Candle) /\ oneMin' \in Seq(Candle)
    BY <1>1 DEF Moved
  <2> QED
    BY <2>1
<1>4. PICK c : fiveSec' = Append(fiveSec, c)
  <2>1. fiveSec' # fiveSec
    <3>1. Len(fiveSec') # Len(fiveSec)
      BY <1>1
    <3> QED
      BY <3>1
  <2> QED
    BY <1>1, <2>1 DEF Moved
<1> DEFINE cv == cumulativeVolume
           M == Len(cumulativeVolume)
<1>5. /\ cv \in Seq([time : Nat, total : Nat]) /\ M = Len(oneMin) /\ M \in Nat
      /\ \A m \in 1 .. M : cv[m].total = Volume(fiveSec, 1 .. m * MinuteBars)
  BY <1>3 DEF VolumeInv
<1>6. \A m \in 1 .. M : cv[m].total = Volume(fiveSec', 1 .. m * MinuteBars)
  <2> TAKE m \in 1 .. M
  <2>1. m * MinuteBars \in Nat \ {0} /\ SpanIn(fiveSec, 1, m * MinuteBars)
    <3>1. Layer(oneMin, MinuteBars, fiveSec) /\ fiveSec \in Seq(Candle) /\ MinuteBars \in Nat \ {0}
      BY LayersOfBars DEF MinuteBars, CandleInv
    <3> QED
      BY <1>5, <3>1, CandleSpan
  <2>2. Volume(fiveSec', 1 .. m * MinuteBars) = Volume(fiveSec, 1 .. m * MinuteBars)
    BY <1>4, <2>1, VolumePrefix
  <2> QED
    BY <1>5, <2>2
<1>7. CASE oneMin' = oneMin
  BY <1>2, <1>5, <1>6, <1>7 DEF VolumeInv, MinuteBars
<1>8. CASE oneMin' # oneMin
  <2> DEFINE K == M + 1
             before == IF cv = <<>> THEN 0 ELSE Last(cv).total
             e == [time |-> oneMin'[K].time, total |-> oneMin'[K].volume + before]
  <2>1. Len(oneMin') = K /\ K \in 1 .. Len(oneMin') /\ Last(oneMin') = oneMin'[K]
    <3>1. Len(oneMin') = K
      BY <1>1, <1>5, <1>8 DEF Moved
    <3> QED
      BY <1>5, <3>1 DEF Last
  <2>2. cumulativeVolume' = Append(cv, e)
    BY <1>2, <1>8, <2>1 DEF updateCumulativeVolume
  <2> DEFINE s == fiveSec'
             W == MinuteBars
  <2>3. /\ W \in Nat \ {0} /\ K * W \in Nat \ {0} /\ (K - 1) * W \in Nat /\ (K - 1) * W <= K * W
        /\ SpanIn(s, 1, K * W) /\ SpanIn(s, (K - 1) * W + 1, K * W)
        /\ oneMin'[K].volume = Volume(s, (K - 1) * W + 1 .. K * W) /\ oneMin'[K] \in Candle
    <3>1. /\ s \in Seq(Candle) /\ Layer(thirtySec', PerThirty, s) /\ thirtySec' \in Seq(Candle)
          /\ Layer(oneMin', PerMinute, thirtySec')
      BY <1>1 DEF CandleInv, Layer
    <3>2. Layer(oneMin', W, s) /\ W \in Nat \ {0}
      BY <3>1, LayerCompose, Ratios DEF MinuteBars
    <3> HIDE DEF s, W, K
    <3> QED
      BY <2>1, <3>1, <3>2, CandleSpan
  <2> DEFINE lo == (K - 1) * W
             hi == K * W
             f == Volumes(s)
  <2>4. lo = M * W
    BY <1>5
  <2>5. before = SumOf(f, 1, lo)
    <3>1. CASE M = 0
      <4>1. cv = <<>> /\ lo = 0
        BY <1>5, <3>1, <2>3
      <4> QED
        BY <4>1, SumEmpty
    <3>2. CASE M # 0
      <4>1. M \in 1 .. M /\ cv # <<>> /\ Last(cv) = cv[M]
        BY <1>5, <3>2 DEF Last
      <4>2. before = Volume(s, 1 .. lo)
        BY <1>6, <2>4, <4>1
      <4>3. SpanIn(s, 1, lo)
        BY <2>3 DEF SpanIn
      <4> HIDE DEF s, lo, before
      <4> QED
        BY <4>2, <4>3, VolumeOf
    <3> QED
      BY <3>1, <3>2
  <2>6. /\ lo \in Nat /\ hi \in Nat /\ lo <= hi /\ SpanIn(s, 1, hi) /\ SpanIn(s, lo + 1, hi)
        /\ oneMin'[K].volume = Volume(s, lo + 1 .. hi)
    BY <2>3
  <2> HIDE DEF lo, hi, before, s, W
  <2>7. \A i \in 1 .. hi : f[i] \in Nat
    BY <2>6, CandleOf
  <2> HIDE DEF f
  <2>8. SumOf(f, 1, hi) = SumOf(f, 1, lo) + SumOf(f, lo + 1, hi)
    <3>1. \A i \in 1 .. hi : f[i] \in Int
      BY <2>7
    <3>2. 1 \in Int /\ lo \in Int /\ hi \in Int /\ 1 <= lo + 1
      BY <2>6
    <3> QED
      BY <2>6, <3>1, <3>2, SumJoin
  <2>9. Volume(s, 1 .. hi) = SumOf(f, 1, hi) /\ oneMin'[K].volume = SumOf(f, lo + 1, hi)
        /\ Volume(s, 1 .. hi) \in Nat
    BY <2>6, VolumeOf DEF f
  <2>10. SumOf(f, 1, lo) \in Int /\ SumOf(f, lo + 1, hi) \in Int
    <3>1. 1 \in Int /\ lo \in Int /\ hi \in Int /\ lo + 1 \in Int
          /\ (\A i \in 1 .. lo : f[i] \in Int) /\ \A i \in lo + 1 .. hi : f[i] \in Int
      BY <2>6, <2>7
    <3> QED
      BY <3>1, SumIsInt
  <2>11. e.total = Volume(s, 1 .. hi)
    BY <2>5, <2>8, <2>9, <2>10
  <2>12. e \in [time : Nat, total : Nat]
    <3>1. oneMin'[K].time \in Nat
      BY <2>3 DEF Candle
    <3> QED
      BY <2>9, <2>11, <3>1
  <2> HIDE DEF e
  <2>13. /\ cumulativeVolume' \in Seq([time : Nat, total : Nat]) /\ Len(cumulativeVolume') = K
         /\ cumulativeVolume'[K] = e /\ \A m \in 1 .. M : cumulativeVolume'[m] = cv[m]
    BY <1>5, <2>2, <2>12, AppendFacts
  <2>14. ASSUME NEW m \in 1 .. Len(cumulativeVolume')
         PROVE  cumulativeVolume'[m].total = Volume(s, 1 .. m * W)
    <3>1. m = K \/ m \in 1 .. M
      BY <1>5, <2>13
    <3>2. CASE m = K
      BY <2>11, <2>13, <3>2 DEF hi
    <3>3. CASE m \in 1 .. M
      BY <1>6, <2>13, <3>3 DEF s, W
    <3> QED
      BY <3>1, <3>2, <3>3
  <2> QED
    BY <2>1, <2>13, <2>14 DEF VolumeInv, MinuteBars, s, W
<1> QED
  BY <1>7, <1>8

\* What a bar sends.
LEMMA EmittedStep ==
  ASSUME CandleInv, NEW bar \in Bars, updateData(bar)
  PROVE  EmittedInv'
<1>1. /\ Moved(fiveSec, fiveSec') /\ Moved(thirtySec, thirtySec')
      /\ Moved(oneMin, oneMin') /\ Moved(fiveMin, fiveMin')
      /\ Len(fiveSec) \in Nat /\ Len(fiveSec') = Len(fiveSec) + 1
  BY CandleStep
<1> DEFINE after == [f \in Frames |-> CASE f = "5s" -> fiveSec' [] f = "30s" -> thirtySec'
                                        [] f = "1m" -> oneMin'  [] f = "5m"  -> fiveMin']
           new   == {"5s"} \cup (IF thirtySec' # thirtySec THEN {"30s"} ELSE {})
                    \cup (IF oneMin' # oneMin THEN {"1m"} ELSE {})
                    \cup (IF fiveMin' # fiveMin THEN {"5m"} ELSE {})
<1>2. emitted' = UNION {Emits(f, after[f]) : f \in new}
  BY DEF updateData
<1>3. new \subseteq Frames
  BY DEF Frames
<1>4. ASSUME NEW f \in new
      PROVE  after[f] = CandlesOf(f)' /\ after[f] # <<>> /\ Last(after[f]).time = Len(fiveSec')
  <2>0. fiveSec' # fiveSec
    <3>1. Len(fiveSec') # Len(fiveSec)
      BY <1>1
    <3> QED
      BY <3>1
  <2>1. ASSUME NEW before, NEW s, Moved(before, s), s # before
        PROVE  s # <<>> /\ Last(s).time = Len(fiveSec')
    <3>1. /\ before \in Seq(Candle) /\ s \in Seq(Candle) /\ Len(s) = Len(before) + 1
          /\ s[Len(s)].time = Len(fiveSec) + 1
      BY <2>1 DEF Moved
    <3>2. Len(s) # 0
      BY <3>1
    <3> QED
      BY <1>1, <3>1, <3>2 DEF Last
  <2>2. CASE f = "5s"
    BY <1>1, <2>0, <2>1, <2>2 DEF CandlesOf, Frames
  <2>3. CASE f = "30s"
    <3>1. thirtySec' # thirtySec
      BY <2>3
    <3> QED
      BY <1>1, <2>1, <2>3, <3>1 DEF CandlesOf, Frames
  <2>4. CASE f = "1m"
    <3>1. oneMin' # oneMin
      BY <2>4
    <3> QED
      BY <1>1, <2>1, <2>4, <3>1 DEF CandlesOf, Frames
  <2>5. CASE f = "5m"
    <3>1. fiveMin' # fiveMin
      BY <2>5
    <3> QED
      BY <1>1, <2>1, <2>5, <3>1 DEF CandlesOf, Frames
  <2> QED
    BY <1>3, <2>2, <2>3, <2>4, <2>5 DEF Frames
<1> HIDE DEF after, new
<1>5. ASSUME NEW e \in emitted'
      PROVE  /\ e.frame \in Frames /\ CandlesOf(e.frame)' # <<>>
             /\ e.candle = Last(CandlesOf(e.frame)') /\ e.candle.time = Len(fiveSec')
             /\ e.tags = VPT'[e.frame]
  <2>1. PICK f \in new : e \in Emits(f, after[f])
    BY <1>2
  <2>2. e.frame = f /\ e.candle = Last(after[f]) /\ e.tags = VPT'[f]
    BY <2>1 DEF Emits
  <2>3. f = "5s" \/ f = "30s" \/ f = "1m" \/ f = "5m"
    BY <1>3 DEF Frames
  <2>4. CandlesOf(e.frame)' = CandlesOf(f)'
    BY <2>2 DEF CandlesOf
  <2> QED
    BY <1>3, <1>4, <2>2, <2>4
<1> QED
  BY <1>5 DEF EmittedInv, Last

\* What the invariants above say of the aggregates.
LEMMA AggregatesFollow ==
  ASSUME CandleInv, VolumeInv, EmittedInv
  PROVE  AggregatesExact
<1>1. /\ AggregateOf(thirtySec, PerThirty)
      /\ AggregateOf(oneMin, PerThirty * PerMinute)
      /\ AggregateOf(fiveMin, PerThirty * PerMinute * PerFive)
  <2>1. PerThirty * PerMinute * PerFive \in Nat \ {0}
    BY Ratios
  <2> QED
    BY <2>1, LayersOfBars, AggregateOfLayer, Ratios
<1>2. \A e \in emitted : e.candle.time = Len(fiveSec)
  BY DEF EmittedInv
<1>3. Len(cumulativeVolume) = Len(oneMin) /\ DOMAIN cumulativeVolume = 1 .. Len(cumulativeVolume)
  BY DEF VolumeInv
<1>4. ASSUME NEW m \in DOMAIN cumulativeVolume
      PROVE  cumulativeVolume[m].total = Volume(fiveSec, 1 .. m * PerThirty * PerMinute)
  <2>1. m \in 1 .. Len(cumulativeVolume) /\ m \in Int
    BY <1>3
  <2>2. m * MinuteBars = m * PerThirty * PerMinute
    BY <2>1, Ratios DEF MinuteBars
  <2> QED
    BY <2>1, <2>2 DEF VolumeInv
<1> QED
  BY <1>1, <1>2, <1>3, <1>4 DEF AggregatesExact

AggregateInv == CandleInv /\ VolumeInv /\ EmittedInv

LEMMA AggregateInitial ==
  ASSUME Init
  PROVE  AggregateInv
<1>1. CandleInv
  BY CandleInit
<1>2. VolumeInv
  BY DEF Init, VolumeInv
<1>3. EmittedInv
  BY DEF Init, EmittedInv
<1> QED
  BY <1>1, <1>2, <1>3 DEF AggregateInv

LEMMA AggregateStep ==
  ASSUME AggregateInv, [Next]_vars
  PROVE  AggregateInv'
<1>1. CASE Next
  <2>1. PICK bar \in Bars : updateData(bar)
    BY <1>1 DEF Next
  <2> QED
    BY <2>1, CandleStep, VolumeStep, EmittedStep DEF AggregateInv
<1>2. CASE UNCHANGED vars
  BY <1>2 DEF vars, candleVars, tagVars, AggregateInv, CandleInv, VolumeInv, EmittedInv, CandlesOf
<1> QED
  BY <1>1, <1>2

\* A candle of a longer frame is the aggregate of its own bars of five seconds and of no
\* other, candles and bars of the same time go out together, and the session's volume is
\* that of all bars: what createNewBars and the nested tests of updateData amount to.
THEOREM AggregatesAlwaysExact == Spec => []AggregatesExact
<1>1. Init => AggregateInv
  BY AggregateInitial
<1>2. AggregateInv /\ [Next]_vars => AggregateInv'
  BY AggregateStep
<1>3. AggregateInv => AggregatesExact
  BY AggregatesFollow DEF AggregateInv
<1> QED
  BY <1>1, <1>2, <1>3, PTL DEF Spec

-----------------------------------------------------------------------------
(* The local extremes.                                                     *)

\* Refreshes of the local extremes in a session of n five minute candles, and where the
\* window after the r-th of them begins.
Refreshes(n) == IF n = 0 THEN 0 ELSE (n - 1) \div HalfHour
From(r) == IF r = 0 THEN 1 ELSE r * HalfHour + 2

\* A low as the code keeps it: NoLow until there is one.
IsLow(m, s, span) ==
  m \in 0 .. NoLow /\ (\A i \in span : m <= s[i].low) /\ (m = NoLow \/ \E i \in span : s[i].low = m)

Extremes(high, low, s, span) == IsMax(high, s, span) /\ IsLow(low, s, span)

LocalInv ==
  LET n == Len(fiveMin)
      r == Refreshes(n)
  IN  /\ Extremes(tempHigh, tempLow, fiveMin, From(r) .. n)
      /\ IF r = 0 THEN localHigh = 0 /\ localLow = NoLow
         ELSE Extremes(localHigh, localLow, fiveMin, From(r - 1) .. r * HalfHour + 1)

LEMMA RefreshStep ==
  ASSUME NEW n \in Nat
  PROVE  LET due == n > 0 /\ n % HalfHour = 0
             r   == Refreshes(n)
         IN  /\ r \in Nat /\ From(r) \in 1 .. n + 1
             /\ due => Refreshes(n + 1) = r + 1 /\ Refreshes(n + 1) * HalfHour = n
             /\ ~due => Refreshes(n + 1) = r
             /\ r # 0 => r - 1 \in Nat /\ From(r - 1) \in 1 .. r * HalfHour + 1
                         /\ r * HalfHour + 1 \in 1 .. n
<1>1. HalfHour \in Nat \ {0}
  BY Ratios
<1>2. CASE n = 0
  BY <1>1, <1>2 DEF Refreshes, From
<1>3. CASE n # 0
  <2> DEFINE p == n - 1
             q == p \div HalfHour
  <2>1. p \in Nat /\ p + 1 = n /\ n > 0
    BY <1>3
  <2> HIDE DEF p
  <2>2. /\ n \div HalfHour = IF n % HalfHour = 0 THEN q + 1 ELSE q
        /\ n % HalfHour = 0 => (q + 1) * HalfHour = n
        /\ q \in Nat
    BY <1>1, <2>1, DivStep
  <2>3. q * HalfHour \in Nat /\ q * HalfHour <= p
    BY <1>1, <2>1
  <2>4. Refreshes(n) = q /\ Refreshes(n + 1) = n \div HalfHour
    <3>1. n + 1 # 0 /\ n + 1 - 1 = n
      BY <2>1
    <3> QED
      BY <1>3, <3>1 DEF Refreshes, p
  <2> HIDE DEF q
  <2>5. From(q) \in 1 .. n + 1
    BY <2>1, <2>2, <2>3 DEF From
  <2>6. q # 0 => q - 1 \in Nat /\ From(q - 1) \in 1 .. q * HalfHour + 1
                 /\ q * HalfHour + 1 \in 1 .. n
    <3>1. SUFFICES ASSUME q # 0
                   PROVE  q - 1 \in Nat /\ From(q - 1) \in 1 .. q * HalfHour + 1
                          /\ q * HalfHour + 1 \in 1 .. n
      OBVIOUS
    <3>2. q - 1 \in Nat /\ q - 1 + 1 = q
      BY <2>2, <3>1
    <3>3. (q - 1) * HalfHour \in Nat /\ q * HalfHour = (q - 1) * HalfHour + HalfHour
      BY <1>1, <3>2, Multiples
    <3> QED
      BY <1>1, <2>1, <2>3, <3>2, <3>3 DEF From
  <2> QED
    BY <2>1, <2>2, <2>4, <2>5, <2>6
<1> QED
  BY <1>2, <1>3

\* One more candle.
LEMMA ExtremesStep ==
  ASSUME NEW s \in Seq(Candle), NEW c \in Candle, NEW a \in 1 .. Len(s) + 1,
         NEW high, NEW low, Extremes(high, low, s, a .. Len(s))
  PROVE  Extremes(Larger(high, c.high), Smaller(low, c.low), Append(s, c), a .. Len(s) + 1)
<1> DEFINE t == Append(s, c)
           n == Len(s)
<1>1. n \in Nat /\ t[n + 1] = c /\ \A k \in 1 .. n : t[k] = s[k]
  BY AppendFacts
<1>2. c.high \in Nat /\ c.low \in 0 .. NoLow /\ NoLow \in Nat
  BY NoLowIsNat DEF Candle
<1> HIDE DEF t, n
<1>3. \A i \in a .. n + 1 : i = n + 1 \/ (i \in a .. n /\ i \in 1 .. n)
  BY <1>1 DEF n
<1>4. n + 1 \in a .. n + 1 /\ \A i \in a .. n : i \in a .. n + 1 /\ i \in 1 .. n
  BY <1>1 DEF n
<1>5. IsMax(Larger(high, c.high), t, a .. n + 1)
  <2>1. high \in Nat /\ (\A i \in a .. n : s[i].high <= high)
        /\ (high = 0 \/ \E i \in a .. n : s[i].high = high)
    BY DEF Extremes, IsMax, n
  <2> DEFINE m == Larger(high, c.high)
  <2>2. m \in Nat /\ high <= m /\ c.high <= m /\ (m = high \/ m = c.high)
    BY <1>2, <2>1 DEF Larger
  <2> HIDE DEF m
  <2>3. ASSUME NEW i \in a .. n + 1 PROVE t[i].high <= m
    <3>1. CASE i = n + 1
      BY <1>1, <2>2, <3>1
    <3>2. CASE i \in a .. n /\ i \in 1 .. n
      <4>1. t[i] = s[i] /\ s[i].high <= high
        BY <1>1, <2>1, <3>2
      <4>2. s[i].high \in Nat
        <5>1. s[i] \in Candle
          BY <3>2 DEF n
        <5> QED
          BY <5>1 DEF Candle
      <4> QED
        BY <2>1, <2>2, <4>1, <4>2
    <3> QED
      BY <1>3, <3>1, <3>2
  <2>4. m = 0 \/ \E i \in a .. n + 1 : t[i].high = m
    <3>1. CASE m = c.high
      BY <1>1, <1>4, <3>1
    <3>2. CASE m = high
      BY <1>1, <1>4, <2>1, <3>2
    <3> QED
      BY <2>2, <3>1, <3>2
  <2> QED
    BY <2>2, <2>3, <2>4 DEF IsMax, m
<1>6. IsLow(Smaller(low, c.low), t, a .. n + 1)
  <2>1. low \in 0 .. NoLow /\ (\A i \in a .. n : low <= s[i].low)
        /\ (low = NoLow \/ \E i \in a .. n : s[i].low = low)
    BY DEF Extremes, IsLow, n
  <2> DEFINE m == Smaller(low, c.low)
  <2>2. m \in 0 .. NoLow /\ m <= low /\ m <= c.low /\ (m = low \/ m = c.low) /\ m \in Nat /\ low \in Nat
    BY <1>2, <2>1 DEF Smaller
  <2> HIDE DEF m
  <2>3. ASSUME NEW i \in a .. n + 1 PROVE m <= t[i].low
    <3>1. CASE i = n + 1
      BY <1>1, <2>2, <3>1
    <3>2. CASE i \in a .. n /\ i \in 1 .. n
      <4>1. t[i] = s[i] /\ low <= s[i].low
        BY <1>1, <2>1, <3>2
      <4>2. s[i].low \in Nat
        <5>1. s[i] \in Candle
          BY <3>2 DEF n
        <5>2. s[i].low \in 0 .. NoLow
          BY <5>1 DEF Candle
        <5> QED
          BY <1>2, <5>2
      <4> QED
        BY <2>2, <4>1, <4>2
    <3> QED
      BY <1>3, <3>1, <3>2
  <2>4. m = NoLow \/ \E i \in a .. n + 1 : t[i].low = m
    <3>1. CASE m = c.low
      BY <1>1, <1>4, <3>1
    <3>2. CASE m = low
      BY <1>1, <1>4, <2>1, <3>2
    <3> QED
      BY <2>2, <3>1, <3>2
  <2> QED
    BY <2>2, <2>3, <2>4 DEF IsLow, m
<1> QED
  BY <1>5, <1>6 DEF Extremes, t, n

\* A later candle does not change the extremes of a window.
LEMMA ExtremesPrefix ==
  ASSUME NEW s \in Seq(Candle), NEW c, NEW a \in Nat \ {0}, NEW b \in 1 .. Len(s),
         NEW high, NEW low, Extremes(high, low, s, a .. b)
  PROVE  Extremes(high, low, Append(s, c), a .. b)
<1>1. \A i \in a .. b : Append(s, c)[i] = s[i]
  OBVIOUS
<1> DEFINE t == Append(s, c)
           S == a .. b
<1> HIDE DEF t, S
<1>2. \A i \in S : t[i] = s[i]
  BY <1>1 DEF t, S
<1>3. IsMax(high, t, S) /\ IsLow(low, t, S)
  BY <1>2 DEF Extremes, IsMax, IsLow, S
<1> QED
  BY <1>3 DEF Extremes, t, S

\* Those of a window with a candle in it are the maximum and the minimum.
LEMMA ExtremesExact ==
  ASSUME NEW s, NEW a, NEW b, SpanIn(s, a, b), a <= b, NEW high, NEW low,
         Extremes(high, low, s, a .. b)
  PROVE  high = MaxHigh(s, a .. b) /\ low = MinLow(s, a .. b)
<1>1. high = MaxHigh(s, a .. b)
  BY OneMax DEF Extremes
<1>2. IsMin(low, s, a .. b)
  <2>1. low \in 0 .. NoLow /\ (\A i \in a .. b : low <= s[i].low)
        /\ (low = NoLow \/ \E i \in a .. b : s[i].low = low)
    BY DEF Extremes, IsLow
  <2>2. b \in a .. b
    BY DEF SpanIn
  <2>3. s[b].low \in 0 .. NoLow
    BY <2>2, CandleOf
  <2>4. low = NoLow => s[b].low = low
    BY <2>1, <2>2, <2>3, NoLowIsNat
  <2>5. low \in Nat
    BY <2>1, NoLowIsNat
  <2> QED
    BY <2>1, <2>2, <2>4, <2>5 DEF IsMin
<1>3. low = MinLow(s, a .. b)
  BY <1>2, OneMin
<1> QED
  BY <1>1, <1>3

LEMMA LocalStep ==
  ASSUME CandleInv, LocalInv, NEW bar \in Bars, updateData(bar)
  PROVE  LocalInv'
<1>1. Moved(fiveMin, fiveMin')
  BY CandleStep
<1>2. IF fiveMin' # fiveMin THEN updateLocalMinMax(Last(fiveMin'))
                            ELSE UNCHANGED <<localHigh, localLow, tempHigh, tempLow>>
  BY DEF updateData
<1>3. CASE fiveMin' = fiveMin
  BY <1>2, <1>3 DEF LocalInv
<1>4. CASE fiveMin' # fiveMin
  <2> DEFINE n == Len(fiveMin)
             r == Refreshes(n)
             R == Refreshes(n + 1)
             due == n > 0 /\ n % HalfHour = 0
             a == From(r)
             s == fiveMin'
  <2>1. PICK c \in Candle : s = Append(fiveMin, c)
    BY <1>1, <1>4 DEF Moved
  <2> DEFINE high == Larger(tempHigh, c.high)
             low == Smaller(tempLow, c.low)
  <2>2. fiveMin \in Seq(Candle) /\ n \in Nat
    <3>1. fiveMin \in Seq(Candle)
      BY <1>1 DEF Moved
    <3> QED
      BY <3>1
  <2>3. s \in Seq(Candle) /\ Len(s) = n + 1 /\ Last(s) = c
    <3>1. s \in Seq(Candle) /\ Len(s) = n + 1 /\ s[n + 1] = c
      BY <2>1, <2>2, AppendFacts
    <3> QED
      BY <3>1 DEF Last
  <2>4. /\ localHigh' = IF due THEN high ELSE localHigh
        /\ localLow'  = IF due THEN low ELSE localLow
        /\ tempHigh'  = IF due THEN 0 ELSE high
        /\ tempLow'   = IF due THEN NoLow ELSE low
    BY <1>2, <1>4, <2>3 DEF updateLocalMinMax
  <2>5. /\ r \in Nat /\ a \in 1 .. n + 1
        /\ due => R = r + 1 /\ R * HalfHour = n
        /\ ~due => R = r
        /\ r # 0 => r - 1 \in Nat /\ From(r - 1) \in 1 .. r * HalfHour + 1
                    /\ r * HalfHour + 1 \in 1 .. n
    BY <2>2, RefreshStep
  <2>6. /\ Extremes(tempHigh, tempLow, fiveMin, a .. n)
        /\ IF r = 0 THEN localHigh = 0 /\ localLow = NoLow
           ELSE Extremes(localHigh, localLow, fiveMin, From(r - 1) .. r * HalfHour + 1)
    BY DEF LocalInv
  <2>7. Extremes(high, low, s, a .. n + 1)
    BY <2>1, <2>2, <2>5, <2>6, ExtremesStep
  <2>8. CASE ~due
    <3>1. IF R = 0 THEN localHigh' = 0 /\ localLow' = NoLow
          ELSE Extremes(localHigh', localLow', s, From(R - 1) .. R * HalfHour + 1)
      <4>1. CASE r = 0
        BY <2>4, <2>5, <2>6, <2>8, <4>1
      <4>2. CASE r # 0
        <5> DEFINE x == From(r - 1)
                   y == r * HalfHour + 1
        <5>1. Extremes(localHigh, localLow, fiveMin, x .. y) /\ x \in 1 .. y /\ y \in 1 .. n
          BY <2>5, <2>6, <4>2
        <5> HIDE DEF x, y
        <5>2. x \in Nat \ {0}
          BY <5>1
        <5>3. Extremes(localHigh, localLow, s, x .. y)
          BY <2>1, <2>2, <5>1, <5>2, ExtremesPrefix
        <5> QED
          BY <2>4, <2>5, <2>8, <4>2, <5>3 DEF x, y
      <4> QED
        BY <4>1, <4>2
    <3>2. Extremes(tempHigh', tempLow', s, From(R) .. n + 1)
      BY <2>4, <2>5, <2>7, <2>8
    <3> QED
      BY <2>3, <3>1, <3>2 DEF LocalInv
  <2>9. CASE due
    <3>1. R # 0 /\ R - 1 = r /\ R * HalfHour + 1 = n + 1
      BY <2>5, <2>9
    <3>2. Extremes(localHigh', localLow', s, From(R - 1) .. R * HalfHour + 1)
      BY <2>4, <2>7, <2>9, <3>1
    <3>3. From(R) .. n + 1 = {}
      <4>1. From(R) = n + 2
        BY <2>5, <2>9, <3>1 DEF From
      <4> QED
        BY <2>2, <4>1
    <3>4. Extremes(tempHigh', tempLow', s, From(R) .. n + 1)
      <4>1. tempHigh' = 0 /\ tempLow' = NoLow
        BY <2>4, <2>9
      <4> QED
        BY <3>3, <4>1, NoLowIsNat DEF Extremes, IsMax, IsLow
    <3> QED
      BY <2>3, <3>1, <3>2, <3>4 DEF LocalInv
  <2> QED
    BY <2>8, <2>9
<1> QED
  BY <1>3, <1>4

LEMMA LocalFollows ==
  ASSUME CandleInv, LocalInv
  PROVE  LocalWindowExact
<1> DEFINE n == Len(fiveMin)
           r == Refreshes(n)
<1>1. fiveMin \in Seq(Candle) /\ n \in Nat
  <2>1. fiveMin \in Seq(Candle)
    BY DEF CandleInv, Layer
  <2> QED
    BY <2>1
<1>2. (IF fiveMin = <<>> THEN 0 ELSE (Len(fiveMin) - 1) \div HalfHour) = r
  BY <1>1 DEF Refreshes
<1> DEFINE last == r * HalfHour + 1
           first == IF r = 1 THEN 1 ELSE last - HalfHour + 1
<1>3. ASSUME r > 0
      PROVE  localHigh = MaxHigh(fiveMin, first .. last) /\ localLow = MinLow(fiveMin, first .. last)
  <2>1. r \in Nat /\ r # 0 /\ r - 1 \in Nat /\ From(r - 1) \in 1 .. last /\ last \in 1 .. n
    <3>1. /\ r \in Nat
          /\ r # 0 => r - 1 \in Nat /\ From(r - 1) \in 1 .. r * HalfHour + 1
                      /\ r * HalfHour + 1 \in 1 .. n
      BY <1>1, RefreshStep
    <3> HIDE DEF r, n
    <3>2. r # 0
      BY <1>3
    <3> QED
      BY <3>1, <3>2
  <2>2. Extremes(localHigh, localLow, fiveMin, From(r - 1) .. last)
    BY <2>1 DEF LocalInv
  <2>3. From(r - 1) = first
    <3>1. HalfHour \in Nat \ {0} /\ r - 1 + 1 = r
      BY <2>1, Ratios
    <3>2. r * HalfHour = (r - 1) * HalfHour + HalfHour /\ (r - 1) * HalfHour \in Nat
      BY <2>1, <3>1, Multiples
    <3>3. r = 1 <=> r - 1 = 0
      BY <2>1
    <3> QED
      BY <3>1, <3>2, <3>3 DEF From
  <2> HIDE DEF r, first, last
  <2>4. SpanIn(fiveMin, first, last) /\ first <= last
    BY <1>1, <2>1, <2>3 DEF SpanIn
  <2> QED
    BY <2>2, <2>3, <2>4, ExtremesExact
<1> QED
  BY <1>2, <1>3 DEF LocalWindowExact

LEMMA LocalInit ==
  ASSUME Init
  PROVE  LocalInv
<1>1. fiveMin = <<>> /\ Len(fiveMin) = 0 /\ Refreshes(0) = 0 /\ 1 .. 0 = {} /\ From(0) = 1
  BY DEF Init, Refreshes, From
<1>2. tempHigh = 0 /\ tempLow = NoLow /\ localHigh = 0 /\ localLow = NoLow
  BY DEF Init
<1> QED
  BY <1>1, <1>2, NoLowIsNat DEF LocalInv, Extremes, IsMax, IsLow

\* The local high and low are those of the half hour before the last refresh, of every
\* candle in it and of none outside: updateLocalMinMax, called before the candle is
\* stored, whose first window is one candle longer.
THEOREM LocalWindowAlwaysExact == Spec => []LocalWindowExact
<1> DEFINE Inv == CandleInv /\ LocalInv
<1>1. Init => Inv
  BY CandleInit, LocalInit
<1>2. Inv /\ [Next]_vars => Inv'
  <2>1. ASSUME Inv, NEW bar \in Bars, updateData(bar) PROVE Inv'
    BY <2>1, CandleStep, LocalStep
  <2>2. ASSUME Inv, UNCHANGED vars PROVE Inv'
    BY <2>2 DEF vars, candleVars, priceVars, CandleInv, LocalInv
  <2> QED
    BY <2>1, <2>2 DEF Next
<1>3. Inv => LocalWindowExact
  BY LocalFollows
<1> QED
  BY <1>1, <1>2, <1>3, PTL DEF Spec

-----------------------------------------------------------------------------
(* Types.                                                                  *)

VolumeTags == {"LowVol", "Over1", "Over2", "Over3", "Over4", "Undefined"}
PriceTags == {"Under1", "Under2", "Over2", "Undefined"}
Tags == [volStDev : VolumeTags,
         volThresh : {"LowVol", "Vol100", "Vol250", "Vol500", "Vol1000"},
         priceDelta : PriceTags]

ScalarInv ==
  /\ isUnderlying \in BOOLEAN /\ start \in Int
  /\ dailyHigh \in Nat /\ dailyLow \in Nat /\ localHigh \in Nat /\ localLow \in Nat
  /\ tempHigh \in Nat /\ tempLow \in Nat
  /\ DHL \in {"NDH", "NDL", "Inside"} /\ LHL \in {"NLH", "NLL", "Inside"}

TagTypeInv == VPT \in [Frames -> Tags]

LEMMA ExtremeType ==
  ASSUME NEW a \in Nat, NEW b \in Nat
  PROVE  Larger(a, b) \in Nat /\ Smaller(a, b) \in Nat /\ Larger(a, b) >= b
  BY DEF Larger, Smaller

\* The tags by their number of deviations.
LEMMA TagRanges ==
  /\ Range(VolumeStDevs) \cup {"Undefined"} = VolumeTags
  /\ Range(PriceDeltas) \cup {"Undefined"} = PriceTags
  /\ \A k \in 0 .. 4 : VolumeStDevs[k + 1] \in VolumeTags
  /\ \A k \in 0 .. 2 : PriceDeltas[k + 1] \in PriceTags
<1>1. DOMAIN VolumeStDevs = {1, 2, 3, 4, 5} /\ DOMAIN PriceDeltas = {1, 2, 3}
  BY DEF VolumeStDevs, PriceDeltas
<1>2. /\ VolumeStDevs[1] = "LowVol" /\ VolumeStDevs[2] = "Over1" /\ VolumeStDevs[3] = "Over2"
      /\ VolumeStDevs[4] = "Over3" /\ VolumeStDevs[5] = "Over4"
      /\ PriceDeltas[1] = "Under1" /\ PriceDeltas[2] = "Under2" /\ PriceDeltas[3] = "Over2"
  BY DEF VolumeStDevs, PriceDeltas
<1>3. Range(VolumeStDevs) = {VolumeStDevs[1], VolumeStDevs[2], VolumeStDevs[3],
                             VolumeStDevs[4], VolumeStDevs[5]}
  BY <1>1 DEF Range
<1>4. Range(PriceDeltas) = {PriceDeltas[1], PriceDeltas[2], PriceDeltas[3]}
  BY <1>1 DEF Range
<1>5. \A k \in 0 .. 4 : k + 1 = 1 \/ k + 1 = 2 \/ k + 1 = 3 \/ k + 1 = 4 \/ k + 1 = 5
  OBVIOUS
<1>6. \A k \in 0 .. 2 : k + 1 = 1 \/ k + 1 = 2 \/ k + 1 = 3
  OBVIOUS
<1> QED
  BY <1>2, <1>3, <1>4, <1>5, <1>6 DEF VolumeTags, PriceTags

LEMMA VolStDevType ==
  ASSUME NEW s, NEW x
  PROVE  updateVolStDev(s, x) \subseteq VolumeTags
<1>1. {"LowVol"} \subseteq VolumeTags
  BY DEF VolumeTags
<1>2. {VolumeStDevs[k + 1] : k \in Deviations(s, x, 4)} \subseteq VolumeTags
  BY TagRanges DEF Deviations
<1> QED
  BY <1>1, <1>2, TagRanges DEF updateVolStDev

LEMMA PriceDeltaType ==
  ASSUME NEW s, NEW x
  PROVE  updatePriceDelta(s, x) \subseteq PriceTags
<1>1. {PriceDeltas[k + 1] : k \in Deviations(s, x, 2)} \subseteq PriceTags
  BY TagRanges DEF Deviations
<1> QED
  BY <1>1, TagRanges DEF updatePriceDelta

LEMMA ThresholdType ==
  ASSUME NEW volume \in Int
  PROVE  updateVolThreshold(volume) \in {"LowVol", "Vol100", "Vol250", "Vol500", "Vol1000"}
  BY DEF updateVolThreshold

LEMMA ScalarStep ==
  ASSUME CandleInv, ScalarInv, NEW bar \in Bars, updateData(bar)
  PROVE  ScalarInv' /\ (localHigh' # localHigh => localHigh' # 0)
<1>1. bar.high \in Nat /\ bar.low \in Nat /\ bar.high # 0
  BY BarsAssumption, NoLowIsNat
<1>2. Moved(fiveMin, fiveMin')
  BY CandleStep
<1>3. dailyHigh' \in Nat /\ dailyLow' \in Nat
  <2>1. dailyHigh' = Larger(dailyHigh, bar.high) /\ dailyLow' = Smaller(dailyLow, bar.low)
    BY DEF updateData
  <2> QED
    BY <1>1, <2>1, ExtremeType DEF ScalarInv
<1>4. /\ localHigh' \in Nat /\ localLow' \in Nat /\ tempHigh' \in Nat /\ tempLow' \in Nat
      /\ localHigh' # localHigh => localHigh' # 0
  <2>1. CASE fiveMin' = fiveMin
    <3>1. UNCHANGED <<localHigh, localLow, tempHigh, tempLow>>
      BY <2>1 DEF updateData
    <3> QED
      BY <3>1 DEF ScalarInv
  <2>2. CASE fiveMin' # fiveMin
    <3> DEFINE c == Last(fiveMin')
    <3>1. c \in Candle
      <4>1. PICK x \in Candle : fiveMin' = Append(fiveMin, x)
        BY <1>2, <2>2 DEF Moved
      <4>2. fiveMin \in Seq(Candle)
        BY <1>2 DEF Moved
      <4>3. Last(fiveMin') = x
        BY <4>1, <4>2, AppendFacts DEF Last
      <4> QED
        BY <4>3
    <3>2. updateLocalMinMax(c)
      BY <2>2 DEF updateData
    <3> HIDE DEF c
    <3>3. c.high \in Nat \ {0} /\ c.low \in Nat
      BY <3>1, NoLowIsNat DEF Candle
    <3> DEFINE high == Larger(tempHigh, c.high)
               low == Smaller(tempLow, c.low)
    <3>4. high \in Nat /\ low \in Nat /\ high # 0
      <4>1. tempHigh \in Nat /\ tempLow \in Nat /\ c.high \in Nat /\ c.high > 0
        BY <3>3 DEF ScalarInv
      <4>2. high \in Nat /\ low \in Nat /\ high >= c.high
        BY <3>3, <4>1, ExtremeType
      <4> HIDE DEF high, low
      <4> QED
        BY <4>1, <4>2
    <3>5. /\ localHigh' = high \/ localHigh' = localHigh
          /\ localLow' = low \/ localLow' = localLow
          /\ tempHigh' = 0 \/ tempHigh' = high
          /\ tempLow' = NoLow \/ tempLow' = low
      BY <3>2 DEF updateLocalMinMax
    <3> HIDE DEF high, low
    <3> QED
      BY <3>4, <3>5, NoLowIsNat DEF ScalarInv
  <2> QED
    BY <2>1, <2>2
<1>5. DHL' \in {"NDH", "NDL", "Inside"} /\ LHL' \in {"NLH", "NLL", "Inside"}
  <2>1. updateComparisons(bar.close) \/ UNCHANGED <<DHL, LHL>>
    BY DEF updateData
  <2>2. ASSUME updateComparisons(bar.close)
        PROVE  DHL' \in {"NDH", "NDL", "Inside"} /\ LHL' \in {"NLH", "NLL", "Inside"}
    BY <2>2 DEF updateComparisons
  <2> QED
    BY <2>1, <2>2 DEF ScalarInv
<1>6. isUnderlying' = isUnderlying /\ start' = start
  BY DEF updateData
<1> QED
  BY <1>3, <1>4, <1>5, <1>6 DEF ScalarInv

\* The tags a bar gives to a frame.
LEMMA TagsStep ==
  ASSUME CandleInv, NEW bar \in Bars, updateData(bar), NEW f \in Frames
  PROVE  VPT' = [g \in Frames |-> VPT'[g]] /\
         LET c == Last(CandlesOf(f)') IN
         IF CandlesOf(f)' = CandlesOf(f)
         THEN /\ sdPrice'[f] = sdPrice[f] /\ sdVol'[f] = sdVol[f] /\ VPT'[f] = VPT[f]
         ELSE /\ sdPrice'[f] = addValue(sdPrice[f], c.high - c.low)
              /\ sdVol'[f] = addValue(sdVol[f], c.volume)
              /\ VPT'[f] \in NewTags(f, c, sdPrice'[f], sdVol'[f], Len(CandlesOf(f)'))
              /\ Moved(CandlesOf(f), CandlesOf(f)')
<1>1. /\ Moved(fiveSec, fiveSec') /\ Moved(thirtySec, thirtySec')
      /\ Moved(oneMin, oneMin') /\ Moved(fiveMin, fiveMin')
      /\ Len(fiveSec) \in Nat /\ Len(fiveSec') = Len(fiveSec) + 1
  BY CandleStep
<1> DEFINE after == [g \in Frames |-> CASE g = "5s" -> fiveSec' [] g = "30s" -> thirtySec'
                                        [] g = "1m" -> oneMin'  [] g = "5m"  -> fiveMin']
           new   == {"5s"} \cup (IF thirtySec' # thirtySec THEN {"30s"} ELSE {})
                    \cup (IF oneMin' # oneMin THEN {"1m"} ELSE {})
                    \cup (IF fiveMin' # fiveMin THEN {"5m"} ELSE {})
<1>2. updateContainers(after, new)
  BY DEF updateData
<1>3. f = "5s" \/ f = "30s" \/ f = "1m" \/ f = "5m"
  BY DEF Frames
<1>4. after[f] = CandlesOf(f)' /\ (f \in new <=> CandlesOf(f)' # CandlesOf(f))
  <2>1. fiveSec' # fiveSec
    <3>1. Len(fiveSec') # Len(fiveSec)
      BY <1>1
    <3> QED
      BY <3>1
  <2> QED
    BY <1>3, <2>1 DEF CandlesOf
<1>5. Moved(CandlesOf(f), CandlesOf(f)')
  BY <1>1, <1>3 DEF CandlesOf
<1> HIDE DEF after, new
<1>6. /\ sdPrice'[f] = IF f \notin new THEN sdPrice[f]
                       ELSE addValue(sdPrice[f], Last(after[f]).high - Last(after[f]).low)
      /\ sdVol'[f] = IF f \notin new THEN sdVol[f] ELSE addValue(sdVol[f], Last(after[f]).volume)
  BY <1>2 DEF updateContainers
<1> DEFINE TagsOf(g) == IF g \notin new THEN {VPT[g]}
             ELSE NewTags(g, Last(after[g]), sdPrice'[g], sdVol'[g], Len(after[g]))
<1>7. VPT'[f] \in TagsOf(f) /\ VPT' = [g \in Frames |-> VPT'[g]]
  <2>1. PICK five \in TagsOf("5s"), thirty \in TagsOf("30s"), one \in TagsOf("1m"),
             long \in TagsOf("5m") :
          VPT' = [g \in Frames |-> CASE g = "5s" -> five [] g = "30s" -> thirty
                                     [] g = "1m" -> one  [] g = "5m"  -> long]
    BY <1>2 DEF updateContainers, SetTags, Frames
  <2> HIDE DEF TagsOf
  <2>2. /\ (f = "5s" => VPT'[f] = five) /\ (f = "30s" => VPT'[f] = thirty)
        /\ (f = "1m" => VPT'[f] = one) /\ (f = "5m" => VPT'[f] = long)
    BY <2>1
  <2>3. VPT' = [g \in Frames |-> VPT'[g]]
    <3> DEFINE Tag(g) == CASE g = "5s" -> five [] g = "30s" -> thirty
                           [] g = "1m" -> one  [] g = "5m"  -> long
    <3>1. VPT' = [g \in Frames |-> Tag(g)]
      BY <2>1
    <3> HIDE DEF Tag
    <3> QED
      BY <3>1
  <2> QED
    BY <1>3, <2>1, <2>2, <2>3
<1> QED
  BY <1>4, <1>5, <1>6, <1>7 DEF Last

\* The newest candle of a frame.
LEMMA NewestCandle ==
  ASSUME NEW before, NEW after, Moved(before, after), after # before
  PROVE  /\ Last(after) \in Candle /\ after = Append(before, Last(after))
         /\ before \in Seq(Candle) /\ Len(before) \in Nat
         /\ after \in Seq(Candle) /\ Len(after) = Len(before) + 1
<1>1. PICK x \in Candle : after = Append(before, x)
  BY DEF Moved
<1>2. before \in Seq(Candle) /\ after \in Seq(Candle)
  BY DEF Moved
<1>3. Len(after) = Len(before) + 1 /\ after[Len(before) + 1] = x /\ Len(before) \in Nat
  BY <1>1, <1>2, AppendFacts
<1>4. Last(after) = x
  BY <1>3 DEF Last
<1> QED
  BY <1>1, <1>2, <1>3, <1>4

LEMMA TagTypeStep ==
  ASSUME CandleInv, TagTypeInv, NEW bar \in Bars, updateData(bar)
  PROVE  TagTypeInv'
<1>1. ASSUME NEW f \in Frames PROVE VPT'[f] \in Tags
  <2> DEFINE c == Last(CandlesOf(f)')
  <2>1. VPT[f] \in Tags
    BY DEF TagTypeInv
  <2>2. CASE CandlesOf(f)' = CandlesOf(f)
    BY <2>1, <2>2, TagsStep
  <2>3. CASE CandlesOf(f)' # CandlesOf(f)
    <3>1. /\ VPT'[f] \in NewTags(f, c, sdPrice'[f], sdVol'[f], Len(CandlesOf(f)'))
          /\ Moved(CandlesOf(f), CandlesOf(f)')
      BY <2>3, TagsStep
    <3>2. c \in Candle
      BY <2>3, <3>1, NewestCandle
    <3> HIDE DEF c
    <3>3. c.volume \in Int
      BY <3>2 DEF Candle
    <3>4. /\ updateVolStDev(sdVol'[f], c.volume) \subseteq VolumeTags
          /\ updateVolThreshold(c.volume) \in {"LowVol", "Vol100", "Vol250", "Vol500", "Vol1000"}
          /\ updatePriceDelta(sdPrice'[f], c.high - c.low) \subseteq PriceTags
      BY <3>3, VolStDevType, ThresholdType, PriceDeltaType
    <3> QED
      BY <2>1, <3>1, <3>4 DEF NewTags, Tags
  <2> QED
    BY <2>2, <2>3
<1>2. VPT' = [f \in Frames |-> VPT'[f]]
  <2>1. "5s" \in Frames
    BY DEF Frames
  <2> QED
    BY <2>1, TagsStep
<1> QED
  BY <1>1, <1>2 DEF TagTypeInv

-----------------------------------------------------------------------------
(* The hour of the session.                                                *)

HourInv ==
  /\ tod \in 1 .. 7
  /\ fiveSec = <<>> => tod = 1
  /\ TimeOfDayExact

LEMMA MinuteStep ==
  ASSUME NEW n \in Nat, start \in Int
  PROVE  /\ MinuteOf(n) \in Int /\ start <= MinuteOf(n)
         /\ MinuteOf(n + 1) \in {MinuteOf(n), MinuteOf(n) + 1}
         /\ MinuteOf(1) = start
<1> DEFINE W == PerThirty * PerMinute
<1>1. W \in Nat \ {0} /\ W > 1
  BY Ratios
<1> HIDE DEF W
<1>2. /\ (n + 1) \div W \in {n \div W, n \div W + 1} /\ n \div W \in Nat
      /\ 1 \div W = 0
  <2>1. (n + 1) \div W \in {n \div W, n \div W + 1} /\ n \div W \in Nat
    BY <1>1, DivStep
  <2> QED
    BY <1>1, <2>1
<1> QED
  BY <1>2 DEF MinuteOf, W

LEMMA HourStep ==
  ASSUME CandleInv, ScalarInv, HourInv, NEW bar \in Bars, updateData(bar)
  PROVE  HourInv'
<1> DEFINE n == Len(fiveSec)
           old == MinuteOf(n)
           minute == MinuteOf(n + 1)
           S == SlotMinutes
<1>1. n \in Nat /\ Len(fiveSec') = n + 1 /\ start' = start /\ start \in Int
      /\ fiveSec \in Seq(Candle)
  BY CandleStep DEF updateData, ScalarInv, CandleInv
<1>2. updateTimeOfDay(n + 1)
  BY <1>1 DEF updateData
<1>3. S \in Nat \ {0}
  BY Ratios
<1>4. /\ old \in Int /\ start <= old /\ minute \in {old, old + 1}
      /\ n = 0 => minute = start
  <2>1. n = 0 => n + 1 = 1
    BY <1>1
  <2> HIDE DEF n
  <2> QED
    BY <1>1, <2>1, MinuteStep
<1>5. tod \in 1 .. 7
  BY DEF HourInv
<1>6. IF n = 0 THEN tod = 1
      ELSE tod = IF old < 0 THEN 1
                 ELSE IF old < 7 * S THEN old \div S + 1
                 ELSE IF start < 7 * S THEN 7 ELSE 1
  <2>1. n = 0 <=> fiveSec = <<>>
    BY <1>1
  <2> QED
    BY <2>1 DEF HourInv, TimeOfDayExact
<1>7. tod' = LET slotNumber == CDiv(minute, S) + 1
             IN  IF slotNumber \in 1 .. 7 THEN slotNumber ELSE tod
  BY <1>2 DEF updateTimeOfDay
<1> HIDE DEF n, old, minute, S
<1>8. tod' = IF minute < 0 THEN 1
             ELSE IF minute < 7 * S THEN minute \div S + 1
             ELSE IF start < 7 * S THEN 7 ELSE 1
  <2>0. minute \in Int /\ 7 * S \in Nat
    BY <1>3, <1>4
  <2>1. CASE minute < 0
    <3>1. CDiv(minute, S) = -((-minute) \div S) /\ (-minute) \div S \in Nat
      BY <1>3, <2>0, <2>1 DEF CDiv
    <3>2. tod' = 1 \/ tod' = tod
      BY <1>7, <3>1
    <3>3. tod = 1
      <4>1. CASE n = 0
        BY <1>6, <4>1
      <4>2. CASE n # 0
        BY <1>4, <1>6, <2>1, <4>2
      <4> QED
        BY <4>1, <4>2
    <3> QED
      BY <2>1, <3>2, <3>3
  <2>2. CASE minute >= 0 /\ minute < 7 * S
    <3>1. CDiv(minute, S) = minute \div S
      BY <2>2 DEF CDiv
    <3>2. minute \div S \in 0 .. 6
      BY <1>3, <2>0, <2>2
    <3> QED
      BY <1>7, <2>0, <2>2, <3>1, <3>2
  <2>3. CASE minute >= 7 * S
    <3>1. CDiv(minute, S) = minute \div S /\ minute >= 0
      BY <1>3, <2>0, <2>3 DEF CDiv
    <3>2. minute \div S >= 7 /\ minute \div S \in Nat
      BY <1>3, <2>0, <2>3
    <3>3. tod' = tod
      BY <1>7, <3>1, <3>2
    <3>4. CASE n = 0
      BY <1>1, <1>4, <1>6, <2>0, <2>3, <3>1, <3>3, <3>4
    <3>5. CASE n # 0 /\ old >= 7 * S
      BY <1>3, <1>4, <1>6, <2>0, <2>3, <3>1, <3>3, <3>5
    <3>6. CASE n # 0 /\ old < 7 * S
      <4>1. old = 7 * S - 1 /\ old >= 0 /\ start < 7 * S
        BY <1>1, <1>3, <1>4, <2>0, <2>3, <3>6
      <4>2. old \div S = 6
        BY <1>3, <4>1
      <4>3. tod = 7
        BY <1>6, <3>6, <4>1, <4>2
      <4> QED
        BY <2>3, <2>0, <3>1, <3>3, <4>1, <4>3
    <3> QED
      BY <1>4, <2>0, <3>4, <3>5, <3>6
  <2> QED
    BY <2>0, <2>1, <2>2, <2>3
<1>9. tod' \in 1 .. 7
  BY <1>5, <1>7
<1>10. MinuteOf(Len(fiveSec))' = minute
  BY <1>1 DEF MinuteOf, minute
<1>11. fiveSec' # <<>>
  BY <1>1
<1> QED
  BY <1>1, <1>8, <1>9, <1>10, <1>11 DEF HourInv, TimeOfDayExact, S

LEMMA HourInit ==
  ASSUME Init
  PROVE  HourInv /\ ScalarInv /\ TagTypeInv
<1>1. HourInv
  BY DEF Init, HourInv, TimeOfDayExact
<1>2. ScalarInv
  BY Ratios, NoLowIsNat DEF Init, ScalarInv
<1>3. TagTypeInv
  BY DEF Init, TagTypeInv, FirstTags, Tags, VolumeTags, PriceTags
<1> QED
  BY <1>1, <1>2, <1>3

TypeInv == CandleInv /\ ScalarInv /\ TagTypeInv /\ HourInv /\ EmittedInv

LEMMA TypeStep ==
  ASSUME TypeInv, [Next]_vars
  PROVE  TypeInv'
<1>1. ASSUME NEW bar \in Bars, updateData(bar)
      PROVE  TypeInv'
  BY <1>1, CandleStep, ScalarStep, TagTypeStep, HourStep, EmittedStep DEF TypeInv
<1>2. CASE UNCHANGED vars
  <2>1. /\ fiveSec' = fiveSec /\ thirtySec' = thirtySec /\ oneMin' = oneMin /\ fiveMin' = fiveMin
        /\ isUnderlying' = isUnderlying /\ start' = start
        /\ dailyHigh' = dailyHigh /\ dailyLow' = dailyLow /\ localHigh' = localHigh
        /\ localLow' = localLow /\ tempHigh' = tempHigh /\ tempLow' = tempLow
        /\ DHL' = DHL /\ LHL' = LHL /\ tod' = tod /\ VPT' = VPT /\ emitted' = emitted
    BY <1>2 DEF vars, candleVars, priceVars, tagVars
  <2>2. CandleInv' /\ ScalarInv' /\ TagTypeInv'
    BY <2>1 DEF TypeInv, CandleInv, ScalarInv, TagTypeInv
  <2>3. HourInv'
    BY <2>1 DEF TypeInv, HourInv, TimeOfDayExact, MinuteOf
  <2>4. EmittedInv'
    BY <2>1 DEF TypeInv, EmittedInv, CandlesOf
  <2> QED
    BY <2>2, <2>3, <2>4 DEF TypeInv
<1> QED
  BY <1>1, <1>2 DEF Next

LEMMA TypeFollows ==
  ASSUME TypeInv
  PROVE  TypeOK
<1>1. CandleInv /\ ScalarInv /\ TagTypeInv /\ HourInv /\ EmittedInv
  BY DEF TypeInv
<1>2. Len(fiveSec) \in 0 .. MaxBars
  <2>1. fiveSec \in Seq(Candle) /\ Len(fiveSec) <= MaxBars
    BY <1>1 DEF CandleInv
  <2>2. Len(fiveSec) \in Nat
    BY <2>1
  <2> QED
    BY <2>1, <2>2, Ratios
<1>3. {Len(thirtySec), Len(oneMin), Len(fiveMin)} \subseteq 0 .. MaxBars \div PerThirty
  <2> DEFINE n == Len(fiveSec)
             a == n \div PerThirty
             b == a \div PerMinute
             c == b \div PerFive
  <2>1. Len(thirtySec) = a /\ Len(oneMin) = b /\ Len(fiveMin) = c
    BY <1>1 DEF CandleInv, Layer
  <2>2. n \in Nat /\ n <= MaxBars
    BY <1>2, Ratios
  <2> HIDE DEF n
  <2>3. a \in Nat /\ a <= MaxBars \div PerThirty
    BY <2>2, Ratios
  <2> HIDE DEF a
  <2>4. b \in Nat /\ b <= a
    BY <2>3, Ratios
  <2> HIDE DEF b
  <2>5. c \in Nat /\ c <= b
    BY <2>4, Ratios
  <2> HIDE DEF c
  <2>6. MaxBars \div PerThirty \in Nat
    BY Ratios
  <2> QED
    BY <2>1, <2>3, <2>4, <2>5, <2>6
<1>4. {e.frame : e \in emitted} \subseteq Frames
  BY <1>1 DEF EmittedInv
<1>5. {dailyHigh, dailyLow, localHigh, localLow, tempHigh, tempLow} \subseteq Nat
  BY <1>1 DEF ScalarInv
<1>6. /\ isUnderlying \in BOOLEAN
      /\ DHL \in {"NDH", "NDL", "Inside"} /\ LHL \in {"NLH", "NLL", "Inside"}
      /\ tod \in 1 .. 7
  BY <1>1 DEF ScalarInv, HourInv
<1> QED
  BY <1>1, <1>2, <1>3, <1>4, <1>5, <1>6, TagRanges DEF TypeOK, TagTypeInv, Tags

LEMMA TypeInit ==
  ASSUME Init
  PROVE  TypeInv
<1>1. EmittedInv
  BY DEF Init, EmittedInv
<1> QED
  BY <1>1, CandleInit, HourInit DEF TypeInv

\* The variables of a contract have their types, and a longer frame never holds more
\* candles than the bars give it.
THEOREM TypeCorrect == Spec => []TypeOK
<1>1. Init => TypeInv
  BY TypeInit
<1>2. TypeInv /\ [Next]_vars => TypeInv'
  BY TypeStep
<1>3. TypeInv => TypeOK
  BY TypeFollows
<1> QED
  BY <1>1, <1>2, <1>3, PTL DEF Spec

-----------------------------------------------------------------------------
(* The sums behind the tags.                                               *)

Widths(s) == [i \in DOMAIN s |-> s[i].high - s[i].low]
Squares(f) == [i \in DOMAIN f |-> f[i] * f[i]]

\* Number, sum and sum of squares of all values of a frame.
StatsOf(f, n) == [n |-> n, sum |-> SumOf(f, 1, n), sumSq |-> SumOf(Squares(f), 1, n)]

\* Sums that samples of n values can have: the spread is not negative.
Sampled(s, n) ==
  /\ s.n = n /\ s.sum \in Int /\ s.sumSq \in Int /\ Spread(s) >= 0
  /\ n = 0 => s.sum = 0 /\ s.sumSq = 0

\* The value is one of the sample: it lies at most the square root of n - 1 deviations
\* from the mean.
OneOf(x, t) ==
  LET d == t.n * x - t.sum IN x \in Int /\ d * d <= (t.n - 1) * Spread(t)

StatInv ==
  \A f \in Frames :
    LET s == CandlesOf(f)
        c == Last(s)
    IN  /\ sdPrice[f] = StatsOf(Widths(s), Len(s)) /\ sdVol[f] = StatsOf(Volumes(s), Len(s))
        /\ Sampled(sdPrice[f], Len(s)) /\ Sampled(sdVol[f], Len(s))
        /\ Len(s) > 0 => OneOf(c.high - c.low, sdPrice[f]) /\ OneOf(c.volume, sdVol[f])

\* One more value.  With n + 1 values the last lies within the square root of n
\* deviations, since n times the new spread is n + 1 times the old one plus the square
\* of the last value's distance.
LEMMA SampleStep ==
  ASSUME NEW s, NEW n \in Nat, Sampled(s, n), NEW x \in Int
  PROVE  LET t == addValue(s, x)
             d == t.n * x - t.sum
         IN  Sampled(t, n + 1) /\ OneOf(x, t)
<1> DEFINE S == s.sum
           Q == s.sumSq
           P == n * Q - S * S
           d == n * x - S
           R == (n + 1) * (Q + x * x) - (S + x) * (S + x)
           t == addValue(s, x)
<1>1. S \in Int /\ Q \in Int /\ P >= 0 /\ (n = 0 => S = 0 /\ Q = 0) /\ s.n = n
  BY DEF Sampled, Spread
<1>2. t.n = n + 1 /\ t.sum = S + x /\ t.sumSq = Q + x * x
  BY <1>1 DEF addValue
<1> HIDE DEF S, Q, t
<1>3. n * R = (n + 1) * P + d * d
  BY <1>1
<1>4. R \in Int /\ P \in Int /\ d \in Int
  BY <1>1
<1>5. Spread(t) = R /\ t.n * x - t.sum = d
  BY <1>1, <1>2 DEF Spread
<1>6. (n + 1) * P >= 0 /\ (n + 1) * P \in Int /\ d * d >= 0 /\ d * d \in Int
  <2> HIDE DEF P, d
  <2>1. P \in Nat /\ n + 1 \in Nat
    BY <1>1, <1>4
  <2> QED
    BY <2>1, <1>4
<1>7. n = 0 => R = 0
  BY <1>1
<1> HIDE DEF P, d, R
<1>8. d * d <= n * R
  BY <1>3, <1>4, <1>6
<1>9. R >= 0
  <2>1. n * R >= 0
    BY <1>3, <1>6
  <2> QED
    BY <1>4, <1>7, <2>1
<1>10. Sampled(t, n + 1)
  BY <1>1, <1>2, <1>5, <1>9 DEF Sampled
<1>11. t.n - 1 = n
  BY <1>2
<1>12. OneOf(x, t)
  BY <1>5, <1>8, <1>11 DEF OneOf
<1> QED
  BY <1>10, <1>12 DEF t

\* addValue adds one value to the sums.
LEMMA StatsStep ==
  ASSUME NEW n \in Nat, NEW f, NEW g, DOMAIN f = 1 .. n, DOMAIN g = 1 .. n + 1,
         \A i \in 1 .. n : g[i] = f[i], \A i \in 1 .. n + 1 : g[i] \in Int
  PROVE  StatsOf(g, n + 1) = addValue(StatsOf(f, n), g[n + 1])
<1>1. ASSUME NEW u, NEW v, \A i \in 1 .. n : v[i] = u[i], \A i \in 1 .. n + 1 : v[i] \in Int
      PROVE  SumOf(v, 1, n + 1) = SumOf(u, 1, n) + v[n + 1]
  <2>1. [i \in 1 .. n |-> v[i]] = [i \in 1 .. n |-> u[i]]
    BY <1>1
  <2>2. SumOf(v, 1, n) = SumOf(u, 1, n)
    BY <2>1 DEF SumOf
  <2>3. 1 \in Int /\ n \in Int /\ 1 <= n + 1
    OBVIOUS
  <2>4. SumOf(v, 1, n + 1) = SumOf(v, 1, n) + v[n + 1]
    BY <1>1, <2>3, SumStep
  <2> QED
    BY <2>2, <2>4
<1>2. SumOf(g, 1, n + 1) = SumOf(f, 1, n) + g[n + 1]
  BY <1>1
<1> DEFINE u == Squares(f)
           v == Squares(g)
<1>3. /\ \A i \in 1 .. n : v[i] = u[i] /\ i \in 1 .. n + 1
      /\ \A i \in 1 .. n + 1 : v[i] = g[i] * g[i]
  <2>1. \A i \in 1 .. n : i \in 1 .. n + 1
    OBVIOUS
  <2>2. /\ \A i \in 1 .. n + 1 : v[i] = g[i] * g[i]
        /\ \A i \in 1 .. n : u[i] = f[i] * f[i]
    BY DEF Squares
  <2> HIDE DEF u, v
  <2> QED
    BY <2>1, <2>2
<1>4. \A i \in 1 .. n + 1 : v[i] \in Int
  <2> TAKE i \in 1 .. n + 1
  <2>1. g[i] \in Int /\ v[i] = g[i] * g[i]
    BY <1>3
  <2> HIDE DEF v
  <2> QED
    BY <2>1
<1> HIDE DEF u, v
<1>5. SumOf(v, 1, n + 1) = SumOf(u, 1, n) + v[n + 1]
  BY <1>1, <1>3, <1>4
<1>6. v[n + 1] = g[n + 1] * g[n + 1]
  BY <1>3
<1> QED
  BY <1>2, <1>5, <1>6 DEF StatsOf, addValue, u, v

\* The sums of a frame after its newest candle.
LEMMA FrameStats ==
  ASSUME NEW before, NEW after, Moved(before, after), after # before
  PROVE  LET c == Last(after) IN
         /\ StatsOf(Widths(after), Len(after))
              = addValue(StatsOf(Widths(before), Len(before)), c.high - c.low)
         /\ StatsOf(Volumes(after), Len(after))
              = addValue(StatsOf(Volumes(before), Len(before)), c.volume)
         /\ c.high - c.low \in Int /\ c.volume \in Int
<1> DEFINE n == Len(before)
           c == Last(after)
<1>1. /\ c \in Candle /\ after = Append(before, c) /\ before \in Seq(Candle) /\ n \in Nat
      /\ after \in Seq(Candle) /\ Len(after) = n + 1
  BY NewestCandle
<1> HIDE DEF n, c
<1>2. /\ DOMAIN before = 1 .. n /\ DOMAIN after = 1 .. n + 1
      /\ after[n + 1] = c /\ \A i \in 1 .. n : after[i] = before[i]
  BY <1>1, AppendFacts DEF n
<1>3. \A i \in 1 .. n + 1 : after[i].high - after[i].low \in Int /\ after[i].volume \in Int
  <2> TAKE i \in 1 .. n + 1
  <2>1. after[i] \in Candle
    BY <1>1
  <2>2. after[i].high \in Nat /\ after[i].low \in 0 .. NoLow /\ after[i].volume \in Nat
    BY <2>1 DEF Candle
  <2> QED
    BY <2>2, NoLowIsNat
<1>4. n + 1 \in 1 .. n + 1 /\ \A i \in 1 .. n : i \in 1 .. n + 1
  BY <1>1
<1>5. StatsOf(Widths(after), n + 1) = addValue(StatsOf(Widths(before), n), c.high - c.low)
  <2> DEFINE f == Widths(before)
             g == Widths(after)
  <2>1. /\ DOMAIN f = 1 .. n /\ DOMAIN g = 1 .. n + 1
        /\ \A i \in 1 .. n : f[i] = before[i].high - before[i].low
        /\ \A i \in 1 .. n + 1 : g[i] = after[i].high - after[i].low
    BY <1>2 DEF Widths
  <2> HIDE DEF f, g
  <2>2. (\A i \in 1 .. n : g[i] = f[i]) /\ (\A i \in 1 .. n + 1 : g[i] \in Int)
        /\ g[n + 1] = c.high - c.low
    BY <1>2, <1>3, <1>4, <2>1
  <2>3. StatsOf(g, n + 1) = addValue(StatsOf(f, n), g[n + 1])
    BY <1>1, <2>1, <2>2, StatsStep
  <2> QED
    BY <2>2, <2>3 DEF f, g
<1>6. StatsOf(Volumes(after), n + 1) = addValue(StatsOf(Volumes(before), n), c.volume)
  <2> DEFINE f == Volumes(before)
             g == Volumes(after)
  <2>1. /\ DOMAIN f = 1 .. n /\ DOMAIN g = 1 .. n + 1
        /\ \A i \in 1 .. n : f[i] = before[i].volume
        /\ \A i \in 1 .. n + 1 : g[i] = after[i].volume
    BY <1>2 DEF Volumes
  <2> HIDE DEF f, g
  <2>2. (\A i \in 1 .. n : g[i] = f[i]) /\ (\A i \in 1 .. n + 1 : g[i] \in Int)
        /\ g[n + 1] = c.volume
    BY <1>2, <1>3, <1>4, <2>1
  <2>3. StatsOf(g, n + 1) = addValue(StatsOf(f, n), g[n + 1])
    BY <1>1, <2>1, <2>2, StatsStep
  <2> QED
    BY <2>2, <2>3 DEF f, g
<1>7. c.high - c.low \in Int /\ c.volume \in Int
  BY <1>2, <1>3, <1>4
<1> QED
  BY <1>1, <1>5, <1>6, <1>7 DEF n, c

LEMMA StatStep ==
  ASSUME CandleInv, StatInv, NEW bar \in Bars, updateData(bar)
  PROVE  StatInv'
<1>1. ASSUME NEW f \in Frames
      PROVE  LET s == CandlesOf(f)'
             IN  /\ sdPrice'[f] = StatsOf(Widths(s), Len(s)) /\ sdVol'[f] = StatsOf(Volumes(s), Len(s))
                 /\ Sampled(sdPrice'[f], Len(s)) /\ Sampled(sdVol'[f], Len(s))
                 /\ Len(s) > 0 => /\ OneOf(Last(s).high - Last(s).low, sdPrice'[f])
                                  /\ OneOf(Last(s).volume, sdVol'[f])
  <2> DEFINE b == CandlesOf(f)
             s == CandlesOf(f)'
             c == Last(s)
  <2>1. /\ sdPrice[f] = StatsOf(Widths(b), Len(b)) /\ sdVol[f] = StatsOf(Volumes(b), Len(b))
        /\ Sampled(sdPrice[f], Len(b)) /\ Sampled(sdVol[f], Len(b))
        /\ Len(b) > 0 => /\ OneOf(Last(b).high - Last(b).low, sdPrice[f])
                         /\ OneOf(Last(b).volume, sdVol[f])
    BY DEF StatInv
  <2>2. CASE s = b
    <3>1. sdPrice'[f] = sdPrice[f] /\ sdVol'[f] = sdVol[f]
      BY <2>2, TagsStep
    <3> HIDE DEF s, b
    <3> QED
      BY <2>1, <2>2, <3>1 DEF s
  <2>3. CASE s # b
    <3>1. /\ sdPrice'[f] = addValue(sdPrice[f], c.high - c.low)
          /\ sdVol'[f] = addValue(sdVol[f], c.volume)
          /\ Moved(b, s)
      BY <2>3, TagsStep
    <3> HIDE DEF b, s
    <3>2. /\ StatsOf(Widths(s), Len(s)) = addValue(StatsOf(Widths(b), Len(b)), c.high - c.low)
          /\ StatsOf(Volumes(s), Len(s)) = addValue(StatsOf(Volumes(b), Len(b)), c.volume)
          /\ c.high - c.low \in Int /\ c.volume \in Int
      BY <2>3, <3>1, FrameStats
    <3>3. Len(b) \in Nat /\ Len(s) = Len(b) + 1
      BY <2>3, <3>1, NewestCandle
    <3>4. /\ Sampled(addValue(sdPrice[f], c.high - c.low), Len(b) + 1)
          /\ OneOf(c.high - c.low, addValue(sdPrice[f], c.high - c.low))
      BY <2>1, <3>2, <3>3, SampleStep
    <3>5. /\ Sampled(addValue(sdVol[f], c.volume), Len(b) + 1)
          /\ OneOf(c.volume, addValue(sdVol[f], c.volume))
      BY <2>1, <3>2, <3>3, SampleStep
    <3> QED
      BY <2>1, <3>1, <3>2, <3>3, <3>4, <3>5 DEF s, c
  <2> QED
    BY <2>2, <2>3
<1> QED
  BY <1>1 DEF StatInv, Last

-----------------------------------------------------------------------------
(* Tags.                                                                   *)

\* What a tag says of the value it was computed with.
LEMMA TagsSay ==
  ASSUME NEW s, NEW x, Steady(s)
  PROVE  /\ "Over2" \in updateVolStDev(s, x) => MayExceed(s, x, 2)
         /\ "Over3" \in updateVolStDev(s, x) => MayExceed(s, x, 3)
         /\ "Over4" \in updateVolStDev(s, x) => MayExceed(s, x, 4)
         /\ "Over2" \in updatePriceDelta(s, x) => MayExceed(s, x, 2)
<1>1. /\ VolumeStDevs[0 + 1] = "LowVol" /\ VolumeStDevs[1 + 1] = "Over1"
      /\ VolumeStDevs[2 + 1] = "Over2" /\ VolumeStDevs[3 + 1] = "Over3"
      /\ VolumeStDevs[4 + 1] = "Over4"
      /\ PriceDeltas[0 + 1] = "Under1" /\ PriceDeltas[1 + 1] = "Under2"
      /\ PriceDeltas[2 + 1] = "Over2"
  BY DEF VolumeStDevs, PriceDeltas
<1>2. /\ \A k \in 0 .. 4 : k = 0 \/ k = 1 \/ k = 2 \/ k = 3 \/ k = 4
      /\ \A k \in 0 .. 2 : k = 0 \/ k = 1 \/ k = 2
  OBVIOUS
<1>3. ASSUME NEW k \in 0 .. 4, k \in Deviations(s, x, 4)
      PROVE  /\ VolumeStDevs[k + 1] = "Over2" => k = 2
             /\ VolumeStDevs[k + 1] = "Over3" => k = 3
             /\ VolumeStDevs[k + 1] = "Over4" => k = 4
             /\ k > 0 => MayExceed(s, x, k)
  <2>1. k > 0 => MayExceed(s, x, k)
    BY <1>3 DEF Deviations
  <2> QED
    BY <1>1, <1>2, <2>1
<1>4. ASSUME NEW k \in 0 .. 2, k \in Deviations(s, x, 2), PriceDeltas[k + 1] = "Over2"
      PROVE  MayExceed(s, x, 2)
  <2>1. k = 2
    BY <1>1, <1>2, <1>4
  <2>2. k > 0 => MayExceed(s, x, k)
    BY <1>4 DEF Deviations
  <2> QED
    BY <2>1, <2>2
<1>5. ASSUME NEW tag \in updateVolStDev(s, x), tag # "LowVol"
      PROVE  \E k \in 0 .. 4 : k \in Deviations(s, x, 4) /\ tag = VolumeStDevs[k + 1]
  BY <1>5 DEF updateVolStDev, Deviations
<1>6. ASSUME NEW tag \in updateVolStDev(s, x)
      PROVE  /\ tag = "Over2" => MayExceed(s, x, 2)
             /\ tag = "Over3" => MayExceed(s, x, 3)
             /\ tag = "Over4" => MayExceed(s, x, 4)
  <2>1. CASE tag = "LowVol"
    BY <2>1
  <2>2. CASE tag # "LowVol"
    <3>1. PICK k \in 0 .. 4 : k \in Deviations(s, x, 4) /\ tag = VolumeStDevs[k + 1]
      BY <1>5, <2>2
    <3>2. /\ tag = "Over2" => k = 2 /\ MayExceed(s, x, k)
          /\ tag = "Over3" => k = 3 /\ MayExceed(s, x, k)
          /\ tag = "Over4" => k = 4 /\ MayExceed(s, x, k)
      BY <1>3, <3>1
    <3> QED
      BY <3>2
  <2> QED
    BY <2>1, <2>2
<1>7. ASSUME NEW tag \in updatePriceDelta(s, x), tag = "Over2"
      PROVE  MayExceed(s, x, 2)
  <2>1. PICK k \in 0 .. 2 : k \in Deviations(s, x, 2) /\ tag = PriceDeltas[k + 1]
    BY <1>7 DEF updatePriceDelta, Deviations
  <2> QED
    BY <1>4, <1>7, <2>1
<1> QED
  BY <1>6, <1>7

\* A value of the sample that may be found k deviations above the mean has at least k * k
\* others beside it, unless the spread is lost in the rounding.
LEMMA OverNeeds ==
  ASSUME NEW t, NEW n \in Nat, Sampled(t, n), NEW x, OneOf(x, t), Steady(t),
         NEW k \in Nat, MayExceed(t, x, k)
  PROVE  n > k * k
<1> DEFINE d == t.n * x - t.sum
           R == Spread(t)
           E == Rounding(t)
<1>1. /\ t.n = n /\ t.sum \in Int /\ t.sumSq \in Int /\ x \in Int
      /\ d * d <= (n - 1) * R
  BY DEF Sampled, OneOf
<1>2. d \in Int /\ R \in Int
  BY <1>1 DEF Spread
<1>3. R >= 0 /\ E \in Nat
  <2> DEFINE q == n * t.sumSq
             m == t.sum * t.sum
  <2>1. q \in Int /\ m \in Nat /\ Precision \in Nat \ {0}
    BY <1>1, RatiosAssumption
  <2>2. R = q - m /\ R >= 0
    BY <1>1 DEF Sampled, Spread
  <2> HIDE DEF q, m
  <2>3. q \in Nat
    BY <1>2, <2>1, <2>2
  <2>4. (q \div Precision) \in Nat
    BY <2>1, <2>3
  <2> QED
    BY <1>1, <2>2, <2>4 DEF Rounding, q
<1>4. R > E /\ d * d + E >= k * k * R
  BY DEF Steady, MayExceed
<1> DEFINE dd == d * d
           kk == k * k
<1>5. dd \in Nat /\ kk \in Nat
  <2> HIDE DEF d
  <2> QED
    BY <1>2
<1>6. dd <= (n - 1) * R /\ dd + E >= kk * R
  BY <1>1, <1>4
<1>7. R \in Nat \ {0}
  <2> HIDE DEF R, E
  <2> QED
    BY <1>2, <1>3, <1>4
<1> HIDE DEF d, R, E, dd, kk
<1>8. kk * R < n * R
  <2>1. (n - 1) * R + R = n * R /\ (n - 1) * R \in Int /\ kk * R \in Int /\ n * R \in Int
    BY <1>5, <1>7
  <2> QED
    BY <1>3, <1>4, <1>5, <1>6, <1>7, <2>1
<1>9. kk < n
  BY <1>5, <1>7, <1>8, Multiples
<1> QED
  BY <1>9 DEF kk

LEMMA StatInit ==
  ASSUME Init
  PROVE  StatInv
<1>1. ASSUME NEW f \in Frames
      PROVE  CandlesOf(f) = <<>> /\ Len(CandlesOf(f)) = 0 /\ sdPrice[f] = NoStats /\ sdVol[f] = NoStats
  BY DEF Init, CandlesOf, Frames
<1>2. ASSUME NEW f
      PROVE  StatsOf(f, 0) = NoStats
  BY SumEmpty DEF StatsOf, NoStats
<1>3. Sampled(NoStats, 0)
  BY DEF Sampled, NoStats, Spread
<1> QED
  BY <1>1, <1>2, <1>3 DEF StatInv

\* When a frame's tags become due, in candles and in bars.
LEMMA ReadyCounts ==
  ASSUME NEW fives \in Seq(Candle), NEW thirties, NEW ones, NEW longs,
         Layer(thirties, PerThirty, fives), Layer(ones, PerMinute, thirties),
         Layer(longs, PerFive, ones)
  PROVE  /\ Len(thirties) >= PerMinute * PerFive * HalfHour <=> Len(fives) >= TaggedFrom("30s")
         /\ Len(ones) >= PerFive * HalfHour <=> Len(fives) >= TaggedFrom("1m")
         /\ Len(longs) > HalfHour <=> Len(fives) >= TaggedFrom("5m")
         /\ Len(longs) >= HalfHourBars <=> Len(fives) + 1 >= TaggedFrom("5s")
<1> DEFINE n == Len(fives)
           m == PerThirty * PerMinute
           q == m * PerFive
<1>1. /\ PerThirty \in Nat \ {0} /\ PerMinute \in Nat \ {0} /\ PerFive \in Nat \ {0}
      /\ HalfHour \in Nat \ {0} /\ n \in Nat
  BY Ratios
<1>2. Layer(ones, m, fives) /\ m \in Nat \ {0}
  BY <1>1, LayerCompose
<1>3. Layer(longs, q, fives) /\ q \in Nat \ {0}
  <2> HIDE DEF m
  <2> QED
    BY <1>1, <1>2, LayerCompose
<1>4. /\ Len(thirties) = n \div PerThirty /\ Len(ones) = n \div m /\ Len(longs) = n \div q
  BY <1>2, <1>3 DEF Layer
<1>5. ASSUME NEW p \in Nat \ {0}, NEW k \in Nat
      PROVE  n \div p >= k <=> n >= k * p
  <2> DEFINE a == n \div p
  <2> HIDE DEF n
  <2>1. a \in Nat /\ a * p <= n /\ n < (a + 1) * p
    BY <1>1
  <2> HIDE DEF a
  <2>2. a * p \in Nat /\ k * p \in Nat /\ (a + 1) * p \in Nat
    BY <2>1
  <2>3. a >= k => n >= k * p
    BY <1>1, <2>1, <2>2, Multiples
  <2>4. n >= k * p => k < a + 1
    <3>1. n >= k * p => k * p < (a + 1) * p
      BY <1>1, <2>1, <2>2
    <3>2. a + 1 \in Nat
      BY <2>1
    <3> QED
      BY <3>1, <3>2, Multiples
  <2> QED
    BY <2>1, <2>3, <2>4 DEF a
<1>6. /\ PerMinute * PerFive * HalfHour \in Nat
      /\ (PerMinute * PerFive * HalfHour) * PerThirty = HalfHourBars
  <2>1. PerMinute * PerFive \in Nat
    BY <1>1
  <2>2. (PerMinute * PerFive) * PerThirty = q
    BY <1>1
  <2> DEFINE r == PerMinute * PerFive
  <2> HIDE DEF r, q
  <2>3. (r * HalfHour) * PerThirty = (r * PerThirty) * HalfHour /\ r * HalfHour \in Nat
    BY <1>1, <2>1 DEF r
  <2> QED
    BY <2>2, <2>3 DEF r, q, HalfHourBars
<1>7. PerFive * HalfHour \in Nat /\ (PerFive * HalfHour) * m = HalfHourBars
  <2>1. PerFive * HalfHour \in Nat
    BY <1>1
  <2> HIDE DEF m
  <2>2. (PerFive * HalfHour) * m = (m * PerFive) * HalfHour
    BY <1>1, <1>2
  <2> QED
    BY <2>1, <2>2 DEF m, HalfHourBars
<1>8. /\ HalfHourBars = q * HalfHour /\ HalfHourBars \in Nat
      /\ (HalfHour + 1) * q = HalfHourBars + q /\ HalfHour + 1 \in Nat
  <2>1. HalfHourBars = q * HalfHour
    BY DEF HalfHourBars
  <2> HIDE DEF q
  <2>2. q * HalfHour \in Nat /\ (HalfHour + 1) * q = q * HalfHour + q
    BY <1>1, <1>3
  <2> QED
    BY <1>1, <2>1, <2>2
<1>9. HalfHourBars * q \in Nat
  <2> HIDE DEF q
  <2> QED
    BY <1>3, <1>8
<1>10. /\ TaggedFrom("30s") = HalfHourBars /\ TaggedFrom("1m") = HalfHourBars
       /\ TaggedFrom("5m") = HalfHourBars + q /\ TaggedFrom("5s") = HalfHourBars * q + 1
  BY DEF TaggedFrom
<1> HIDE DEF n, m, q
<1>11. Len(longs) > HalfHour <=> Len(longs) >= HalfHour + 1
  <2>1. Len(longs) \in Nat
    BY <1>1, <1>3, <1>4
  <2> QED
    BY <1>1, <2>1
<1>12. n + 1 >= HalfHourBars * q + 1 <=> n >= HalfHourBars * q
  BY <1>1, <1>9
<1>13. Len(thirties) >= PerMinute * PerFive * HalfHour <=> n >= HalfHourBars
  BY <1>1, <1>4, <1>5, <1>6
<1>14. Len(ones) >= PerFive * HalfHour <=> n >= HalfHourBars
  BY <1>2, <1>4, <1>5, <1>7
<1>15. Len(longs) >= HalfHour + 1 <=> n >= HalfHourBars + q
  BY <1>3, <1>4, <1>5, <1>8
<1>16. Len(longs) >= HalfHourBars <=> n >= HalfHourBars * q
  BY <1>3, <1>4, <1>5, <1>8
<1> QED
  BY <1>10, <1>11, <1>12, <1>13, <1>14, <1>15, <1>16 DEF n

\* The tags a frame has: the first ones before they are due, and then some that the
\* sample with the frame's newest candle allows.
TagInv ==
  \A f \in Frames :
    LET s == CandlesOf(f)
        c == Last(s)
    IN  IF Len(fiveSec) < TaggedFrom(f) THEN VPT[f] = FirstTags
        ELSE /\ Len(s) > 0
             /\ VPT[f].volStDev \in updateVolStDev(sdVol[f], c.volume)
             /\ VPT[f].volThresh = updateVolThreshold(c.volume)
             /\ VPT[f].priceDelta \in updatePriceDelta(sdPrice[f], c.high - c.low)

LEMMA TagInit ==
  ASSUME Init
  PROVE  TagInv
<1>1. Len(fiveSec) = 0 /\ \A f \in Frames : VPT[f] = FirstTags
  BY DEF Init
<1>2. ASSUME NEW f \in Frames PROVE 0 < TaggedFrom(f)
  <2> DEFINE q == PerThirty * PerMinute * PerFive
  <2>1. PerThirty * PerMinute \in Nat \ {0}
    BY Ratios
  <2>2. q \in Nat \ {0}
    BY <2>1, Ratios
  <2> HIDE DEF q
  <2>3. q * HalfHour \in Nat \ {0}
    BY <2>2, Ratios
  <2>4. HalfHourBars \in Nat \ {0}
    BY <2>3 DEF HalfHourBars, q
  <2>5. HalfHourBars * q \in Nat
    BY <2>2, <2>4
  <2>6. TaggedFrom(f) \in {HalfHourBars * q + 1, HalfHourBars, HalfHourBars + q}
    BY DEF TaggedFrom, Frames, q
  <2> QED
    BY <2>2, <2>4, <2>5, <2>6
<1> QED
  BY <1>1, <1>2 DEF TagInv

LEMMA TagStep ==
  ASSUME CandleInv, TagInv, NEW bar \in Bars, updateData(bar)
  PROVE  TagInv'
<1>1. /\ CandleInv' /\ Len(fiveSec) \in Nat /\ Len(fiveSec') = Len(fiveSec) + 1
      /\ fiveSec \in Seq(Candle) /\ fiveSec' \in Seq(Candle)
  BY CandleStep DEF Moved
<1>2. /\ Len(thirtySec) >= PerMinute * PerFive * HalfHour <=> Len(fiveSec) >= TaggedFrom("30s")
      /\ Len(oneMin) >= PerFive * HalfHour <=> Len(fiveSec) >= TaggedFrom("1m")
      /\ Len(fiveMin) > HalfHour <=> Len(fiveSec) >= TaggedFrom("5m")
      /\ Len(fiveMin) >= HalfHourBars <=> Len(fiveSec) + 1 >= TaggedFrom("5s")
  BY <1>1, ReadyCounts DEF CandleInv
<1>3. /\ Len(thirtySec') >= PerMinute * PerFive * HalfHour <=> Len(fiveSec') >= TaggedFrom("30s")
      /\ Len(oneMin') >= PerFive * HalfHour <=> Len(fiveSec') >= TaggedFrom("1m")
      /\ Len(fiveMin') > HalfHour <=> Len(fiveSec') >= TaggedFrom("5m")
  <2>1. /\ Layer(thirtySec', PerThirty, fiveSec') /\ Layer(oneMin', PerMinute, thirtySec')
        /\ Layer(fiveMin', PerFive, oneMin')
    BY <1>1 DEF CandleInv, Layer
  <2> QED
    BY <1>1, <2>1, ReadyCounts
<1>4. fiveSec' # fiveSec
  <2>1. Len(fiveSec') # Len(fiveSec)
    BY <1>1
  <2> QED
    BY <2>1
<1>5. ASSUME NEW f \in Frames
      PROVE  LET s == CandlesOf(f)'
                 c == Last(s)
             IN  IF Len(fiveSec') < TaggedFrom(f) THEN VPT'[f] = FirstTags
                 ELSE /\ Len(s) > 0
                      /\ VPT'[f].volStDev \in updateVolStDev(sdVol'[f], c.volume)
                      /\ VPT'[f].volThresh = updateVolThreshold(c.volume)
                      /\ VPT'[f].priceDelta \in updatePriceDelta(sdPrice'[f], c.high - c.low)
  <2> DEFINE b == CandlesOf(f)
             s == CandlesOf(f)'
             c == Last(s)
             from == TaggedFrom(f)
  <2>1. /\ Len(fiveSec) < from => VPT[f] = FirstTags
        /\ ~(Len(fiveSec) < from) =>
             /\ Len(b) > 0
             /\ VPT[f].volStDev \in updateVolStDev(sdVol[f], Last(b).volume)
             /\ VPT[f].volThresh = updateVolThreshold(Last(b).volume)
             /\ VPT[f].priceDelta \in updatePriceDelta(sdPrice[f], Last(b).high - Last(b).low)
    BY DEF TagInv
  <2>2. f = "5s" \/ f = "30s" \/ f = "1m" \/ f = "5m"
    BY DEF Frames
  <2>3. from \in Int
    <3> DEFINE q == PerThirty * PerMinute * PerFive
    <3>1. PerThirty * PerMinute \in Nat
      BY Ratios
    <3>2. q \in Nat
      BY <3>1, Ratios
    <3> HIDE DEF q
    <3>3. q * HalfHour \in Nat
      BY <3>2, Ratios
    <3>4. HalfHourBars \in Nat
      BY <3>3 DEF HalfHourBars, q
    <3>5. HalfHourBars * q \in Nat
      BY <3>2, <3>4
    <3> QED
      BY <2>2, <3>2, <3>4, <3>5 DEF TaggedFrom, q
  <2>4. CASE s = b
    <3>1. sdPrice'[f] = sdPrice[f] /\ sdVol'[f] = sdVol[f] /\ VPT'[f] = VPT[f]
      BY <2>4, TagsStep
    <3>2. Len(fiveSec') >= from <=> Len(fiveSec) >= from
      BY <1>2, <1>3, <1>4, <2>2, <2>4 DEF CandlesOf
    <3>3. Len(fiveSec') < from <=> Len(fiveSec) < from
      BY <1>1, <2>3, <3>2
    <3> HIDE DEF s, b, from
    <3> QED
      BY <2>1, <2>4, <3>1, <3>3 DEF s, from
  <2>5. CASE s # b
    <3>1. VPT'[f] \in NewTags(f, c, sdPrice'[f], sdVol'[f], Len(s)) /\ Moved(b, s)
      BY <2>5, TagsStep
    <3>2. TagsDue(f, Len(s)) <=> Len(fiveSec') >= from
      BY <1>1, <1>2, <1>3, <2>2 DEF TagsDue, CandlesOf
    <3>3. Len(fiveSec') >= from <=> ~(Len(fiveSec') < from)
      BY <1>1, <2>3
    <3> HIDE DEF b, s, c
    <3>4. Len(s) > 0
      <4>1. Len(s) = Len(b) + 1 /\ Len(b) \in Nat
        BY <2>5, <3>1, NewestCandle
      <4> QED
        BY <4>1
    <3>5. CASE Len(fiveSec') < from
      <4>1. VPT'[f] = VPT[f]
        BY <3>1, <3>2, <3>3, <3>5 DEF NewTags
      <4>2. Len(fiveSec) < from
        BY <1>1, <2>3, <3>5
      <4> QED
        BY <2>1, <3>5, <4>1, <4>2
    <3>6. CASE ~(Len(fiveSec') < from)
      <4>1. /\ VPT'[f].volStDev \in updateVolStDev(sdVol'[f], c.volume)
            /\ VPT'[f].volThresh = updateVolThreshold(c.volume)
            /\ VPT'[f].priceDelta \in updatePriceDelta(sdPrice'[f], c.high - c.low)
        BY <3>1, <3>2, <3>3, <3>6 DEF NewTags
      <4> QED
        BY <3>4, <3>6, <4>1 DEF s, c, from
    <3> QED
      BY <3>5, <3>6
  <2> QED
    BY <2>4, <2>5
<1>6. \A f \in Frames : TaggedFrom(f)' = TaggedFrom(f)
  BY DEF TaggedFrom, HalfHourBars
<1> QED
  BY <1>5 DEF TagInv, Last, TaggedFrom, HalfHourBars

\* A price is near a local low only when there is one.
NearLowInv == LHL = "NLL" => localHigh # 0

LEMMA NearLowStep ==
  ASSUME CandleInv, ScalarInv, NearLowInv, NEW bar \in Bars, updateData(bar)
  PROVE  NearLowInv'
<1>1. localHigh' # localHigh => localHigh' # 0
  BY ScalarStep
<1>2. updateComparisons(bar.close) \/ LHL' = LHL
  BY DEF updateData
<1>3. CASE LHL' = LHL
  BY <1>1, <1>3 DEF NearLowInv
<1>4. CASE updateComparisons(bar.close)
  <2> DEFINE price == bar.close
  <2>1. price \in Nat \ {0} /\ localHigh \in Nat
    BY BarsAssumption DEF ScalarInv
  <2>2. PICK near \in Within(price, localHigh) : LHL' = "NLL" => ~(near \/ price > localHigh)
    BY <1>4 DEF updateComparisons
  <2> HIDE DEF price
  <2>3. localHigh = 0 => price > localHigh
    BY <2>1
  <2> QED
    BY <1>1, <2>2, <2>3 DEF NearLowInv
<1> QED
  BY <1>2, <1>3, <1>4

\* A tag says no more than its sample holds.
LEMMA HistoryFollows ==
  ASSUME CandleInv, StatInv, TagInv, NearLowInv
  PROVE  TagsNeedHistory
<1>1. ASSUME NEW f \in Frames
      PROVE  LET n == Len(CandlesOf(f)) IN
               /\ Steady(sdVol[f]) => /\ VPT[f].volStDev = "Over2" => n >= 5
                                      /\ VPT[f].volStDev = "Over3" => n >= 10
                                      /\ VPT[f].volStDev = "Over4" => n >= 17
               /\ Steady(sdPrice[f]) => (VPT[f].priceDelta = "Over2" => n >= 5)
  <2>1. CASE VPT[f] = FirstTags
    BY <2>1 DEF FirstTags
  <2>2. CASE VPT[f] # FirstTags
    <3> DEFINE s == CandlesOf(f)
               n == Len(s)
               x == Last(s).volume
               w == Last(s).high - Last(s).low
    <3>1. s \in Seq(Candle)
      BY DEF CandlesOf, Frames, CandleInv, Layer
    <3>2. /\ n > 0 /\ VPT[f].volStDev \in updateVolStDev(sdVol[f], x)
          /\ VPT[f].priceDelta \in updatePriceDelta(sdPrice[f], w)
      BY <2>2 DEF TagInv
    <3>3. /\ Sampled(sdPrice[f], n) /\ OneOf(w, sdPrice[f])
          /\ Sampled(sdVol[f], n) /\ OneOf(x, sdVol[f])
      BY <3>2 DEF StatInv
    <3> HIDE DEF s
    <3>4. n \in Nat
      BY <3>1
    <3> HIDE DEF n, x, w
    <3>5. 2 * 2 = 4 /\ 3 * 3 = 9 /\ 4 * 4 = 16 /\ 2 \in Nat /\ 3 \in Nat /\ 4 \in Nat
      OBVIOUS
    <3>6. ASSUME Steady(sdVol[f])
          PROVE  /\ VPT[f].volStDev = "Over2" => n > 2 * 2
                 /\ VPT[f].volStDev = "Over3" => n > 3 * 3
                 /\ VPT[f].volStDev = "Over4" => n > 4 * 4
      <4>1. /\ VPT[f].volStDev = "Over2" => MayExceed(sdVol[f], x, 2)
            /\ VPT[f].volStDev = "Over3" => MayExceed(sdVol[f], x, 3)
            /\ VPT[f].volStDev = "Over4" => MayExceed(sdVol[f], x, 4)
        BY <3>2, <3>6, TagsSay
      <4>2. \A k \in Nat : MayExceed(sdVol[f], x, k) => n > k * k
        BY <3>3, <3>4, <3>6, OverNeeds
      <4>3. /\ MayExceed(sdVol[f], x, 2) => n > 2 * 2
            /\ MayExceed(sdVol[f], x, 3) => n > 3 * 3
            /\ MayExceed(sdVol[f], x, 4) => n > 4 * 4
        BY <3>5, <4>2
      <4> QED
        BY <4>1, <4>3
    <3>7. ASSUME Steady(sdPrice[f]), VPT[f].priceDelta = "Over2"
          PROVE  n > 2 * 2
      <4>1. MayExceed(sdPrice[f], w, 2)
        BY <3>2, <3>7, TagsSay
      <4> QED
        BY <3>3, <3>4, <3>5, <3>7, <4>1, OverNeeds
    <3>8. /\ n > 2 * 2 => n >= 5
          /\ n > 3 * 3 => n >= 10
          /\ n > 4 * 4 => n >= 17
      BY <3>4
    <3> QED
      BY <3>6, <3>7, <3>8 DEF n, s
  <2> QED
    BY <2>1, <2>2
<1> QED
  BY <1>1 DEF TagsNeedHistory, NearLowInv

\* The sums over a frame, as TagsAreOfTheCandle writes them.
LEMMA SumsOfFrame ==
  ASSUME NEW s \in Seq(Candle)
  PROVE  LET n == Len(s) IN
         /\ StatsOf(Widths(s), n)
              = [n     |-> n,
                 sum   |-> SumFunctionOnSet([i \in 1 .. n |-> s[i].high - s[i].low], 1 .. n),
                 sumSq |-> SumFunctionOnSet([i \in 1 .. n |-> (s[i].high - s[i].low)
                                                              * (s[i].high - s[i].low)], 1 .. n)]
         /\ StatsOf(Volumes(s), n)
              = [n     |-> n,
                 sum   |-> SumFunctionOnSet([i \in 1 .. n |-> s[i].volume], 1 .. n),
                 sumSq |-> SumFunctionOnSet([i \in 1 .. n |-> s[i].volume * s[i].volume], 1 .. n)]
<1> DEFINE n == Len(s)
           w == Widths(s)
           v == Volumes(s)
<1>1. /\ \A i \in 1 .. n : w[i] = s[i].high - s[i].low /\ v[i] = s[i].volume
      /\ \A i \in 1 .. n : Squares(w)[i] = w[i] * w[i] /\ Squares(v)[i] = v[i] * v[i]
  BY DEF Widths, Volumes, Squares
<1> HIDE DEF w, v, n
<1>2. /\ [i \in 1 .. n |-> w[i]] = [i \in 1 .. n |-> s[i].high - s[i].low]
      /\ [i \in 1 .. n |-> v[i]] = [i \in 1 .. n |-> s[i].volume]
      /\ [i \in 1 .. n |-> Squares(w)[i]]
           = [i \in 1 .. n |-> (s[i].high - s[i].low) * (s[i].high - s[i].low)]
      /\ [i \in 1 .. n |-> Squares(v)[i]] = [i \in 1 .. n |-> s[i].volume * s[i].volume]
  BY <1>1
<1> QED
  BY <1>2 DEF StatsOf, SumOf, w, v, n

LEMMA TagsFollow ==
  ASSUME CandleInv, HourInv, EmittedInv, StatInv, TagInv
  PROVE  TagsAreOfTheCandle
<1>1. TimeOfDayExact
  BY DEF HourInv
<1>2. ASSUME NEW e \in emitted, ~(Len(fiveSec) < TaggedFrom(e.frame))
      PROVE  LET s == CandlesOf(e.frame)
                 n == Len(s)
             IN  /\ e.tags.volThresh = updateVolThreshold(e.candle.volume)
                 /\ e.tags.volStDev \in updateVolStDev(StatsOf(Volumes(s), n), e.candle.volume)
                 /\ e.tags.priceDelta
                      \in updatePriceDelta(StatsOf(Widths(s), n), e.candle.high - e.candle.low)
                 /\ s \in Seq(Candle)
  <2> DEFINE f == e.frame
             s == CandlesOf(f)
  <2>1. f \in Frames /\ e.candle = Last(s) /\ e.tags = VPT[f]
    BY DEF EmittedInv
  <2>2. sdPrice[f] = StatsOf(Widths(s), Len(s)) /\ sdVol[f] = StatsOf(Volumes(s), Len(s))
    BY <2>1 DEF StatInv
  <2>3. /\ VPT[f].volStDev \in updateVolStDev(sdVol[f], Last(s).volume)
        /\ VPT[f].volThresh = updateVolThreshold(Last(s).volume)
        /\ VPT[f].priceDelta \in updatePriceDelta(sdPrice[f], Last(s).high - Last(s).low)
    BY <1>2, <2>1 DEF TagInv
  <2>4. s \in Seq(Candle)
    BY <2>1 DEF CandlesOf, Frames, CandleInv, Layer
  <2> HIDE DEF f, s
  <2> QED
    BY <2>1, <2>2, <2>3, <2>4 DEF s, f
<1>3. ASSUME NEW e \in emitted, ~(Len(fiveSec) < TaggedFrom(e.frame))
      PROVE  LET data == CandlesOf(e.frame)
                 n == Len(data)
                 Stats(Value(_)) ==
                   [n     |-> n,
                    sum   |-> SumFunctionOnSet([i \in 1 .. n |-> Value(data[i])], 1 .. n),
                    sumSq |-> SumFunctionOnSet([i \in 1 .. n |-> Value(data[i]) * Value(data[i])],
                                               1 .. n)]
                 Width(c) == c.high - c.low
                 Size(c)  == c.volume
             IN  /\ e.tags.volThresh = updateVolThreshold(e.candle.volume)
                 /\ e.tags.volStDev \in updateVolStDev(Stats(Size), e.candle.volume)
                 /\ e.tags.priceDelta \in updatePriceDelta(Stats(Width),
                                                           e.candle.high - e.candle.low)
  <2> DEFINE s == CandlesOf(e.frame)
  <2>1. /\ e.tags.volThresh = updateVolThreshold(e.candle.volume)
        /\ e.tags.volStDev \in updateVolStDev(StatsOf(Volumes(s), Len(s)), e.candle.volume)
        /\ e.tags.priceDelta
             \in updatePriceDelta(StatsOf(Widths(s), Len(s)), e.candle.high - e.candle.low)
        /\ s \in Seq(Candle)
    BY <1>2, <1>3
  <2> HIDE DEF s
  <2>2. LET n == Len(s) IN
         /\ StatsOf(Widths(s), n)
              = [n     |-> n,
                 sum   |-> SumFunctionOnSet([i \in 1 .. n |-> s[i].high - s[i].low], 1 .. n),
                 sumSq |-> SumFunctionOnSet([i \in 1 .. n |-> (s[i].high - s[i].low)
                                                              * (s[i].high - s[i].low)], 1 .. n)]
         /\ StatsOf(Volumes(s), n)
              = [n     |-> n,
                 sum   |-> SumFunctionOnSet([i \in 1 .. n |-> s[i].volume], 1 .. n),
                 sumSq |-> SumFunctionOnSet([i \in 1 .. n |-> s[i].volume * s[i].volume], 1 .. n)]
    BY <2>1, SumsOfFrame
  <2> QED
    BY <2>1, <2>2 DEF s
<1>4. ASSUME NEW e \in emitted, Len(fiveSec) < TaggedFrom(e.frame)
      PROVE  e.tags = FirstTags
  BY <1>4 DEF EmittedInv, TagInv
<1> QED
  BY <1>1, <1>3, <1>4 DEF TagsAreOfTheCandle

SessionInv == TypeInv /\ StatInv /\ TagInv /\ NearLowInv

LEMMA SessionInit ==
  ASSUME Init
  PROVE  SessionInv
<1>1. NearLowInv
  BY DEF Init, NearLowInv
<1> QED
  BY <1>1, TypeInit, StatInit, TagInit DEF SessionInv

LEMMA SessionStep ==
  ASSUME SessionInv, [Next]_vars
  PROVE  SessionInv'
<1>1. TypeInv'
  BY TypeStep DEF SessionInv
<1>2. ASSUME NEW bar \in Bars, updateData(bar)
      PROVE  StatInv' /\ TagInv' /\ NearLowInv'
  BY <1>2, StatStep, TagStep, NearLowStep DEF SessionInv, TypeInv
<1>3. CASE UNCHANGED vars
  <2>1. /\ fiveSec' = fiveSec /\ thirtySec' = thirtySec /\ oneMin' = oneMin /\ fiveMin' = fiveMin
        /\ sdPrice' = sdPrice /\ sdVol' = sdVol /\ VPT' = VPT
        /\ LHL' = LHL /\ localHigh' = localHigh
    BY <1>3 DEF vars, candleVars, priceVars, tagVars
  <2>2. \A f : CandlesOf(f)' = CandlesOf(f)
    BY <2>1 DEF CandlesOf
  <2>3. StatInv'
    BY <2>1, <2>2 DEF SessionInv, StatInv, Last
  <2>4. TagInv'
    BY <2>1, <2>2 DEF SessionInv, TagInv, Last, TaggedFrom, HalfHourBars
  <2>5. NearLowInv'
    BY <2>1 DEF SessionInv, NearLowInv
  <2> QED
    BY <1>1, <2>3, <2>4, <2>5 DEF SessionInv
<1> QED
  BY <1>1, <1>2, <1>3 DEF Next, SessionInv

\* A candle goes out with the first tags before its frame has the history, and from then
\* on with tags that all candles of its frame up to and with it allow, each counted once;
\* and the hour is its own: the order of updateTimeOfDay, updateContainers and the
\* CandleTags in updateData.
THEOREM TagsAlwaysOfTheCandle == Spec => []TagsAreOfTheCandle
<1>1. Init => SessionInv
  BY SessionInit
<1>2. SessionInv /\ [Next]_vars => SessionInv'
  BY SessionStep
<1>3. SessionInv => TagsAreOfTheCandle
  BY TagsFollow DEF SessionInv, TypeInv
<1> QED
  BY <1>1, <1>2, <1>3, PTL DEF Spec

\* Unless its spread is lost in the rounding, a sample that gives a tag of k deviations
\* has more than k * k candles, and a price is never near a local low that is not set.
THEOREM TagsAlwaysNeedHistory == Spec => []TagsNeedHistory
<1>1. Init => SessionInv
  BY SessionInit
<1>2. SessionInv /\ [Next]_vars => SessionInv'
  BY SessionStep
<1>3. SessionInv => TagsNeedHistory
  BY HistoryFollows DEF SessionInv, TypeInv
<1> QED
  BY <1>1, <1>2, <1>3, PTL DEF Spec
=============================================================================
