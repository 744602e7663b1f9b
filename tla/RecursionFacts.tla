--------------------------- MODULE RecursionFacts ---------------------------
(***************************************************************************)
(* Facts about recursive functions on the naturals and about folds over    *)
(* finite sets, for the proofs of the other modules.                       *)
(*                                                                         *)
(* A recursion is followed by naming the set of the numbers at which it is *)
(* what it should be: InductionOverNat says that the set has all of them,  *)
(* which follows from the least element every set of naturals has.         *)
(***************************************************************************)
EXTENDS Integers, FiniteSetsExt, Functions, TLAPS, WellFoundedInduction, FiniteSetTheorems

\* A set of naturals that is not empty has a least element.
LEMMA LeastNatural ==
  ASSUME NEW S, S \subseteq Nat, S # {}
  PROVE  \E n \in S : \A m \in S : n <= m
<1>1. \E x \in S : \A y \in S : ~ (<<y, x>> \in OpToRel(<, Nat))
  BY NatLessThanWellFounded, WFMin
<1>2. PICK x \in S : \A y \in S : ~ (<<y, x>> \in OpToRel(<, Nat))
  BY <1>1
<1>3. \A y \in S : ~(y < x)
  BY <1>2 DEF OpToRel
<1> QED
  BY <1>3

\* Induction: a set of naturals with 0 and the successors of its elements has all of them.
LEMMA InductionOverNat ==
  ASSUME NEW S, 0 \in S, \A n \in Nat : n \in S => n + 1 \in S
  PROVE  Nat \subseteq S
<1> SUFFICES ASSUME Nat \ S # {} PROVE FALSE
  OBVIOUS
<1>1. PICK n \in Nat \ S : \A m \in Nat \ S : n <= m
  BY LeastNatural
<1>2. n # 0 /\ n - 1 \in Nat /\ ~(n <= n - 1)
  BY <1>1
<1>3. n - 1 \in S
  BY <1>1, <1>2
<1> QED
  BY <1>2, <1>3, (n - 1) + 1 = n

\* Induction over a finite set: a property of each subset whose smaller subsets have
\* it is one of the whole set.
LEMMA InductionOverSubsets ==
  ASSUME NEW U, IsFiniteSet(U), NEW P,
         ASSUME NEW T \in SUBSET U, \A R \in SUBSET T : R # T => R \in P
         PROVE  T \in P
  PROVE  U \in P
<1> DEFINE N == {n \in Nat : \A T \in SUBSET U : Cardinality(T) < n => T \in P}
<1>1. \A T \in SUBSET U : IsFiniteSet(T) /\ Cardinality(T) \in Nat
  BY FS_Subset, FS_CardinalityType
<1>2. 0 \in N
  BY <1>1
<1>3. ASSUME NEW n \in Nat, n \in N PROVE n + 1 \in N
  <2>1. ASSUME NEW T \in SUBSET U, Cardinality(T) < n + 1 PROVE T \in P
    <3>1. ASSUME NEW R \in SUBSET T, R # T PROVE R \in P
      <4>1. Cardinality(R) < Cardinality(T)
        BY <1>1, <3>1, FS_Subset
      <4>2. Cardinality(R) \in Nat /\ Cardinality(T) \in Nat /\ R \in SUBSET U
        BY <1>1
      <4> QED
        BY <4>1, <4>2, <2>1, <1>3
    <3> QED
      BY <3>1
  <2> QED
    BY <2>1
<1> HIDE DEF N
<1>4. Nat \subseteq N
  BY <1>2, <1>3, InductionOverNat
<1>5. Cardinality(U) + 1 \in Nat /\ Cardinality(U) < Cardinality(U) + 1
  BY <1>1
<1> QED
  BY <1>4, <1>5 DEF N

\* A recursion over S: the value is given on Z and made, elsewhere, from the value at
\* a place of lower rank.
Recursion(S, V, top, rank, Z, start, before, step) ==
  /\ V # {} /\ top \in Nat /\ rank \in [S -> 0..top]
  /\ Z \subseteq S /\ start \in [Z -> V]
  /\ before \in [S \ Z -> S] /\ step \in [(S \ Z) \X V -> V]
  /\ \A s \in S \ Z : rank[before[s]] < rank[s]

\* It defines a function.
LEMMA RecursionByRank ==
  ASSUME NEW S, NEW V, NEW top, NEW rank, NEW Z, NEW start, NEW before, NEW step,
         Recursion(S, V, top, rank, Z, start, before, step)
  PROVE  \E g \in [S -> V] :
           \A s \in S : g[s] = IF s \in Z THEN start[s] ELSE step[<<s, g[before[s]]>>]
<1> DEFINE Body(g, s) == IF s \in Z THEN start[s] ELSE step[<<s, g[before[s]]>>]
           N == {n \in Nat : \E g \in [S -> V] : \A s \in S : rank[s] < n => g[s] = Body(g, s)}
<1> USE DEF Recursion
<1>1. 0 \in N
  <2>1. PICK some \in V : TRUE
    OBVIOUS
  <2>2. [s \in S |-> some] \in [S -> V]
    BY <2>1
  <2>3. \A s \in S : ~(rank[s] < 0)
    OBVIOUS
  <2> QED
    BY <2>2, <2>3
<1>2. ASSUME NEW n \in Nat, n \in N PROVE n + 1 \in N
  <2>1. PICK g \in [S -> V] : \A s \in S : rank[s] < n => g[s] = Body(g, s)
    BY <1>2
  <2> DEFINE h == [s \in S |-> Body(g, s)]
  <2>2. h \in [S -> V]
    OBVIOUS
  <2>3. ASSUME NEW s \in S, rank[s] < n + 1, s \notin Z PROVE h[s] = Body(h, s)
    <3>1. before[s] \in S /\ rank[before[s]] < n
      BY <2>3
    <3>2. h[before[s]] = g[before[s]]
      BY <3>1, <2>1
    <3> QED
      BY <2>3, <3>2
  <2>4. \A s \in S : rank[s] < n + 1 => h[s] = Body(h, s)
    BY <2>3
  <2> HIDE DEF h
  <2> QED
    BY <2>2, <2>4
<1> HIDE DEF N
<1>3. top + 1 \in N
  BY <1>1, <1>2, InductionOverNat
<1>4. \A s \in S : rank[s] < top + 1
  OBVIOUS
<1> QED
  BY <1>3, <1>4 DEF N
-----------------------------------------------------------------------------
(* Sums of a function over a finite set, SumFunctionOnSet of Functions.    *)

\* A set of indexes that is not empty has a last one.
LEMMA MaxIsOne ==
  ASSUME NEW n \in Nat, NEW s \in SUBSET (1..n), s # {}
  PROVE  Max(s) \in s /\ \A x \in s : Max(s) >= x
<1>1. PICK gaps : gaps = {n - x : x \in s}
  OBVIOUS
<1>2. gaps \subseteq Nat /\ gaps # {}
  <2>1. \A x \in s : n - x \in Nat
    OBVIOUS
  <2> QED
    BY <1>1, <2>1
<1>3. PICK g \in gaps : \A h \in gaps : g <= h
  BY <1>2, LeastNatural
<1>4. PICK x \in s : g = n - x
  BY <1>1, <1>3
<1>5. ASSUME NEW y \in s PROVE x >= y
  <2>1. n - y \in gaps
    BY <1>1
  <2>2. n - x <= n - y
    BY <1>3, <1>4, <2>1
  <2> QED
    BY <2>2
<1>6. \E y \in s : \A z \in s : y >= z
  BY <1>5
<1> QED
  BY <1>6 DEF Max

\* A fold over the elements 1..n of a sequence, the last one taken off first.
FoldsUp(g, base, I, step) ==
  \A s \in SUBSET I : g[s] = IF s = {} THEN base ELSE step[<<Max(s), g[s \ {Max(s)}]>>]

\* It has a result.
LEMMA FoldExists ==
  ASSUME NEW V, NEW base \in V, NEW n \in Nat, NEW I, I = 1..n, NEW step \in [I \X V -> V]
  PROVE  \E g \in [SUBSET I -> V] : FoldsUp(g, base, I, step)
<1> DEFINE Sets == SUBSET I
           Zero == {{}}
           rank == [s \in Sets |-> Cardinality(s)]
           before == [s \in Sets \ Zero |-> s \ {Max(s)}]
           move == [p \in (Sets \ Zero) \X V |-> step[<<Max(p[1]), p[2]>>]]
           start == [s \in Zero |-> base]
<1>0. IsFiniteSet(I) /\ Cardinality(I) = n
  BY FS_Interval
<1>1. \A s \in Sets : IsFiniteSet(s) /\ Cardinality(s) \in 0..n
  <2> SUFFICES ASSUME NEW s \in Sets PROVE IsFiniteSet(s) /\ Cardinality(s) \in 0..n
    OBVIOUS
  <2>1. IsFiniteSet(s) /\ Cardinality(s) <= Cardinality(I)
    BY <1>0, FS_Subset
  <2>2. Cardinality(s) \in Nat
    BY <2>1, FS_CardinalityType
  <2> QED
    BY <1>0, <2>1, <2>2
<1>2. \A s \in Sets : s # {} => Max(s) \in s /\ Max(s) \in I
  BY MaxIsOne
<1>3. rank \in [Sets -> 0..n] /\ Zero \in SUBSET Sets /\ start \in [Zero -> V] /\ V # {}
  BY <1>1
<1>4. before \in [Sets \ Zero -> Sets]
  OBVIOUS
<1>5. move \in [(Sets \ Zero) \X V -> V]
  <2>1. ASSUME NEW p \in (Sets \ Zero) \X V PROVE step[<<Max(p[1]), p[2]>>] \in V
    <3>1. p[1] \in Sets /\ p[1] # {} /\ p[2] \in V
      OBVIOUS
    <3>2. Max(p[1]) \in I
      BY <1>2, <3>1
    <3> QED
      BY <3>1, <3>2
  <2> QED
    BY <2>1
<1>6. ASSUME NEW s \in Sets \ Zero PROVE rank[before[s]] < rank[s]
  <2>1. Max(s) \in s /\ IsFiniteSet(s)
    BY <1>1, <1>2
  <2>2. Cardinality(s \ {Max(s)}) = Cardinality(s) - 1 /\ Cardinality(s) \in Nat
    BY <2>1, <1>1, FS_RemoveElement
  <2>3. s \ {Max(s)} \in Sets /\ before[s] = s \ {Max(s)}
    OBVIOUS
  <2> QED
    BY <2>2, <2>3
<1> HIDE DEF rank, before, move, start, Sets, Zero
<1>7. PICK g \in [Sets -> V] :
        \A s \in Sets : g[s] = IF s \in Zero THEN start[s] ELSE move[<<s, g[before[s]]>>]
  <2>1. Recursion(Sets, V, n, rank, Zero, start, before, move)
    BY <1>3, <1>4, <1>5, <1>6 DEF Recursion
  <2> QED
    BY <2>1, RecursionByRank
<1>8. ASSUME NEW s \in Sets PROVE g[s] = IF s = {} THEN base ELSE step[<<Max(s), g[s \ {Max(s)}]>>]
  <2>1. CASE s = {}
    BY <2>1, <1>7 DEF start, Zero
  <2>2. CASE s # {}
    <3>1. s \in Sets \ Zero
      BY <2>2 DEF Zero
    <3>2. before[s] = s \ {Max(s)} /\ g[before[s]] \in V
      BY <3>1, <1>4 DEF before
    <3>3. move[<<s, g[before[s]]>>] = step[<<Max(s), g[before[s]]>>]
      BY <3>1, <3>2 DEF move
    <3> QED
      BY <2>2, <3>1, <3>2, <3>3, <1>7
  <2> QED
    BY <2>1, <2>2
<1> QED
  BY <1>8 DEF Sets, FoldsUp

\* A fold whose steps raise the value from one set of values to the next.
LEMMA FoldRises ==
  ASSUME NEW n \in Nat, NEW I, I = 1..n, NEW V, \A j, k \in 0..n : j <= k => V[j] \subseteq V[k],
         NEW h, h[{}] \in V[0],
         \A s \in SUBSET I : s # {} /\ h[s \ {Max(s)}] \in V[Max(s) - 1] => h[s] \in V[Max(s)]
  PROVE  \A s \in SUBSET I : h[s] \in V[IF s = {} THEN 0 ELSE Max(s)]
<1> DEFINE last(s) == IF s = {} THEN 0 ELSE Max(s)
           P == {s \in SUBSET I : h[s] \in V[last(s)]}
<1>1. IsFiniteSet(I)
  BY FS_Interval
<1>2. ASSUME NEW T \in SUBSET I, \A R \in SUBSET T : R # T => R \in P PROVE T \in P
  <2>1. CASE T = {}
    BY <2>1
  <2>2. CASE T # {}
    <3>1. PICK m : m = Max(T)
      OBVIOUS
    <3>2. m \in T /\ \A x \in T : m >= x
      BY <2>2, <3>1, MaxIsOne
    <3>3. m \in 1..n
      BY <3>2
    <3>4. PICK R : R = T \ {m}
      OBVIOUS
    <3>5. R \in SUBSET T /\ R # T /\ R \in SUBSET (1..n)
      BY <3>2, <3>4
    <3>6. h[R] \in V[last(R)]
      BY <1>2, <3>5
    <3>7. last(R) \in 0..n /\ last(R) <= m - 1
      <4>1. CASE R = {}
        BY <3>3, <4>1
      <4>2. CASE R # {}
        <5>1. Max(R) \in R
          BY <3>5, <4>2, MaxIsOne
        <5>2. Max(R) \in 1..n /\ Max(R) # m /\ m >= Max(R)
          BY <3>2, <3>4, <3>5, <5>1
        <5> QED
          BY <3>3, <4>2, <5>2
      <4> QED
        BY <4>1, <4>2
    <3> HIDE DEF last
    <3>8. V[last(R)] \subseteq V[m - 1]
      <4>1. m - 1 \in 0..n
        BY <3>3
      <4> QED
        BY <3>7, <4>1
    <3>9. h[T] \in V[m]
      BY <2>2, <3>1, <3>4, <3>6, <3>8
    <3> QED
      BY <2>2, <3>1, <3>9 DEF last
  <2> QED
    BY <2>1, <2>2
<1> HIDE DEF P
<1>3. ASSUME NEW s \in SUBSET I PROVE s \in P
  <2>1. IsFiniteSet(s)
    BY <1>1, FS_Subset
  <2>2. ASSUME NEW T \in SUBSET s, \A R \in SUBSET T : R # T => R \in P PROVE T \in P
    BY <1>2, <2>2
  <2> QED
    BY <2>1, <2>2, InductionOverSubsets
<1> QED
  BY <1>3 DEF P

\* The element by which a recursion on a set goes on.
Element(s) == CHOOSE x \in s : TRUE

\* What Element chooses is in the set.
LEMMA ElementIsOne == \A s : s # {} => Element(s) \in s
BY DEF Element

\* The recursion of a sum: what SumFunctionOnSet computes for the subsets of S.
SumsUp(g, f, S) ==
  \A s \in SUBSET S : g[s] = IF s = {} THEN 0 ELSE f[Element(s)] + g[s \ {Element(s)}]

\* It has one result.
LEMMA SumUnique ==
  ASSUME NEW f, NEW S, IsFiniteSet(S), NEW g, SumsUp(g, f, S), NEW h, SumsUp(h, f, S)
  PROVE  g[S] = h[S]
<1> DEFINE P == {s \in SUBSET S : h[s] = g[s]}
<1>1. ASSUME NEW s \in SUBSET S, \A r \in SUBSET s : r # s => r \in P PROVE s \in P
  <2>1. s # {} => s \ {Element(s)} \in SUBSET s /\ s \ {Element(s)} # s
    BY ElementIsOne
  <2>2. s # {} => h[s \ {Element(s)}] = g[s \ {Element(s)}]
    BY <2>1, <1>1
  <2> QED
    BY <2>2 DEF SumsUp
<1>2. S \in P
  <2> HIDE DEF P
  <2> QED
    BY <1>1, InductionOverSubsets
<1> QED
  BY <1>2

\* It has a result.
LEMMA SumExists ==
  ASSUME NEW f, NEW S, IsFiniteSet(S), \A x \in S : f[x] \in Int
  PROVE  \E g \in [SUBSET S -> Int] : SumsUp(g, f, S)
<1> DEFINE Sets == SUBSET S
           Zero == {{}}
           rank == [s \in Sets |-> Cardinality(s)]
           before == [s \in Sets \ Zero |-> s \ {Element(s)}]
           step == [p \in (Sets \ Zero) \X Int |-> f[Element(p[1])] + p[2]]
           start == [s \in Zero |-> 0]
<1>1. \A s \in Sets : IsFiniteSet(s) /\ Cardinality(s) \in 0..Cardinality(S)
  BY FS_Subset, FS_CardinalityType
<1>2. Cardinality(S) \in Nat
  BY FS_CardinalityType
<1>3. rank \in [Sets -> 0..Cardinality(S)]
  BY <1>1
<1>4. Zero \in SUBSET Sets /\ start \in [Zero -> Int] /\ 0 \in Int
  OBVIOUS
<1>5. before \in [Sets \ Zero -> Sets]
  OBVIOUS
<1>6. step \in [(Sets \ Zero) \X Int -> Int]
  <2>1. \A p \in (Sets \ Zero) \X Int : f[Element(p[1])] \in Int /\ p[2] \in Int
    BY ElementIsOne
  <2> QED
    BY <2>1
<1>7. ASSUME NEW s \in Sets \ Zero PROVE rank[before[s]] < rank[s]
  <2>1. Element(s) \in s /\ IsFiniteSet(s)
    BY ElementIsOne, <1>1
  <2>2. Cardinality(s \ {Element(s)}) = Cardinality(s) - 1 /\ Cardinality(s) \in Nat
    BY <2>1, <1>1, FS_RemoveElement
  <2>3. s \ {Element(s)} \in Sets /\ before[s] = s \ {Element(s)}
    OBVIOUS
  <2> QED
    BY <2>2, <2>3
<1> HIDE DEF rank, before, step, start, Sets, Zero
<1>8. PICK g \in [Sets -> Int] :
        \A s \in Sets : g[s] = IF s \in Zero THEN start[s] ELSE step[<<s, g[before[s]]>>]
  <2>1. Recursion(Sets, Int, Cardinality(S), rank, Zero, start, before, step)
    BY <1>2, <1>3, <1>4, <1>5, <1>6, <1>7 DEF Recursion
  <2> QED
    BY <2>1, RecursionByRank
<1>9. ASSUME NEW s \in SUBSET S
      PROVE  g[s] = IF s = {} THEN 0 ELSE f[Element(s)] + g[s \ {Element(s)}]
  <2>1. CASE s = {}
    BY <2>1, <1>8 DEF start, Zero, Sets
  <2>2. CASE s # {}
    <3>1. s \in Sets \ Zero
      BY <2>2 DEF Sets, Zero
    <3>2. before[s] = s \ {Element(s)} /\ g[before[s]] \in Int
      BY <3>1, <1>5 DEF before
    <3>3. step[<<s, g[before[s]]>>] = f[Element(s)] + g[before[s]]
      BY <3>1, <3>2 DEF step
    <3> QED
      BY <2>2, <3>1, <3>2, <3>3, <1>8
  <2> QED
    BY <2>1, <2>2
<1> QED
  BY <1>9 DEF SumsUp, Sets

\* And that is the sum.
LEMMA SumIs ==
  ASSUME NEW f, NEW S, IsFiniteSet(S), NEW g, DOMAIN g = SUBSET S, g = [s \in SUBSET S |-> g[s]],
         SumsUp(g, f, S)
  PROVE  SumFunctionOnSet(f, S) = g[S]
<1> DEFINE Body(h, s) == IF s = {} THEN 0 ELSE f[Element(s)] + h[s \ {Element(s)}]
           Iter == CHOOSE h : h = [s \in SUBSET S |-> Body(h, s)]
<1>1. SumFunctionOnSet(f, S) = Iter[S]
  BY DEF SumFunctionOnSet, FoldFunctionOnSet, MapThenFoldSet, Element
<1>2. g = [s \in SUBSET S |-> Body(g, s)]
  BY DEF SumsUp
<1> HIDE DEF Body
<1>3. Iter = [s \in SUBSET S |-> Body(Iter, s)]
  BY <1>2
<1>4. SumsUp(Iter, f, S)
  BY <1>3 DEF SumsUp, Body
<1> HIDE DEF Iter
<1> QED
  BY <1>1, <1>4, SumUnique

\* The sum of the empty set, and that of any other one by the element chosen first.
LEMMA SumUnfold ==
  ASSUME NEW f, NEW S, IsFiniteSet(S), \A x \in S : f[x] \in Int
  PROVE  /\ SumFunctionOnSet(f, S) \in Int
         /\ S = {} => SumFunctionOnSet(f, S) = 0
         /\ S # {} => SumFunctionOnSet(f, S) = f[Element(S)] + SumFunctionOnSet(f, S \ {Element(S)})
<1>1. PICK g \in [SUBSET S -> Int] : SumsUp(g, f, S)
  BY SumExists
<1>2. SumFunctionOnSet(f, S) = g[S] /\ g[S] \in Int
  BY <1>1, SumIs
<1>3. ASSUME S # {}
      PROVE  SumFunctionOnSet(f, S \ {Element(S)}) = g[S \ {Element(S)}]
  <2>1. PICK R : R = S \ {Element(S)}
    OBVIOUS
  <2>2. IsFiniteSet(R) /\ R \in SUBSET S
    BY <2>1, FS_Subset
  <2>3. PICK h : h = [s \in SUBSET R |-> g[s]]
    OBVIOUS
  <2>4. SumsUp(h, f, R)
    <3>1. ASSUME NEW s \in SUBSET R
          PROVE  h[s] = IF s = {} THEN 0 ELSE f[Element(s)] + h[s \ {Element(s)}]
      <4>1. s \in SUBSET S /\ s \ {Element(s)} \in SUBSET R
        BY <2>2
      <4>2. h[s] = g[s] /\ h[s \ {Element(s)}] = g[s \ {Element(s)}]
        BY <2>3, <4>1
      <4> QED
        BY <1>1, <4>1, <4>2 DEF SumsUp
    <3> QED
      BY <3>1 DEF SumsUp
  <2>5. SumFunctionOnSet(f, R) = h[R]
    BY <2>2, <2>3, <2>4, SumIs
  <2> QED
    BY <2>1, <2>3, <2>5
<1>4. g[S] = IF S = {} THEN 0 ELSE f[Element(S)] + g[S \ {Element(S)}]
  BY <1>1 DEF SumsUp
<1> QED
  BY <1>2, <1>3, <1>4

\* A sum may start with any element: the order does not matter.
LEMMA SumTakeOut ==
  ASSUME NEW f, NEW S, IsFiniteSet(S), \A x \in S : f[x] \in Int, NEW x \in S
  PROVE  SumFunctionOnSet(f, S) = f[x] + SumFunctionOnSet(f, S \ {x})
<1> DEFINE Sum(s) == SumFunctionOnSet(f, s)
           P == {s \in SUBSET S : \A y \in s : Sum(s) = f[y] + Sum(s \ {y})}
<1>1. ASSUME NEW s \in SUBSET S
      PROVE  /\ IsFiniteSet(s) /\ Sum(s) \in Int
             /\ s # {} => Sum(s) = f[Element(s)] + Sum(s \ {Element(s)})
  <2>1. IsFiniteSet(s) /\ \A y \in s : f[y] \in Int
    BY FS_Subset
  <2> QED
    BY <2>1, SumUnfold
<1> HIDE DEF Sum
<1>2. ASSUME NEW s \in SUBSET S, \A r \in SUBSET s : r # s => r \in P PROVE s \in P
  <2>1. ASSUME NEW y \in s PROVE Sum(s) = f[y] + Sum(s \ {y})
    <3> DEFINE e == Element(s)
    <3>1. e \in s /\ Sum(s) = f[e] + Sum(s \ {e})
      BY <1>1, ElementIsOne
    <3> HIDE DEF e
    <3>2. CASE e = y
      BY <3>1, <3>2
    <3>3. CASE e # y
      <4>1. s \ {e} \in P /\ s \ {y} \in P
        BY <1>2, <3>1
      <4>2. Sum(s \ {e}) = f[y] + Sum((s \ {e}) \ {y})
        BY <4>1, <3>3, <2>1
      <4>3. Sum(s \ {y}) = f[e] + Sum((s \ {y}) \ {e})
        BY <4>1, <3>3, <3>1
      <4>4. (s \ {y}) \ {e} = (s \ {e}) \ {y}
        OBVIOUS
      <4>5. Sum((s \ {e}) \ {y}) \in Int /\ f[e] \in Int /\ f[y] \in Int
        BY <1>1, <3>1
      <4> HIDE DEF P
      <4>6. Sum(s) = f[e] + (f[y] + Sum((s \ {e}) \ {y}))
        BY <3>1, <4>2
      <4>7. Sum(s \ {y}) = f[e] + Sum((s \ {e}) \ {y})
        BY <4>3, <4>4
      <4> QED
        BY <4>5, <4>6, <4>7
    <3> QED
      BY <3>2, <3>3
  <2> QED
    BY <2>1
<1>3. S \in P
  <2> HIDE DEF P
  <2> QED
    BY <1>2, InductionOverSubsets
<1> QED
  BY <1>3 DEF Sum

\* Adding an element to a set adds its value to the sum.
LEMMA SumPutIn ==
  ASSUME NEW f, NEW S, IsFiniteSet(S), NEW x, x \notin S, \A y \in S \union {x} : f[y] \in Int
  PROVE  /\ IsFiniteSet(S \union {x})
         /\ SumFunctionOnSet(f, S \union {x}) = f[x] + SumFunctionOnSet(f, S)
<1>1. IsFiniteSet(S \union {x})
  BY FS_AddElement
<1>2. (S \union {x}) \ {x} = S /\ x \in S \union {x}
  OBVIOUS
<1> QED
  BY <1>1, <1>2, SumTakeOut

\* A sum depends on the values in the set alone.
LEMMA SumOfEqual ==
  ASSUME NEW f, NEW h, NEW S, IsFiniteSet(S), \A x \in S : f[x] \in Int /\ h[x] = f[x]
  PROVE  SumFunctionOnSet(h, S) = SumFunctionOnSet(f, S)
<1> DEFINE P == {s \in SUBSET S : SumFunctionOnSet(h, s) = SumFunctionOnSet(f, s)}
<1>1. ASSUME NEW s \in SUBSET S, \A r \in SUBSET s : r # s => r \in P PROVE s \in P
  <2>1. IsFiniteSet(s) /\ \A x \in s : f[x] \in Int /\ h[x] \in Int
    BY FS_Subset
  <2>2. CASE s = {}
    BY <2>1, <2>2, SumUnfold
  <2>3. CASE s # {}
    <3>1. PICK x \in s : TRUE
      BY <2>3
    <3>2. s \ {x} \in P
      BY <1>1, <3>1
    <3>3. SumFunctionOnSet(h, s) = h[x] + SumFunctionOnSet(h, s \ {x})
      BY <2>1, SumTakeOut
    <3>4. SumFunctionOnSet(f, s) = f[x] + SumFunctionOnSet(f, s \ {x})
      BY <2>1, SumTakeOut
    <3> QED
      BY <3>2, <3>3, <3>4
  <2> QED
    BY <2>2, <2>3
<1>2. S \in P
  <2> HIDE DEF P
  <2> QED
    BY <1>1, InductionOverSubsets
<1> QED
  BY <1>2

\* A sum of naturals is one, and at least each of its terms.
LEMMA SumOfNaturals ==
  ASSUME NEW f, NEW S, IsFiniteSet(S), \A x \in S : f[x] \in Nat
  PROVE  SumFunctionOnSet(f, S) \in Nat
<1> DEFINE P == {s \in SUBSET S : SumFunctionOnSet(f, s) \in Nat}
<1>1. ASSUME NEW s \in SUBSET S, \A r \in SUBSET s : r # s => r \in P PROVE s \in P
  <2>1. IsFiniteSet(s) /\ \A x \in s : f[x] \in Int
    BY FS_Subset
  <2>2. CASE s = {}
    <3>1. SumFunctionOnSet(f, {}) = 0
      BY <2>1, <2>2, SumUnfold
    <3> QED
      BY <2>2, <3>1
  <2>3. CASE s # {}
    <3>1. PICK x \in s : TRUE
      BY <2>3
    <3>2. s \ {x} \in P
      BY <1>1, <3>1
    <3>3. SumFunctionOnSet(f, s) = f[x] + SumFunctionOnSet(f, s \ {x})
      BY <2>1, SumTakeOut
    <3> QED
      BY <3>2, <3>3
  <2> QED
    BY <2>2, <2>3
<1>2. S \in P
  <2> HIDE DEF P
  <2> QED
    BY <1>1, InductionOverSubsets
<1> QED
  BY <1>2
-----------------------------------------------------------------------------
(* Remainders, for arithmetic that wraps around.                           *)

\* A division has a quotient and a remainder.
LEMMA Division ==
  ASSUME NEW x \in Int, NEW m \in Nat, m > 0
  PROVE  x = (x \div m) * m + (x % m) /\ x % m \in 0..(m - 1) /\ x \div m \in Int
OBVIOUS

\* Numbers that differ by a multiple of m have the same remainder.
LEMMA SameRemainder ==
  ASSUME NEW x \in Int, NEW y \in Int, NEW m \in Nat, m > 0, NEW q \in Int, x = y + q * m
  PROVE  x % m = y % m
<1>1. PICK r \in Int : r = q + (y \div m) - (x \div m)
  BY Division
<1>2. x % m = (y % m) + r * m /\ x % m \in 0..(m - 1) /\ y % m \in 0..(m - 1)
  BY <1>1, Division
<1>3. CASE r > 0
  <2>1. r * m >= m
    BY <1>3
  <2> QED
    BY <1>2, <2>1
<1>4. CASE r < 0
  <2>1. r * m <= -m
    BY <1>4
  <2> QED
    BY <1>2, <2>1
<1>5. CASE r = 0
  BY <1>2, <1>5
<1> QED
  BY <1>3, <1>4, <1>5

\* A remainder may be taken before an addition.
LEMMA RemainderOfSum ==
  ASSUME NEW x \in Int, NEW y \in Int, NEW m \in Nat, m > 0
  PROVE  ((x % m) + y) % m = (x + y) % m /\ ((x % m) - y) % m = (x - y) % m
<1>1. PICK r \in Int, q \in Int : x = r + q * m /\ r = x % m
  <2>1. x = (x % m) + (x \div m) * m /\ x % m \in Int /\ x \div m \in Int
    BY Division
  <2> QED
    BY <2>1
<1>2. PICK d \in Int : d = q * m
  OBVIOUS
<1>3. /\ r + y \in Int /\ x + y \in Int /\ r - y \in Int /\ x - y \in Int
      /\ x + y = (r + y) + d /\ x - y = (r - y) + d
  BY <1>1, <1>2
<1>4. (x + y) % m = (r + y) % m /\ (x - y) % m = (r - y) % m
  BY <1>2, <1>3, SameRemainder
<1> QED
  BY <1>1, <1>4
=============================================================================
