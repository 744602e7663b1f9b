---------------------------- MODULE IntsetProofs ----------------------------
(***************************************************************************)
(* Proofs about the sets of Intset, for every number of values of a cell,  *)
(* every set of values and every length.                                   *)
(*                                                                         *)
(* Three layers.  The number in some cells is what their digits make, and  *)
(* Write puts the digits of a number where Signed finds them again, as far *)
(* as the number fits.  A block of n elements is a function on exactly the *)
(* cells of its header and of n elements, and each call of the code is     *)
(* followed from cell to cell: what it writes, what it leaves, and that it *)
(* does not write past the end.  A handler of the code is then one element *)
(* more, at a known position, or the last one less (Inserted, Shortened).  *)
(*                                                                         *)
(* The invariant is that the block has its cells and that its elements     *)
(* increase as long as every value was added outside their range.          *)
(***************************************************************************)
EXTENDS Intset, RecursionFacts, TLAPS

\* A recursion that counts up from 0.
Steps(n, V, step) == \A k \in 1..n : \A v \in V : step[<<k, v>>] \in V

Counting(f, n, V, start, step) ==
  f \in [0..n -> V] /\ f[0] = start /\ \A k \in 1..n : f[k] = step[<<k, f[k - 1]>>]

\* There is one, for every step that stays in V.
LEMMA CountingUp ==
  ASSUME NEW n \in Nat, NEW V, NEW start \in V, NEW step, Steps(n, V, step)
  PROVE  \E f : Counting(f, n, V, start, step)
<1>0. PICK S : S = 0..n
  OBVIOUS
<1> DEFINE rank == [k \in S |-> k]
           before == [k \in S \ {0} |-> k - 1]
           begin == [k \in {0} |-> start]
           go == [p \in (S \ {0}) \X V |-> step[p]]
<1>1. go \in [(S \ {0}) \X V -> V]
  <2>1. \A p \in (S \ {0}) \X V : p = <<p[1], p[2]>> /\ p[1] \in 1..n /\ p[2] \in V
    BY <1>0
  <2> QED
    BY <2>1 DEF Steps
<1>2. /\ rank \in [S -> 0..n] /\ before \in [S \ {0} -> S]
      /\ \A k \in S \ {0} : rank[before[k]] < rank[k]
  BY <1>0
<1>3. {0} \subseteq S /\ begin \in [{0} -> V] /\ V # {}
  BY <1>0
<1>4. Recursion(S, V, n, rank, {0}, begin, before, go)
  <2> HIDE DEF rank, before, begin, go
  <2> QED
    BY <1>1, <1>2, <1>3 DEF Recursion
<1>5. PICK f \in [S -> V] : \A k \in S : f[k] = IF k \in {0} THEN begin[k] ELSE go[<<k, f[before[k]]>>]
  <2> HIDE DEF rank, before, begin, go
  <2> QED
    BY <1>4, RecursionByRank
<1>6. f[0] = start
  BY <1>3, <1>5
<1>7. ASSUME NEW k \in 1..n PROVE f[k] = step[<<k, f[k - 1]>>]
  <2>1. k \in S \ {0} /\ before[k] = k - 1 /\ k - 1 \in S
    BY <1>0
  <2>2. <<k, f[k - 1]>> \in (S \ {0}) \X V
    BY <1>5, <2>1
  <2> QED
    BY <1>5, <2>1, <2>2
<1> QED
  BY <1>0, <1>5, <1>6, <1>7 DEF Counting

-----------------------------------------------------------------------------
(* The numbers a cell and more of them hold.                               *)

Digit == 0..(Base - 1)

\* A cell has an even number of values, half of them negative in the last cell.
LEMMA BaseIs == Base \in Nat /\ Base >= 4 /\ Base \div 2 \in Nat /\ Base = 2 * (Base \div 2) /\ 0 \in Digit
BY BaseAssumption DEF Digit

\* The recursion of Half, and that each width holds more than the one before.
LEMMA HalfIs ==
  /\ \A k \in 1..4 : Half[k] \in Nat /\ Half[k] >= 2
  /\ Half[1] = Base \div 2
  /\ \A k \in 2..4 : Half[k] = Base * Half[k - 1] /\ Half[k - 1] < Half[k]
<1>1. PICK step : step = [p \in (1..3) \X Nat |-> Base * p[2]]
  OBVIOUS
<1>2. \A k \in 1..3 : \A v \in Nat : <<k, v>> \in (1..3) \X Nat /\ step[<<k, v>>] = Base * v /\ Base * v \in Nat
  BY <1>1, BaseIs
<1>3. PICK f \in [0..3 -> Nat] : f[0] = Base \div 2 /\ \A k \in 1..3 : f[k] = step[<<k, f[k - 1]>>]
  <2>1. PICK n, start, V : n = 3 /\ start = Base \div 2 /\ V = Nat
    OBVIOUS
  <2>2. n \in Nat /\ start \in V /\ Steps(n, V, step)
    BY <1>2, <2>1, BaseIs DEF Steps
  <2>3. \E f : Counting(f, n, V, start, step)
    BY <2>2, CountingUp
  <2> QED
    BY <2>1, <2>3 DEF Counting
<1>4. \A k \in 1..3 : f[k] = Base * f[k - 1]
  BY <1>2, <1>3
<1>5. PICK g : g = [k \in 1..4 |-> f[k - 1]]
  OBVIOUS
<1>6. g = [k \in 1..4 |-> IF k = 1 THEN Base \div 2 ELSE Base * g[k - 1]]
  <2>1. \A k \in 1..4 : k # 1 => k - 1 \in 1..3 /\ k - 1 \in 1..4
    OBVIOUS
  <2>2. \A k \in 1..4 : f[k - 1] = IF k = 1 THEN Base \div 2 ELSE Base * g[k - 1]
    BY <1>3, <1>4, <1>5, <2>1
  <2> QED
    BY <1>5, <2>2
<1>7. Half = [k \in 1..4 |-> IF k = 1 THEN Base \div 2 ELSE Base * Half[k - 1]]
  BY <1>6 DEF Half
<1>8. Half[1] = Base \div 2 /\ \A k \in 2..4 : Half[k] = Base * Half[k - 1]
  BY <1>7
<1>9. ASSUME NEW k \in 2..4, Half[k - 1] \in Nat, Half[k - 1] >= 2
      PROVE  Half[k] \in Nat /\ Half[k] >= 2 /\ Half[k - 1] < Half[k]
  <2>1. PICK h : h = Half[k - 1]
    OBVIOUS
  <2>2. Half[k] = Base * h /\ h \in Nat /\ h >= 2
    BY <1>8, <1>9, <2>1
  <2>3. Base * h \in Nat /\ Base * h > h
    BY <2>2, BaseIs
  <2> QED
    BY <2>1, <2>2, <2>3
<1>10. Half[1] \in Nat /\ Half[1] >= 2
  BY <1>8, BaseIs
<1>11. Half[2] \in Nat /\ Half[2] >= 2 /\ Half[1] < Half[2]
  <2>1. 2 \in 2..4 /\ 2 - 1 = 1
    OBVIOUS
  <2> QED
    BY <1>9, <1>10, <2>1
<1>12. Half[3] \in Nat /\ Half[3] >= 2 /\ Half[2] < Half[3]
  <2>1. 3 \in 2..4 /\ 3 - 1 = 2
    OBVIOUS
  <2> QED
    BY <1>9, <1>11, <2>1
<1>13. Half[4] \in Nat /\ Half[4] >= 2 /\ Half[3] < Half[4]
  <2>1. 4 \in 2..4 /\ 4 - 1 = 3
    OBVIOUS
  <2> QED
    BY <1>9, <1>12, <2>1
<1>14. \A k \in 1..4 : k = 1 \/ k = 2 \/ k = 3 \/ k = 4
  OBVIOUS
<1>15. \A k \in 1..4 : Half[k] \in Nat /\ Half[k] >= 2
  BY <1>10, <1>11, <1>12, <1>13, <1>14
<1>16. \A k \in 2..4 : Half[k - 1] < Half[k]
  BY <1>11, <1>12, <1>13, <1>14
<1> QED
  BY <1>8, <1>15, <1>16

\* v is the number that its last digit and the rest make.
LEMMA Shift ==
  ASSUME NEW v \in Int, NEW K \in Nat, v \in -(Base * K)..(Base * K - 1)
  PROVE  /\ v \div Base \in -K..(K - 1) /\ v % Base \in Digit
         /\ v = (v % Base) + Base * (v \div Base)
<1>1. PICK q, d, B : q = v \div Base /\ d = v % Base /\ B = Base
  OBVIOUS
<1>2. v = q * B + d /\ d \in 0..(B - 1) /\ q \in Int /\ B \in Nat /\ B > 0
  BY <1>1, Division, BaseIs
<1>3. q < K
  <2> SUFFICES ASSUME q >= K PROVE FALSE
    BY <1>2
  <2>1. q * B >= B * K
    BY <1>2
  <2>2. B * K \in Int /\ q * B \in Int /\ v < B * K
    BY <1>1, <1>2
  <2> QED
    BY <1>2, <2>1, <2>2
<1>4. q >= -K
  <2> SUFFICES ASSUME q <= -K - 1 PROVE FALSE
    BY <1>2
  <2>1. q * B <= (-K - 1) * B
    BY <1>2
  <2>2. (-K - 1) * B = -(B * K) - B
    BY <1>2
  <2>3. B * K \in Int /\ q * B \in Int /\ v >= -(B * K)
    BY <1>1, <1>2
  <2> QED
    BY <1>2, <2>1, <2>2, <2>3
<1>5. q * B = B * q
  BY <1>2
<1> QED
  BY <1>1, <1>2, <1>3, <1>4, <1>5 DEF Digit

\* A number with one more digit.
LEMMA Longer ==
  ASSUME NEW d \in Digit, NEW K \in Nat, NEW q \in -K..(K - 1)
  PROVE  d + Base * q \in -(Base * K)..(Base * K - 1)
<1>1. PICK B : B = Base
  OBVIOUS
<1>2. B \in Nat /\ d \in 0..(B - 1)
  BY <1>1, BaseIs DEF Digit
<1>3. B * q <= B * (K - 1) /\ B * (K - 1) = B * K - B
  BY <1>2
<1>4. B * q >= B * (-K) /\ B * (-K) = -(B * K)
  BY <1>2
<1>5. B * q \in Int /\ B * K \in Int
  BY <1>2
<1> QED
  BY <1>1, <1>2, <1>3, <1>4, <1>5

\* The value of the cell that has the sign.
Top(c) == IF 2 * c < Base THEN c ELSE c - Base

\* The last digit of a number that one cell holds gives the number back.
LEMMA TopIs ==
  /\ \A c \in Digit : Top(c) \in -Half[1]..(Half[1] - 1)
  /\ \A v \in -Half[1]..(Half[1] - 1) : v % Base \in Digit /\ Top(v % Base) = v
<1>1. PICK H, B : H = Half[1] /\ B = Base
  OBVIOUS
<1>2. H \in Nat /\ H >= 2 /\ B = 2 * H /\ Digit = 0..(B - 1)
  BY <1>1, BaseIs, HalfIs DEF Digit
<1>3. \A c \in Digit : Top(c) \in -H..(H - 1)
  BY SMTT(30), <1>1, <1>2 DEF Top
<1>4. ASSUME NEW v \in -H..(H - 1) PROVE v % B \in Digit /\ Top(v % B) = v
  <2>1. PICK r, q : r = v % B /\ q = v \div B
    OBVIOUS
  <2>2. v = q * B + r /\ r \in 0..(B - 1) /\ q \in Int
    BY <1>2, <2>1, Division
  <2>3. r = IF v >= 0 THEN v ELSE v + B
    <3>1. q = IF v >= 0 THEN 0 ELSE -1
      <4>1. CASE q >= 1
        <5>1. q * B >= B
          BY <1>2, <2>2, <4>1
        <5> QED
          BY <1>2, <2>2, <5>1
      <4>2. CASE q <= -2
        <5>1. q * B <= (-2) * B
          BY <1>2, <2>2, <4>2
        <5> QED
          BY <1>2, <2>2, <5>1
      <4>3. CASE q = 0
        BY <1>2, <2>2, <4>3
      <4>4. CASE q = -1
        BY <1>2, <2>2, <4>4
      <4> QED
        BY <2>2, <4>1, <4>2, <4>3, <4>4
    <3>2. CASE v >= 0
      BY <1>2, <2>2, <3>1, <3>2
    <3>3. CASE ~(v >= 0)
      BY <1>2, <2>2, <3>1, <3>3
    <3> QED
      BY <3>2, <3>3
  <2>4. Top(r) = v
    <3>1. CASE v >= 0
      <4>1. r = v /\ 2 * r < B
        BY <1>2, <2>3, <3>1
      <4> QED
        BY <1>1, <4>1 DEF Top
    <3>2. CASE ~(v >= 0)
      <4>1. r = v + B /\ ~(2 * r < B) /\ r - B = v
        BY <1>2, <2>3, <3>2
      <4> QED
        BY <1>1, <4>1 DEF Top
    <3> QED
      BY <3>1, <3>2
  <2> QED
    BY <1>2, <2>1, <2>2, <2>4
<1> QED
  BY <1>1, <1>3, <1>4

-----------------------------------------------------------------------------
(* Numbers in memory.                                                      *)

\* f[k] is what the cells from at + k on say.
Decodes(f, m, at, cells) ==
  /\ f[cells - 1] = Top(m[at + (cells - 1)])
  /\ \A k \in 0..(cells - 2) : f[k] = m[at + k] + Base * f[k + 1]

SameCells(m, at, y, by, cells) == \A k \in 0..(cells - 1) : m[at + k] = y[by + k]

\* What the cells say is one number.
LEMMA DecodedOnce ==
  ASSUME NEW cells \in 1..4, NEW f, NEW m, NEW at, Decodes(f, m, at, cells),
         NEW g, NEW y, NEW by, Decodes(g, y, by, cells), SameCells(m, at, y, by, cells)
  PROVE  f[0] = g[0]
<1> DEFINE N == {i \in Nat : cells - 1 - i \in 0..(cells - 1) => f[cells - 1 - i] = g[cells - 1 - i]}
<1>1. 0 \in N
  <2>1. cells - 1 \in 0..(cells - 1) /\ cells - 1 - 0 = cells - 1
    OBVIOUS
  <2>2. f[cells - 1] = g[cells - 1]
    BY <2>1 DEF Decodes, SameCells
  <2> QED
    BY <2>1, <2>2
<1>2. ASSUME NEW i \in Nat, i \in N PROVE i + 1 \in N
  <2>1. ASSUME cells - 1 - (i + 1) \in 0..(cells - 1) PROVE f[cells - 1 - (i + 1)] = g[cells - 1 - (i + 1)]
    <3>1. PICK k : k = cells - 1 - (i + 1)
      OBVIOUS
    <3>2. k \in 0..(cells - 2) /\ k \in 0..(cells - 1) /\ k + 1 = cells - 1 - i /\ k + 1 \in 0..(cells - 1)
      BY <2>1, <3>1
    <3>3. f[k + 1] = g[k + 1]
      BY <1>2, <3>2
    <3>4. m[at + k] = y[by + k]
      BY <3>2 DEF SameCells
    <3>5. f[k] = m[at + k] + Base * f[k + 1] /\ g[k] = y[by + k] + Base * g[k + 1]
      BY <3>2 DEF Decodes
    <3> QED
      BY <3>1, <3>3, <3>4, <3>5
  <2> QED
    BY <2>1
<1> HIDE DEF N
<1>3. Nat \subseteq N
  BY <1>1, <1>2, InductionOverNat
<1>4. cells - 1 \in Nat /\ cells - 1 - (cells - 1) = 0 /\ 0 \in 0..(cells - 1)
  OBVIOUS
<1> QED
  BY <1>3, <1>4 DEF N

\* It is in the range of its width.
LEMMA DecodedInRange ==
  ASSUME NEW cells \in 1..4, NEW f, NEW m, NEW at, Decodes(f, m, at, cells),
         \A k \in 0..(cells - 1) : m[at + k] \in Digit
  PROVE  f[0] \in -Half[cells]..(Half[cells] - 1)
<1> DEFINE In(n, v) == v \in -Half[n]..(Half[n] - 1)
           N == {i \in Nat : cells - 1 - i \in 0..(cells - 1) => In(i + 1, f[cells - 1 - i])}
<1>1. 0 \in N
  <2>1. cells - 1 \in 0..(cells - 1) /\ cells - 1 - 0 = cells - 1 /\ 0 + 1 = 1
    OBVIOUS
  <2>2. m[at + (cells - 1)] \in Digit /\ f[cells - 1] = Top(m[at + (cells - 1)])
    BY <2>1 DEF Decodes
  <2>3. In(1, f[cells - 1])
    BY <2>2, TopIs
  <2> HIDE DEF In
  <2> QED
    BY <2>1, <2>3
<1>2. ASSUME NEW i \in Nat, i \in N PROVE i + 1 \in N
  <2>1. ASSUME cells - 1 - (i + 1) \in 0..(cells - 1) PROVE In((i + 1) + 1, f[cells - 1 - (i + 1)])
    <3>1. PICK k, n : k = cells - 1 - (i + 1) /\ n = i + 1
      OBVIOUS
    <3>2. /\ k \in 0..(cells - 2) /\ k \in 0..(cells - 1) /\ k + 1 = cells - 1 - i /\ k + 1 \in 0..(cells - 1)
          /\ n \in 1..4 /\ n + 1 \in 2..4 /\ (n + 1) - 1 = n
      BY <2>1, <3>1
    <3>3. In(n, f[k + 1])
      <4> HIDE DEF In
      <4> QED
        BY <1>2, <3>1, <3>2
    <3>4. f[k] = m[at + k] + Base * f[k + 1] /\ m[at + k] \in Digit
      BY <3>2 DEF Decodes
    <3>5. PICK d, q, K : d = m[at + k] /\ q = f[k + 1] /\ K = Half[n]
      OBVIOUS
    <3>6. d \in Digit /\ K \in Nat /\ q \in -K..(K - 1) /\ Half[n + 1] = Base * K
      BY <3>2, <3>3, <3>4, <3>5, HalfIs
    <3>7. d + Base * q \in -(Base * K)..(Base * K - 1)
      BY <3>6, Longer
    <3>8. In(n + 1, f[k])
      BY <3>4, <3>5, <3>6, <3>7
    <3> HIDE DEF In
    <3> QED
      BY <3>1, <3>8
  <2> HIDE DEF In
  <2> QED
    BY <2>1
<1> HIDE DEF N
<1>3. Nat \subseteq N
  BY <1>1, <1>2, InductionOverNat
<1>4. cells - 1 \in Nat /\ cells - 1 - (cells - 1) = 0 /\ 0 \in 0..(cells - 1) /\ (cells - 1) + 1 = cells
  OBVIOUS
<1>5. In((cells - 1) + 1, f[cells - 1 - (cells - 1)])
  <2> HIDE DEF In
  <2> QED
    BY <1>3, <1>4 DEF N
<1> QED
  BY <1>4, <1>5

\* Signed decodes.
LEMMA SignedDecodes ==
  ASSUME NEW cells \in 1..4, NEW m, NEW at, \A k \in 0..(cells - 1) : m[at + k] \in Digit
  PROVE  \E f : Decodes(f, m, at, cells) /\ Signed(m, at, cells) = f[0]
<1> DEFINE from == CHOOSE f : f = [k \in 0..(cells - 1) |->
                     IF k = cells - 1 THEN Top(m[at + k]) ELSE m[at + k] + Base * f[k + 1]]
<1>1. Signed(m, at, cells) = from[0]
  BY DEF Signed, Top
<1>2. \A k \in 0..(cells - 1) : m[at + k] \in Int /\ Top(m[at + k]) \in Int
  <2>1. Digit \subseteq Int
    BY BaseIs DEF Digit
  <2>2. \A c \in Digit : Top(c) \in Int
    BY <2>1, BaseIs DEF Top
  <2> QED
    BY <2>1, <2>2
<1>3. PICK n, start, V : n = cells - 1 /\ start = Top(m[at + (cells - 1)]) /\ V = Int
  OBVIOUS
<1>4. n \in Nat /\ start \in V /\ n \in 0..(cells - 1)
  BY <1>2, <1>3
<1>5. PICK step : step = [p \in (1..n) \X V |-> m[at + (n - p[1])] + Base * p[2]]
  OBVIOUS
<1>6. ASSUME NEW k \in 1..n, NEW v \in V PROVE step[<<k, v>>] = m[at + (n - k)] + Base * v /\ step[<<k, v>>] \in V
  <2>1. <<k, v>> \in (1..n) \X V
    OBVIOUS
  <2>2. step[<<k, v>>] = m[at + (n - k)] + Base * v
    BY <1>5, <2>1
  <2>3. n - k \in 0..(cells - 1)
    BY <1>3, <1>4
  <2>4. m[at + (n - k)] \in Int /\ Base * v \in Int
    BY <1>2, <1>3, <2>3, BaseIs
  <2> QED
    BY <1>3, <2>2, <2>4
<1>7. PICK h : Counting(h, n, V, start, step)
  <2>1. Steps(n, V, step)
    BY <1>6 DEF Steps
  <2> QED
    BY <1>4, <2>1, CountingUp
<1>8. PICK g : g = [k \in 0..n |-> h[n - k]]
  OBVIOUS
<1>9. ASSUME NEW k \in 0..n PROVE g[k] = IF k = n THEN Top(m[at + k]) ELSE m[at + k] + Base * g[k + 1]
  <2>1. CASE k = n
    <3>1. n - n = 0 /\ n \in 0..n
      BY <1>4
    <3> QED
      BY <1>3, <1>7, <1>8, <2>1, <3>1 DEF Counting
  <2>2. CASE k # n
    <3>1. PICK j : j = n - k
      OBVIOUS
    <3>2. j \in 1..n /\ n - j = k /\ j - 1 = n - (k + 1) /\ k + 1 \in 0..n /\ j - 1 \in 0..n
      BY <1>4, <2>2, <3>1
    <3>3. h[j - 1] \in V /\ h[j] = step[<<j, h[j - 1]>>]
      BY <1>7, <3>2 DEF Counting
    <3>4. h[j] = m[at + (n - j)] + Base * h[j - 1]
      BY <1>6, <3>2, <3>3
    <3>5. g[k] = h[j] /\ g[k + 1] = h[j - 1]
      BY <1>8, <3>1, <3>2
    <3> QED
      BY <2>2, <3>2, <3>4, <3>5
  <2> QED
    BY <2>1, <2>2
<1>10. g = [k \in 0..n |-> IF k = n THEN Top(m[at + k]) ELSE m[at + k] + Base * g[k + 1]]
  BY <1>8, <1>9
<1>11. from = [k \in 0..(cells - 1) |-> IF k = cells - 1 THEN Top(m[at + k]) ELSE m[at + k] + Base * from[k + 1]]
  BY <1>3, <1>10
<1> HIDE DEF from
<1>12. Decodes(from, m, at, cells)
  <2>1. cells - 1 \in 0..(cells - 1) /\ \A k \in 0..(cells - 2) : k \in 0..(cells - 1) /\ k # cells - 1
    OBVIOUS
  <2> QED
    BY <1>11, <2>1 DEF Decodes
<1> QED
  BY <1>1, <1>12

\* S[k] is v without its last k digits.
Shifts(S, v, cells) ==
  /\ S[0] = v
  /\ \A k \in 1..(cells - 1) : S[k] = S[k - 1] \div Base
  /\ \A k \in 0..(cells - 1) : S[k] \in -Half[cells - k]..(Half[cells - k] - 1)

\* y is m with v in `cells' cells from at on.
Written(m, at, cells, v, y) ==
  /\ DOMAIN y = DOMAIN m
  /\ \A c \in DOMAIN m : c \notin at..(at + cells - 1) => y[c] = m[c]
  /\ \A c \in at..(at + cells - 1) : y[c] \in Digit
  /\ Signed(y, at, cells) = v
  /\ cells = 2 /\ v >= 0 => Unsigned(y, at) = v

\* Write puts the digits of v one behind the other.
PutIn(S, m, at, cells, y) ==
  y = [c \in DOMAIN m |-> IF c \in at..(at + cells - 1) THEN S[c - at] % Base ELSE m[c]]

\* Write does that, and nothing past the end of the block.
LEMMA WriteShifts ==
  ASSUME NEW cells \in 1..4, NEW v, Fits(v, cells), NEW m, NEW at \in Int, at..(at + cells - 1) \subseteq DOMAIN m,
         NEW y, y = Write(m, at, cells, v)
  PROVE  \E S : Shifts(S, v, cells) /\ PutIn(S, m, at, cells, y)
<1> DEFINE shifted == CHOOSE f : f = [k \in 0..(cells - 1) |-> IF k = 0 THEN v ELSE f[k - 1] \div Base]
           written == at..(at + cells - 1)
           outside == IF written \subseteq DOMAIN m THEN {} ELSE {Overrun}
<1>1. y = [c \in DOMAIN m \union outside |->
             IF c \in written THEN shifted[c - at] % Base ELSE IF c \in DOMAIN m THEN m[c] ELSE 0]
  BY DEF Write
<1>2. v \in Int /\ v \in -Half[cells]..(Half[cells] - 1)
  BY HalfIs DEF Fits
<1>3. PICK n, V : n = cells - 1 /\ V = Int
  OBVIOUS
<1>4. PICK step : step = [p \in (1..n) \X V |-> p[2] \div Base]
  OBVIOUS
<1>5. ASSUME NEW k \in 1..n, NEW q \in V PROVE step[<<k, q>>] = q \div Base /\ step[<<k, q>>] \in V
  <2>1. <<k, q>> \in (1..n) \X V
    OBVIOUS
  <2>2. step[<<k, q>>] = q \div Base
    BY <1>4, <2>1
  <2>3. q \div Base \in V
    BY <1>3, Division, BaseIs
  <2> QED
    BY <2>2, <2>3
<1>6. PICK h : Counting(h, n, V, v, step)
  <2>1. Steps(n, V, step)
    BY <1>5 DEF Steps
  <2>2. n \in Nat /\ v \in V
    BY <1>2, <1>3
  <2> QED
    BY <2>1, <2>2, CountingUp
<1>7. \A k \in 1..n : h[k] = h[k - 1] \div Base
  <2>1. \A k \in 1..n : k - 1 \in 0..n
    BY <1>3
  <2> QED
    BY <1>5, <1>6, <2>1 DEF Counting
<1>8. h = [k \in 0..n |-> IF k = 0 THEN v ELSE h[k - 1] \div Base]
  <2>1. \A k \in 0..n : k = 0 \/ k \in 1..n
    BY <1>3
  <2>2. \A k \in 0..n : h[k] = IF k = 0 THEN v ELSE h[k - 1] \div Base
    BY <1>6, <1>7, <2>1 DEF Counting
  <2>3. h = [k \in 0..n |-> h[k]]
    BY <1>6 DEF Counting
  <2> QED
    BY <2>2, <2>3
<1>9. shifted = [k \in 0..(cells - 1) |-> IF k = 0 THEN v ELSE shifted[k - 1] \div Base]
  BY <1>3, <1>8
<1> HIDE DEF shifted
<1>10. shifted[0] = v /\ \A k \in 1..(cells - 1) : shifted[k] = shifted[k - 1] \div Base
  <2>1. 0 \in 0..(cells - 1) /\ \A k \in 1..(cells - 1) : k \in 0..(cells - 1) /\ k # 0
    OBVIOUS
  <2> QED
    BY <1>9, <2>1
<1>11. \A k \in 0..(cells - 1) : shifted[k] \in -Half[cells - k]..(Half[cells - k] - 1)
  <2> DEFINE In(j, x) == x \in -Half[j]..(Half[j] - 1)
             N == {k \in Nat : k \in 0..(cells - 1) => In(cells - k, shifted[k])}
  <2>1. 0 \in N
    <3>1. cells - 0 = cells /\ In(cells, shifted[0])
      BY <1>2, <1>10
    <3> HIDE DEF In
    <3> QED
      BY <3>1
  <2>2. ASSUME NEW i \in Nat, i \in N PROVE i + 1 \in N
    <3>1. ASSUME i + 1 \in 0..(cells - 1) PROVE In(cells - (i + 1), shifted[i + 1])
      <4>1. PICK j, q, K : j = cells - i /\ q = shifted[i] /\ K = Half[j - 1]
        OBVIOUS
      <4>2. /\ i \in 0..(cells - 1) /\ j \in 2..4 /\ j - 1 \in 1..4 /\ cells - (i + 1) = j - 1
            /\ i + 1 \in 1..(cells - 1) /\ (i + 1) - 1 = i
        BY <3>1, <4>1
      <4>3. In(j, q)
        <5> HIDE DEF In
        <5> QED
          BY <2>2, <4>1, <4>2
      <4>4. K \in Nat /\ Half[j] = Base * K /\ Half[j] \in Nat
        <5>1. j \in 1..4
          BY <4>2
        <5> QED
          BY <4>1, <4>2, <5>1, HalfIs
      <4>5. q \in Int /\ q \in -(Base * K)..(Base * K - 1)
        BY <4>3, <4>4
      <4>6. q \div Base \in -K..(K - 1)
        BY <4>4, <4>5, Shift
      <4>7. shifted[i + 1] = q \div Base
        BY <1>10, <4>1, <4>2
      <4> QED
        BY <4>1, <4>2, <4>6, <4>7
    <3> HIDE DEF In
    <3> QED
      BY <3>1
  <2> HIDE DEF N
  <2>3. Nat \subseteq N
    BY <2>1, <2>2, InductionOverNat
  <2>4. \A k \in 0..(cells - 1) : In(cells - k, shifted[k])
    <3> HIDE DEF In
    <3> QED
      BY <2>3 DEF N
  <2> QED
    BY <2>4
<1>12. Shifts(shifted, v, cells)
  BY <1>10, <1>11 DEF Shifts
<1>13. y = [c \in DOMAIN m |-> IF c \in written THEN shifted[c - at] % Base ELSE m[c]]
  <2>1. outside = {}
    OBVIOUS
  <2> HIDE DEF written, outside
  <2> QED
    BY <1>1, <2>1
<1> QED
  BY <1>12, <1>13 DEF PutIn

\* What is written is what is read, and no other cell changes.
LEMMA WriteFacts ==
  ASSUME NEW cells \in 1..4, NEW v, Fits(v, cells), NEW m, NEW at \in Int, at..(at + cells - 1) \subseteq DOMAIN m,
         NEW y, y = Write(m, at, cells, v)
  PROVE  Written(m, at, cells, v, y)
<1>1. PICK S : Shifts(S, v, cells) /\ PutIn(S, m, at, cells, y)
  BY WriteShifts
<1>2. DOMAIN y = DOMAIN m /\ \A c \in DOMAIN m : c \notin at..(at + cells - 1) => y[c] = m[c]
  BY <1>1 DEF PutIn
<1>3. ASSUME NEW k \in 0..(cells - 1)
      PROVE  /\ y[at + k] = S[k] % Base /\ y[at + k] \in Digit
             /\ k # cells - 1 => S[k] = y[at + k] + Base * S[k + 1]
             /\ k = cells - 1 => S[k] = Top(y[at + k])
  <2>1. at + k \in at..(at + cells - 1) /\ (at + k) - at = k
    OBVIOUS
  <2>2. y[at + k] = S[k] % Base
    BY <1>1, <2>1 DEF PutIn
  <2>3. CASE k = cells - 1
    <3>1. cells - k = 1
      BY <2>3
    <3>2. S[k] \in -Half[1]..(Half[1] - 1)
      BY <1>1, <3>1 DEF Shifts
    <3> QED
      BY <2>2, <2>3, <3>2, TopIs
  <2>4. CASE k # cells - 1
    <3>1. PICK j, q, K : j = cells - k /\ q = S[k] /\ K = Half[j - 1]
      OBVIOUS
    <3>2. j \in 2..4 /\ j - 1 \in 1..4 /\ j \in 1..4 /\ k + 1 \in 1..(cells - 1) /\ (k + 1) - 1 = k
      BY <2>4, <3>1
    <3>3. K \in Nat /\ Half[j] = Base * K /\ Half[j] \in Nat
      BY <3>1, <3>2, HalfIs
    <3>4. q \in Int /\ q \in -(Base * K)..(Base * K - 1)
      BY <1>1, <3>1, <3>3 DEF Shifts
    <3>5. q % Base \in Digit /\ q = (q % Base) + Base * (q \div Base)
      BY <3>3, <3>4, Shift
    <3>6. S[k + 1] = q \div Base
      BY <1>1, <3>1, <3>2 DEF Shifts
    <3> QED
      BY <2>2, <2>4, <3>1, <3>5, <3>6
  <2> QED
    BY <2>3, <2>4
<1>4. \A c \in at..(at + cells - 1) : y[c] \in Digit
  <2>1. \A c \in at..(at + cells - 1) : c - at \in 0..(cells - 1) /\ at + (c - at) = c
    OBVIOUS
  <2> QED
    BY <1>3, <2>1
<1>5. Decodes(S, y, at, cells)
  <2>1. cells - 1 \in 0..(cells - 1) /\ \A k \in 0..(cells - 2) : k \in 0..(cells - 1) /\ k # cells - 1
    OBVIOUS
  <2> QED
    BY <1>3, <2>1 DEF Decodes
<1>6. PICK f : Decodes(f, y, at, cells) /\ Signed(y, at, cells) = f[0]
  BY <1>3, SignedDecodes
<1>7. Signed(y, at, cells) = v
  <2>1. f[0] = S[0]
    BY <1>5, <1>6, DecodedOnce DEF SameCells
  <2> QED
    BY <1>1, <1>6, <2>1 DEF Shifts
<1>8. ASSUME cells = 2, v >= 0 PROVE Unsigned(y, at) = v
  <2>1. /\ 0 \in 0..(cells - 1) /\ 1 \in 0..(cells - 1) /\ 0 # cells - 1 /\ 1 = cells - 1 /\ 0 + 1 = 1 /\ at + 0 = at
        /\ cells - 0 = 2 /\ cells - 1 = 1
    BY <1>8
  <2>2. S[0] = y[at] + Base * S[1] /\ S[1] = Top(y[at + 1]) /\ y[at] \in Digit /\ y[at + 1] \in Digit
    BY <1>3, <2>1
  <2>3. S[0] = v /\ S[1] \in -Half[1]..(Half[1] - 1)
    BY <1>1, <2>1 DEF Shifts
  <2>4. PICK B, H, q, d, e : B = Base /\ H = Half[1] /\ q = S[1] /\ d = y[at] /\ e = y[at + 1]
    OBVIOUS
  <2>5. B \in Nat /\ H \in Nat /\ B = 2 * H /\ B >= 4 /\ d \in 0..(B - 1) /\ e \in 0..(B - 1) /\ q \in -H..(H - 1)
    BY <2>2, <2>3, <2>4, BaseIs, HalfIs DEF Digit
  <2>6. v = d + B * q
    BY <2>2, <2>3, <2>4
  <2>7. q >= 0
    <3> SUFFICES ASSUME q <= -1 PROVE FALSE
      BY <2>5
    <3>1. B * q <= B * (-1) /\ B * q \in Int /\ B * (-1) = -B
      BY <2>5
    <3> QED
      BY <1>8, <2>5, <2>6, <3>1
  <2>8. q = e
    <3>1. q = IF 2 * e < B THEN e ELSE e - B
      BY <2>2, <2>4 DEF Top
    <3> QED
      BY <2>5, <2>7, <3>1
  <2>9. Unsigned(y, at) = d + B * e
    BY <2>4 DEF Unsigned
  <2> QED
    BY <2>6, <2>8, <2>9
<1> QED
  BY <1>2, <1>4, <1>7, <1>8 DEF Written

\* Equal cells are equal numbers.
LEMMA SameNumber ==
  ASSUME NEW cells \in 1..4, NEW m, NEW at, NEW y, NEW by,
         \A k \in 0..(cells - 1) : m[at + k] \in Digit /\ y[by + k] = m[at + k]
  PROVE  Signed(y, by, cells) = Signed(m, at, cells)
<1>1. PICK f : Decodes(f, m, at, cells) /\ Signed(m, at, cells) = f[0]
  BY SignedDecodes
<1>2. PICK g : Decodes(g, y, by, cells) /\ Signed(y, by, cells) = g[0]
  BY SignedDecodes
<1>3. SameCells(m, at, y, by, cells)
  BY DEF SameCells
<1>4. f[0] = g[0]
  BY <1>1, <1>2, <1>3, DecodedOnce
<1> QED
  BY <1>1, <1>2, <1>4

\* What is read from some cells fits in them.
LEMMA SignedFits ==
  ASSUME NEW cells \in 1..4, NEW m, NEW at, \A k \in 0..(cells - 1) : m[at + k] \in Digit
  PROVE  Signed(m, at, cells) \in Int /\ Fits(Signed(m, at, cells), cells)
<1>1. PICK f : Decodes(f, m, at, cells) /\ Signed(m, at, cells) = f[0]
  BY SignedDecodes
<1>2. f[0] \in -Half[cells]..(Half[cells] - 1)
  BY <1>1, DecodedInRange
<1>3. Half[cells] \in Nat
  BY HalfIs
<1> QED
  BY <1>1, <1>2, <1>3 DEF Fits

-----------------------------------------------------------------------------
(* Blocks.                                                                 *)

Widths == {1, 2, 4}

\* The first cell of an element.
Place(k, enc) == Header + k * enc

\* Elements lie one behind the other, the one at -1 in the header.
LEMMA PlaceIs ==
  ASSUME NEW enc \in Widths
  PROVE  /\ \A k \in Int : Place(k, enc) \in Int /\ Place(k + 1, enc) = Place(k, enc) + enc
         /\ \A j, k \in Int : j < k => Place(j, enc) + enc <= Place(k, enc)
         /\ \A k \in Nat : Place(k, enc) >= 4
         /\ Place(0, enc) = 4 /\ Place(-1, enc) = 4 - enc
         /\ enc \in 1..4
<1>1. CASE enc = 1
  BY <1>1 DEF Place, Header
<1>2. CASE enc = 2
  BY <1>2 DEF Place, Header
<1>3. CASE enc = 4
  BY <1>3 DEF Place, Header
<1> QED
  BY <1>1, <1>2, <1>3 DEF Widths

\* The block has room for n elements.
Holds(m, enc, n) ==
  /\ enc \in Widths /\ n \in Nat
  /\ m \in [0..(Place(n, enc) - 1) -> Digit]
  /\ encoding(m) = enc

\* The element whose cells are digits.
LEMMA ElementFits ==
  ASSUME NEW enc \in Widths, NEW k \in Int, NEW m,
         \A c \in Place(k, enc)..(Place(k + 1, enc) - 1) : m[c] \in Digit
  PROVE  _intsetGetEncoded(m, k, enc) \in Int /\ Fits(_intsetGetEncoded(m, k, enc), enc)
<1>1. PICK at : at = Place(k, enc)
  OBVIOUS
<1>2. at \in Int /\ enc \in 1..4 /\ Place(k + 1, enc) = at + enc
  BY <1>1, PlaceIs
<1>3. \A d \in 0..(enc - 1) : at + d \in at..(at + enc - 1)
  BY <1>2
<1>4. \A d \in 0..(enc - 1) : m[at + d] \in Digit
  BY <1>1, <1>2, <1>3
<1>5. _intsetGetEncoded(m, k, enc) = Signed(m, at, enc)
  BY <1>1 DEF _intsetGetEncoded, Place
<1> QED
  BY <1>2, <1>4, <1>5, SignedFits

\* The same cells, by places further on, are the same element.
LEMMA ElementSame ==
  ASSUME NEW enc \in Widths, NEW k \in Int, NEW m, NEW j \in Int, NEW y, NEW by \in Int,
         Place(j, enc) = Place(k, enc) + by,
         \A c \in Place(k, enc)..(Place(k + 1, enc) - 1) : m[c] \in Digit /\ y[c + by] = m[c]
  PROVE  _intsetGetEncoded(y, j, enc) = _intsetGetEncoded(m, k, enc)
<1>1. PICK at, to : at = Place(k, enc) /\ to = Place(j, enc)
  OBVIOUS
<1>2. at \in Int /\ enc \in 1..4 /\ Place(k + 1, enc) = at + enc /\ to = at + by
  BY <1>1, PlaceIs
<1>3. \A d \in 0..(enc - 1) : at + d \in at..(at + enc - 1) /\ (at + d) + by = to + d
  BY <1>2
<1>4. \A d \in 0..(enc - 1) : m[at + d] \in Digit /\ y[to + d] = m[at + d]
  BY <1>1, <1>2, <1>3
<1>5. _intsetGetEncoded(m, k, enc) = Signed(m, at, enc) /\ _intsetGetEncoded(y, j, enc) = Signed(y, to, enc)
  BY <1>1 DEF _intsetGetEncoded, Place
<1> QED
  BY <1>2, <1>4, <1>5, SameNumber

\* The cells of a block.
LEMMA HoldsFields ==
  ASSUME NEW m, NEW enc, NEW n, Holds(m, enc, n)
  PROVE  /\ enc \in Widths /\ enc \in 1..4 /\ n \in Nat /\ Place(n, enc) \in Nat /\ Place(n, enc) >= 4
         /\ DOMAIN m = 0..(Place(n, enc) - 1) /\ \A c \in DOMAIN m : m[c] \in Digit
         /\ {0, 1, 2, 3} \subseteq DOMAIN m
         /\ encoding(m) = enc
<1>1. enc \in Widths /\ enc \in 1..4 /\ n \in Nat /\ Place(n, enc) \in Nat /\ Place(n, enc) >= 4
  BY PlaceIs DEF Holds
<1> QED
  BY <1>1 DEF Holds

\* _intsetSet.
LEMMA SetFacts ==
  ASSUME NEW m, NEW enc, NEW n, Holds(m, enc, n), NEW k \in 0..(n - 1), NEW v, Fits(v, enc),
         NEW y, y = _intsetSet(m, k, v)
  PROVE  /\ Holds(y, enc, n) /\ length(y) = length(m)
         /\ _intsetGetEncoded(y, k, enc) = v
         /\ \A c \in DOMAIN m : c < Place(k, enc) \/ c >= Place(k + 1, enc) => y[c] = m[c]
<1>1. /\ enc \in Widths /\ enc \in 1..4 /\ n \in Nat /\ Place(n, enc) \in Nat /\ Place(n, enc) >= 4
      /\ DOMAIN m = 0..(Place(n, enc) - 1) /\ \A c \in DOMAIN m : m[c] \in Digit
      /\ {0, 1, 2, 3} \subseteq DOMAIN m /\ encoding(m) = enc
  BY HoldsFields
<1>2. PICK at, end : at = Place(k, enc) /\ end = Place(n, enc)
  OBVIOUS
<1>3. at \in Int /\ at >= 4 /\ at + enc <= end /\ Place(k + 1, enc) = at + enc
  <2>1. k \in Int /\ k \in Nat /\ n \in Int /\ k < n
    BY <1>1
  <2> QED
    BY <1>1, <1>2, <2>1, PlaceIs
<1>4. y = Write(m, at, enc, v)
  BY <1>1, <1>2 DEF _intsetSet, Place
<1>5. at..(at + enc - 1) \subseteq DOMAIN m
  BY SMTT(30), <1>1, <1>2, <1>3
<1>6. Written(m, at, enc, v, y)
  BY <1>1, <1>3, <1>4, <1>5, WriteFacts
<1>7. DOMAIN y = DOMAIN m /\ \A c \in DOMAIN m : c \notin at..(at + enc - 1) => y[c] = m[c]
  BY <1>6 DEF Written
<1>8. \A c \in DOMAIN m : c < at \/ c >= at + enc => y[c] = m[c]
  <2>1. \A c \in DOMAIN m : c < at \/ c >= at + enc => c \notin at..(at + enc - 1)
    BY <1>1, <1>3
  <2> QED
    BY <1>7, <2>1
<1>9. y \in [0..(end - 1) -> Digit]
  <2>1. \A c \in DOMAIN m : y[c] \in Digit
    BY <1>1, <1>6 DEF Written
  <2>2. y = [c \in DOMAIN m |-> y[c]]
    <3>1. \E S : PutIn(S, m, at, enc, y)
      BY <1>1, <1>3, <1>4, <1>5, WriteShifts
    <3> QED
      BY <3>1 DEF PutIn
  <2>3. DOMAIN m = 0..(end - 1)
    BY <1>1, <1>2
  <2> QED
    BY <2>1, <2>2, <2>3
<1>10. y[0] = m[0] /\ y[1] = m[1] /\ y[2] = m[2] /\ y[3] = m[3]
  BY <1>1, <1>3, <1>8
<1>11. encoding(y) = enc /\ length(y) = length(m)
  <2>1. 0 + 1 = 1 /\ 2 + 1 = 3
    OBVIOUS
  <2> QED
    BY <1>1, <1>10, <2>1 DEF encoding, length, Unsigned
<1>12. _intsetGetEncoded(y, k, enc) = v
  BY <1>2, <1>6 DEF Written, _intsetGetEncoded, Place
<1> QED
  BY <1>1, <1>2, <1>3, <1>8, <1>9, <1>11, <1>12 DEF Holds

\* A number that a uint32_t and a signed one can hold.
Countable(v) == v \in 0..(Half[2] - 1)

\* Lengths and encodings are such numbers.
LEMMA CountableFits ==
  /\ \A v : Countable(v) => v >= 0 /\ Fits(v, 2)
  /\ \A v \in 0..4 : Countable(v)
  /\ \A v \in 0..MaxLength : Countable(v)
<1>1. Half[2] \in Nat
  BY HalfIs
<1>2. Half[2] > 4
  <2>1. 2 \in 2..4 /\ 2 - 1 = 1 /\ 1 \in 1..4
    OBVIOUS
  <2>2. PICK h : h = Half[1]
    OBVIOUS
  <2>3. Half[2] = Base * h /\ h \in Nat /\ h >= 2
    BY <2>1, <2>2, HalfIs
  <2>4. Base * h >= Base * 2
    BY <2>3, BaseIs
  <2> QED
    BY <1>1, <2>3, <2>4, BaseIs
<1> QED
  BY <1>1, <1>2, LengthAssumption DEF Countable, Fits

\* SetLength, and the same for the encoding.
LEMMA HeaderWrite ==
  ASSUME NEW d \in Nat, d >= 4, NEW m \in [0..(d - 1) -> Digit], NEW at \in {0, 2}, NEW v, Countable(v),
         NEW y, y = Write(m, at, 2, v)
  PROVE  /\ y \in [0..(d - 1) -> Digit] /\ Unsigned(y, at) = v
         /\ \A c \in 0..(d - 1) : c # at /\ c # at + 1 => y[c] = m[c]
         /\ Unsigned(y, 2 - at) = Unsigned(m, 2 - at)
<1>1. Fits(v, 2) /\ v >= 0 /\ 2 \in 1..4 /\ at \in Int
  BY CountableFits
<1>2. at..(at + 2 - 1) = {at, at + 1} /\ DOMAIN m = 0..(d - 1) /\ {at, at + 1} \subseteq 0..(d - 1)
  OBVIOUS
<1>3. at..(at + 2 - 1) \subseteq DOMAIN m
  BY <1>2
<1>4. Written(m, at, 2, v, y)
  BY <1>1, <1>3, WriteFacts
<1>5. y = [c \in DOMAIN m |-> y[c]]
  <2>1. \E S : PutIn(S, m, at, 2, y)
    BY <1>1, <1>3, WriteShifts
  <2> QED
    BY <2>1 DEF PutIn
<1>6. \A c \in 0..(d - 1) : (c # at /\ c # at + 1 => y[c] = m[c]) /\ y[c] \in Digit
  BY <1>2, <1>4 DEF Written
<1>7. y \in [0..(d - 1) -> Digit]
  BY <1>2, <1>5, <1>6
<1>8. Unsigned(y, at) = v
  BY <1>1, <1>4 DEF Written
<1>9. /\ 2 - at \in 0..(d - 1) /\ 2 - at # at /\ 2 - at # at + 1
      /\ (2 - at) + 1 \in 0..(d - 1) /\ (2 - at) + 1 # at /\ (2 - at) + 1 # at + 1
  OBVIOUS
<1>10. Unsigned(y, 2 - at) = Unsigned(m, 2 - at)
  BY <1>6, <1>9 DEF Unsigned
<1> QED
  BY <1>6, <1>7, <1>8, <1>10

\* The length changes, and no element.
LEMMA SetLengthFacts ==
  ASSUME NEW m, NEW enc, NEW n, Holds(m, enc, n), NEW l, Countable(l), NEW y, y = SetLength(m, l)
  PROVE  Holds(y, enc, n) /\ length(y) = l /\ \A c \in DOMAIN m : c >= 4 => y[c] = m[c]
<1>1. PICK d : d = Place(n, enc)
  OBVIOUS
<1>2. d \in Nat /\ d >= 4 /\ DOMAIN m = 0..(d - 1) /\ m \in [0..(d - 1) -> Digit] /\ encoding(m) = enc
  BY <1>1, HoldsFields DEF Holds
<1>3. y = Write(m, 2, 2, l) /\ 2 \in {0, 2} /\ 2 - 2 = 0
  BY DEF SetLength
<1>4. /\ y \in [0..(d - 1) -> Digit] /\ Unsigned(y, 2) = l
      /\ \A c \in 0..(d - 1) : c # 2 /\ c # 2 + 1 => y[c] = m[c]
      /\ Unsigned(y, 0) = Unsigned(m, 0)
  BY <1>2, <1>3, HeaderWrite
<1>5. \A c \in DOMAIN m : c >= 4 => y[c] = m[c]
  BY <1>2, <1>4
<1> QED
  BY <1>1, <1>2, <1>4, <1>5 DEF Holds, encoding, length

\* intsetResize.
LEMMA ResizeFacts ==
  ASSUME NEW d \in Nat, d >= 4, NEW m \in [0..(d - 1) -> Digit], NEW enc \in Widths, encoding(m) = enc,
         NEW n \in Nat, NEW junk \in Digit, NEW y, y = intsetResize(m, n, junk)
  PROVE  /\ Holds(y, enc, n) /\ length(y) = length(m)
         /\ \A c \in 0..(d - 1) : c < Place(n, enc) => y[c] = m[c]
<1>1. PICK e : e = Place(n, enc)
  OBVIOUS
<1>2. e \in Int /\ e >= 4
  BY <1>1, PlaceIs
<1>3. y = [c \in 0..(e - 1) |-> IF c \in 0..(d - 1) THEN m[c] ELSE junk]
  <2>1. DOMAIN m \intersect {Overrun} = {} /\ DOMAIN m = 0..(d - 1)
    BY DEF Overrun
  <2>2. y = [c \in 0..(e - 1) \union (DOMAIN m \intersect {Overrun}) |-> IF c \in DOMAIN m THEN m[c] ELSE junk]
    <3>1. y = [c \in 0..(Header + n * enc - 1) \union (DOMAIN m \intersect {Overrun}) |->
                 IF c \in DOMAIN m THEN m[c] ELSE junk]
      BY Zenon DEF intsetResize
    <3>2. Header + n * enc - 1 = e - 1
      <4>1. PICK x : x = n * enc
        OBVIOUS
      <4>2. e = Header + x
        BY <1>1, <4>1 DEF Place
      <4>3. x \in Int
        BY <4>1, PlaceIs
      <4>4. Header + x - 1 = e - 1
        BY <1>2, <4>2, <4>3 DEF Header
      <4> QED
        BY <4>1, <4>4, Zenon
    <3> QED
      BY <3>1, <3>2, Zenon
  <2> QED
    BY <2>1, <2>2
<1>4. \A c \in 0..(d - 1) : c < e => c \in 0..(e - 1) /\ y[c] = m[c]
  BY <1>2, <1>3
<1>5. y \in [0..(e - 1) -> Digit]
  BY <1>3
<1>6. y[0] = m[0] /\ y[1] = m[1] /\ y[2] = m[2] /\ y[3] = m[3]
  BY <1>2, <1>4
<1>7. encoding(y) = enc /\ length(y) = length(m)
  <2>1. 0 + 1 = 1 /\ 2 + 1 = 3
    OBVIOUS
  <2> QED
    BY <1>6, <2>1 DEF encoding, length, Unsigned
<1> QED
  BY <1>1, <1>4, <1>5, <1>7 DEF Holds

\* y is m with the elements from pos on one place further.
MovedUp(m, y, enc, n, pos) ==
  /\ Holds(y, enc, n + 1) /\ length(y) = n
  /\ \A c \in DOMAIN m : y[c] = IF c < Place(pos + 1, enc) THEN m[c] ELSE m[c - enc]

\* intsetMoveTail by one element.
LEMMA MoveFacts ==
  ASSUME NEW m, NEW enc, NEW n \in Nat, Holds(m, enc, n + 1), length(m) = n, NEW pos \in 0..(n - 1),
         NEW y, y = intsetMoveTail(m, pos, pos + 1)
  PROVE  MovedUp(m, y, enc, n, pos)
<1>1. PICK e, from : e = Place(n + 1, enc) /\ from = Place(pos + 1, enc)
  OBVIOUS
<1>2. /\ enc \in Widths /\ enc \in 1..4 /\ e \in Nat /\ DOMAIN m = 0..(e - 1) /\ encoding(m) = enc
      /\ \A c \in DOMAIN m : m[c] \in Digit
      /\ {0, 1, 2, 3} \subseteq DOMAIN m
  BY <1>1, HoldsFields
<1>3. from \in Int /\ from >= 4 + enc /\ from <= e
  <2>1. pos \in Int /\ pos < pos + 1 /\ pos + 1 \in Int /\ pos + 1 < n + 1 /\ n + 1 \in Int /\ pos \in Nat
    OBVIOUS
  <2>2. Place(pos, enc) >= 4 /\ Place(pos, enc) \in Int /\ Place(pos, enc) + enc <= from /\ from \in Int /\ from + enc <= e
    BY <1>1, <1>2, <2>1, PlaceIs
  <2> QED
    BY <1>2, <2>2
<1>4. y = [c \in DOMAIN m |-> IF c \in from..(e - 1) THEN m[c - enc] ELSE m[c]]
  <2> DEFINE to == pos + 1
             byte == n - pos
             moved == (Header + to * enc)..(Header + (to + byte) * enc - 1)
             outside == IF moved \subseteq DOMAIN m THEN {} ELSE {Overrun}
  <2>1. y = [c \in DOMAIN m \union outside |->
               IF c \in moved THEN m[c - (to - pos) * enc] ELSE IF c \in DOMAIN m THEN m[c] ELSE 0]
    BY <1>2 DEF intsetMoveTail, Moved
  <2>2. to + byte = n + 1 /\ to - pos = 1 /\ 1 * enc = enc
    BY <1>2
  <2>3. moved = from..(e - 1)
    <3>1. Header + to * enc = from
      BY <1>1 DEF Place
    <3>2. Header + (to + byte) * enc - 1 = e - 1
      <4>1. PICK x : x = (to + byte) * enc
        OBVIOUS
      <4>2. e = Header + x
        <5> HIDE DEF to, byte
        <5> QED
          BY <1>1, <2>2, <4>1 DEF Place
      <4>3. x \in Int
        <5>1. (n + 1) * enc \in Int
          BY <1>2
        <5> HIDE DEF to, byte
        <5> QED
          BY <2>2, <4>1, <5>1
      <4>4. Header + x - 1 = e - 1
        BY <1>2, <4>2, <4>3 DEF Header
      <4> QED
        BY <4>1, <4>4, Zenon
    <3> HIDE DEF to, byte
    <3> QED
      BY <3>1, <3>2, Zenon
  <2> HIDE DEF moved
  <2>4. outside = {}
    <3>1. moved \subseteq DOMAIN m
      BY <1>2, <1>3, <2>3
    <3> QED
      BY <3>1
  <2> HIDE DEF moved, outside
  <2> QED
    BY <2>1, <2>2, <2>3, <2>4
<1>5. \A c \in DOMAIN m : y[c] = IF c < from THEN m[c] ELSE m[c - enc]
  <2>1. \A c \in DOMAIN m : c \in from..(e - 1) <=> ~(c < from)
    BY <1>2, <1>3
  <2> QED
    BY <1>4, <2>1
<1>6. y \in [0..(e - 1) -> Digit]
  <2>1. \A c \in 0..(e - 1) : ~(c < from) => c - enc \in 0..(e - 1)
    BY <1>2, <1>3
  <2>2. \A c \in 0..(e - 1) : y[c] \in Digit
    BY <1>2, <1>5, <2>1
  <2> QED
    BY <1>2, <1>4, <2>2
<1>7. y[0] = m[0] /\ y[1] = m[1] /\ y[2] = m[2] /\ y[3] = m[3]
  BY <1>2, <1>3, <1>5
<1>8. encoding(y) = enc /\ length(y) = n
  <2>1. 0 + 1 = 1 /\ 2 + 1 = 3
    OBVIOUS
  <2> QED
    BY <1>2, <1>7, <2>1 DEF encoding, length, Unsigned
<1> QED
  BY <1>1, <1>2, <1>5, <1>6, <1>8 DEF Holds, MovedUp

\* The elements of a block.
LEMMA HeldElement ==
  ASSUME NEW m, NEW enc, NEW n, Holds(m, enc, n), NEW k \in -1..(n - 1)
  PROVE  /\ _intsetGetEncoded(m, k, enc) \in Int /\ Fits(_intsetGetEncoded(m, k, enc), enc)
         /\ \A c \in Place(k, enc)..(Place(k + 1, enc) - 1) : c \in DOMAIN m /\ m[c] \in Digit
<1>1. /\ enc \in Widths /\ enc \in 1..4 /\ n \in Nat /\ Place(n, enc) \in Nat /\ DOMAIN m = 0..(Place(n, enc) - 1)
      /\ \A c \in DOMAIN m : m[c] \in Digit
  BY HoldsFields
<1>2. Place(k, enc) \in Int /\ Place(k, enc) >= 0 /\ Place(k + 1, enc) = Place(k, enc) + enc /\ Place(k + 1, enc) <= Place(n, enc)
  <2>1. k \in Int /\ k < n /\ n \in Int /\ (k = -1 \/ k \in Nat)
    BY <1>1
  <2>2. Place(-1, enc) >= 0
    <3>1. Place(-1, enc) = 4 - enc
      BY <1>1, PlaceIs
    <3>2. 4 - enc >= 0
      BY <1>1
    <3> QED
      BY <3>1, <3>2
  <2>3. Place(k, enc) \in Int /\ Place(k + 1, enc) = Place(k, enc) + enc /\ Place(k, enc) + enc <= Place(n, enc)
    BY <1>1, <2>1, PlaceIs
  <2>4. k \in Nat => Place(k, enc) >= 4
    BY <1>1, PlaceIs
  <2> QED
    BY <2>1, <2>2, <2>3, <2>4
<1>3. \A c \in Place(k, enc)..(Place(k + 1, enc) - 1) : c \in DOMAIN m /\ m[c] \in Digit
  BY <1>1, <1>2
<1> QED
  BY <1>1, <1>3, ElementFits

\* An element whose cells stay is the same.
LEMMA ElementStays ==
  ASSUME NEW m, NEW enc, NEW n, Holds(m, enc, n), NEW k \in 0..(n - 1), NEW y,
         \A c \in DOMAIN m : Place(k, enc) <= c /\ c < Place(k + 1, enc) => y[c] = m[c]
  PROVE  _intsetGetEncoded(y, k, enc) = _intsetGetEncoded(m, k, enc)
<1>1. enc \in Widths /\ k \in Int /\ n \in Nat /\ k \in -1..(n - 1)
  BY HoldsFields
<1>2. Place(k, enc) \in Int /\ Place(k + 1, enc) \in Int
  BY <1>1, PlaceIs
<1>3. \A c \in Place(k, enc)..(Place(k + 1, enc) - 1) : m[c] \in Digit /\ c \in DOMAIN m
  BY <1>1, HeldElement
<1>4. \A c \in Place(k, enc)..(Place(k + 1, enc) - 1) : m[c] \in Digit /\ y[c + 0] = m[c]
  BY <1>2, <1>3
<1>5. Place(k, enc) = Place(k, enc) + 0 /\ 0 \in Int
  BY <1>2
<1> QED
  BY <1>1, <1>4, <1>5, ElementSame

\* One whose cells move up by its width is the next one.
LEMMA ElementMoves ==
  ASSUME NEW m, NEW enc, NEW n, Holds(m, enc, n), NEW k \in 0..(n - 1), NEW y,
         \A c \in DOMAIN m : Place(k, enc) <= c /\ c < Place(k + 1, enc) => y[c + enc] = m[c]
  PROVE  _intsetGetEncoded(y, k + 1, enc) = _intsetGetEncoded(m, k, enc)
<1>1. enc \in Widths /\ k \in Int /\ k + 1 \in Int /\ n \in Nat /\ enc \in Int /\ k \in -1..(n - 1)
  BY HoldsFields
<1>2. Place(k, enc) \in Int /\ Place(k + 1, enc) \in Int /\ Place(k + 1, enc) = Place(k, enc) + enc
  BY <1>1, PlaceIs
<1>3. \A c \in Place(k, enc)..(Place(k + 1, enc) - 1) : m[c] \in Digit /\ c \in DOMAIN m
  BY <1>1, HeldElement
<1>4. \A c \in Place(k, enc)..(Place(k + 1, enc) - 1) : m[c] \in Digit /\ y[c + enc] = m[c]
  BY <1>2, <1>3
<1> QED
  BY <1>1, <1>2, <1>4, ElementSame

Block(m, enc, len) == Holds(m, enc, len) /\ length(m) = len

\* y has the elements of m, and v at position pos.
Inserted(m, enc, len, y, wide, pos, v) ==
  /\ Block(y, wide, len + 1)
  /\ _intsetGetEncoded(y, pos, wide) = v
  /\ \A k \in 0..(len - 1) : k < pos => _intsetGetEncoded(y, k, wide) = _intsetGetEncoded(m, k, enc)
  /\ \A k \in 0..(len - 1) : k >= pos => _intsetGetEncoded(y, k + 1, wide) = _intsetGetEncoded(m, k, enc)

\* The last steps of intsetAdd.
LEMMA AddFacts ==
  ASSUME NEW m, NEW enc, NEW len, Block(m, enc, len), Countable(len + 1), NEW pos \in 0..len, NEW v, Fits(v, enc),
         NEW junk \in Digit, NEW room, room = intsetResize(m, len + 1, junk),
         NEW open, open = IF pos < len THEN intsetMoveTail(room, pos, pos + 1) ELSE room,
         NEW y, y = SetLength(_intsetSet(open, pos, v), len + 1)
  PROVE  Inserted(m, enc, len, y, enc, pos, v)
<1>1. /\ Holds(m, enc, len) /\ length(m) = len /\ enc \in Widths /\ enc \in 1..4 /\ len \in Nat /\ encoding(m) = enc
      /\ DOMAIN m = 0..(Place(len, enc) - 1) /\ Place(len, enc) \in Nat /\ Place(len, enc) >= 4
  BY HoldsFields DEF Block
<1>2. PICK d, e : d = Place(len, enc) /\ e = Place(len + 1, enc)
  OBVIOUS
<1>3. d \in Nat /\ d >= 4 /\ e = d + enc /\ m \in [0..(d - 1) -> Digit]
  BY <1>1, <1>2, PlaceIs DEF Holds
<1>4. Holds(room, enc, len + 1) /\ length(room) = len /\ \A c \in 0..(d - 1) : room[c] = m[c]
  <2>1. /\ Holds(room, enc, len + 1) /\ length(room) = length(m)
        /\ \A c \in 0..(d - 1) : c < e => room[c] = m[c]
    BY <1>1, <1>2, <1>3, ResizeFacts
  <2>2. \A c \in 0..(d - 1) : c < e
    BY <1>1, <1>3
  <2> QED
    BY <1>1, <2>1, <2>2
<1>5. DOMAIN room = 0..(e - 1) /\ e \in Nat
  BY <1>2, <1>4, HoldsFields
<1>6. PICK at : at = Place(pos, enc)
  OBVIOUS
<1>7. at \in Int /\ at >= 4 /\ at <= d /\ Place(pos + 1, enc) = at + enc
  <2>1. pos \in Int /\ pos \in Nat /\ len \in Int /\ (pos = len \/ pos < len)
    BY <1>1
  <2>2. at \in Int /\ at >= 4 /\ Place(pos + 1, enc) = at + enc
    BY <1>1, <1>6, <2>1, PlaceIs
  <2>3. CASE pos = len
    BY <1>2, <1>3, <1>6, <2>2, <2>3
  <2>4. CASE pos < len
    <3>1. at + enc <= d
      BY <1>1, <1>2, <1>6, <2>1, <2>4, PlaceIs
    <3>2. enc \in Int /\ enc >= 1
      BY <1>1
    <3> QED
      BY <1>3, <2>2, <3>1, <3>2
  <2> QED
    BY <2>1, <2>3, <2>4
<1>8. /\ Holds(open, enc, len + 1) /\ length(open) = len /\ DOMAIN open = 0..(e - 1)
      /\ \A c \in 0..(d - 1) : c < at => open[c] = m[c]
      /\ \A c \in 0..(d - 1) : c >= at => open[c + enc] = m[c]
  <2>1. CASE pos < len
    <3>1. pos \in 0..(len - 1) /\ open = intsetMoveTail(room, pos, pos + 1)
      BY <1>1, <2>1
    <3>2. /\ Holds(open, enc, len + 1) /\ length(open) = len
          /\ \A c \in DOMAIN room : open[c] = IF c < Place(pos + 1, enc) THEN room[c] ELSE room[c - enc]
      <4>1. /\ len \in Nat /\ Holds(room, enc, len + 1) /\ length(room) = len /\ pos \in 0..(len - 1)
            /\ open = intsetMoveTail(room, pos, pos + 1)
        BY <1>1, <1>4, <3>1
      <4>2. MovedUp(room, open, enc, len, pos)
        BY <4>1, MoveFacts
      <4> QED
        BY <4>2 DEF MovedUp
    <3>3. ASSUME NEW c \in 0..(d - 1), c < at PROVE open[c] = m[c]
      <4>1. c \in DOMAIN room /\ c < at + enc
        BY <1>1, <1>3, <1>5, <1>7, <3>3
      <4> QED
        BY <1>4, <1>7, <3>2, <4>1
    <3>4. ASSUME NEW c \in 0..(d - 1), c >= at PROVE open[c + enc] = m[c]
      <4>1. c + enc \in DOMAIN room /\ ~(c + enc < at + enc) /\ (c + enc) - enc = c
        BY <1>1, <1>3, <1>5, <1>7, <3>4
      <4> QED
        BY <1>4, <1>7, <3>2, <4>1
    <3>5. DOMAIN open = 0..(e - 1)
      BY <1>2, <3>2, HoldsFields
    <3> QED
      BY <3>2, <3>3, <3>4, <3>5
  <2>2. CASE ~(pos < len)
    <3>1. open = room /\ pos = len /\ at = d
      BY <1>1, <1>2, <1>6, <2>2
    <3>2. \A c \in 0..(d - 1) : ~(c >= at)
      BY <1>3, <3>1
    <3> QED
      BY <1>4, <1>5, <3>1, <3>2
  <2> QED
    BY <2>1, <2>2
<1>9. PICK set : set = _intsetSet(open, pos, v)
  OBVIOUS
<1>10. /\ Holds(set, enc, len + 1) /\ length(set) = len
       /\ _intsetGetEncoded(set, pos, enc) = v
       /\ \A c \in DOMAIN open : c < at \/ c >= at + enc => set[c] = open[c]
  <2>1. pos \in 0..((len + 1) - 1)
    BY <1>1
  <2> QED
    BY <1>6, <1>7, <1>8, <1>9, <2>1, SetFacts
<1>11. /\ Holds(y, enc, len + 1) /\ length(y) = len + 1 /\ DOMAIN set = 0..(e - 1)
       /\ \A c \in DOMAIN set : c >= 4 => y[c] = set[c]
  <2>1. DOMAIN set = 0..(e - 1)
    BY <1>2, <1>10, HoldsFields
  <2> QED
    BY <1>9, <1>10, <2>1, SetLengthFacts
<1>12. _intsetGetEncoded(y, pos, enc) = v
  <2>1. \A c \in DOMAIN set : Place(pos, enc) <= c /\ c < Place(pos + 1, enc) => y[c] = set[c]
    BY <1>5, <1>6, <1>7, <1>11
  <2>2. pos \in 0..((len + 1) - 1)
    BY <1>1
  <2>3. _intsetGetEncoded(y, pos, enc) = _intsetGetEncoded(set, pos, enc)
    BY <1>10, <2>1, <2>2, ElementStays
  <2> QED
    BY <1>10, <2>3
<1>13. /\ \A c \in 0..(d - 1) : 4 <= c /\ c < at => y[c] = m[c]
       /\ \A c \in 0..(d - 1) : c >= at => y[c + enc] = m[c]
  <2> SUFFICES ASSUME NEW c \in 0..(d - 1)
               PROVE  /\ 4 <= c /\ c < at => y[c] = m[c]
                      /\ c >= at => y[c + enc] = m[c]
    OBVIOUS
  <2>1. c \in 0..(e - 1) /\ c + enc \in 0..(e - 1)
    <3>1. enc \in Nat /\ e = d + enc /\ d \in Nat
      BY <1>1, <1>3
    <3> QED
      BY <3>1
  <2>2. ASSUME 4 <= c, c < at PROVE y[c] = m[c]
    <3>1. c >= 4 /\ c \in DOMAIN open /\ c \in DOMAIN set
      BY <1>8, <1>11, <2>1, <2>2
    <3>2. y[c] = set[c]
      BY <1>11, <3>1
    <3>3. set[c] = open[c]
      BY <1>10, <2>2, <3>1
    <3>4. open[c] = m[c]
      BY <1>8, <2>2
    <3> QED
      BY <3>2, <3>3, <3>4
  <2>3. ASSUME c >= at PROVE y[c + enc] = m[c]
    <3>1. c + enc >= at + enc /\ c + enc >= 4
      <4>1. enc \in Nat /\ c \in Int /\ at >= 4 /\ at \in Int
        BY <1>1, <1>3, <1>7
      <4> QED
        BY <2>3, <4>1
    <3>2. PICK b : b = c + enc
      OBVIOUS
    <3>3. b >= at + enc /\ b >= 4 /\ b \in DOMAIN open /\ b \in DOMAIN set
      BY <1>8, <1>11, <2>1, <3>1, <3>2
    <3>4. y[b] = set[b] /\ set[b] = open[b]
      BY <1>10, <1>11, <3>3
    <3>5. open[b] = m[c]
      BY <1>1, <1>7, <1>8, <2>3, <3>2
    <3> QED
      BY <3>2, <3>4, <3>5
  <2> QED
    BY <2>2, <2>3
<1>14. ASSUME NEW k \in 0..(len - 1), k < pos PROVE _intsetGetEncoded(y, k, enc) = _intsetGetEncoded(m, k, enc)
  <2>1. k \in Int /\ k \in Nat /\ pos \in Int
    BY <1>1
  <2>2. Place(k, enc) >= 4 /\ Place(k, enc) \in Int /\ Place(k + 1, enc) = Place(k, enc) + enc /\ Place(k, enc) + enc <= at
    BY <1>1, <1>6, <1>14, <2>1, PlaceIs
  <2>3. ASSUME NEW c \in DOMAIN m, Place(k, enc) <= c, c < Place(k + 1, enc) PROVE y[c] = m[c]
    <3>1. c \in 0..(d - 1) /\ c \in Int
      BY <1>1, <1>2
    <3>2. 4 <= c /\ c < at
      <4>1. PICK x : x = Place(k, enc)
        OBVIOUS
      <4>2. x >= 4 /\ x \in Int /\ x + enc <= at /\ x <= c /\ c < x + enc /\ enc \in Int
        BY <1>1, <2>2, <2>3, <4>1
      <4> QED
        BY <1>7, <3>1, <4>2
    <3> QED
      BY <1>13, <3>1, <3>2
  <2> QED
    BY <1>1, <2>3, ElementStays
<1>15. ASSUME NEW k \in 0..(len - 1), k >= pos PROVE _intsetGetEncoded(y, k + 1, enc) = _intsetGetEncoded(m, k, enc)
  <2>1. k \in Int /\ pos \in Int /\ (pos = k \/ pos < k)
    BY <1>1, <1>15
  <2>2. Place(k, enc) \in Int /\ at <= Place(k, enc)
    <3>1. Place(k, enc) \in Int
      BY <1>1, <2>1, PlaceIs
    <3>2. CASE pos = k
      BY <1>6, <1>7, <3>2
    <3>3. CASE pos < k
      <4>1. at + enc <= Place(k, enc)
        BY <1>1, <1>6, <2>1, <3>3, PlaceIs
      <4>2. enc \in Nat
        BY <1>1
      <4> QED
        BY <1>7, <3>1, <4>1, <4>2
    <3> QED
      BY <2>1, <3>1, <3>2, <3>3
  <2>3. ASSUME NEW c \in DOMAIN m, Place(k, enc) <= c, c < Place(k + 1, enc) PROVE y[c + enc] = m[c]
    <3>1. c \in 0..(d - 1) /\ c \in Int
      BY <1>1, <1>2
    <3>2. c >= at
      BY <1>7, <2>2, <2>3, <3>1
    <3> QED
      BY <1>13, <3>1, <3>2
  <2>4. \A c \in DOMAIN m : Place(k, enc) <= c /\ c < Place(k + 1, enc) => y[c + enc] = m[c]
    BY <2>3
  <2>5. Holds(m, enc, len)
    BY <1>1
  <2> QED
    BY <2>4, <2>5, ElementMoves
<1> QED
  BY <1>11, <1>12, <1>14, <1>15 DEF Inserted, Block

\* The last steps of intsetRemove.
LEMMA RemoveFacts ==
  ASSUME NEW m, NEW enc, NEW len, Block(m, enc, len), Countable(len - 1), len >= 1, NEW junk \in Digit,
         NEW y, y = SetLength(intsetResize(m, len - 1, junk), len - 1)
  PROVE  /\ Block(y, enc, len - 1)
         /\ \A k \in 0..(len - 2) : _intsetGetEncoded(y, k, enc) = _intsetGetEncoded(m, k, enc)
<1>1. /\ Holds(m, enc, len) /\ length(m) = len /\ enc \in Widths /\ enc \in 1..4 /\ len \in Nat /\ encoding(m) = enc
      /\ DOMAIN m = 0..(Place(len, enc) - 1) /\ Place(len, enc) \in Nat /\ Place(len, enc) >= 4
  BY HoldsFields DEF Block
<1>2. PICK d, e : d = Place(len, enc) /\ e = Place(len - 1, enc)
  OBVIOUS
<1>3. len - 1 \in Nat /\ d \in Nat /\ d >= 4 /\ e \in Int /\ e <= d /\ m \in [0..(d - 1) -> Digit]
  <2>1. len - 1 \in Nat /\ len - 1 \in Int /\ (len - 1) + 1 = len
    BY <1>1
  <2>2. Place((len - 1) + 1, enc) = Place(len - 1, enc) + enc /\ Place(len - 1, enc) \in Int
    BY <1>1, <2>1, PlaceIs
  <2> QED
    BY <1>1, <1>2, <2>1, <2>2 DEF Holds
<1>4. PICK cut : cut = intsetResize(m, len - 1, junk)
  OBVIOUS
<1>5. Holds(cut, enc, len - 1) /\ \A c \in 0..(d - 1) : c < e => cut[c] = m[c]
  <2>1. PICK n : n = len - 1
    OBVIOUS
  <2>2. n \in Nat /\ cut = intsetResize(m, n, junk) /\ e = Place(n, enc)
    BY <1>2, <1>3, <1>4, <2>1
  <2>3. /\ Holds(cut, enc, n) /\ length(cut) = length(m)
        /\ \A c \in 0..(d - 1) : c < Place(n, enc) => cut[c] = m[c]
    <3>1. /\ d \in Nat /\ d >= 4 /\ m \in [0..(d - 1) -> Digit] /\ enc \in Widths /\ encoding(m) = enc
          /\ n \in Nat /\ cut = intsetResize(m, n, junk)
      BY <1>1, <1>3, <2>2
    <3> QED
      BY <3>1, ResizeFacts
  <2> QED
    BY <2>1, <2>2, <2>3
<1>6. DOMAIN cut = 0..(e - 1)
  BY <1>2, <1>5, HoldsFields
<1>7. Holds(y, enc, len - 1) /\ length(y) = len - 1 /\ \A c \in 0..(e - 1) : c >= 4 => y[c] = cut[c]
  <2>1. PICK n : n = len - 1
    OBVIOUS
  <2>2. Holds(cut, enc, n) /\ Countable(n) /\ y = SetLength(cut, n)
    BY <1>4, <1>5, <2>1
  <2>3. Holds(y, enc, n) /\ length(y) = n /\ \A c \in DOMAIN cut : c >= 4 => y[c] = cut[c]
    BY <2>2, SetLengthFacts
  <2> QED
    BY <1>6, <2>1, <2>3
<1>8. ASSUME NEW k \in 0..(len - 2) PROVE _intsetGetEncoded(y, k, enc) = _intsetGetEncoded(m, k, enc)
  <2>1. k \in Int /\ k \in Nat /\ k < len - 1 /\ len - 1 \in Int /\ k \in 0..(len - 1)
    BY <1>1
  <2>2. Place(k, enc) >= 4 /\ Place(k, enc) \in Int /\ Place(k + 1, enc) = Place(k, enc) + enc /\ Place(k, enc) + enc <= e
    BY <1>1, <1>2, <2>1, PlaceIs
  <2>3. \A c \in DOMAIN m : Place(k, enc) <= c /\ c < Place(k + 1, enc) => y[c] = m[c]
    BY SMTT(30), <1>1, <1>2, <1>3, <1>5, <1>7, <2>2
  <2> QED
    BY <1>1, <2>1, <2>3, ElementStays
<1> QED
  BY <1>7, <1>8 DEF Block

-----------------------------------------------------------------------------
(* Widening the elements.                                                  *)

\* What fits a width fits a greater one.
LEMMA FitsWider ==
  ASSUME NEW j \in 1..4, NEW k \in 1..4, j <= k, NEW v, Fits(v, j)
  PROVE  Fits(v, k)
<1>1. Half[1] <= Half[2] /\ Half[2] <= Half[3] /\ Half[3] <= Half[4]
  <2>1. 2 \in 2..4 /\ 3 \in 2..4 /\ 4 \in 2..4 /\ 2 - 1 = 1 /\ 3 - 1 = 2 /\ 4 - 1 = 3
    OBVIOUS
  <2>2. Half[1] < Half[2] /\ Half[2] < Half[3] /\ Half[3] < Half[4]
    BY <2>1, HalfIs
  <2>3. Half[1] \in Nat /\ Half[2] \in Nat /\ Half[3] \in Nat /\ Half[4] \in Nat
    BY HalfIs
  <2> QED
    BY <2>2, <2>3
<1>2. PICK a, b, c, d : a = Half[1] /\ b = Half[2] /\ c = Half[3] /\ d = Half[4]
  OBVIOUS
<1>3. a \in Nat /\ b \in Nat /\ c \in Nat /\ d \in Nat /\ a <= b /\ b <= c /\ c <= d
  BY <1>1, <1>2, HalfIs
<1>4. PICK x, y : x = Half[j] /\ y = Half[k]
  OBVIOUS
<1>5. x \in Nat /\ y \in Nat /\ x <= y
  <2>1. (j = 1 /\ x = a) \/ (j = 2 /\ x = b) \/ (j = 3 /\ x = c) \/ (j = 4 /\ x = d)
    BY <1>2, <1>4
  <2>2. (k = 1 /\ y = a) \/ (k = 2 /\ y = b) \/ (k = 3 /\ y = c) \/ (k = 4 /\ y = d)
    BY <1>2, <1>4
  <2> QED
    BY <1>3, <2>1, <2>2
<1>6. v \in -x..(x - 1)
  BY <1>4 DEF Fits
<1>7. v \in -y..(y - 1)
  BY <1>5, <1>6
<1> QED
  BY <1>4, <1>7 DEF Fits

\* _intsetValueEncoding: the narrowest width the value fits in.
LEMMA EncodingFits ==
  ASSUME NEW v \in Value
  PROVE  /\ _intsetValueEncoding(v) \in Widths /\ v \in Int
         /\ Countable(_intsetValueEncoding(v))
         /\ Fits(v, _intsetValueEncoding(v))
         /\ \A enc \in Widths : _intsetValueEncoding(v) <= enc <=> Fits(v, enc)
<1>1. Fits(v, 4) /\ v \in Int
  BY ValueAssumption, HalfIs DEF Fits
<1>2. PICK w : w = _intsetValueEncoding(v)
  OBVIOUS
<1>3. \/ w = 4 /\ ~Fits(v, 2)
      \/ w = 2 /\ ~Fits(v, 1) /\ Fits(v, 2)
      \/ w = 1 /\ Fits(v, 1)
  BY <1>2, Zenon DEF _intsetValueEncoding
<1>4. w \in 0..4
  BY <1>3
<1>5. Countable(w)
  BY <1>4, CountableFits
<1>6. w \in Widths /\ Fits(v, w) /\ w \in 1..4
  BY <1>1, <1>3 DEF Widths
<1>7. ASSUME NEW enc \in Widths PROVE w <= enc <=> Fits(v, enc)
  <2>1. enc \in 1..4 /\ (enc = 1 \/ enc = 2 \/ enc = 4)
    BY DEF Widths
  <2>2. ASSUME w <= enc PROVE Fits(v, enc)
    BY <1>6, <2>1, <2>2, FitsWider
  <2>3. ASSUME Fits(v, enc) PROVE w <= enc
    <3>1. Fits(v, 1) => Fits(v, 2)
      BY FitsWider
    <3>2. CASE enc = 1
      BY <1>3, <2>3, <3>1, <3>2
    <3>3. CASE enc = 2
      BY <1>3, <2>3, <3>3
    <3>4. CASE enc = 4
      BY <1>3, <3>4
    <3> QED
      BY <2>1, <3>2, <3>3, <3>4
  <2> QED
    BY <2>2, <2>3
<1> QED
  BY <1>1, <1>2, <1>5, <1>6, <1>7

\* A wider element is further on.
LEMMA PlaceWider ==
  ASSUME NEW enc \in Widths, NEW wide \in Widths, enc <= wide, NEW k \in Nat
  PROVE  Place(k, enc) <= Place(k, wide)
<1>1. CASE enc = 1
  <2>1. CASE wide = 1
    BY <1>1, <2>1 DEF Place, Header
  <2>2. CASE wide = 2
    BY <1>1, <2>2 DEF Place, Header
  <2>3. CASE wide = 4
    BY <1>1, <2>3 DEF Place, Header
  <2> QED
    BY <2>1, <2>2, <2>3 DEF Widths
<1>2. CASE enc = 2
  <2>2. CASE wide = 2
    BY <1>2, <2>2 DEF Place, Header
  <2>3. CASE wide = 4
    BY <1>2, <2>3 DEF Place, Header
  <2> QED
    BY <1>2, <2>2, <2>3 DEF Widths
<1>3. CASE enc = 4
  <2>1. wide = 4
    BY <1>3 DEF Widths
  <2> QED
    BY <1>3, <2>1 DEF Place, Header
<1> QED
  BY <1>1, <1>2, <1>3 DEF Widths

\* b is a wide block: the first r elements are as narrow as in m, the others widened.
Midway(m, enc, len, wide, prepend, b, r) ==
  /\ Holds(b, wide, len + 1) /\ length(b) = len
  /\ \A c \in DOMAIN m : 4 <= c /\ c < Place(r, enc) => b[c] = m[c]
  /\ \A k \in r..(len - 1) : _intsetGetEncoded(b, k + prepend, wide) = _intsetGetEncoded(m, k, enc)

\* y is b with v at position to.
SetAt(b, wide, len, to, v, y) ==
  /\ Holds(y, wide, len + 1) /\ length(y) = len
  /\ _intsetGetEncoded(y, to, wide) = v
  /\ \A c \in DOMAIN b : c < Place(to, wide) \/ c >= Place(to + 1, wide) => y[c] = b[c]

\* A copy in such a block stays within it.
LEMMA CopyStays ==
  ASSUME NEW enc \in Widths, NEW wide \in Widths, enc <= wide, NEW len \in Nat, NEW prepend \in {0, 1},
         NEW b, Holds(b, wide, len + 1), length(b) = len, NEW k \in 0..(len - 1),
         NEW v, v = _intsetGetEncoded(b, k, enc),
         NEW y, y = _intsetSet(b, k + prepend, v)
  PROVE  SetAt(b, wide, len, k + prepend, v, y)
<1>1. PICK to : to = k + prepend
  OBVIOUS
<1>2. to \in 0..((len + 1) - 1) /\ k \in Int /\ k \in Nat /\ k + 1 \in Nat /\ len + 1 \in Int /\ k + 1 < len + 1 /\ k + 1 \in Int
  BY <1>1
<1>3. enc \in 1..4 /\ wide \in 1..4
  BY PlaceIs
<1>4. PICK e : e = Place(len + 1, wide)
  OBVIOUS
<1>5. DOMAIN b = 0..(e - 1) /\ \A c \in DOMAIN b : b[c] \in Digit
  BY <1>4, HoldsFields
<1>6. Place(k, enc) >= 4 /\ Place(k, enc) \in Int /\ Place(k + 1, enc) \in Int /\ Place(k + 1, enc) <= e /\ e \in Int
  <2>1. Place(k + 1, enc) <= Place(k + 1, wide)
    BY <1>2, PlaceWider
  <2>2. Place(k + 1, wide) + wide <= e /\ Place(k + 1, wide) \in Int /\ e \in Int
    BY <1>2, <1>4, PlaceIs
  <2>3. Place(k, enc) >= 4 /\ Place(k, enc) \in Int /\ Place(k + 1, enc) \in Int
    BY <1>2, PlaceIs
  <2>4. wide \in Int /\ wide >= 1
    BY <1>3
  <2> QED
    BY <2>1, <2>2, <2>3, <2>4
<1>7. \A c \in Place(k, enc)..(Place(k + 1, enc) - 1) : b[c] \in Digit
  <2>1. \A c \in Place(k, enc)..(Place(k + 1, enc) - 1) : c \in 0..(e - 1)
    BY <1>6
  <2> QED
    BY <1>5, <2>1
<1>8. Fits(v, enc)
  BY <1>2, <1>7, ElementFits
<1>9. Fits(v, wide)
  BY <1>3, <1>8, FitsWider
<1>10. /\ Holds(y, wide, len + 1) /\ length(y) = length(b)
       /\ _intsetGetEncoded(y, to, wide) = v
       /\ \A c \in DOMAIN b : c < Place(to, wide) \/ c >= Place(to + 1, wide) => y[c] = b[c]
  BY <1>1, <1>2, <1>9, SetFacts
<1>11. SetAt(b, wide, len, to, v, y)
  BY <1>2, <1>10 DEF SetAt
<1> QED
  BY <1>1, <1>11

\* Copying element r - 1 leaves one element less to copy.
LEMMA CopyGoesOn ==
  ASSUME NEW m, NEW enc, NEW len, Block(m, enc, len), NEW wide \in Widths, enc <= wide, NEW prepend \in {0, 1},
         NEW b, NEW r \in 1..len, Midway(m, enc, len, wide, prepend, b, r),
         NEW y, y = _intsetSet(b, (r - 1) + prepend, _intsetGetEncoded(b, r - 1, enc))
  PROVE  Midway(m, enc, len, wide, prepend, y, r - 1)
<1>1. /\ Holds(m, enc, len) /\ enc \in Widths /\ enc \in 1..4 /\ len \in Nat
      /\ DOMAIN m = 0..(Place(len, enc) - 1) /\ Place(len, enc) \in Int
  BY HoldsFields DEF Block
<1>2. Holds(b, wide, len + 1) /\ length(b) = len /\ wide \in 1..4
  BY PlaceIs DEF Midway
<1>3. PICK q, v, to, e : q = r - 1 /\ v = _intsetGetEncoded(b, q, enc) /\ to = q + prepend /\ e = Place(len + 1, wide)
  OBVIOUS
<1>4. q \in 0..(len - 1) /\ q \in Nat /\ q \in Int /\ q + 1 = r /\ to \in Nat /\ to \in Int /\ q <= to /\ to <= len /\ r \in Int /\ q < len /\ len \in Int
  BY <1>1, <1>3
<1>5. y = _intsetSet(b, q + prepend, v)
  BY <1>3
<1>6. SetAt(b, wide, len, q + prepend, v, y)
  <2>1. v = _intsetGetEncoded(b, q, enc) /\ q \in 0..(len - 1)
    BY <1>3, <1>4
  <2>2. enc \in Widths /\ len \in Nat /\ Holds(b, wide, len + 1) /\ length(b) = len
    BY <1>1, <1>2
  <2> QED
    BY <1>5, <2>1, <2>2, CopyStays
<1>7. /\ Holds(y, wide, len + 1) /\ length(y) = len
      /\ _intsetGetEncoded(y, to, wide) = v
      /\ \A c \in DOMAIN b : c < Place(to, wide) \/ c >= Place(to + 1, wide) => y[c] = b[c]
  <2>1. SetAt(b, wide, len, to, v, y)
    BY <1>3, <1>6
  <2> QED
    BY <2>1 DEF SetAt
<1>8. /\ Place(q, enc) \in Int /\ Place(r, enc) = Place(q, enc) + enc /\ Place(r, enc) <= Place(len, enc)
      /\ Place(q, enc) >= 4
  <2>1. Place(q, enc) \in Int /\ Place(q + 1, enc) = Place(q, enc) + enc /\ Place(q, enc) >= 4
    BY <1>1, <1>4, PlaceIs
  <2>2. Place(q, enc) + enc <= Place(len, enc)
    BY <1>1, <1>4, PlaceIs
  <2> QED
    BY <1>4, <2>1, <2>2
<1>9. Place(q, enc) <= Place(to, wide) /\ Place(to, wide) \in Int /\ Place(to + 1, wide) = Place(to, wide) + wide
  <2>1. Place(q, enc) <= Place(q, wide) /\ Place(q, wide) \in Int
    BY <1>1, <1>4, PlaceWider, PlaceIs
  <2>2. Place(to, wide) \in Int /\ Place(to + 1, wide) = Place(to, wide) + wide
    BY <1>4, PlaceIs
  <2>3. q = to \/ q < to
    BY <1>4
  <2>4. CASE q = to
    BY <2>1, <2>2, <2>4
  <2>5. CASE q < to
    <3>1. Place(q, wide) + wide <= Place(to, wide)
      BY <1>4, <2>5, PlaceIs
    <3>2. wide \in Nat
      BY <1>2
    <3> QED
      BY <1>8, <2>1, <2>2, <3>1, <3>2
  <2> QED
    BY <2>3, <2>4, <2>5
<1>10. DOMAIN b = 0..(e - 1) /\ e \in Int
  BY <1>2, <1>3, HoldsFields
<1>11. Place(len, enc) <= e
  <2>1. Place(len, enc) <= Place(len, wide)
    BY <1>1, PlaceWider
  <2>2. e = Place(len, wide) + wide /\ Place(len, wide) \in Int
    BY <1>3, <1>4, PlaceIs
  <2>3. wide \in Nat
    BY <1>2
  <2> QED
    BY <1>1, <2>1, <2>2, <2>3
<1>12. v = _intsetGetEncoded(m, q, enc)
  <2>1. ASSUME NEW c \in DOMAIN m, Place(q, enc) <= c, c < Place(q + 1, enc) PROVE b[c] = m[c]
    <3>1. 4 <= c /\ c < Place(r, enc)
      <4>1. c \in Int
        BY <1>1
      <4> QED
        BY <1>4, <1>8, <2>1, <4>1
    <3> QED
      BY <3>1 DEF Midway
  <2>2. \A c \in DOMAIN m : Place(q, enc) <= c /\ c < Place(q + 1, enc) => b[c] = m[c]
    BY <2>1
  <2>3. _intsetGetEncoded(b, q, enc) = _intsetGetEncoded(m, q, enc)
    BY <1>1, <1>4, <2>2, ElementStays
  <2> QED
    BY <1>3, <2>3
<1>13. ASSUME NEW c \in DOMAIN m, 4 <= c, c < Place(q, enc) PROVE y[c] = m[c]
  <2>1. c \in Int /\ 0 <= c
    BY <1>1
  <2>2. enc \in Nat
    BY <1>1
  <2>3. c < Place(r, enc) /\ c < Place(to, wide) /\ c \in DOMAIN b
    <3>1. c < Place(r, enc)
      BY <1>8, <1>13, <2>1, <2>2
    <3>2. c < Place(to, wide)
      BY <1>8, <1>9, <1>13, <2>1
    <3>3. c \in DOMAIN b
      BY <1>1, <1>10, <1>11, <2>1
    <3> QED
      BY <3>1, <3>2, <3>3
  <2>4. y[c] = b[c]
    BY <1>7, <2>3
  <2>5. b[c] = m[c]
    BY <1>13, <2>3 DEF Midway
  <2> QED
    BY <2>4, <2>5
<1>14. ASSUME NEW k \in q..(len - 1)
       PROVE  _intsetGetEncoded(y, k + prepend, wide) = _intsetGetEncoded(m, k, enc)
  <2>1. CASE k = q
    BY <1>3, <1>7, <1>12, <2>1
  <2>2. CASE k # q
    <3>1. PICK at : at = k + prepend
      OBVIOUS
    <3>2. k \in r..(len - 1) /\ at \in Int /\ to < at /\ at \in 0..((len + 1) - 1) /\ to + 1 \in Int /\ (to + 1 = at \/ to + 1 < at)
      BY <1>3, <1>4, <2>2, <3>1
    <3>3. _intsetGetEncoded(b, at, wide) = _intsetGetEncoded(m, k, enc)
      BY <3>1, <3>2 DEF Midway
    <3>4. Place(to + 1, wide) <= Place(at, wide) /\ Place(at, wide) \in Int
      <4>1. Place(to, wide) + wide <= Place(at, wide) /\ Place(at, wide) \in Int
        BY <1>4, <3>2, PlaceIs
      <4> QED
        BY <1>9, <4>1
    <3>5. ASSUME NEW c \in DOMAIN b, Place(at, wide) <= c PROVE y[c] = b[c]
      <4>1. c \in Int /\ Place(to + 1, wide) \in Int
        BY <1>4, <1>10, <3>2, PlaceIs
      <4>2. c >= Place(to + 1, wide)
        BY <3>4, <3>5, <4>1
      <4> QED
        BY <1>7, <4>2
    <3>6. \A c \in DOMAIN b : Place(at, wide) <= c /\ c < Place(at + 1, wide) => y[c] = b[c]
      BY <3>5
    <3>7. _intsetGetEncoded(y, at, wide) = _intsetGetEncoded(b, at, wide)
      BY <1>2, <3>2, <3>6, ElementStays
    <3> QED
      BY <3>1, <3>3, <3>7
  <2> QED
    BY <2>1, <2>2
<1>15. Midway(m, enc, len, wide, prepend, y, q)
  BY <1>7, <1>13, <1>14 DEF Midway
<1> QED
  BY <1>3, <1>15

\* All elements copied, from the last to the first.
LEMMA CopiedFacts ==
  ASSUME NEW m, NEW enc, NEW len, Block(m, enc, len), NEW wide \in Widths, enc <= wide, NEW prepend \in {0, 1},
         NEW b, Midway(m, enc, len, wide, prepend, b, len)
  PROVE  Midway(m, enc, len, wide, prepend, Copied(b, Downwards(len), prepend, enc), 0)
<1> DEFINE order == Downwards(len)
           Copy(x, k) == _intsetSet(x, k + prepend, _intsetGetEncoded(x, k, enc))
           copied == CHOOSE f : f = [j \in 0..Len(order) |-> IF j = 0 THEN b ELSE Copy(f[j - 1], order[j])]
<1>1. Copied(b, order, prepend, enc) = copied[Len(order)]
  BY DEF Copied
<1>2. enc \in Widths /\ len \in Nat
  BY HoldsFields DEF Block
<1>3. Len(order) = len /\ \A j \in 1..len : order[j] = len - j
  BY <1>2 DEF Downwards
<1>4. PICK d, V : d = Place(len + 1, wide) /\ V = {x \in [0..(d - 1) -> Digit] : encoding(x) = wide /\ length(x) = len}
  OBVIOUS
<1>5. \A x : x \in V <=> Holds(x, wide, len + 1) /\ length(x) = len
  BY <1>2, <1>4 DEF Holds
<1>6. PICK step : step = [p \in (1..len) \X V |-> Copy(p[2], order[p[1]])]
  OBVIOUS
<1>7. ASSUME NEW j \in 1..len, NEW x \in V PROVE step[<<j, x>>] = Copy(x, order[j]) /\ step[<<j, x>>] \in V
  <2>1. step[<<j, x>>] = Copy(x, order[j])
    <3>1. <<j, x>> \in (1..len) \X V
      OBVIOUS
    <3> HIDE DEF Copy, order
    <3> QED
      BY <1>6, <3>1
  <2>2. PICK k, v, y : k = order[j] /\ v = _intsetGetEncoded(x, k, enc) /\ y = _intsetSet(x, k + prepend, v)
    OBVIOUS
  <2>3. k \in 0..(len - 1)
    <3> HIDE DEF order
    <3> QED
      BY <1>2, <1>3, <2>2
  <2>4. Holds(x, wide, len + 1) /\ length(x) = len
    BY <1>5
  <2>5. Holds(y, wide, len + 1) /\ length(y) = len
    <3>1. SetAt(x, wide, len, k + prepend, v, y)
      <4> HIDE DEF order
      <4> QED
        BY <1>2, <2>2, <2>3, <2>4, CopyStays
    <3> QED
      BY <3>1 DEF SetAt
  <2>6. Copy(x, order[j]) = y
    <3> HIDE DEF order
    <3> QED
      BY <2>2
  <2> HIDE DEF Copy, order
  <2> QED
    BY <1>5, <2>1, <2>5, <2>6
<1>8. PICK h : Counting(h, len, V, b, step)
  <2>1. Steps(len, V, step)
    <3> HIDE DEF Copy, order
    <3> QED
      BY <1>7 DEF Steps
  <2>2. b \in V
    BY <1>5 DEF Midway
  <2> QED
    BY <1>2, <2>1, <2>2, CountingUp
<1>9. h = [j \in 0..len |-> IF j = 0 THEN b ELSE Copy(h[j - 1], order[j])]
  <2> HIDE DEF Copy, order
  <2>1. \A j \in 0..len : (j = 0 \/ j \in 1..len) /\ (j # 0 => j - 1 \in 0..len)
    BY <1>2
  <2>2. \A j \in 0..len : h[j] = IF j = 0 THEN b ELSE Copy(h[j - 1], order[j])
    BY <1>7, <1>8, <2>1 DEF Counting
  <2>3. h = [j \in 0..len |-> h[j]]
    BY <1>8 DEF Counting
  <2> QED
    BY <2>2, <2>3
<1>10. copied = [j \in 0..len |-> IF j = 0 THEN b ELSE Copy(copied[j - 1], order[j])]
  <2>1. \E f : f = [j \in 0..Len(order) |-> IF j = 0 THEN b ELSE Copy(f[j - 1], order[j])]
    <3> HIDE DEF Copy, order
    <3> QED
      BY <1>3, <1>9
  <2>2. copied = [j \in 0..Len(order) |-> IF j = 0 THEN b ELSE Copy(copied[j - 1], order[j])]
    <3> HIDE DEF Copy, order
    <3> QED
      BY <2>1
  <2> HIDE DEF Copy, order, copied
  <2> QED
    BY <1>3, <2>2
<1> HIDE DEF copied
<1> DEFINE N == {j \in Nat : j \in 0..len => Midway(m, enc, len, wide, prepend, copied[j], len - j)}
<1>11. 0 \in N
  <2>1. copied[0] = b /\ len - 0 = len
    <3>1. 0 \in 0..len
      BY <1>2
    <3> HIDE DEF Copy, order
    <3> QED
      BY <1>2, <1>10, <3>1
  <2> QED
    BY <2>1
<1>12. ASSUME NEW j \in Nat, j \in N PROVE j + 1 \in N
  <2>1. ASSUME j + 1 \in 0..len PROVE Midway(m, enc, len, wide, prepend, copied[j + 1], len - (j + 1))
    <3>1. PICK r : r = len - j
      OBVIOUS
    <3>2. j \in 0..len /\ r \in 1..len /\ len - (j + 1) = r - 1 /\ j + 1 \in 1..len /\ (j + 1) - 1 = j /\ j + 1 # 0
      BY <1>2, <2>1, <3>1
    <3>3. Midway(m, enc, len, wide, prepend, copied[j], r)
      BY <1>12, <3>1, <3>2
    <3>4. copied[j + 1] = Copy(copied[j], r - 1)
      <4>1. order[j + 1] = r - 1
        <5> HIDE DEF order
        <5> QED
          BY <1>3, <3>2
      <4>2. copied[j + 1] = Copy(copied[j], order[j + 1])
        <5> HIDE DEF Copy, order
        <5> QED
          BY <1>10, <2>1, <3>2
      <4> HIDE DEF Copy, order
      <4> QED
        BY <4>1, <4>2
    <3>5. Midway(m, enc, len, wide, prepend, copied[j + 1], r - 1)
      BY <3>2, <3>3, <3>4, CopyGoesOn
    <3> QED
      BY <3>2, <3>5
  <2> QED
    BY <2>1
<1> HIDE DEF N
<1>13. Nat \subseteq N
  BY <1>11, <1>12, InductionOverNat
<1>14. Midway(m, enc, len, wide, prepend, copied[len], 0)
  <2>1. len \in 0..len /\ len - len = 0
    BY <1>2
  <2> QED
    BY <1>2, <1>13, <2>1 DEF N
<1> HIDE DEF order
<1> QED
  BY <1>1, <1>3, <1>14 DEF order

\* The last steps of intsetUpgradeAndAdd.
LEMMA WidenedFacts ==
  ASSUME NEW m, NEW enc, NEW len, Block(m, enc, len), Countable(len + 1), NEW wide \in Widths, enc <= wide,
         NEW v \in Int, Fits(v, wide), NEW b, Holds(b, wide, len + 1), length(b) = len,
         \A c \in DOMAIN m : 4 <= c => b[c] = m[c],
         NEW y, y = Widened(m, b, v, Downwards(len))
  PROVE  Inserted(m, enc, len, y, wide, IF v < 0 THEN 0 ELSE len, v)
<1>1. /\ Holds(m, enc, len) /\ length(m) = len /\ enc \in Widths /\ enc \in 1..4 /\ len \in Nat /\ encoding(m) = enc
  BY HoldsFields DEF Block
<1>2. PICK prepend, pos : prepend = (IF v < 0 THEN 1 ELSE 0) /\ pos = IF v < 0 THEN 0 ELSE len
  OBVIOUS
<1>3. prepend \in {0, 1} /\ pos \in 0..((len + 1) - 1) /\ pos = (IF prepend = 1 THEN 0 ELSE len) /\ pos \in Int
  BY <1>1, <1>2
<1>4. PICK copied, set : copied = Copied(b, Downwards(len), prepend, enc) /\ set = _intsetSet(copied, pos, v)
  OBVIOUS
<1>5. y = SetLength(set, len + 1)
  BY <1>1, <1>2, <1>3, <1>4 DEF Widened
<1>6. Midway(m, enc, len, wide, prepend, b, len)
  <2>1. \A k \in len..(len - 1) : FALSE
    BY <1>1
  <2> QED
    BY <1>1, <2>1 DEF Midway
<1>7. Midway(m, enc, len, wide, prepend, copied, 0)
  BY <1>3, <1>4, <1>6, CopiedFacts
<1>8. /\ Holds(copied, wide, len + 1) /\ length(copied) = len
      /\ \A k \in 0..(len - 1) : _intsetGetEncoded(copied, k + prepend, wide) = _intsetGetEncoded(m, k, enc)
  BY <1>7 DEF Midway
<1>9. /\ Holds(set, wide, len + 1) /\ length(set) = length(copied)
      /\ _intsetGetEncoded(set, pos, wide) = v
      /\ \A c \in DOMAIN copied : c < Place(pos, wide) \/ c >= Place(pos + 1, wide) => set[c] = copied[c]
  BY <1>3, <1>4, <1>8, SetFacts
<1>10. Holds(y, wide, len + 1) /\ length(y) = len + 1 /\ \A c \in DOMAIN set : c >= 4 => y[c] = set[c]
  BY <1>5, <1>9, SetLengthFacts
<1>11. PICK e : e = Place(len + 1, wide)
  OBVIOUS
<1>12. DOMAIN copied = 0..(e - 1) /\ DOMAIN set = 0..(e - 1)
  BY <1>8, <1>9, <1>11, HoldsFields
<1>13. wide \in 1..4 /\ wide \in Nat
  BY PlaceIs
<1>14. ASSUME NEW k \in 0..((len + 1) - 1) PROVE _intsetGetEncoded(y, k, wide) = _intsetGetEncoded(set, k, wide)
  <2>1. Place(k, wide) >= 4 /\ Place(k, wide) \in Int
    <3>1. k \in Nat /\ k \in Int
      BY <1>1
    <3> QED
      BY <3>1, PlaceIs
  <2>2. ASSUME NEW c \in DOMAIN set, Place(k, wide) <= c PROVE y[c] = set[c]
    <3>1. c \in Int
      BY <1>12
    <3>2. c >= 4
      BY <2>1, <2>2, <3>1
    <3> QED
      BY <1>10, <3>2
  <2>3. \A c \in DOMAIN set : Place(k, wide) <= c /\ c < Place(k + 1, wide) => y[c] = set[c]
    BY <2>2
  <2> QED
    BY <1>9, <2>3, ElementStays
<1>15. ASSUME NEW k \in 0..((len + 1) - 1), k # pos
       PROVE  _intsetGetEncoded(set, k, wide) = _intsetGetEncoded(copied, k, wide)
  <2>1. k \in Int /\ k + 1 \in Int /\ pos + 1 \in Int /\ Place(k, wide) \in Int /\ Place(k + 1, wide) = Place(k, wide) + wide
    <3>1. k \in Int /\ k + 1 \in Int /\ pos + 1 \in Int
      BY <1>1, <1>3
    <3> QED
      BY <3>1, PlaceIs
  <2>2. Place(pos, wide) \in Int /\ Place(pos + 1, wide) = Place(pos, wide) + wide
    BY <1>3, PlaceIs
  <2>3. ASSUME NEW c \in DOMAIN copied, Place(k, wide) <= c, c < Place(k + 1, wide) PROVE set[c] = copied[c]
    <3>1. c \in Int
      BY <1>12
    <3>2. k < pos \/ pos < k
      BY <1>3, <1>15, <2>1
    <3>3. CASE k < pos
      <4>1. Place(k, wide) + wide <= Place(pos, wide)
        BY <1>3, <2>1, <3>3, PlaceIs
      <4>2. c < Place(pos, wide)
        BY <1>13, <2>1, <2>2, <2>3, <3>1, <4>1
      <4> QED
        BY <1>9, <4>2
    <3>4. CASE pos < k
      <4>1. Place(pos, wide) + wide <= Place(k, wide)
        BY <1>3, <2>1, <3>4, PlaceIs
      <4>2. c >= Place(pos + 1, wide)
        BY <1>13, <2>1, <2>2, <2>3, <3>1, <4>1
      <4> QED
        BY <1>9, <4>2
    <3> QED
      BY <3>2, <3>3, <3>4
  <2>4. \A c \in DOMAIN copied : Place(k, wide) <= c /\ c < Place(k + 1, wide) => set[c] = copied[c]
    BY <2>3
  <2> QED
    BY <1>8, <2>4, ElementStays
<1>16. _intsetGetEncoded(y, pos, wide) = v
  BY <1>3, <1>9, <1>14
<1>17. ASSUME NEW k \in 0..(len - 1), k < pos PROVE _intsetGetEncoded(y, k, wide) = _intsetGetEncoded(m, k, enc)
  <2>1. prepend = 0 /\ k + 0 = k /\ k \in 0..((len + 1) - 1) /\ k # pos
    BY <1>1, <1>3, <1>17
  <2>2. _intsetGetEncoded(copied, k, wide) = _intsetGetEncoded(m, k, enc)
    <3>1. _intsetGetEncoded(copied, k + prepend, wide) = _intsetGetEncoded(m, k, enc)
      BY <1>8
    <3> QED
      BY <2>1, <3>1
  <2> QED
    BY <1>14, <1>15, <2>1, <2>2
<1>18. ASSUME NEW k \in 0..(len - 1), k >= pos PROVE _intsetGetEncoded(y, k + 1, wide) = _intsetGetEncoded(m, k, enc)
  <2>1. prepend = 1 /\ k + 1 \in 0..((len + 1) - 1) /\ k + 1 # pos
    BY <1>1, <1>3, <1>18
  <2>2. _intsetGetEncoded(copied, k + 1, wide) = _intsetGetEncoded(m, k, enc)
    <3>1. _intsetGetEncoded(copied, k + prepend, wide) = _intsetGetEncoded(m, k, enc)
      BY <1>8
    <3> QED
      BY <2>1, <3>1
  <2> QED
    BY <1>14, <1>15, <2>1, <2>2
<1>19. Inserted(m, enc, len, y, wide, pos, v)
  BY <1>10, <1>16, <1>17, <1>18 DEF Inserted, Block
<1> QED
  BY <1>2, <1>19

\* intsetUpgradeAndAdd.
LEMMA UpgradeFacts ==
  ASSUME NEW m, NEW enc, NEW len, Block(m, enc, len), Countable(len + 1), NEW v \in Value,
         enc <= _intsetValueEncoding(v), NEW junk \in Digit,
         NEW y, y = intsetUpgradeAndAdd(m, v, junk)
  PROVE  Inserted(m, enc, len, y, _intsetValueEncoding(v), IF v < 0 THEN 0 ELSE len, v)
<1>1. /\ Holds(m, enc, len) /\ length(m) = len /\ enc \in Widths /\ enc \in 1..4 /\ len \in Nat
      /\ DOMAIN m = 0..(Place(len, enc) - 1)
  BY HoldsFields DEF Block
<1>2. PICK wide : wide = _intsetValueEncoding(v)
  OBVIOUS
<1>3. wide \in Widths /\ Countable(wide) /\ Fits(v, wide) /\ v \in Int /\ enc <= wide
  BY <1>2, EncodingFits
<1>4. PICK d, n : d = Place(len, enc) /\ n = len + 1
  OBVIOUS
<1>5. d \in Nat /\ d >= 4 /\ m \in [0..(d - 1) -> Digit] /\ n \in Nat
  <2>1. Place(len, enc) \in Int /\ Place(len, enc) >= 4
    BY <1>1, PlaceIs
  <2> QED
    BY <1>1, <1>4, <2>1 DEF Holds
<1>6. PICK marked, b : marked = WithEncoding(m, v) /\ b = intsetResize(marked, n, junk)
  OBVIOUS
<1>7. /\ marked \in [0..(d - 1) -> Digit] /\ encoding(marked) = wide /\ length(marked) = len
      /\ \A c \in 0..(d - 1) : 4 <= c => marked[c] = m[c]
  <2>1. marked = Write(m, 0, 2, wide) /\ 0 \in {0, 2} /\ 2 - 0 = 2
    BY <1>2, <1>6 DEF WithEncoding
  <2>2. /\ marked \in [0..(d - 1) -> Digit] /\ Unsigned(marked, 0) = wide
        /\ \A c \in 0..(d - 1) : c # 0 /\ c # 0 + 1 => marked[c] = m[c]
        /\ Unsigned(marked, 2 - 0) = Unsigned(m, 2 - 0)
    BY <1>3, <1>5, <2>1, HeaderWrite
  <2>3. \A c \in 0..(d - 1) : 4 <= c => marked[c] = m[c]
    BY <2>2
  <2>4. Unsigned(marked, 2) = Unsigned(m, 2)
    BY <2>1, <2>2
  <2> QED
    BY <1>1, <2>2, <2>3, <2>4 DEF encoding, length
<1>8. /\ Holds(b, wide, n) /\ length(b) = length(marked)
      /\ \A c \in 0..(d - 1) : c < Place(n, wide) => b[c] = marked[c]
  <2>1. /\ d \in Nat /\ d >= 4 /\ marked \in [0..(d - 1) -> Digit] /\ wide \in Widths /\ encoding(marked) = wide
        /\ n \in Nat /\ b = intsetResize(marked, n, junk)
    BY <1>3, <1>5, <1>6, <1>7
  <2> QED
    BY <2>1, ResizeFacts
<1>9. d <= Place(n, wide) /\ Place(n, wide) \in Int
  <2>1. d <= Place(len, wide)
    BY <1>1, <1>3, <1>4, PlaceWider
  <2>2. Place(n, wide) = Place(len, wide) + wide /\ Place(len, wide) \in Int /\ wide \in 1..4
    BY <1>1, <1>3, <1>4, PlaceIs
  <2> QED
    BY <1>5, <2>1, <2>2
<1>10. ASSUME NEW c \in DOMAIN m, 4 <= c PROVE b[c] = m[c]
  <2>1. c \in 0..(d - 1) /\ c \in Int
    BY <1>1, <1>4
  <2>2. c < Place(n, wide)
    BY <1>5, <1>9, <2>1
  <2>3. b[c] = marked[c] /\ marked[c] = m[c]
    BY <1>7, <1>8, <1>10, <2>1, <2>2
  <2> QED
    BY <2>3
<1>11. y = Widened(m, b, v, Downwards(len))
  BY <1>1, <1>4, <1>6 DEF intsetUpgradeAndAdd
<1>12. Inserted(m, enc, len, y, wide, IF v < 0 THEN 0 ELSE len, v)
  <2>1. Holds(b, wide, len + 1) /\ length(b) = len /\ \A c \in DOMAIN m : 4 <= c => b[c] = m[c]
    BY <1>4, <1>7, <1>8, <1>10
  <2> QED
    BY <1>3, <1>11, <2>1, WidenedFacts
<1> QED
  BY <1>2, <1>12

-----------------------------------------------------------------------------
(* The search.                                                             *)

\* What the search answers: a value it finds is at position -1, one outside the range
\* of the set belongs before the first element or after the last.
Searched(m, len, v, f) ==
  /\ f.ends \in BOOLEAN /\ f.found \in BOOLEAN
  /\ f.ends /\ f.found => len >= 1 /\ f.pos = -1
  /\ f.ends /\ ~f.found => f.pos \in 0..len
  /\ Outside(m, v) => /\ f.ends /\ ~f.found
                      /\ \/ f.pos = len /\ (len = 0 \/ v > _intsetGet(m, len - 1))
                         \/ f.pos = 0 /\ len # 0 /\ v < _intsetGet(m, 0)

\* The range a search is left with, and whether it has found the value.
Ranges == [min : Int, max : Int, found : BOOLEAN]

SetsBounds(s, x, y) == [s EXCEPT !.min = x, !.max = y] = [min |-> x, max |-> y, found |-> s.found]

\* What an assignment to its fields makes of it.
LEMMA RangeSet ==
  ASSUME NEW s \in Ranges, NEW x \in Int, NEW y \in Int
  PROVE  /\ s.min = x => [s EXCEPT !.min = x] = s
         /\ SetsBounds(s, x, y)
         /\ [s EXCEPT !.min = x, !.found = TRUE] = [min |-> x, max |-> s.max, found |-> TRUE]
<1>1. PICK u : u = [s EXCEPT !.min = x]
  OBVIOUS
<1>2. u \in Ranges /\ u.min = x /\ u.max = s.max /\ u.found = s.found
  BY <1>1 DEF Ranges
<1>3. s.min = x => u = s
  BY <1>2 DEF Ranges
<1>4. [u EXCEPT !.max = y] = [min |-> x, max |-> y, found |-> s.found]
  BY <1>2 DEF Ranges
<1>5. [u EXCEPT !.found = TRUE] = [min |-> x, max |-> s.max, found |-> TRUE]
  <2>1. PICK b \in BOOLEAN : b = TRUE
    OBVIOUS
  <2>2. PICK w : w = [u EXCEPT !.found = b]
    OBVIOUS
  <2>3. w \in Ranges /\ w.min = x /\ w.max = s.max /\ w.found = b
    BY <1>2, <2>2 DEF Ranges
  <2>4. w = [min |-> x, max |-> s.max, found |-> b]
    BY <2>3 DEF Ranges
  <2> QED
    BY <2>1, <2>2, <2>4
<1> QED
  BY <1>1, <1>3, <1>4, <1>5 DEF SetsBounds

\* The loop decides in its first turn or never.
LEMMA LoopIs ==
  ASSUME NEW m, NEW v \in Int, _intsetGet(m, -1) \in Int, NEW len \in Nat, len >= 1, length(m) = len,
         ~(v > _intsetGet(m, len - 1)), ~(v < _intsetGet(m, 0))
  PROVE  \/ intsetSearch(m, v) = [ends |-> FALSE, found |-> FALSE, pos |-> 0]
         \/ intsetSearch(m, v) = [ends |-> TRUE, found |-> FALSE, pos |-> (len - 1) \div 2]
         \/ intsetSearch(m, v) = [ends |-> TRUE, found |-> TRUE, pos |-> -1]
<1> DEFINE Over(s) == s.max < s.min \/ s.found
           begin == [min |-> 0, max |-> len - 1, found |-> FALSE]
           turns == CHOOSE f : f = [k \in 0..(len + 1) |->
                      IF k = 0 THEN begin ELSE IF Over(f[k - 1]) THEN f[k - 1] ELSE Turn(m, v, f[k - 1])]
           last == turns[len + 1]
<1>1. intsetSearch(m, v) = [ends |-> Over(last), found |-> last.found, pos |-> IF last.found THEN -1 ELSE last.min]
  <2>1. len # 0
    OBVIOUS
  <2> QED
    BY <2>1 DEF intsetSearch
<1>2. PICK cur, middle, after : cur = _intsetGet(m, -1) /\ middle = (len - 1) \div 2 /\ after = Turn(m, v, begin)
  OBVIOUS
<1>3. middle \in Nat /\ middle <= len - 1
  BY <1>2
<1>4. ~Over(begin)
  OBVIOUS
<1>5. \/ after = begin
      \/ after = [min |-> middle, max |-> -2, found |-> FALSE]
      \/ after = [min |-> middle, max |-> len - 1, found |-> TRUE]
  <2>1. begin.min + begin.max = len - 1 /\ -1 + 1 = 0 /\ -1 - 1 = -2
    OBVIOUS
  <2>2. after = IF v > cur THEN [begin EXCEPT !.min = -1 + 1]
                ELSE IF v < cur THEN [begin EXCEPT !.min = middle, !.max = -1 - 1]
                ELSE [begin EXCEPT !.min = middle, !.found = TRUE]
    <3> HIDE DEF begin
    <3> QED
      BY <1>2, <2>1 DEF Turn
  <2>3. begin \in Ranges /\ begin.min = 0 /\ begin.max = len - 1 /\ begin.found = FALSE
    BY DEF Ranges
  <2>4. [begin EXCEPT !.min = 0] = begin
    BY <2>3, RangeSet
  <2>5. [begin EXCEPT !.min = middle, !.max = -2] = [min |-> middle, max |-> -2, found |-> FALSE]
    <3>1. middle \in Int /\ -2 \in Int
      BY <1>3
    <3>2. PICK top : top = -2
      OBVIOUS
    <3>3. [begin EXCEPT !.min = middle, !.max = top] = [min |-> middle, max |-> top, found |-> begin.found]
      <4>1. middle \in Int /\ top \in Int
        BY <3>1, <3>2
      <4>2. PICK s : s = begin
        OBVIOUS
      <4>3. s \in Ranges
        BY <2>3, <4>2
      <4>4. [s EXCEPT !.min = middle, !.max = top] = [min |-> middle, max |-> top, found |-> s.found]
        <5>1. SetsBounds(s, middle, top)
          BY <4>1, <4>3, RangeSet
        <5> QED
          BY <5>1 DEF SetsBounds
      <4> HIDE DEF begin
      <4> QED
        BY <4>2, <4>4
    <3> HIDE DEF begin
    <3> QED
      BY <2>3, <3>2, <3>3
  <2>6. [begin EXCEPT !.min = middle, !.found = TRUE] = [min |-> middle, max |-> len - 1, found |-> TRUE]
    <3>1. middle \in Int
      BY <1>3
    <3>2. [begin EXCEPT !.min = middle, !.found = TRUE] = [min |-> middle, max |-> begin.max, found |-> TRUE]
      <4> HIDE DEF begin
      <4> QED
        BY <2>3, <3>1, RangeSet
    <3> HIDE DEF begin
    <3> QED
      BY <2>3, <3>2
  <2> HIDE DEF begin
  <2> QED
    BY <2>1, <2>2, <2>4, <2>5, <2>6
<1>6. after = begin \/ Over(after)
  BY <1>3, <1>5
<1>7. turns = [k \in 0..(len + 1) |->
                IF k = 0 THEN begin ELSE IF Over(turns[k - 1]) THEN turns[k - 1] ELSE Turn(m, v, turns[k - 1])]
  <2> HIDE DEF Over, begin
  <2> DEFINE g == [k \in 0..(len + 1) |-> IF k = 0 THEN begin ELSE after]
  <2>1. ASSUME NEW k \in 0..(len + 1)
        PROVE  g[k] = IF k = 0 THEN begin ELSE IF Over(g[k - 1]) THEN g[k - 1] ELSE Turn(m, v, g[k - 1])
    <3>1. CASE k = 0
      BY <3>1
    <3>2. CASE k = 1
      <4>1. 0 \in 0..(len + 1) /\ k # 0 /\ k - 1 = 0
        BY <3>2
      <4>2. g[k] = after /\ g[k - 1] = begin
        BY <4>1
      <4> HIDE DEF g
      <4> QED
        BY <1>2, <1>4, <4>1, <4>2
    <3>3. CASE k # 0 /\ k # 1
      <4>1. k - 1 \in 0..(len + 1) /\ k - 1 # 0
        BY <3>3
      <4>2. g[k] = after /\ g[k - 1] = after
        BY <3>3, <4>1
      <4> HIDE DEF g
      <4> QED
        BY <1>2, <1>6, <3>3, <4>2
    <3> QED
      BY <3>1, <3>2, <3>3
  <2>2. g = [k \in 0..(len + 1) |->
               IF k = 0 THEN begin ELSE IF Over(g[k - 1]) THEN g[k - 1] ELSE Turn(m, v, g[k - 1])]
    BY <2>1
  <2> HIDE DEF g
  <2> QED
    BY <2>2
<1> HIDE DEF turns
<1>8. turns[1] = after
  <2> HIDE DEF Over, begin
  <2>1. 0 \in 0..(len + 1) /\ 1 \in 0..(len + 1) /\ 1 - 1 = 0 /\ 1 # 0
    OBVIOUS
  <2>2. turns[0] = begin
    BY <1>7, <2>1
  <2>3. turns[1] = IF Over(turns[0]) THEN turns[0] ELSE Turn(m, v, turns[0])
    BY <1>7, <2>1
  <2> QED
    BY <1>2, <1>4, <2>2, <2>3
<1>9. turns[len + 1] = after
  <2> HIDE DEF Over, begin
  <2> DEFINE N == {k \in Nat : k + 1 \in 0..(len + 1) => turns[k + 1] = after}
  <2>1. 0 \in N
    BY <1>8, 0 + 1 = 1
  <2>2. ASSUME NEW k \in Nat, k \in N PROVE k + 1 \in N
    <3>1. ASSUME (k + 1) + 1 \in 0..(len + 1) PROVE turns[(k + 1) + 1] = after
      <4>1. PICK j : j = (k + 1) + 1
        OBVIOUS
      <4>2. j \in 0..(len + 1) /\ j # 0 /\ j - 1 = k + 1 /\ k + 1 \in 0..(len + 1)
        BY <3>1, <4>1
      <4>3. turns[j - 1] = after
        BY <2>2, <4>2
      <4>4. turns[j] = IF Over(turns[j - 1]) THEN turns[j - 1] ELSE Turn(m, v, turns[j - 1])
        BY <1>7, <4>2
      <4> QED
        BY <1>2, <1>6, <4>1, <4>3, <4>4
    <3> QED
      BY <3>1
  <2> HIDE DEF N
  <2>3. Nat \subseteq N
    BY <2>1, <2>2, InductionOverNat
  <2>4. len \in Nat /\ len + 1 \in 0..(len + 1)
    OBVIOUS
  <2> QED
    BY <2>3, <2>4 DEF N
<1>10. intsetSearch(m, v) = [ends |-> Over(after), found |-> after.found, pos |-> IF after.found THEN -1 ELSE after.min]
  <2> HIDE DEF Over
  <2> QED
    BY <1>1, <1>9
<1>11. PICK a, b, c : a = Over(after) /\ b = after.found /\ c = IF after.found THEN -1 ELSE after.min
  OBVIOUS
<1>12. intsetSearch(m, v) = [ends |-> a, found |-> b, pos |-> c]
  BY <1>10, <1>11
<1>13. CASE after = begin
  <2>1. a = FALSE /\ b = FALSE /\ c = 0
    BY <1>4, <1>11, <1>13
  <2> QED
    BY <1>12, <2>1
<1>14. CASE after = [min |-> middle, max |-> -2, found |-> FALSE]
  <2>1. after.max = -2 /\ after.min = middle /\ after.found = FALSE
    BY <1>14
  <2>2. after.max < after.min
    BY <1>3, <2>1
  <2>3. a = TRUE /\ b = FALSE /\ c = middle
    BY <1>11, <2>1, <2>2
  <2> QED
    BY <1>2, <1>12, <2>3
<1>15. CASE after = [min |-> middle, max |-> len - 1, found |-> TRUE]
  <2>1. a = TRUE /\ b = TRUE /\ c = -1
    BY <1>3, <1>11, <1>15
  <2> QED
    BY <1>12, <2>1
<1> QED
  BY <1>5, <1>13, <1>14, <1>15

\* intsetSearch, for every set and every value.
LEMMA SearchIs ==
  ASSUME NEW m, NEW enc, NEW len, Block(m, enc, len), NEW v \in Int
  PROVE  Searched(m, len, v, intsetSearch(m, v))
<1>1. /\ Holds(m, enc, len) /\ length(m) = len /\ enc \in Widths /\ enc \in 1..4 /\ len \in Nat /\ encoding(m) = enc
  BY HoldsFields DEF Block
<1>2. PICK f : f = intsetSearch(m, v)
  OBVIOUS
<1>3. CASE len = 0
  <2>1. f = [ends |-> TRUE, found |-> FALSE, pos |-> 0]
    BY <1>1, <1>2, <1>3 DEF intsetSearch
  <2> QED
    BY <1>2, <1>3, <2>1 DEF Searched
<1>4. CASE len # 0 /\ v > _intsetGet(m, len - 1)
  <2>1. f = [ends |-> TRUE, found |-> FALSE, pos |-> len]
    BY <1>1, <1>2, <1>4 DEF intsetSearch
  <2> QED
    BY <1>1, <1>2, <1>4, <2>1 DEF Searched
<1>5. CASE len # 0 /\ ~(v > _intsetGet(m, len - 1)) /\ v < _intsetGet(m, 0)
  <2>1. f = [ends |-> TRUE, found |-> FALSE, pos |-> 0]
    BY <1>1, <1>2, <1>5 DEF intsetSearch
  <2> QED
    BY <1>1, <1>2, <1>5, <2>1 DEF Searched
<1>6. CASE len # 0 /\ ~(v > _intsetGet(m, len - 1)) /\ ~(v < _intsetGet(m, 0))
  <2>1. _intsetGet(m, -1) \in Int
    <3>1. -1 \in -1..(len - 1)
      BY <1>1
    <3> QED
      BY <1>1, <3>1, HeldElement DEF _intsetGet
  <2>2. len >= 1
    BY <1>1, <1>6
  <2>3. \/ f = [ends |-> FALSE, found |-> FALSE, pos |-> 0]
        \/ f = [ends |-> TRUE, found |-> FALSE, pos |-> (len - 1) \div 2]
        \/ f = [ends |-> TRUE, found |-> TRUE, pos |-> -1]
    BY <1>1, <1>2, <1>6, <2>1, <2>2, LoopIs
  <2>4. ~Outside(m, v)
    BY <1>1, <1>6 DEF Outside
  <2>5. (len - 1) \div 2 \in 0..len
    BY <1>1, <2>2
  <2>6. CASE f = [ends |-> FALSE, found |-> FALSE, pos |-> 0]
    BY <1>2, <2>4, <2>6 DEF Searched
  <2>7. CASE f = [ends |-> TRUE, found |-> FALSE, pos |-> (len - 1) \div 2]
    BY <1>2, <2>4, <2>5, <2>7 DEF Searched
  <2>8. CASE f = [ends |-> TRUE, found |-> TRUE, pos |-> -1]
    BY <1>2, <2>2, <2>4, <2>8 DEF Searched
  <2> QED
    BY <2>3, <2>6, <2>7, <2>8
<1> QED
  BY <1>3, <1>4, <1>5, <1>6

-----------------------------------------------------------------------------
(* The sequence of the elements.                                           *)

\* A sequence with one entry taken out.
LEMMA TakenOut ==
  ASSUME NEW S, NEW s \in Seq(S), NEW p \in 1..Len(s)
  PROVE  /\ RemoveAt(s, p) \in Seq(S) /\ Len(RemoveAt(s, p)) = Len(s) - 1
         /\ \A i \in 1..(Len(s) - 1) : RemoveAt(s, p)[i] = IF i < p THEN s[i] ELSE s[i + 1]
<1> DEFINE a == SubSeq(s, 1, p - 1)
           b == SubSeq(s, p + 1, Len(s))
<1>1. a \in Seq(S) /\ Len(a) = p - 1 /\ \A i \in 1..(p - 1) : a[i] = s[i]
  OBVIOUS
<1>2. b \in Seq(S) /\ Len(b) = Len(s) - p /\ \A i \in 1..(Len(s) - p) : b[i] = s[p + i]
  OBVIOUS
<1>3. RemoveAt(s, p) = a \o b
  BY DEF RemoveAt
<1> HIDE DEF a, b
<1>4. a \o b \in Seq(S) /\ Len(a \o b) = Len(a) + Len(b)
  <2> SUFFICES ASSUME a \in Seq(S), b \in Seq(S)
               PROVE  a \o b \in Seq(S) /\ Len(a \o b) = Len(a) + Len(b)
    BY <1>1, <1>2
  <2> QED
    OBVIOUS
<1>5. Len(a) + Len(b) = Len(s) - 1
  BY <1>1, <1>2
<1>6. ASSUME NEW i \in 1..(Len(s) - 1) PROVE (a \o b)[i] = IF i < p THEN s[i] ELSE s[i + 1]
  BY <1>1, <1>2
<1> QED
  BY <1>3, <1>4, <1>5, <1>6

\* t has the entries of s but the one at p.
Around(s, t, p) == \A i \in 1..Len(t) : (i < p => s[i] = t[i]) /\ (i >= p => s[i + 1] = t[i])

\* Then t is s without it.
LEMMA IsTakenOut ==
  ASSUME NEW S, NEW s \in Seq(S), NEW t \in Seq(S), NEW p \in 1..Len(s), Len(s) = Len(t) + 1, Around(s, t, p)
  PROVE  RemoveAt(s, p) = t
<1>1. PICK u, n : u = RemoveAt(s, p) /\ n = Len(t)
  OBVIOUS
<1>2. n \in Nat /\ Len(s) - 1 = n /\ p \in Int
  BY <1>1
<1>3. u \in Seq(S) /\ Len(u) = n /\ \A i \in 1..n : u[i] = IF i < p THEN s[i] ELSE s[i + 1]
  BY <1>1, <1>2, TakenOut
<1>4. \A i \in 1..n : u[i] = t[i]
  <2> SUFFICES ASSUME NEW i \in 1..n PROVE u[i] = t[i]
    OBVIOUS
  <2>1. i < p \/ i >= p
    BY <1>2
  <2>2. CASE i < p
    BY <1>1, <1>3, <2>2 DEF Around
  <2>3. CASE i >= p
    <3>1. ~(i < p)
      BY <1>2, <2>3
    <3> QED
      BY <1>1, <1>3, <2>3, <3>1 DEF Around
  <2> QED
    BY <2>1, <2>2, <2>3
<1> QED
  BY <1>1, <1>3, <1>4

\* The elements of a block are integers, and as many as its length.
LEMMA ElementsAre ==
  ASSUME NEW m, NEW enc, NEW len, Block(m, enc, len)
  PROVE  /\ Elements(m) \in Seq(Int) /\ Len(Elements(m)) = len /\ len \in Nat
         /\ \A k \in 1..len : Elements(m)[k] = _intsetGetEncoded(m, k - 1, enc)
<1>1. Holds(m, enc, len) /\ length(m) = len /\ len \in Nat /\ encoding(m) = enc
  BY HoldsFields DEF Block
<1>2. PICK f : f = Elements(m)
  OBVIOUS
<1>3. f = [k \in 1..len |-> _intsetGetEncoded(m, k - 1, enc)]
  BY <1>1, <1>2 DEF Elements, _intsetGet
<1>4. \A k \in 1..len : _intsetGetEncoded(m, k - 1, enc) \in Int
  <2>1. \A k \in 1..len : k - 1 \in -1..(len - 1)
    BY <1>1
  <2> QED
    BY <1>1, <2>1, HeldElement
<1>5. \A k \in 1..len : f[k] = _intsetGetEncoded(m, k - 1, enc) /\ f[k] \in Int
  BY <1>3, <1>4
<1>6. f \in [1..len -> Int]
  BY <1>3, <1>4
<1>7. f \in Seq(Int) /\ Len(f) = len
  BY <1>1, <1>6
<1> QED
  BY <1>1, <1>2, <1>5, <1>7

\* An insertion is one in the sequence.
LEMMA InsertedSeq ==
  ASSUME NEW m, NEW enc, NEW len, Block(m, enc, len), NEW y, NEW wide, NEW pos \in 0..len, NEW v,
         Inserted(m, enc, len, y, wide, pos, v)
  PROVE  /\ Len(Elements(y)) > Len(Elements(m)) /\ pos + 1 \in DOMAIN Elements(y)
         /\ Elements(y)[pos + 1] = v /\ RemoveAt(Elements(y), pos + 1) = Elements(m)
<1>1. PICK s, t, p : s = Elements(y) /\ t = Elements(m) /\ p = pos + 1
  OBVIOUS
<1>2. t \in Seq(Int) /\ Len(t) = len /\ len \in Nat /\ \A k \in 1..len : t[k] = _intsetGetEncoded(m, k - 1, enc)
  BY <1>1, ElementsAre
<1>3. s \in Seq(Int) /\ Len(s) = len + 1 /\ \A k \in 1..(len + 1) : s[k] = _intsetGetEncoded(y, k - 1, wide)
  BY <1>1, ElementsAre DEF Inserted
<1>4. p \in 1..Len(s) /\ p - 1 = pos /\ p \in DOMAIN s
  BY <1>1, <1>2, <1>3
<1>5. s[p] = v
  BY <1>3, <1>4 DEF Inserted
<1>6. ASSUME NEW i \in 1..Len(t) PROVE (i < p => s[i] = t[i]) /\ (i >= p => s[i + 1] = t[i])
  <2>1. i \in 1..(len + 1) /\ i + 1 \in 1..(len + 1) /\ (i + 1) - 1 = (i - 1) + 1 /\ i - 1 \in 0..(len - 1) /\ i \in 1..len
    BY <1>2
  <2>2. (i < p => i - 1 < pos) /\ (i >= p => i - 1 >= pos)
    BY <1>1, <1>2
  <2>3. /\ i - 1 < pos => _intsetGetEncoded(y, i - 1, wide) = _intsetGetEncoded(m, i - 1, enc)
        /\ i - 1 >= pos => _intsetGetEncoded(y, (i - 1) + 1, wide) = _intsetGetEncoded(m, i - 1, enc)
    <3>1. PICK k : k = i - 1
      OBVIOUS
    <3>2. k \in 0..(len - 1)
      BY <2>1, <3>1
    <3>3. /\ k < pos => _intsetGetEncoded(y, k, wide) = _intsetGetEncoded(m, k, enc)
          /\ k >= pos => _intsetGetEncoded(y, k + 1, wide) = _intsetGetEncoded(m, k, enc)
      BY <3>2 DEF Inserted
    <3> QED
      BY <3>1, <3>3
  <2>4. /\ s[i] = _intsetGetEncoded(y, i - 1, wide) /\ s[i + 1] = _intsetGetEncoded(y, (i - 1) + 1, wide)
        /\ t[i] = _intsetGetEncoded(m, i - 1, enc)
    BY <1>2, <1>3, <2>1
  <2> QED
    BY <2>2, <2>3, <2>4
<1>7. RemoveAt(s, p) = t
  <2>1. Len(s) = Len(t) + 1
    BY <1>2, <1>3
  <2>2. Around(s, t, p)
    BY <1>6 DEF Around
  <2> QED
    BY <1>2, <1>3, <1>4, <2>1, <2>2, IsTakenOut
<1> QED
  BY <1>1, <1>2, <1>3, <1>4, <1>5, <1>7

\* The first len - 1 elements stay.
Shortened(m, enc, len, y) ==
  /\ Block(y, enc, len - 1)
  /\ \A k \in 0..(len - 2) : _intsetGetEncoded(y, k, enc) = _intsetGetEncoded(m, k, enc)

\* A removal takes the last one.
LEMMA ShortenedSeq ==
  ASSUME NEW m, NEW enc, NEW len, Block(m, enc, len), len >= 1, NEW y, Shortened(m, enc, len, y)
  PROVE  /\ Len(Elements(y)) < Len(Elements(m)) /\ len \in DOMAIN Elements(m)
         /\ RemoveAt(Elements(m), len) = Elements(y)
<1>1. PICK s, t, n : s = Elements(m) /\ t = Elements(y) /\ n = len - 1
  OBVIOUS
<1>2. s \in Seq(Int) /\ Len(s) = len /\ len \in Nat /\ \A k \in 1..len : s[k] = _intsetGetEncoded(m, k - 1, enc)
  BY <1>1, ElementsAre
<1>3. t \in Seq(Int) /\ Len(t) = n /\ \A k \in 1..n : t[k] = _intsetGetEncoded(y, k - 1, enc)
  <2>1. Block(y, enc, n)
    BY <1>1 DEF Shortened
  <2> QED
    BY <1>1, <2>1, ElementsAre
<1>4. n \in Nat /\ len = n + 1 /\ len \in 1..Len(s) /\ len \in DOMAIN s /\ Len(s) = Len(t) + 1
  BY <1>1, <1>2, <1>3
<1>5. ASSUME NEW i \in 1..Len(t) PROVE (i < len => s[i] = t[i]) /\ (i >= len => s[i + 1] = t[i])
  <2>1. i \in 1..n /\ i \in 1..len /\ ~(i >= len) /\ i - 1 \in 0..(len - 2)
    BY <1>2, <1>3, <1>4
  <2>2. s[i] = _intsetGetEncoded(m, i - 1, enc) /\ t[i] = _intsetGetEncoded(y, i - 1, enc)
    BY <1>2, <1>3, <2>1
  <2>3. _intsetGetEncoded(y, i - 1, enc) = _intsetGetEncoded(m, i - 1, enc)
    BY <2>1 DEF Shortened
  <2> QED
    BY <2>1, <2>2, <2>3
<1>6. RemoveAt(s, len) = t
  <2>1. Around(s, t, len)
    BY <1>5 DEF Around
  <2> QED
    BY <1>2, <1>3, <1>4, <2>1, IsTakenOut
<1> QED
  BY <1>1, <1>2, <1>3, <1>4, <1>6

-----------------------------------------------------------------------------
(* The order of the elements.                                              *)

Sorted(m, enc, len) ==
  \A k \in 1..(len - 1) : _intsetGetEncoded(m, k - 1, enc) < _intsetGetEncoded(m, k, enc)

\* v belongs behind the last element or in front of the first.
AtEnd(m, enc, len, pos, v) ==
  \/ pos = len /\ (len # 0 => _intsetGetEncoded(m, len - 1, enc) < v)
  \/ pos = 0 /\ len # 0 /\ v < _intsetGetEncoded(m, 0, enc)

\* A value put there keeps the order.
LEMMA InsertedSorted ==
  ASSUME NEW m, NEW enc, NEW len \in Nat, Sorted(m, enc, len), NEW y, NEW wide, NEW pos \in 0..len, NEW v,
         Inserted(m, enc, len, y, wide, pos, v), AtEnd(m, enc, len, pos, v)
  PROVE  Sorted(y, wide, len + 1)
<1> SUFFICES ASSUME NEW k \in 1..len PROVE _intsetGetEncoded(y, k - 1, wide) < _intsetGetEncoded(y, k, wide)
  <2>1. (len + 1) - 1 = len
    OBVIOUS
  <2> QED
    BY <2>1 DEF Sorted
<1>1. _intsetGetEncoded(y, pos, wide) = v
  BY DEF Inserted
<1>2. \A j \in 0..(len - 1) : j < pos => _intsetGetEncoded(y, j, wide) = _intsetGetEncoded(m, j, enc)
  BY DEF Inserted
<1>3. \A j \in 0..(len - 1) : j >= pos => _intsetGetEncoded(y, j + 1, wide) = _intsetGetEncoded(m, j, enc)
  BY DEF Inserted
<1>4. CASE pos = len /\ _intsetGetEncoded(m, len - 1, enc) < v
  <2>1. k - 1 \in 0..(len - 1) /\ k - 1 < pos
    BY <1>4
  <2>2. _intsetGetEncoded(y, k - 1, wide) = _intsetGetEncoded(m, k - 1, enc)
    BY <1>2, <2>1
  <2>3. CASE k = len
    BY <1>1, <1>4, <2>2, <2>3
  <2>4. CASE k # len
    <3>1. k \in 0..(len - 1) /\ k < pos /\ k \in 1..(len - 1)
      BY <1>4, <2>4
    <3>2. _intsetGetEncoded(y, k, wide) = _intsetGetEncoded(m, k, enc)
      BY <1>2, <3>1
    <3> QED
      BY <2>2, <3>1, <3>2 DEF Sorted
  <2> QED
    BY <2>3, <2>4
<1>5. CASE pos = 0 /\ len # 0 /\ v < _intsetGetEncoded(m, 0, enc)
  <2>1. PICK j : j = k - 1
    OBVIOUS
  <2>2. j \in 0..(len - 1) /\ j >= pos /\ j + 1 = k
    BY <1>5, <2>1
  <2>3. _intsetGetEncoded(y, k, wide) = _intsetGetEncoded(m, j, enc)
    BY <1>3, <2>2
  <2>4. CASE j = 0
    BY <1>1, <1>5, <2>1, <2>3, <2>4
  <2>5. CASE j # 0
    <3>1. PICK i : i = j - 1
      OBVIOUS
    <3>2. i \in 0..(len - 1) /\ i >= pos /\ i + 1 = j /\ j \in 1..(len - 1)
      BY <1>5, <2>2, <2>5, <3>1
    <3>3. _intsetGetEncoded(y, j, wide) = _intsetGetEncoded(m, i, enc)
      BY <1>3, <3>2
    <3>4. _intsetGetEncoded(m, i, enc) < _intsetGetEncoded(m, j, enc)
      BY <3>1, <3>2 DEF Sorted
    <3> QED
      BY <2>1, <2>3, <3>3, <3>4
  <2> QED
    BY <2>4, <2>5
<1>6. len # 0
  OBVIOUS
<1> QED
  BY <1>4, <1>5, <1>6 DEF AtEnd

\* So does a removal.
LEMMA ShortenedSorted ==
  ASSUME NEW m, NEW enc, NEW len \in Nat, len >= 1, Sorted(m, enc, len), NEW y, Shortened(m, enc, len, y)
  PROVE  Sorted(y, enc, len - 1)
<1> SUFFICES ASSUME NEW k \in 1..((len - 1) - 1)
             PROVE  _intsetGetEncoded(y, k - 1, enc) < _intsetGetEncoded(y, k, enc)
  BY DEF Sorted
<1>1. PICK j : j = k - 1
  OBVIOUS
<1>2. k \in 0..(len - 2) /\ j \in 0..(len - 2) /\ k \in 1..(len - 1)
  BY <1>1
<1>3. /\ _intsetGetEncoded(y, j, enc) = _intsetGetEncoded(m, j, enc)
      /\ _intsetGetEncoded(y, k, enc) = _intsetGetEncoded(m, k, enc)
  BY <1>2 DEF Shortened
<1>4. _intsetGetEncoded(m, j, enc) < _intsetGetEncoded(m, k, enc)
  BY <1>1, <1>2 DEF Sorted
<1> QED
  BY <1>1, <1>3, <1>4

\* A value that does not fit belongs at an end.
LEMMA TooWide ==
  ASSUME NEW m, NEW enc, NEW len, Block(m, enc, len), NEW v \in Int, ~Fits(v, enc)
  PROVE  AtEnd(m, enc, len, IF v < 0 THEN 0 ELSE len, v)
<1>1. Holds(m, enc, len) /\ len \in Nat /\ enc \in 1..4
  BY HoldsFields DEF Block
<1>2. PICK h : h = Half[enc]
  OBVIOUS
<1>3. h \in Nat /\ v \notin -h..(h - 1)
  BY <1>1, <1>2, HalfIs DEF Fits
<1>4. ASSUME NEW k \in 0..(len - 1)
      PROVE  (v < 0 => v < _intsetGetEncoded(m, k, enc)) /\ (~(v < 0) => _intsetGetEncoded(m, k, enc) < v)
  <2>1. PICK x : x = _intsetGetEncoded(m, k, enc)
    OBVIOUS
  <2>2. k \in -1..(len - 1)
    BY <1>1
  <2>3. x \in Int /\ Fits(x, enc)
    BY <1>1, <2>1, <2>2, HeldElement
  <2>4. x \in -h..(h - 1)
    BY <1>2, <2>3 DEF Fits
  <2> QED
    BY <1>3, <2>1, <2>3, <2>4
<1>5. CASE len = 0
  BY <1>5 DEF AtEnd
<1>6. CASE len # 0
  <2>1. 0 \in 0..(len - 1) /\ len - 1 \in 0..(len - 1)
    BY <1>1, <1>6
  <2>2. CASE v < 0
    BY <1>4, <1>6, <2>1, <2>2 DEF AtEnd
  <2>3. CASE ~(v < 0)
    BY <1>4, <1>6, <2>1, <2>3 DEF AtEnd
  <2> QED
    BY <2>2, <2>3
<1> QED
  BY <1>5, <1>6

-----------------------------------------------------------------------------
(* The steps.                                                              *)

\* A set that all values were added to outside its range is in order.
Good(m, in) ==
  /\ Block(m, encoding(m), length(m)) /\ length(m) \in 0..MaxLength
  /\ ~in => Sorted(m, encoding(m), length(m))

\* The inductive invariant.
IInv == Good(is, inside) /\ ret.success \in BOOLEAN /\ looping \in BOOLEAN /\ inside \in BOOLEAN

\* One value more, one element less, or the same.
OneStep ==
  LET before == Elements(is)
      after == Elements(is')
  IN  \/ /\ ret'.success /\ Len(after) > Len(before)
         /\ \E p \in DOMAIN after : after[p] = ret'.value /\ RemoveAt(after, p) = before
      \/ /\ ret'.success /\ Len(after) < Len(before)
         /\ \E p \in DOMAIN before : RemoveAt(before, p) = after
      \/ after = before

\* The fields of such a block are its encoding and its length.
LEMMA GoodIs ==
  ASSUME NEW m, NEW enc, NEW len, Block(m, enc, len), len \in 0..MaxLength, NEW in, ~in => Sorted(m, enc, len)
  PROVE  Good(m, in)
<1>1. encoding(m) = enc /\ length(m) = len
  BY HoldsFields DEF Block
<1> QED
  BY <1>1 DEF Good

\* And the other way round.
LEMMA GoodFields ==
  ASSUME NEW m, NEW in, Good(m, in)
  PROVE  \E enc, len : /\ enc = encoding(m) /\ len = length(m) /\ Block(m, enc, len) /\ Holds(m, enc, len)
                       /\ enc \in Widths /\ len \in 0..MaxLength /\ len \in Nat /\ (~in => Sorted(m, enc, len))
<1>1. PICK enc, len : enc = encoding(m) /\ len = length(m)
  OBVIOUS
<1>2. Block(m, enc, len) /\ len \in 0..MaxLength /\ (~in => Sorted(m, enc, len))
  BY <1>1 DEF Good
<1>3. Holds(m, enc, len) /\ enc \in Widths /\ len \in Nat
  BY <1>2, HoldsFields DEF Block
<1> QED
  BY <1>1, <1>2, <1>3

\* intsetNew.
LEMMA InitGood ==
  ASSUME Init
  PROVE  IInv
<1>1. PICK blank : blank = [c \in 0..3 |-> 0]
  OBVIOUS
<1>2. blank \in [0..(4 - 1) -> Digit] /\ Unsigned(blank, 2) = 0
  <2>1. blank \in [0..(4 - 1) -> Digit]
    BY <1>1, BaseIs
  <2>2. blank[2] = 0 /\ blank[2 + 1] = 0
    BY <1>1
  <2>3. Base * 0 = 0
    BY BaseIs
  <2> QED
    BY <2>1, <2>2, <2>3 DEF Unsigned
<1>3. is = Write(blank, 0, 2, 1)
  <2>1. Header - 1 = 3
    BY DEF Header
  <2> QED
    BY <1>1, <2>1 DEF Init, intsetNew
<1>4. is \in [0..(4 - 1) -> Digit] /\ encoding(is) = 1 /\ length(is) = 0
  <2>1. Countable(1) /\ 0 \in {0, 2} /\ 4 \in Nat /\ 4 >= 4 /\ 2 - 0 = 2
    BY CountableFits
  <2>2. /\ is \in [0..(4 - 1) -> Digit] /\ Unsigned(is, 0) = 1
        /\ \A c \in 0..(4 - 1) : c # 0 /\ c # 0 + 1 => is[c] = blank[c]
        /\ Unsigned(is, 2 - 0) = Unsigned(blank, 2 - 0)
    <3>1. PICK d, at, v, y : d = 4 /\ at = 0 /\ v = 1 /\ y = is
      OBVIOUS
    <3>2. /\ d \in Nat /\ d >= 4 /\ blank \in [0..(d - 1) -> Digit] /\ at \in {0, 2} /\ Countable(v)
          /\ y = Write(blank, at, 2, v)
      BY <1>2, <1>3, <2>1, <3>1
    <3>3. /\ y \in [0..(d - 1) -> Digit] /\ Unsigned(y, at) = v
          /\ \A c \in 0..(d - 1) : c # at /\ c # at + 1 => y[c] = blank[c]
          /\ Unsigned(y, 2 - at) = Unsigned(blank, 2 - at)
      BY <3>2, HeaderWrite
    <3> QED
      BY <3>1, <3>3
  <2> QED
    BY <1>2, <2>1, <2>2 DEF encoding, length
<1>5. Block(is, 1, 0)
  <2>1. 1 \in Widths /\ Place(0, 1) = 4
    BY PlaceIs DEF Widths
  <2> QED
    BY <1>4, <2>1 DEF Block, Holds
<1>6. Sorted(is, 1, 0)
  BY DEF Sorted
<1>7. Good(is, inside)
  <2>1. 0 \in 0..MaxLength
    BY LengthAssumption
  <2> QED
    BY <1>5, <1>6, <2>1, GoodIs
<1> QED
  BY <1>7 DEF IInv, Init

\* What a successful intsetAdd leaves.
LEMMA Added ==
  ASSUME IInv, NEW v \in Value, NEW enc, NEW len, Block(is, enc, len), len < MaxLength, len \in Nat,
         ~inside => Sorted(is, enc, len),
         NEW wide, NEW pos \in 0..len, Inserted(is, enc, len, is', wide, pos, v),
         ~inside' => ~inside /\ AtEnd(is, enc, len, pos, v),
         ret' = [value |-> v, success |-> TRUE]
  PROVE  Good(is', inside') /\ OneStep
<1>1. len + 1 \in 0..MaxLength
  BY LengthAssumption
<1>2. Block(is', wide, len + 1)
  BY DEF Inserted
<1>3. ~inside' => Sorted(is', wide, len + 1)
  BY InsertedSorted
<1>4. Good(is', inside')
  <2>1. PICK n : n = len + 1
    OBVIOUS
  <2>2. Block(is', wide, n) /\ n \in 0..MaxLength /\ (~inside' => Sorted(is', wide, n))
    BY <1>1, <1>2, <1>3, <2>1
  <2> QED
    BY <2>2, GoodIs
<1>5. /\ Len(Elements(is')) > Len(Elements(is)) /\ pos + 1 \in DOMAIN Elements(is')
      /\ Elements(is')[pos + 1] = v /\ RemoveAt(Elements(is'), pos + 1) = Elements(is)
  BY InsertedSeq
<1>6. ret'.success /\ ret'.value = v
  OBVIOUS
<1>7. OneStep
  BY <1>5, <1>6 DEF OneStep
<1> QED
  BY <1>4, <1>7

\* A call that leaves the set alone.
LEMMA Unchanged ==
  ASSUME IInv, is' = is, inside' = inside
  PROVE  Good(is', inside') /\ inside' \in BOOLEAN /\ OneStep
<1>1. Elements(is') = Elements(is)
  BY DEF Elements, length, Unsigned, _intsetGet, _intsetGetEncoded, encoding
<1> QED
  BY <1>1 DEF IInv, OneStep

\* intsetAdd: widened, put in, found, or searching without end.
LEMMA AddStep ==
  ASSUME IInv, NEW value \in Value, intsetAdd(value)
  PROVE  IInv' /\ OneStep
<1>1. PICK enc, len : /\ enc = encoding(is) /\ len = length(is) /\ Block(is, enc, len) /\ Holds(is, enc, len)
                      /\ enc \in Widths /\ len \in 0..MaxLength /\ len \in Nat /\ (~inside => Sorted(is, enc, len))
  BY GoodFields DEF IInv
<1>2. PICK found : found = intsetSearch(is, value)
  OBVIOUS
<1>3. /\ _intsetValueEncoding(value) \in Widths /\ value \in Int
      /\ Fits(value, _intsetValueEncoding(value))
      /\ _intsetValueEncoding(value) <= enc <=> Fits(value, enc)
  BY <1>1, EncodingFits
<1>4. Searched(is, len, value, found)
  BY <1>1, <1>2, <1>3, SearchIs
<1>5. len < MaxLength /\ looping = FALSE
  BY <1>1 DEF intsetAdd, IInv
<1>6. Countable(len + 1)
  <2>1. len + 1 \in 0..MaxLength
    BY <1>1, <1>5, LengthAssumption
  <2> QED
    BY <2>1, CountableFits
<1>7. 0 \in Digit /\ Base - 1 \in Digit
  BY BaseIs DEF Digit
<1>8. ASSUME _intsetValueEncoding(value) > enc,
             NEW junk \in {0, Base - 1}, is' = intsetUpgradeAndAdd(is, value, junk),
             ret' = [value |-> value, success |-> TRUE], looping' = looping, inside' = inside
      PROVE  IInv' /\ OneStep
  <2>1. PICK wide, pos : wide = _intsetValueEncoding(value) /\ pos = IF value < 0 THEN 0 ELSE len
    OBVIOUS
  <2>2. pos \in 0..len
    BY <1>1, <2>1
  <2>3. enc <= _intsetValueEncoding(value) /\ ~Fits(value, enc)
    <3>1. wide \in Int /\ enc \in Int /\ wide > enc
      BY <1>1, <1>3, <1>8, <2>1 DEF Widths
    <3> QED
      BY <1>3, <2>1, <3>1
  <2>4. Inserted(is, enc, len, is', wide, pos, value)
    <3>1. junk \in Digit
      BY <1>7
    <3>2. Inserted(is, enc, len, is', _intsetValueEncoding(value), IF value < 0 THEN 0 ELSE len, value)
      BY <1>1, <1>6, <1>8, <2>3, <3>1, UpgradeFacts
    <3> QED
      BY <2>1, <3>2
  <2>5. AtEnd(is, enc, len, pos, value)
    <3>1. AtEnd(is, enc, len, IF value < 0 THEN 0 ELSE len, value)
      BY <1>1, <1>3, <2>3, TooWide
    <3> QED
      BY <2>1, <3>1
  <2>6. Good(is', inside') /\ OneStep
    BY <1>1, <1>5, <1>8, <2>2, <2>4, <2>5, Added
  <2> QED
    BY <1>8, <2>6 DEF IInv
<1>9. ASSUME _intsetValueEncoding(value) <= enc, found.ends, ~found.found,
             NEW junk \in {0, Base - 1},
             NEW room, room = intsetResize(is, len + 1, junk),
             NEW open, open = IF found.pos < len THEN intsetMoveTail(room, found.pos, found.pos + 1) ELSE room,
             is' = SetLength(_intsetSet(open, found.pos, value), len + 1),
             ret' = [value |-> value, success |-> TRUE], inside' = (inside \/ ~Outside(is, value)), looping' = looping
      PROVE  IInv' /\ OneStep
  <2>1. PICK pos : pos = found.pos
    OBVIOUS
  <2>2. pos \in 0..len
    BY <1>4, <1>9, <2>1 DEF Searched
  <2>3. Inserted(is, enc, len, is', enc, pos, value)
    <3>1. junk \in Digit
      BY <1>7
    <3>2. Fits(value, enc)
      BY <1>3, <1>9
    <3>3. /\ open = IF pos < len THEN intsetMoveTail(room, pos, pos + 1) ELSE room
          /\ is' = SetLength(_intsetSet(open, pos, value), len + 1)
      BY <1>9, <2>1
    <3> QED
      BY <1>1, <1>6, <1>9, <2>2, <3>1, <3>2, <3>3, AddFacts
  <2>4. ASSUME ~inside' PROVE ~inside /\ AtEnd(is, enc, len, pos, value)
    <3>1. ~inside /\ Outside(is, value)
      BY <1>9, <2>4
    <3>2. \/ pos = len /\ (len = 0 \/ value > _intsetGet(is, len - 1))
          \/ pos = 0 /\ len # 0 /\ value < _intsetGet(is, 0)
      BY <1>4, <2>1, <3>1 DEF Searched
    <3>3. /\ _intsetGet(is, len - 1) = _intsetGetEncoded(is, len - 1, enc)
          /\ _intsetGet(is, 0) = _intsetGetEncoded(is, 0, enc)
      BY <1>1 DEF _intsetGet
    <3>4. len # 0 => _intsetGetEncoded(is, len - 1, enc) \in Int
      <4>1. len # 0 => len - 1 \in -1..(len - 1)
        BY <1>1
      <4> QED
        BY <1>1, <4>1, HeldElement
    <3> QED
      BY <1>3, <3>1, <3>2, <3>3, <3>4 DEF AtEnd
  <2>5. Good(is', inside') /\ OneStep
    BY <1>1, <1>5, <1>9, <2>2, <2>3, <2>4, Added
  <2>6. inside' \in BOOLEAN
    BY <1>9
  <2> QED
    BY <1>9, <2>5, <2>6 DEF IInv
<1>10. ASSUME UNCHANGED <<is, inside>>, ret'.success \in BOOLEAN, looping' \in BOOLEAN
       PROVE  IInv' /\ OneStep
  BY <1>10, Unchanged DEF IInv
<1>11. CASE _intsetValueEncoding(value) > enc /\ ret' = [value |-> value, success |-> TRUE]
            /\ (\E junk \in {0, Base - 1} : is' = intsetUpgradeAndAdd(is, value, junk)) /\ UNCHANGED <<looping, inside>>
  BY <1>8, <1>11
<1>12. CASE Hang
  <2>1. UNCHANGED <<is, inside>> /\ ret'.success \in BOOLEAN /\ looping' \in BOOLEAN
    BY <1>12 DEF Hang, IInv
  <2> QED
    BY <1>10, <2>1
<1>13. CASE Fails /\ UNCHANGED <<is, looping, inside>>
  <2>1. UNCHANGED <<is, inside>> /\ ret'.success \in BOOLEAN /\ looping' \in BOOLEAN
    BY <1>13 DEF Fails, Ret, IInv
  <2> QED
    BY <1>10, <2>1
<1>14. CASE /\ _intsetValueEncoding(value) <= enc /\ found.ends /\ ~found.found
            /\ \E junk \in {0, Base - 1} :
                 LET room == intsetResize(is, len + 1, junk)
                     open == IF found.pos < len THEN intsetMoveTail(room, found.pos, found.pos + 1) ELSE room
                 IN  is' = SetLength(_intsetSet(open, found.pos, value), len + 1)
            /\ Ret(value, TRUE)
            /\ inside' = (inside \/ ~Outside(is, value))
            /\ UNCHANGED looping
  <2>1. PICK junk \in {0, Base - 1} :
          LET room == intsetResize(is, len + 1, junk)
              open == IF found.pos < len THEN intsetMoveTail(room, found.pos, found.pos + 1) ELSE room
          IN  is' = SetLength(_intsetSet(open, found.pos, value), len + 1)
    BY <1>14
  <2>2. PICK room : room = intsetResize(is, len + 1, junk)
    OBVIOUS
  <2>3. PICK open : open = IF found.pos < len THEN intsetMoveTail(room, found.pos, found.pos + 1) ELSE room
    OBVIOUS
  <2>4. is' = SetLength(_intsetSet(open, found.pos, value), len + 1)
    BY <2>1, <2>2, <2>3
  <2>5. ret' = [value |-> value, success |-> TRUE]
    BY <1>14 DEF Ret
  <2> QED
    BY <1>9, <1>14, <2>2, <2>3, <2>4, <2>5
<1> QED
  BY <1>1, <1>2, <1>11, <1>12, <1>13, <1>14 DEF intsetAdd, Ret

\* intsetRemove: what it finds is at -1, so that the last element goes.
LEMMA RemoveStep ==
  ASSUME IInv, NEW value \in Value, intsetRemove(value)
  PROVE  IInv' /\ OneStep
<1>1. PICK enc, len : /\ enc = encoding(is) /\ len = length(is) /\ Block(is, enc, len) /\ Holds(is, enc, len)
                      /\ enc \in Widths /\ len \in 0..MaxLength /\ len \in Nat /\ (~inside => Sorted(is, enc, len))
  BY GoodFields DEF IInv
<1>2. PICK found : found = intsetSearch(is, value)
  OBVIOUS
<1>3. Searched(is, len, value, found)
  <2>1. value \in Int
    BY EncodingFits
  <2> QED
    BY <1>1, <1>2, <2>1, SearchIs
<1>4. ASSUME UNCHANGED <<is, inside>>, ret'.success \in BOOLEAN, looping' \in BOOLEAN
      PROVE  IInv' /\ OneStep
  BY <1>4, Unchanged DEF IInv
<1>5. ASSUME found.ends, found.found, NEW junk \in {0, Base - 1},
             NEW closed, closed = IF found.pos \in 0..(len - 2) THEN intsetMoveTail(is, found.pos + 1, found.pos) ELSE is,
             is' = SetLength(intsetResize(closed, len - 1, junk), len - 1),
             ret' = [value |-> 0, success |-> TRUE], UNCHANGED <<looping, inside>>
      PROVE  IInv' /\ OneStep
  <2>1. len >= 1 /\ found.pos = -1
    BY <1>3, <1>5 DEF Searched
  <2>2. closed = is
    <3>1. -1 \notin 0..(len - 2)
      BY <1>1
    <3> QED
      BY <1>5, <2>1, <3>1
  <2>3. PICK n : n = len - 1
    OBVIOUS
  <2>4. n \in 0..MaxLength /\ Countable(n) /\ junk \in Digit
    <3>1. n \in 0..MaxLength
      BY <1>1, <2>1, <2>3, LengthAssumption
    <3>2. junk \in Digit
      BY BaseIs DEF Digit
    <3> QED
      BY <3>1, <3>2, CountableFits
  <2>5. Shortened(is, enc, len, is')
    <3>1. Countable(len - 1) /\ is' = SetLength(intsetResize(is, len - 1, junk), len - 1)
      BY <1>5, <2>2, <2>3, <2>4
    <3>2. /\ Block(is', enc, len - 1)
          /\ \A k \in 0..(len - 2) : _intsetGetEncoded(is', k, enc) = _intsetGetEncoded(is, k, enc)
      BY <1>1, <2>1, <2>4, <3>1, RemoveFacts
    <3> QED
      BY <3>2 DEF Shortened
  <2>6. Good(is', inside')
    <3>1. Block(is', enc, n)
      BY <2>3, <2>5 DEF Shortened
    <3>2. ~inside' => Sorted(is', enc, n)
      BY <1>1, <1>5, <2>1, <2>3, <2>5, ShortenedSorted
    <3> QED
      BY <2>4, <3>1, <3>2, GoodIs
  <2>7. OneStep
    <3>1. /\ Len(Elements(is')) < Len(Elements(is)) /\ len \in DOMAIN Elements(is)
          /\ RemoveAt(Elements(is), len) = Elements(is')
      BY <1>1, <2>1, <2>5, ShortenedSeq
    <3>2. ret'.success
      BY <1>5
    <3> QED
      BY <3>1, <3>2 DEF OneStep
  <2> QED
    BY <1>5, <2>6, <2>7 DEF IInv
<1>6. CASE Hang
  <2>1. UNCHANGED <<is, inside>> /\ ret'.success \in BOOLEAN /\ looping' \in BOOLEAN
    BY <1>6 DEF Hang, IInv
  <2> QED
    BY <1>4, <2>1
<1>7. CASE Fails /\ UNCHANGED <<is, looping, inside>>
  <2>1. UNCHANGED <<is, inside>> /\ ret'.success \in BOOLEAN /\ looping' \in BOOLEAN
    BY <1>7 DEF Fails, Ret, IInv
  <2> QED
    BY <1>4, <2>1
<1>8. CASE /\ found.ends /\ found.found
           /\ \E junk \in {0, Base - 1} :
                LET closed == IF found.pos \in 0..(len - 2) THEN intsetMoveTail(is, found.pos + 1, found.pos) ELSE is
                IN  is' = SetLength(intsetResize(closed, len - 1, junk), len - 1)
           /\ Ret(0, TRUE)
           /\ UNCHANGED <<looping, inside>>
  <2>1. PICK junk \in {0, Base - 1} :
          LET closed == IF found.pos \in 0..(len - 2) THEN intsetMoveTail(is, found.pos + 1, found.pos) ELSE is
          IN  is' = SetLength(intsetResize(closed, len - 1, junk), len - 1)
    BY <1>8
  <2>2. PICK closed : closed = IF found.pos \in 0..(len - 2) THEN intsetMoveTail(is, found.pos + 1, found.pos) ELSE is
    OBVIOUS
  <2>3. is' = SetLength(intsetResize(closed, len - 1, junk), len - 1)
    BY <2>1, <2>2
  <2>4. ret' = [value |-> 0, success |-> TRUE]
    BY <1>8 DEF Ret
  <2> QED
    BY <1>5, <1>8, <2>2, <2>3, <2>4
<1> QED
  BY <1>1, <1>2, <1>6, <1>7, <1>8 DEF intsetRemove, Ret

\* intsetFind.
LEMMA FindStep ==
  ASSUME IInv, NEW value \in Value, intsetFind(value)
  PROVE  IInv' /\ OneStep
<1>1. UNCHANGED <<is, inside>>
  BY DEF intsetFind, Hang
<1>2. ret'.success \in BOOLEAN /\ looping' \in BOOLEAN
  <2>1. PICK found, seen : found = intsetSearch(is, value) /\ seen = (_intsetValueEncoding(value) <= encoding(is))
    OBVIOUS
  <2>2. seen \in BOOLEAN /\ (seen /\ found.found) \in BOOLEAN
    BY <2>1
  <2>3. CASE Hang
    BY <2>3 DEF Hang, IInv
  <2>4. CASE Ret(0, seen /\ found.found) /\ UNCHANGED looping
    <3>1. ret'.success = (seen /\ found.found)
      BY <2>4 DEF Ret
    <3> QED
      BY <2>2, <2>4, <3>1 DEF IInv
  <2> QED
    BY <2>1, <2>3, <2>4 DEF intsetFind
<1> QED
  BY <1>1, <1>2, Unchanged DEF IInv

-----------------------------------------------------------------------------
(* The theorems.                                                           *)

\* The invariant is inductive.
LEMMA Inductive ==
  ASSUME IInv, [Next]_vars
  PROVE  IInv'
<1>1. CASE Next
  BY <1>1, AddStep, RemoveStep, FindStep DEF Next
<1>2. CASE UNCHANGED vars
  BY <1>2, Unchanged DEF IInv, vars
<1> QED
  BY <1>1, <1>2

\* Every step adds one, takes one or changes nothing.
LEMMA StepIsOne ==
  ASSUME IInv, [Next]_vars
  PROVE  [OneStep]_<<is, ret>>
<1>1. CASE Next
  BY <1>1, AddStep, RemoveStep, FindStep DEF Next
<1>2. CASE UNCHANGED vars
  BY <1>2 DEF vars
<1> QED
  BY <1>1, <1>2

\* The invariant says what ValidOutside does.
LEMMA GoodIsValid ==
  ASSUME IInv
  PROVE  ValidOutside
<1>1. PICK enc, len : /\ enc = encoding(is) /\ len = length(is) /\ Block(is, enc, len) /\ Holds(is, enc, len)
                      /\ enc \in Widths /\ len \in 0..MaxLength /\ len \in Nat /\ (~inside => Sorted(is, enc, len))
  BY GoodFields DEF IInv
<1>2. PICK x : x = len * enc
  OBVIOUS
<1>3. intsetBlobLen(is) = Header + x /\ Place(len, enc) = Header + x
  BY <1>1, <1>2 DEF intsetBlobLen, Place
<1>4. is \in [0..(intsetBlobLen(is) - 1) -> 0..(Base - 1)]
  BY <1>1, <1>3 DEF Holds, Digit
<1>5. TypeOK
  BY <1>1, <1>4 DEF TypeOK, IInv, Widths
<1>6. ASSUME ~inside, length(is) # 0 PROVE intsetValidateIntegrity(is, TRUE)
  <2>1. DOMAIN is = 0..(intsetBlobLen(is) - 1)
    BY <1>4
  <2>2. \A k \in 1..(length(is) - 1) : _intsetGet(is, k - 1) < _intsetGet(is, k)
    BY <1>1, <1>6 DEF Sorted, _intsetGet
  <2> QED
    BY <1>1, <1>6, <2>1, <2>2 DEF intsetValidateIntegrity, Widths
<1> QED
  BY <1>5, <1>6 DEF ValidOutside

\* The invariant always holds.
LEMMA AlwaysGood == Spec => []IInv
<1>1. Init => IInv
  BY InitGood
<1>2. IInv /\ [Next]_vars => IInv'
  BY Inductive
<1> QED
  BY <1>1, <1>2, PTL DEF Spec

\* For every number of values of a cell, every set of values and every length: the
\* block has exactly the cells its header says, whatever the widths it has gone
\* through, and a set that every value was added to outside its range passes the deep
\* check of intsetValidateIntegrity (intset.c).
THEOREM OutsideIsValid == Spec => []ValidOutside
<1>1. IInv => ValidOutside
  BY GoodIsValid
<1> QED
  BY <1>1, AlwaysGood, PTL

\* A successful intsetAdd puts its value among the others and a successful intsetRemove
\* takes one element out; no widening, move or resize changes another element or their
\* order, and no other call changes anything.
THEOREM OneElementAtATime == Spec => OneAtATime
<1>1. IInv /\ [Next]_vars => [OneStep]_<<is, ret>>
  BY StepIsOne
<1>2. Spec => [][OneStep]_<<is, ret>>
  BY <1>1, AlwaysGood, PTL DEF Spec
<1> QED
  BY <1>2 DEF OneAtATime, OneStep
=============================================================================
