--------------------------- MODULE ZmallocProofs ---------------------------
(***************************************************************************)
(* Theorems about Zmalloc, for any number of threads, blocks and sizes.    *)
(***************************************************************************)
EXTENDS Zmalloc, RecursionFacts, TLAPS

\* The inductive invariant.  Exclusive alone is not inductive: that malloc does
\* not return a block of another call holds because such a block is allocated.
IInv == TypeOK /\ Exclusive /\ InCall \subseteq Live

-----------------------------------------------------------------------------
(* Lemmas about the helpers.                                               *)

\* The counter stays a size_t.
LEMMA CounterType ==
  ASSUME NEW a \in Int, NEW b \in Int
  PROVE  Plus(a, b) \in 0..SizeMax /\ Minus(a, b) \in 0..SizeMax
<1>1. SizeMax + 1 \in Nat /\ SizeMax + 1 > 0 /\ SizeMax \in Nat
  BY SizeAssumption
<1>2. \A n \in Int, d \in Nat : d > 0 => n % d \in 0..(d - 1)
  OBVIOUS
<1>3. a + b \in Int /\ a - b \in Int
  OBVIOUS
<1> QED
  BY <1>1, <1>2, <1>3 DEF Plus, Minus

\* An allocation is never of 0 bytes.
LEMMA UsableSize ==
  ASSUME NEW size \in Nat, NEW s \in Usable(size)
  PROVE  s \in Nat /\ s > 0
BY SizeAssumption DEF Usable

\* A call that gets no memory returns, or is the end of the process.
LEMMA ReturnNullType ==
  ASSUME NEW strict \in BOOLEAN, ReturnNull(strict)
  PROVE  up' \in BOOLEAN
BY HandlerAssumption DEF ReturnNull

\* The size calloc is asked for by zcalloc_num, which has looked that it fits.
LEMMA ProductSize ==
  ASSUME NEW num \in Nat, NEW size \in Nat
  PROVE  /\ num * size \in Nat /\ Times(num, size) \in Nat
         /\ size # 0 /\ ~(num > SizeMax \div size) => Times(num, size) = num * size
<1>1. num * size \in Nat
  OBVIOUS
<1>2. /\ SizeMax \in Nat /\ SizeMax + 1 \in Nat /\ SizeMax + 1 > 0
  BY SizeAssumption
<1>3. \A n \in Nat, d \in Nat : d > 0 => n % d \in Nat /\ (n < d => n % d = n)
  OBVIOUS
<1>4. Times(num, size) \in Nat
  BY <1>1, <1>2, <1>3 DEF Times
<1>5. ASSUME size # 0, ~(num > SizeMax \div size)
      PROVE  Times(num, size) = num * size
  <2> DEFINE q == SizeMax \div size
  <2>1. q \in Nat /\ q * size <= SizeMax /\ num <= q
    BY <1>2, <1>5
  <2> HIDE DEF q
  <2>2. num * size <= q * size
    BY <2>1
  <2>3. num * size < SizeMax + 1
    BY <1>1, <1>2, <2>1, <2>2
  <2> QED
    BY <1>1, <1>2, <1>3, <2>3 DEF Times
<1> QED
  BY <1>1, <1>4, <1>5

\* A thread that goes on to r works on r's block; the others on what they did.
LEMMA NextCall ==
  ASSUME IInv, NEW t \in Thread, NEW r \in Call, pc' = [pc EXCEPT ![t] = r]
  PROVE  /\ pc' \in [Thread -> Call]
         /\ pc'[t] = r
         /\ \A u \in Thread : u # t => pc'[u] = pc[u]
BY DEF IInv, TypeOK

\* A block in a call is allocated, and not held.
LEMMA BlockOfCall ==
  ASSUME IInv, NEW t \in Thread, pc[t].at # "idle"
  PROVE  /\ pc[t].block \in Block /\ pc[t].block \in Live /\ pc[t].block \notin held
         /\ \A u \in Thread : pc[u].block = pc[t].block => u = t
<1>1. pc[t] \in Call
  BY DEF IInv, TypeOK
<1>2. pc[t].block # NULL
  BY DEF IInv, TypeOK
<1>3. pc[t].block \in InCall
  BY DEF InCall
<1> QED
  BY <1>1, <1>2, <1>3 DEF IInv, Exclusive, Call, Live

\* What the other threads work on.
Others(t) == {pc[u].block : u \in {v \in Thread \ {t} : pc[v].at # "idle"}}

LEMMA BlocksOfOthers ==
  ASSUME IInv, NEW t \in Thread
  PROVE  /\ InCall = Others(t) \union (IF pc[t].at = "idle" THEN {} ELSE {pc[t].block})
         /\ Others(t) \subseteq Live /\ Others(t) \intersect held = {}
         /\ pc[t].at # "idle" => pc[t].block \notin Others(t)
<1>1. InCall = Others(t) \union (IF pc[t].at = "idle" THEN {} ELSE {pc[t].block})
  BY DEF InCall, Others
<1>2. pc[t].at # "idle" => pc[t].block \notin Others(t)
  BY BlockOfCall DEF Others
<1> QED
  BY <1>1, <1>2 DEF IInv, Exclusive

\* A step of t keeps the invariant when t then holds no one else's block, and the
\* blocks of the clients and of the other threads are still allocated.
LEMMA Step ==
  ASSUME IInv, NEW t \in Thread, NEW r \in Call, pc' = [pc EXCEPT ![t] = r],
         r.block = NULL <=> r.at = "idle",
         heap' \in [Block -> Nat], used_memory' \in 0..SizeMax,
         up' \in BOOLEAN,
         held' \subseteq Live', Others(t) \subseteq Live', Others(t) \intersect held' = {},
         r.at # "idle" => r.block \in Live' /\ r.block \notin held' /\ r.block \notin Others(t)
  PROVE  /\ IInv'
         /\ InCall' = Others(t) \union (IF r.at = "idle" THEN {} ELSE {r.block})
<1>1. /\ pc' \in [Thread -> Call]
      /\ pc'[t] = r
      /\ \A u \in Thread : u # t => pc'[u] = pc[u]
  BY NextCall
<1>2. InCall' = Others(t) \union (IF r.at = "idle" THEN {} ELSE {r.block})
  BY <1>1 DEF InCall, Others
<1>3. TypeOK'
  BY <1>1 DEF IInv, TypeOK, Call
<1>4. Exclusive'
  <2>1. held' \intersect InCall' = {}
    BY <1>2
  <2>2. ASSUME NEW u \in Thread, NEW v \in Thread,
               pc'[u].at # "idle", pc'[u].block = pc'[v].block
        PROVE  u = v
    <3>1. pc'[u].block # NULL /\ pc'[v].block # NULL
      BY <2>2, <1>3 DEF TypeOK
    <3>2. pc'[v].at # "idle"
      BY <3>1, <1>3 DEF TypeOK
    <3>3. CASE u = t /\ v # t
      BY <3>2, <3>3, <2>2, <1>1 DEF Others
    <3>4. CASE u # t /\ v = t
      BY <3>2, <3>4, <2>2, <1>1 DEF Others
    <3>5. CASE u # t /\ v # t
      BY <3>5, <2>2, <1>1, BlockOfCall
    <3> QED
      BY <3>3, <3>4, <3>5
  <2> QED
    BY <2>1, <2>2 DEF Exclusive
<1> QED
  BY <1>2, <1>3, <1>4 DEF IInv

\* A step that leaves the heap, the clients and the calls alone.
LEMMA Unmoved ==
  ASSUME IInv, UNCHANGED <<heap, held, pc>>, used_memory' \in 0..SizeMax, up' \in BOOLEAN
  PROVE  IInv' /\ (NoLeak => NoLeak')
BY DEF IInv, TypeOK, Exclusive, NoLeak, InCall, Live

-----------------------------------------------------------------------------
(* The steps.                                                              *)

LEMMA AllocateStep ==
  ASSUME IInv, NEW t \in Thread, NEW size \in Nat, NEW asked \in Nat,
         NEW strict \in BOOLEAN, Allocate(t, size, asked, strict)
  PROVE  IInv' /\ (NoLeak => NoLeak')
<1>1. CASE ReturnNull(strict) /\ UNCHANGED <<heap, held, used_memory, pc>>
  BY <1>1, ReturnNullType, Unmoved DEF IInv, TypeOK
<1>2. ASSUME NEW b \in Unallocated, NEW s \in Usable(size),
             heap' = [heap EXCEPT ![b] = s],
             pc' = [pc EXCEPT ![t] = [Idle EXCEPT !.at = "add", !.block = b, !.asked = asked]],
             UNCHANGED <<held, used_memory, up>>
      PROVE  IInv' /\ (NoLeak => NoLeak')
  <2> DEFINE r == [Idle EXCEPT !.at = "add", !.block = b, !.asked = asked]
  <2>1. b \in Block /\ heap[b] = 0 /\ b # NULL
    BY BlockAssumption DEF Unallocated
  <2>2. r \in Call /\ r.at = "add" /\ r.block = b
    BY <2>1 DEF Idle, Call
  <2>3. s \in Nat /\ s > 0
    BY UsableSize
  <2>4. heap' \in [Block -> Nat] /\ Live' = Live \union {b} /\ b \notin Live
    BY <1>2, <2>1, <2>3 DEF IInv, TypeOK, Live
  <2>5. /\ InCall = Others(t) \union (IF pc[t].at = "idle" THEN {} ELSE {pc[t].block})
        /\ Others(t) \subseteq Live /\ Others(t) \intersect held = {}
    BY BlocksOfOthers
  <2>6. b \notin held /\ b \notin Others(t) /\ held \subseteq Live
    BY <2>4, <2>5 DEF IInv, TypeOK
  <2>7. pc[t].at = "idle"
    <3>1. Between(t)
      BY DEF Allocate
    <3> QED
      BY <3>1 DEF Between, Idle
  <2> HIDE DEF r
  <2>8. pc' = [pc EXCEPT ![t] = r]
    BY <1>2 DEF r
  <2>9. used_memory' \in 0..SizeMax /\ up' \in BOOLEAN
    BY <1>2 DEF IInv, TypeOK
  <2>10. IInv' /\ InCall' = Others(t) \union {b}
    BY <1>2, <2>1, <2>2, <2>4, <2>5, <2>6, <2>8, <2>9, Step
  <2> QED
    BY <1>2, <2>4, <2>5, <2>7, <2>10 DEF NoLeak
<1> QED
  BY <1>1, <1>2 DEF Allocate

LEMMA ZcallocNumStep ==
  ASSUME IInv, NEW t \in Thread, NEW num \in Nat, NEW size \in Nat, zcalloc_num(t, num, size)
  PROVE  IInv' /\ (NoLeak => NoLeak')
<1>1. CASE Allocate(t, Times(num, size), num * size, TRUE)
  BY <1>1, ProductSize, AllocateStep
<1>2. CASE ReturnNull(TRUE) /\ UNCHANGED <<heap, held, used_memory, pc>>
  BY <1>2, ReturnNullType, Unmoved DEF IInv, TypeOK
<1> QED
  BY <1>1, <1>2 DEF zcalloc_num

LEMMA AddStep ==
  ASSUME IInv, NEW t \in Thread, Add(t)
  PROVE  IInv' /\ (NoLeak => NoLeak')
<1> DEFINE b == pc[t].block
<1>1. pc[t].at # "idle" /\ pc' = [pc EXCEPT ![t] = Idle] /\ UNCHANGED <<heap, up>>
  BY DEF Add
<1>2. b \in Block /\ b \in Live /\ b \notin held
  BY <1>1, BlockOfCall
<1>3. held' = held \union {b} /\ used_memory' = Plus(used_memory, heap[b])
  BY DEF Add
<1>4. used_memory' \in 0..SizeMax
  <2>1. used_memory \in Int /\ heap[b] \in Int
    BY <1>2 DEF IInv, TypeOK
  <2> QED
    BY <2>1, <1>3, CounterType
<1>5. /\ InCall = Others(t) \union {b} /\ b \notin Others(t)
      /\ Others(t) \subseteq Live /\ Others(t) \intersect held = {}
  BY <1>1, BlocksOfOthers
<1>6. Idle \in Call /\ Idle.at = "idle" /\ Idle.block = NULL
  BY DEF Idle, Call
<1>7. Live' = Live /\ heap' \in [Block -> Nat] /\ held \subseteq Live /\ up' \in BOOLEAN
  BY <1>1 DEF IInv, TypeOK, Live
<1> HIDE DEF b
<1>8. held' \subseteq Live' /\ Others(t) \subseteq Live' /\ Others(t) \intersect held' = {}
  BY <1>2, <1>3, <1>5, <1>7
<1>9. IInv' /\ InCall' = Others(t)
  <2>1. /\ IInv'
        /\ InCall' = Others(t) \union (IF Idle.at = "idle" THEN {} ELSE {Idle.block})
    BY <1>1, <1>4, <1>6, <1>7, <1>8, Step
  <2> QED
    BY <2>1, <1>6
<1> QED
  BY <1>3, <1>5, <1>7, <1>9 DEF NoLeak

LEMMA UncountStep ==
  ASSUME IInv, NEW t \in Thread, NEW b \in held, NEW then \in {"return", "null", "handler"},
         pc[t].at = "idle", Uncount(t, b, then)
  PROVE  IInv' /\ (NoLeak => NoLeak')
<1> DEFINE r == [Idle EXCEPT !.at = "free", !.block = b, !.then = then]
<1>1. b \in Block /\ b \in Live /\ b # NULL /\ held \subseteq Live
  BY BlockAssumption DEF IInv, TypeOK, Live
<1>2. r \in Call /\ r.at = "free" /\ r.block = b
  BY <1>1 DEF Idle, Call
<1>3. /\ InCall = Others(t)
      /\ Others(t) \subseteq Live /\ Others(t) \intersect held = {}
  BY BlocksOfOthers
<1> HIDE DEF r
<1>4. /\ pc' = [pc EXCEPT ![t] = r] /\ held' = held \ {b}
      /\ UNCHANGED <<heap, up>> /\ used_memory' = Minus(used_memory, heap[b])
  BY DEF Uncount, r
<1>5. used_memory' \in 0..SizeMax
  <2>1. used_memory \in Int /\ heap[b] \in Int
    BY <1>1 DEF IInv, TypeOK
  <2> QED
    BY <2>1, <1>4, CounterType
<1>6. Live' = Live /\ heap' \in [Block -> Nat] /\ up' \in BOOLEAN
  BY <1>4 DEF IInv, TypeOK, Live
<1>7. IInv' /\ InCall' = Others(t) \union {b}
  BY <1>1, <1>2, <1>3, <1>4, <1>5, <1>6, Step
<1> QED
  BY <1>1, <1>3, <1>4, <1>6, <1>7 DEF NoLeak

LEMMA ReleaseStep ==
  ASSUME IInv, NEW t \in Thread, Release(t)
  PROVE  IInv' /\ (NoLeak => NoLeak')
<1> DEFINE b == pc[t].block
<1>1. pc[t].at # "idle" /\ pc' = [pc EXCEPT ![t] = Idle] /\ UNCHANGED <<held, used_memory>>
  BY DEF Release
<1>2. b \in Block /\ b \in Live /\ b \notin held
  BY <1>1, BlockOfCall
<1>3. heap' = [heap EXCEPT ![b] = 0]
  BY DEF Release
<1>4. /\ InCall = Others(t) \union {b} /\ b \notin Others(t)
      /\ Others(t) \subseteq Live /\ Others(t) \intersect held = {}
  BY <1>1, BlocksOfOthers
<1>5. Idle \in Call /\ Idle.at = "idle" /\ Idle.block = NULL
  BY DEF Idle, Call
<1>6. Live' = Live \ {b} /\ heap' \in [Block -> Nat] /\ held \subseteq Live
  BY <1>2, <1>3 DEF IInv, TypeOK, Live
<1>7. up' \in BOOLEAN
  <2>1. CASE pc[t].then = "return"
    BY <2>1 DEF Release, IInv, TypeOK
  <2>2. CASE pc[t].then # "return"
    <3>1. ReturnNull(pc[t].then = "handler") /\ (pc[t].then = "handler") \in BOOLEAN
      BY <2>2 DEF Release
    <3> QED
      BY <3>1, ReturnNullType
  <2> QED
    BY <2>1, <2>2
<1>8. used_memory' \in 0..SizeMax
  BY <1>1 DEF IInv, TypeOK
<1> HIDE DEF b
<1>9. IInv' /\ InCall' = Others(t)
  <2>1. held' \subseteq Live' /\ Others(t) \subseteq Live' /\ Others(t) \intersect held' = {}
    BY <1>1, <1>2, <1>4, <1>6
  <2>2. /\ IInv'
        /\ InCall' = Others(t) \union (IF Idle.at = "idle" THEN {} ELSE {Idle.block})
    BY <1>1, <1>5, <1>6, <1>7, <1>8, <2>1, Step
  <2> QED
    BY <2>2, <1>5
<1> QED
  BY <1>1, <1>2, <1>4, <1>6, <1>9 DEF NoLeak

LEMMA ZreallocStep ==
  ASSUME IInv, NEW t \in Thread, NEW b \in Block, NEW size \in Nat, NEW strict \in BOOLEAN,
         zrealloc(t, b, size, strict)
  PROVE  IInv' /\ (NoLeak => NoLeak')
<1>1. b \in held /\ Between(t)
  BY DEF zrealloc
<1>2. pc[t].at = "idle"
  BY <1>1 DEF Between, Idle
<1>3. CASE Uncount(t, b, IF strict /\ size # 0 THEN "handler" ELSE "null")
  BY <1>1, <1>2, <1>3, UncountStep
<1>4. CASE ReturnNull(strict) /\ UNCHANGED <<heap, held, used_memory, pc>>
  BY <1>4, ReturnNullType, Unmoved DEF IInv, TypeOK
<1>5. ASSUME NEW n \in {b} \union Unallocated, NEW s \in Usable(size),
             heap' = [heap EXCEPT ![b] = 0, ![n] = s],
             pc' = [pc EXCEPT ![t] = [Idle EXCEPT !.at = "subtract", !.block = n,
                                                    !.asked = size, !.old = heap[b]]],
             held' = held \ {b},
             UNCHANGED <<used_memory, up>>
      PROVE  IInv' /\ (NoLeak => NoLeak')
  <2> DEFINE r == [Idle EXCEPT !.at = "subtract", !.block = n, !.asked = size, !.old = heap[b]]
  <2>1. /\ n \in Block /\ n # NULL /\ (n = b \/ heap[n] = 0)
        /\ b \in Live /\ held \subseteq Live /\ heap[b] \in Nat
    BY <1>1, BlockAssumption DEF Unallocated, IInv, TypeOK
  <2>2. r \in Call /\ r.at = "subtract" /\ r.block = n
    BY <2>1 DEF Idle, Call
  <2>3. s \in Nat /\ s > 0
    BY UsableSize
  <2>4. heap' \in [Block -> Nat] /\ Live' = (Live \ {b}) \union {n} /\ (n = b \/ n \notin Live)
    BY <1>5, <2>1, <2>3 DEF IInv, TypeOK, Live
  <2>5. InCall = Others(t) /\ Others(t) \subseteq Live /\ Others(t) \intersect held = {}
    BY <1>2, BlocksOfOthers
  <2> HIDE DEF r
  <2>6. /\ pc' = [pc EXCEPT ![t] = r]
        /\ used_memory' \in 0..SizeMax /\ up' \in BOOLEAN
    BY <1>5 DEF IInv, TypeOK, r
  <2>7. /\ held' \subseteq Live' /\ Others(t) \subseteq Live' /\ Others(t) \intersect held' = {}
        /\ n \in Live' /\ n \notin held' /\ n \notin Others(t)
    BY <1>1, <1>5, <2>1, <2>4, <2>5
  <2>8. IInv' /\ InCall' = Others(t) \union {n}
    <3>1. /\ IInv'
          /\ InCall' = Others(t) \union (IF r.at = "idle" THEN {} ELSE {r.block})
      BY <2>1, <2>2, <2>4, <2>6, <2>7, Step
    <3> QED
      BY <3>1, <2>2
  <2> QED
    BY <1>1, <1>5, <2>1, <2>4, <2>5, <2>8 DEF NoLeak
<1> QED
  BY <1>3, <1>4, <1>5 DEF zrealloc

LEMMA SubtractStep ==
  ASSUME IInv, NEW t \in Thread, Subtract(t)
  PROVE  IInv' /\ (NoLeak => NoLeak')
<1> DEFINE b == pc[t].block
           r == [pc[t] EXCEPT !.at = "add", !.old = 0]
<1>1. pc[t] \in Call /\ pc[t].at # "idle" /\ pc \in [Thread -> Call]
  BY DEF Subtract, IInv, TypeOK
<1>2. b \in Block /\ b \in Live /\ b \notin held
  BY <1>1, BlockOfCall
<1>3. r \in Call /\ r.at = "add" /\ r.block = b
  BY <1>1 DEF Call
<1>4. pc' = [pc EXCEPT ![t] = r] /\ UNCHANGED <<heap, held, up>>
  BY <1>1 DEF Subtract
<1>5. used_memory' \in 0..SizeMax
  <2>1. used_memory \in Int /\ pc[t].old \in Int
    BY <1>1 DEF IInv, TypeOK, Call
  <2>2. used_memory' = Minus(used_memory, pc[t].old)
    BY DEF Subtract
  <2> QED
    BY <2>1, <2>2, CounterType
<1>6. /\ InCall = Others(t) \union {b} /\ b \notin Others(t)
      /\ Others(t) \subseteq Live /\ Others(t) \intersect held = {}
  BY <1>1, BlocksOfOthers
<1>7. /\ Live' = Live /\ heap' \in [Block -> Nat] /\ held \subseteq Live /\ up' \in BOOLEAN
      /\ b # NULL
  BY <1>2, <1>4, BlockAssumption DEF IInv, TypeOK, Live
<1> HIDE DEF b, r
<1>8. IInv' /\ InCall' = Others(t) \union {b}
  <2>1. /\ IInv'
        /\ InCall' = Others(t) \union (IF r.at = "idle" THEN {} ELSE {r.block})
    BY <1>2, <1>3, <1>4, <1>5, <1>6, <1>7, Step
  <2> QED
    BY <2>1, <1>3
<1> QED
  BY <1>4, <1>6, <1>7, <1>8 DEF NoLeak

\* A leak by design of the code: the block of zfree_usable is held no more.
LEMMA ZfreeUsableStep ==
  ASSUME IInv, NEW t \in Thread, NEW b \in Block, NEW usable \in OutAddress,
         zfree_usable(t, b, usable)
  PROVE  IInv'
<1>1. held' = held \ {b} /\ UNCHANGED <<heap, pc, up>>
  BY DEF zfree_usable
<1>2. used_memory' \in 0..SizeMax
  <2>1. used_memory \in Int /\ usable \in Int
    BY SizeAssumption DEF IInv, TypeOK
  <2>2. used_memory' = Minus(used_memory, usable)
    BY DEF zfree_usable
  <2> QED
    BY <2>1, <2>2, CounterType
<1> QED
  BY <1>1, <1>2 DEF IInv, TypeOK, Exclusive, InCall, Live

-----------------------------------------------------------------------------
(* The counter.                                                            *)

HeldSum == SumFunctionOnSet(heap, held)

Remembered == [t \in Thread |-> pc[t].old]

RememberedSum == SumFunctionOnSet(Remembered, Subtracting)

\* The counter is the sum it should be, up to the width of a size_t.
CounterFollows == used_memory = Counted % (SizeMax + 1)

\* Only finitely many blocks are held and threads under way at a time, so there is
\* a sum.
Summed == IsFiniteSet(held) /\ IsFiniteSet(Subtracting)

LEMMA WrappedSum ==
  ASSUME NEW a \in Int, NEW b \in Int
  PROVE  /\ Plus(a % (SizeMax + 1), b) = (a + b) % (SizeMax + 1)
         /\ Minus(a % (SizeMax + 1), b) = (a - b) % (SizeMax + 1)
<1>1. SizeMax + 1 \in Nat /\ SizeMax + 1 > 0
  BY SizeAssumption
<1> QED
  BY <1>1, RemainderOfSum DEF Plus, Minus

\* What is summed are numbers, and so are the sums.
LEMMA SumTypes ==
  ASSUME IInv, Summed
  PROVE  /\ \A b \in held : b \in Block /\ heap[b] \in Int
         /\ \A t \in Subtracting : t \in Thread /\ Remembered[t] = pc[t].old /\ pc[t].old \in Int
         /\ HeldSum \in Int /\ RememberedSum \in Int /\ Counted = HeldSum + RememberedSum
<1>1. \A b \in held : b \in Block /\ heap[b] \in Int
  BY DEF IInv, TypeOK, Live
<1>2. \A t \in Thread : Remembered[t] = pc[t].old /\ pc[t].old \in Int
  BY DEF IInv, TypeOK, Call, Remembered
<1>3. HeldSum \in Int
  BY <1>1, SumUnfold DEF HeldSum, Summed
<1>4. RememberedSum \in Int
  <2>1. \A t \in Subtracting : Remembered[t] \in Int
    BY <1>2 DEF Subtracting
  <2> QED
    BY <2>1, SumUnfold DEF RememberedSum, Summed
<1> QED
  BY <1>1, <1>2, <1>3, <1>4 DEF Counted, HeldSum, RememberedSum, Remembered, Subtracting

\* Blocks that no client holds may change, or be allocated and released.
LEMMA HeldSumStays ==
  ASSUME IInv, Summed, held' = held, \A b \in held : heap'[b] = heap[b]
  PROVE  IsFiniteSet(held') /\ HeldSum' = HeldSum
<1>1. SumFunctionOnSet(heap', held) = SumFunctionOnSet(heap, held)
  BY SumTypes, SumOfEqual DEF Summed
<1> QED
  BY <1>1 DEF HeldSum, Summed

\* A block of a client that is handed to a call is subtracted.
LEMMA HeldSumWithout ==
  ASSUME IInv, Summed, NEW b \in held, held' = held \ {b},
         \A c \in held \ {b} : heap'[c] = heap[c]
  PROVE  IsFiniteSet(held') /\ HeldSum' = HeldSum - heap[b]
<1>1. IsFiniteSet(held \ {b})
  BY FS_Subset DEF Summed
<1>2. SumFunctionOnSet(heap', held \ {b}) = SumFunctionOnSet(heap, held \ {b})
  BY <1>1, SumTypes, SumOfEqual
<1>3. SumFunctionOnSet(heap, held) = heap[b] + SumFunctionOnSet(heap, held \ {b})
  BY SumTypes, SumTakeOut DEF Summed
<1>4. SumFunctionOnSet(heap, held \ {b}) \in Int /\ heap[b] \in Int
  BY <1>1, SumTypes, SumUnfold
<1> QED
  BY <1>1, <1>2, <1>3, <1>4 DEF HeldSum

\* A thread that does not come to, or from, a subtraction leaves those of the others.
LEMMA RememberedSumStays ==
  ASSUME IInv, Summed, NEW t \in Thread, NEW r \in Call, pc' = [pc EXCEPT ![t] = r],
         pc[t].at # "subtract", r.at # "subtract"
  PROVE  IsFiniteSet(Subtracting') /\ RememberedSum' = RememberedSum
<1>1. \A u \in Thread : u # t => pc'[u] = pc[u]
  BY NextCall
<1>2. pc'[t] = r
  BY NextCall
<1>3. Subtracting' = Subtracting
  BY <1>1, <1>2 DEF Subtracting
<1>4. \A u \in Subtracting : Remembered'[u] = Remembered[u] /\ Remembered[u] \in Int
  BY <1>1, SumTypes DEF Subtracting, Remembered
<1>5. SumFunctionOnSet(Remembered', Subtracting) = SumFunctionOnSet(Remembered, Subtracting)
  BY <1>4, SumOfEqual DEF Summed
<1> QED
  BY <1>3, <1>5 DEF RememberedSum, Summed

\* A step keeps the counter exact when it changes the sums and the counter alike.
LEMMA SumsAgree ==
  ASSUME IInv, Summed, CounterFollows, NEW d \in Int,
         HeldSum' + RememberedSum' = HeldSum + RememberedSum + d,
         \/ d = 0 /\ used_memory' = used_memory
         \/ used_memory' = Plus(used_memory, d)
         \/ used_memory' = Minus(used_memory, -d)
  PROVE  CounterFollows'
<1>1. Counted \in Int /\ Counted' = Counted + d
  <2>1. Counted = HeldSum + RememberedSum /\ HeldSum \in Int /\ RememberedSum \in Int
    BY SumTypes
  <2>2. Counted' = HeldSum' + RememberedSum'
    BY DEF Counted, HeldSum, RememberedSum, Remembered
  <2> QED
    BY <2>1, <2>2
<1>2. /\ Plus(used_memory, d) = (Counted + d) % (SizeMax + 1)
      /\ Minus(used_memory, -d) = (Counted - (-d)) % (SizeMax + 1)
  BY <1>1, WrappedSum DEF CounterFollows
<1>3. Counted - (-d) = Counted + d /\ (d = 0 => Counted + d = Counted)
  BY <1>1
<1> QED
  BY <1>1, <1>2, <1>3 DEF CounterFollows

\* The counter and the sums in each step; the calls as in the lemmas above.
LEMMA AllocateCounts ==
  ASSUME IInv, Summed, CounterFollows, NEW t \in Thread, NEW size \in Nat, NEW asked \in Nat,
         NEW strict \in BOOLEAN, Allocate(t, size, asked, strict)
  PROVE  Summed' /\ CounterFollows'
<1>1. CASE UNCHANGED <<heap, held, used_memory, pc>>
  BY <1>1 DEF Summed, CounterFollows, Subtracting, Counted
<1>2. ASSUME NEW b \in Unallocated, NEW s \in Usable(size),
             heap' = [heap EXCEPT ![b] = s],
             pc' = [pc EXCEPT ![t] = [Idle EXCEPT !.at = "add", !.block = b, !.asked = asked]],
             UNCHANGED <<held, used_memory, up>>
      PROVE  Summed' /\ CounterFollows'
  <2> DEFINE r == [Idle EXCEPT !.at = "add", !.block = b, !.asked = asked]
  <2>1. b \in Block /\ b \notin held
    BY DEF Unallocated, IInv, TypeOK, Live
  <2>2. \A c \in held : heap'[c] = heap[c]
    BY <1>2, <2>1 DEF IInv, TypeOK, Live
  <2>3. r \in Call /\ r.at # "subtract"
    BY <2>1 DEF Idle, Call
  <2>4. pc[t].at # "subtract"
    <3>1. Between(t)
      BY DEF Allocate
    <3> QED
      BY <3>1 DEF Between, Idle
  <2> HIDE DEF r
  <2>5. pc' = [pc EXCEPT ![t] = r]
    BY <1>2 DEF r
  <2>6. /\ IsFiniteSet(held') /\ HeldSum' = HeldSum
        /\ IsFiniteSet(Subtracting') /\ RememberedSum' = RememberedSum
    BY <1>2, <2>2, <2>3, <2>4, <2>5, HeldSumStays, RememberedSumStays
  <2>7. HeldSum' + RememberedSum' = HeldSum + RememberedSum + 0
    BY <2>6, SumTypes
  <2> QED
    BY <1>2, <2>6, <2>7, SumsAgree DEF Summed
<1> QED
  BY <1>1, <1>2 DEF Allocate

LEMMA AddCounts ==
  ASSUME IInv, Summed, CounterFollows, NEW t \in Thread, Add(t)
  PROVE  Summed' /\ CounterFollows'
<1> DEFINE b == pc[t].block
<1>1. /\ pc[t].at = "add" /\ pc' = [pc EXCEPT ![t] = Idle] /\ heap' = heap
      /\ held' = held \union {b} /\ used_memory' = Plus(used_memory, heap[b])
  BY DEF Add
<1>2. b \in Block /\ b \notin held /\ heap[b] \in Int
  BY <1>1, BlockOfCall DEF IInv, TypeOK
<1>3. Idle \in Call /\ Idle.at # "subtract"
  BY DEF Idle, Call
<1>4. IsFiniteSet(Subtracting') /\ RememberedSum' = RememberedSum
  BY <1>1, <1>3, RememberedSumStays
<1> HIDE DEF b
<1>5. /\ IsFiniteSet(held \union {b})
      /\ SumFunctionOnSet(heap, held \union {b}) = heap[b] + SumFunctionOnSet(heap, held)
  BY <1>2, SumTypes, SumPutIn DEF Summed
<1>6. HeldSum' + RememberedSum' = HeldSum + RememberedSum + heap[b]
  BY <1>1, <1>2, <1>4, <1>5, SumTypes DEF HeldSum
<1> QED
  BY <1>1, <1>2, <1>4, <1>5, <1>6, SumsAgree DEF Summed

LEMMA UncountCounts ==
  ASSUME IInv, Summed, CounterFollows, NEW t \in Thread, NEW b \in held,
         NEW then \in {"return", "null", "handler"}, pc[t].at = "idle", Uncount(t, b, then)
  PROVE  Summed' /\ CounterFollows'
<1> DEFINE r == [Idle EXCEPT !.at = "free", !.block = b, !.then = then]
<1>1. b \in Block /\ heap[b] \in Int
  BY SumTypes
<1>2. r \in Call /\ r.at # "subtract"
  BY <1>1 DEF Idle, Call
<1> HIDE DEF r
<1>3. /\ pc' = [pc EXCEPT ![t] = r] /\ held' = held \ {b} /\ heap' = heap
      /\ used_memory' = Minus(used_memory, heap[b])
  BY DEF Uncount, r
<1>4. /\ IsFiniteSet(held') /\ HeldSum' = HeldSum - heap[b]
      /\ IsFiniteSet(Subtracting') /\ RememberedSum' = RememberedSum
  BY <1>2, <1>3, HeldSumWithout, RememberedSumStays
<1>5. /\ HeldSum' + RememberedSum' = HeldSum + RememberedSum + (-heap[b])
      /\ -heap[b] \in Int /\ -(-heap[b]) = heap[b]
  BY <1>1, <1>4, SumTypes
<1> QED
  BY <1>3, <1>4, <1>5, SumsAgree DEF Summed

LEMMA ReleaseCounts ==
  ASSUME IInv, Summed, CounterFollows, NEW t \in Thread, Release(t)
  PROVE  Summed' /\ CounterFollows'
<1> DEFINE b == pc[t].block
<1>1. /\ pc[t].at = "free" /\ pc' = [pc EXCEPT ![t] = Idle]
      /\ held' = held /\ used_memory' = used_memory /\ heap' = [heap EXCEPT ![b] = 0]
  BY DEF Release
<1>2. b \in Block /\ b \notin held
  BY <1>1, BlockOfCall
<1>3. \A c \in held : heap'[c] = heap[c]
  BY <1>1, <1>2, SumTypes DEF IInv, TypeOK
<1>4. Idle \in Call /\ Idle.at # "subtract"
  BY DEF Idle, Call
<1>5. /\ IsFiniteSet(held') /\ HeldSum' = HeldSum
      /\ IsFiniteSet(Subtracting') /\ RememberedSum' = RememberedSum
  BY <1>1, <1>3, <1>4, HeldSumStays, RememberedSumStays
<1>6. HeldSum' + RememberedSum' = HeldSum + RememberedSum + 0
  BY <1>5, SumTypes
<1> QED
  BY <1>1, <1>5, <1>6, SumsAgree DEF Summed

\* The old size moves from the sum of the clients to that of the threads.
LEMMA ZreallocCounts ==
  ASSUME IInv, Summed, CounterFollows, NEW t \in Thread, NEW b \in Block, NEW size \in Nat,
         NEW strict \in BOOLEAN, zrealloc(t, b, size, strict)
  PROVE  Summed' /\ CounterFollows'
<1>1. b \in held /\ pc[t].at = "idle"
  <2>1. b \in held /\ Between(t)
    BY DEF zrealloc
  <2> QED
    BY <2>1 DEF Between, Idle
<1>2. CASE Uncount(t, b, IF strict /\ size # 0 THEN "handler" ELSE "null")
  BY <1>1, <1>2, UncountCounts
<1>3. CASE UNCHANGED <<heap, held, used_memory, pc>>
  BY <1>3 DEF Summed, CounterFollows, Subtracting, Counted
<1>4. ASSUME NEW n \in {b} \union Unallocated, NEW s \in Usable(size),
             heap' = [heap EXCEPT ![b] = 0, ![n] = s],
             pc' = [pc EXCEPT ![t] = [Idle EXCEPT !.at = "subtract", !.block = n,
                                                    !.asked = size, !.old = heap[b]]],
             held' = held \ {b},
             UNCHANGED <<used_memory, up>>
      PROVE  Summed' /\ CounterFollows'
  <2> DEFINE r == [Idle EXCEPT !.at = "subtract", !.block = n, !.asked = size, !.old = heap[b]]
  <2>1. n \in Block /\ n \notin held \ {b} /\ heap[b] \in Nat
    BY DEF Unallocated, IInv, TypeOK, Live
  <2>2. \A c \in held \ {b} : heap'[c] = heap[c]
    BY <1>4, <2>1, SumTypes DEF IInv, TypeOK
  <2>3. IsFiniteSet(held') /\ HeldSum' = HeldSum - heap[b]
    BY <1>1, <1>4, <2>2, HeldSumWithout
  <2>4. r \in Call /\ r.at = "subtract" /\ r.old = heap[b]
    BY <2>1 DEF Idle, Call
  <2> HIDE DEF r
  <2>5. pc' = [pc EXCEPT ![t] = r]
    BY <1>4 DEF r
  <2>6. pc'[t] = r /\ \A u \in Thread : u # t => pc'[u] = pc[u]
    BY <2>4, <2>5, NextCall
  <2>7. Subtracting' = Subtracting \union {t} /\ t \notin Subtracting
    BY <1>1, <2>4, <2>6 DEF Subtracting
  <2>8. Remembered'[t] = heap[b] /\ heap[b] \in Int
    BY <2>1, <2>4, <2>6 DEF Remembered
  <2>9. \A u \in Subtracting : Remembered'[u] = Remembered[u] /\ Remembered[u] \in Int
    BY <2>6, <2>7, SumTypes DEF Remembered, Subtracting
  <2>10. \A u \in Subtracting \union {t} : Remembered'[u] \in Int
    BY <2>8, <2>9
  <2>11. /\ IsFiniteSet(Subtracting \union {t})
         /\ SumFunctionOnSet(Remembered', Subtracting \union {t})
              = Remembered'[t] + SumFunctionOnSet(Remembered', Subtracting)
    BY <2>7, <2>10, SumPutIn DEF Summed
  <2>12. SumFunctionOnSet(Remembered', Subtracting) = SumFunctionOnSet(Remembered, Subtracting)
    BY <2>9, SumOfEqual DEF Summed
  <2>13. RememberedSum' = RememberedSum + heap[b]
    <3>1. RememberedSum' = SumFunctionOnSet(Remembered', Subtracting \union {t})
      BY <2>7 DEF RememberedSum
    <3>2. RememberedSum = SumFunctionOnSet(Remembered, Subtracting) /\ RememberedSum \in Int
      BY SumTypes DEF RememberedSum
    <3> QED
      BY <2>8, <2>11, <2>12, <3>1, <3>2
  <2>14. HeldSum' + RememberedSum' = HeldSum + RememberedSum + 0
    BY <2>1, <2>3, <2>13, SumTypes
  <2> QED
    BY <1>4, <2>3, <2>7, <2>11, <2>14, SumsAgree DEF Summed
<1> QED
  BY <1>2, <1>3, <1>4 DEF zrealloc

LEMMA SubtractCounts ==
  ASSUME IInv, Summed, CounterFollows, NEW t \in Thread, Subtract(t)
  PROVE  Summed' /\ CounterFollows'
<1> DEFINE r == [pc[t] EXCEPT !.at = "add", !.old = 0]
           old == pc[t].old
<1>1. /\ pc[t].at = "subtract" /\ pc' = [pc EXCEPT ![t].at = "add", ![t].old = 0]
      /\ heap' = heap /\ held' = held /\ used_memory' = Minus(used_memory, old)
  BY DEF Subtract
<1>2. pc[t] \in Call /\ pc \in [Thread -> Call]
  BY DEF IInv, TypeOK
<1>3. r \in Call /\ r.at = "add" /\ pc' = [pc EXCEPT ![t] = r]
  BY <1>1, <1>2 DEF Call
<1> HIDE DEF r
<1>4. pc'[t] = r /\ \A u \in Thread : u # t => pc'[u] = pc[u]
  BY <1>3, NextCall
<1>5. Subtracting' = Subtracting \ {t} /\ t \in Subtracting
  BY <1>1, <1>3, <1>4 DEF Subtracting
<1>6. Remembered[t] = old /\ old \in Int
  BY <1>5, SumTypes
<1> HIDE DEF old
<1>7. \A u \in Subtracting : Remembered[u] \in Int
  BY SumTypes
<1>8. \A u \in Subtracting \ {t} : Remembered'[u] = Remembered[u] /\ Remembered[u] \in Int
  BY <1>4, <1>7 DEF Remembered, Subtracting
<1>9. IsFiniteSet(Subtracting \ {t})
  BY FS_Subset DEF Summed
<1>10. SumFunctionOnSet(Remembered', Subtracting \ {t}) = SumFunctionOnSet(Remembered, Subtracting \ {t})
  BY <1>8, <1>9, SumOfEqual
<1>11. SumFunctionOnSet(Remembered, Subtracting)
         = Remembered[t] + SumFunctionOnSet(Remembered, Subtracting \ {t})
  BY <1>5, <1>7, SumTakeOut DEF Summed
<1>12. SumFunctionOnSet(Remembered, Subtracting \ {t}) \in Int
  BY <1>8, <1>9, SumUnfold
<1>13. RememberedSum' = RememberedSum - old
  <2>1. RememberedSum' = SumFunctionOnSet(Remembered', Subtracting \ {t})
    BY <1>5 DEF RememberedSum
  <2> QED
    BY <1>6, <1>10, <1>11, <1>12, <2>1 DEF RememberedSum
<1>14. IsFiniteSet(held') /\ HeldSum' = HeldSum
  BY <1>1, HeldSumStays
<1>15. /\ HeldSum' + RememberedSum' = HeldSum + RememberedSum + (-old)
       /\ -old \in Int /\ -(-old) = old
  BY <1>6, <1>13, <1>14, SumTypes
<1> QED
  BY <1>1, <1>5, <1>9, <1>14, <1>15, SumsAgree DEF Summed

LEMMA NextCounts ==
  ASSUME OutAddress = {}, IInv, Summed, CounterFollows, [Next]_vars
  PROVE  Summed' /\ CounterFollows'
<1> DEFINE Kept == Summed' /\ CounterFollows'
<1>1. ASSUME UNCHANGED <<heap, held, used_memory, pc>> PROVE Kept
  BY <1>1 DEF Summed, CounterFollows, Subtracting, Counted
<1>2. ASSUME NEW t \in Thread, NEW size \in Request, NEW strict \in BOOLEAN,
             Allocate(t, size, size, strict)
      PROVE  Kept
  BY <1>2, SizeAssumption, AllocateCounts
<1>3. ASSUME NEW t \in Thread, NEW num \in Count, NEW size \in Request, zcalloc_num(t, num, size)
      PROVE  Kept
  <2>1. num * size \in Nat /\ Times(num, size) \in Nat
    <3>1. num \in Nat /\ size \in Nat
      BY SizeAssumption
    <3> QED
      BY <3>1, ProductSize
  <2>2. \/ UNCHANGED <<heap, held, used_memory, pc>>
        \/ Allocate(t, Times(num, size), num * size, TRUE)
    BY <1>3 DEF zcalloc_num
  <2> QED
    BY <1>1, <2>1, <2>2, AllocateCounts
<1>4. ASSUME NEW t \in Thread, NEW b \in Block, zfree(t, b)
      PROVE  Kept
  <2>1. b \in held /\ Uncount(t, b, "return") /\ pc[t].at = "idle"
    BY <1>4 DEF zfree, Between, Idle
  <2> QED
    BY <2>1, UncountCounts
<1>5. ASSUME NEW t \in Thread, NEW b \in Block, NEW size \in Request, NEW strict \in BOOLEAN,
             zrealloc(t, b, size, strict)
      PROVE  Kept
  BY <1>5, SizeAssumption, ZreallocCounts
<1>6. ASSUME NEW t \in Thread, Add(t) \/ Subtract(t) \/ Release(t)
      PROVE  Kept
  BY <1>6, AddCounts, SubtractCounts, ReleaseCounts
<1> HIDE DEF Kept
<1>7. Kept
  BY <1>1, <1>2, <1>3, <1>4, <1>5, <1>6 DEF Next, vars
<1> QED
  BY <1>7 DEF Kept

-----------------------------------------------------------------------------
(* What a call returns.                                                    *)

\* A step of t leaves the other calls what they have when it does not touch their
\* blocks.
LEMMA ServedStep ==
  ASSUME IInv, Served, NEW t \in Thread, NEW r \in Call, pc' = [pc EXCEPT ![t] = r],
         \A b \in Others(t) : heap'[b] = heap[b],
         r.at \in {"subtract", "add"} => heap'[r.block] >= r.asked
  PROVE  Served'
<1>1. pc'[t] = r /\ \A u \in Thread : u # t => pc'[u] = pc[u]
  BY NextCall
<1>2. \A u \in Thread : u # t /\ pc[u].at # "idle" => pc[u].block \in Others(t)
  BY DEF Others
<1>3. ASSUME NEW u \in Thread, pc'[u].at \in {"subtract", "add"}
      PROVE  heap'[pc'[u].block] >= pc'[u].asked
  <2>1. CASE u = t
    BY <1>1, <1>3, <2>1
  <2>2. CASE u # t
    BY <1>1, <1>2, <1>3, <2>2 DEF Served
  <2> QED
    BY <2>1, <2>2
<1> QED
  BY <1>3 DEF Served

\* malloc and calloc give what they are asked for.
LEMMA AllocateServes ==
  ASSUME IInv, Served, NEW t \in Thread, NEW size \in Nat, NEW asked \in Nat,
         NEW strict, Allocate(t, size, asked, strict), asked <= size
  PROVE  Served'
<1>1. CASE UNCHANGED <<heap, pc>>
  BY <1>1 DEF Served
<1>2. ASSUME NEW b \in Unallocated, NEW s \in Usable(size),
             heap' = [heap EXCEPT ![b] = s],
             pc' = [pc EXCEPT ![t] = [Idle EXCEPT !.at = "add", !.block = b, !.asked = asked]]
      PROVE  Served'
  <2> DEFINE r == [Idle EXCEPT !.at = "add", !.block = b, !.asked = asked]
  <2>1. b \in Block /\ b \notin Live /\ heap \in [Block -> Nat]
    BY DEF Unallocated, Live, IInv, TypeOK
  <2>2. r \in Call /\ r.block = b /\ r.asked = asked
    BY <2>1 DEF Idle, Call
  <2>3. Others(t) \subseteq Live
    BY BlocksOfOthers
  <2>4. \A c \in Others(t) : heap'[c] = heap[c]
    BY <1>2, <2>1, <2>3 DEF Live
  <2>5. s >= size
    BY SizeAssumption DEF Usable
  <2>6. s \in Nat
    BY UsableSize
  <2>7. heap'[b] >= asked
    BY <1>2, <2>1, <2>5, <2>6
  <2> HIDE DEF r
  <2>8. pc' = [pc EXCEPT ![t] = r]
    BY <1>2 DEF r
  <2> QED
    BY <2>2, <2>4, <2>7, <2>8, ServedStep
<1> QED
  BY <1>1, <1>2 DEF Allocate

\* A call that ends, and one that releases its block, promise nothing more.
LEMMA EndServes ==
  ASSUME IInv, Served, NEW t \in Thread, Add(t) \/ Release(t)
  PROVE  Served'
<1>1. pc' = [pc EXCEPT ![t] = Idle] /\ Idle \in Call /\ Idle.at = "idle" /\ pc[t].at # "idle"
  BY DEF Add, Release, Idle, Call
<1>2. heap' = heap \/ heap' = [heap EXCEPT ![pc[t].block] = 0]
  BY DEF Add, Release
<1>3. \A b \in Others(t) : b # pc[t].block /\ b \in Block
  BY <1>1, BlocksOfOthers DEF Live
<1>4. \A b \in Others(t) : heap'[b] = heap[b]
  BY <1>2, <1>3 DEF IInv, TypeOK
<1> QED
  BY <1>1, <1>4, ServedStep

LEMMA UncountServes ==
  ASSUME IInv, Served, NEW t \in Thread, NEW b \in held, NEW then \in {"return", "null", "handler"},
         Uncount(t, b, then)
  PROVE  Served'
<1> DEFINE r == [Idle EXCEPT !.at = "free", !.block = b, !.then = then]
<1>1. r \in Call /\ r.at = "free"
  BY DEF Idle, Call, IInv, TypeOK, Live
<1>2. pc' = [pc EXCEPT ![t] = r] /\ heap' = heap
  BY DEF Uncount
<1> HIDE DEF r
<1> QED
  BY <1>1, <1>2, ServedStep

LEMMA ZreallocServes ==
  ASSUME IInv, Served, NEW t \in Thread, NEW b \in Block, NEW size \in Nat,
         NEW strict \in BOOLEAN, zrealloc(t, b, size, strict)
  PROVE  Served'
<1>1. b \in held
  BY DEF zrealloc
<1>2. CASE Uncount(t, b, IF strict /\ size # 0 THEN "handler" ELSE "null")
  BY <1>1, <1>2, UncountServes
<1>3. CASE UNCHANGED <<heap, pc>>
  BY <1>3 DEF Served
<1>4. ASSUME NEW n \in {b} \union Unallocated, NEW s \in Usable(size), size # 0,
             heap' = [heap EXCEPT ![b] = 0, ![n] = s],
             pc' = [pc EXCEPT ![t] = [Idle EXCEPT !.at = "subtract", !.block = n,
                                                    !.asked = size, !.old = heap[b]]]
      PROVE  Served'
  <2> DEFINE r == [Idle EXCEPT !.at = "subtract", !.block = n, !.asked = size, !.old = heap[b]]
  <2>1. n \in Block /\ (n = b \/ n \notin Live) /\ heap \in [Block -> Nat]
    BY DEF Unallocated, Live, IInv, TypeOK
  <2>2. r \in Call /\ r.block = n /\ r.asked = size
    BY <2>1 DEF Idle, Call
  <2>3. Others(t) \subseteq Live /\ b \notin Others(t)
    BY <1>1, BlocksOfOthers
  <2>4. \A c \in Others(t) : heap'[c] = heap[c]
    BY <1>4, <2>1, <2>3 DEF Live
  <2>5. s \in Nat /\ s >= size
    BY UsableSize, SizeAssumption DEF Usable
  <2>6. heap'[n] >= size
    BY <1>4, <2>1, <2>5
  <2> HIDE DEF r
  <2>7. pc' = [pc EXCEPT ![t] = r]
    BY <1>4 DEF r
  <2> QED
    BY <2>2, <2>4, <2>6, <2>7, ServedStep
<1> QED
  BY <1>2, <1>3, <1>4 DEF zrealloc

LEMMA SubtractServes ==
  ASSUME IInv, Served, NEW t \in Thread, Subtract(t)
  PROVE  Served'
<1> DEFINE r == [pc[t] EXCEPT !.at = "add", !.old = 0]
<1>1. pc[t] \in Call /\ pc \in [Thread -> Call] /\ pc[t].at = "subtract"
  BY DEF Subtract, IInv, TypeOK
<1>2. r \in Call /\ r.block = pc[t].block /\ r.asked = pc[t].asked
  BY <1>1 DEF Call
<1>3. pc' = [pc EXCEPT ![t] = r] /\ heap' = heap
  BY <1>1 DEF Subtract
<1> HIDE DEF r
<1> QED
  BY <1>1, <1>2, <1>3, ServedStep DEF Served

LEMMA NextServed ==
  ASSUME IInv, Served, [Next]_vars
  PROVE  Served'
<1>1. CASE UNCHANGED <<heap, pc>>
  BY <1>1 DEF Served
<1>2. ASSUME NEW t \in Thread, NEW size \in Request, NEW strict \in BOOLEAN,
             Allocate(t, size, size, strict)
      PROVE  Served'
  <2>1. size \in Nat /\ size <= size
    BY SizeAssumption
  <2> QED
    BY <1>2, <2>1, AllocateServes
<1>3. ASSUME NEW t \in Thread, NEW num \in Count, NEW size \in Request, zcalloc_num(t, num, size)
      PROVE  Served'
  <2>1. num \in Nat /\ size \in Nat
    BY SizeAssumption
  <2>2. CASE size = 0 \/ num > SizeMax \div size
    BY <1>1, <1>3, <2>2 DEF zcalloc_num
  <2>3. CASE ~(size = 0 \/ num > SizeMax \div size)
    <3>1. Allocate(t, Times(num, size), num * size, TRUE)
      BY <1>3, <2>3 DEF zcalloc_num
    <3>2. num * size \in Nat /\ Times(num, size) \in Nat /\ Times(num, size) = num * size
      BY <2>1, <2>3, ProductSize
    <3>3. num * size <= Times(num, size)
      BY <3>2
    <3> QED
      BY <3>1, <3>2, <3>3, AllocateServes
  <2> QED
    BY <2>2, <2>3
<1>4. ASSUME NEW t \in Thread, NEW b \in Block, zfree(t, b)
      PROVE  Served'
  BY <1>4, UncountServes DEF zfree
<1>5. ASSUME NEW t \in Thread, NEW b \in Block, NEW size \in Request, NEW strict \in BOOLEAN,
             zrealloc(t, b, size, strict)
      PROVE  Served'
  BY <1>5, SizeAssumption, ZreallocServes
<1>6. ASSUME NEW t \in Thread, NEW b \in Block, NEW usable \in OutAddress,
             zfree_usable(t, b, usable)
      PROVE  Served'
  BY <1>1, <1>6 DEF zfree_usable
<1>7. ASSUME NEW t \in Thread, Add(t) \/ Subtract(t) \/ Release(t)
      PROVE  Served'
  BY <1>7, EndServes, SubtractServes
<1> QED
  BY <1>1, <1>2, <1>3, <1>4, <1>5, <1>6, <1>7 DEF Next, vars

-----------------------------------------------------------------------------
(* The theorems.                                                           *)

LEMMA InitIInv == Init => IInv /\ NoLeak
BY SizeAssumption DEF Init, IInv, TypeOK, Exclusive, NoLeak, InCall, Live, Idle, Call

LEMMA NextIInv ==
  ASSUME IInv, [Next]_vars
  PROVE  IInv' /\ (NoLeak /\ OutAddress = {} => NoLeak')
<1> DEFINE Kept == IInv' /\ (NoLeak => NoLeak')
<1>1. ASSUME UNCHANGED vars PROVE Kept
  BY <1>1 DEF vars, IInv, TypeOK, Exclusive, NoLeak, InCall, Live
<1>2. ASSUME NEW t \in Thread, NEW size \in Request, NEW strict \in BOOLEAN,
             Allocate(t, size, size, strict)
      PROVE  Kept
  <2>1. size \in Nat
    BY SizeAssumption
  <2> QED
    BY <1>2, <2>1, AllocateStep
<1>3. ASSUME NEW t \in Thread, NEW num \in Count, NEW size \in Request, zcalloc_num(t, num, size)
      PROVE  Kept
  <2>1. size \in Nat /\ num \in Nat
    BY SizeAssumption
  <2> QED
    BY <1>3, <2>1, ZcallocNumStep
<1>4. ASSUME NEW t \in Thread, NEW b \in Block, zfree(t, b)
      PROVE  Kept
  <2>1. b \in held /\ Between(t) /\ Uncount(t, b, "return")
    BY <1>4 DEF zfree
  <2>2. pc[t].at = "idle"
    BY <2>1 DEF Between, Idle
  <2> QED
    BY <2>1, <2>2, UncountStep
<1>5. ASSUME NEW t \in Thread, NEW b \in Block, NEW size \in Request, NEW strict \in BOOLEAN,
             zrealloc(t, b, size, strict)
      PROVE  Kept
  <2>1. size \in Nat
    BY SizeAssumption
  <2> QED
    BY <1>5, <2>1, ZreallocStep
<1>6. ASSUME NEW t \in Thread, NEW b \in Block, NEW usable \in OutAddress,
             zfree_usable(t, b, usable)
      PROVE  IInv' /\ OutAddress # {}
  BY <1>6, ZfreeUsableStep
<1>7. ASSUME NEW t \in Thread, Add(t) \/ Subtract(t) \/ Release(t)
      PROVE  Kept
  BY <1>7, AddStep, SubtractStep, ReleaseStep
<1> HIDE DEF Kept
<1>8. Kept \/ (IInv' /\ OutAddress # {})
  BY <1>1, <1>2, <1>3, <1>4, <1>5, <1>6, <1>7 DEF Next
<1> QED
  BY <1>8 DEF Kept

\* The blocks, the calls and the clients fit together at every step of any number
\* of threads; the theorems that follow are parts of this one.
THEOREM Invariant == Spec => []IInv
<1>1. Init => IInv
  BY InitIInv
<1>2. IInv /\ [Next]_vars => IInv'
  BY NextIInv
<1> QED
  BY <1>1, <1>2, PTL DEF Spec

\* The counter stays a size_t, and a pointer a client holds points to an allocated
\* block.
THEOREM TypeCorrect == Spec => []TypeOK
<1>1. IInv => TypeOK
  BY DEF IInv
<1> QED
  BY <1>1, Invariant, PTL

\* No block is ever shared by two clients, two calls, or a client and a call.
THEOREM NeverShared == Spec => []Exclusive
<1>1. IInv => Exclusive
  BY DEF IInv
<1> QED
  BY <1>1, Invariant, PTL

\* A program that does not call zfree_usable leaks no block, whichever allocations
\* fail and however the threads interleave.
THEOREM NothingLeaks == ASSUME OutAddress = {} PROVE Spec => []NoLeak
<1>1. Init => IInv /\ NoLeak
  BY InitIInv
<1>2. (IInv /\ NoLeak) /\ [Next]_vars => (IInv /\ NoLeak)'
  BY NextIInv
<1> QED
  BY <1>1, <1>2, PTL DEF Spec

\* No call returns less memory than the client asked for, for any sizes and counts,
\* and whatever the other threads do while it is under way.
THEOREM AlwaysServed == Spec => []Served
<1>1. Init => Served
  BY DEF Init, Served, Idle
<1>2. IInv /\ Served /\ [Next]_vars => Served'
  BY NextServed
<1> QED
  BY <1>1, <1>2, Invariant, PTL DEF Spec

\* However the additions and subtractions of any number of threads mix, the counter
\* is what is held and still to be subtracted, up to the width of a size_t.
THEOREM CounterKept == ASSUME OutAddress = {} PROVE Spec => []CounterFollows
<1>1. Init => IInv /\ Summed /\ CounterFollows
  <2> SUFFICES ASSUME Init PROVE Summed /\ CounterFollows
    BY InitIInv
  <2>1. held = {} /\ Subtracting = {} /\ used_memory = 0
    BY DEF Init, Subtracting, Idle
  <2>2. \A f : SumFunctionOnSet(f, {}) = 0
    BY SumUnfold, FS_EmptySet
  <2>3. Counted = 0 + 0
    BY <2>1, <2>2 DEF Counted
  <2>4. 0 % (SizeMax + 1) = 0
    BY SizeAssumption
  <2> QED
    BY <2>1, <2>3, <2>4, FS_EmptySet DEF Summed, CounterFollows
<1>2. (IInv /\ Summed /\ CounterFollows) /\ [Next]_vars => (IInv /\ Summed /\ CounterFollows)'
  BY NextIInv, NextCounts
<1> QED
  BY <1>1, <1>2, PTL DEF Spec

\* It is exactly that, and does not wrap, as long as these sizes fit a size_t.
THEOREM CounterRight ==
  ASSUME OutAddress = {} PROVE Spec /\ [](Counted \in 0..SizeMax) => []CounterExact
<1>1. ASSUME CounterFollows, Counted \in 0..SizeMax
      PROVE  CounterExact
  <2>1. \A n \in 0..SizeMax : n % (SizeMax + 1) = n
    BY SizeAssumption
  <2> QED
    BY <1>1, <2>1 DEF CounterFollows, CounterExact
<1> QED
  BY <1>1, CounterKept, PTL
=============================================================================
