------------------------- MODULE DictTraversalProofs -------------------------
(***************************************************************************)
(* Theorems about the iterators, the scan and the samples of a dict, for   *)
(* every set of keys and every hash function.                              *)
(***************************************************************************)
EXTENDS DictTraversal, DictProofs, RecursionFacts

\* Chain s has the key x, and from there on the key y.
InOrder(s, x, y) == \E p, q \in 1..Len(s) : p <= q /\ s[p].key = x /\ s[q].key = y

\* A saved successor: a key of the chain or nothing.
SavedIn(s, ks) == ks = {} \/ \E k \in Key : ks = {k} /\ InOrder(s, k, k)

\* What an iterator in slot i of the second table, with the saved successors
\* ks, has still to return of its chain.
Ahead(ht, i, ks) == {y \in Key : \E x \in ks : InOrder(ht.ht_table[1][i], x, y)}

\* The slot of a key in the second table.
SlotIn1(ht, k) == InsertSlot(Hash[k], ht.ht_size_exp[1])

\* An iteration that has come to slot i, with the saved successors ks: what it
\* has returned is behind it, and what it owes lies ahead.
Progress(ht, i, ks, seen, owed) ==
  /\ \A x \in seen : SlotIn1(ht, x) <= i /\ x \notin Ahead(ht, i, ks)
  /\ \A x \in owed : x \in KeysIn(ht, 1) /\ (SlotIn1(ht, x) > i \/ x \in Ahead(ht, i, ks))

\* An iterator before its first dictNext, at an entry, and past the last one.
Waiting(it) ==
  /\ it.table = 0 /\ it.index = -1 /\ it.entry = {} /\ it.nextEntry = {} /\ ~it.ended
  /\ walk.seen = {} /\ walk.owed = {}

Visiting(it) ==
  /\ Rehashing(d) /\ it.table = 1 /\ it.index \in DOMAIN d.ht_table[1] /\ ~it.ended
  /\ \E k \in walk.seen : it.entry = {k}
  /\ SavedIn(d.ht_table[1][it.index], it.nextEntry)
  /\ Progress(d, it.index, it.nextEntry, walk.seen, walk.owed)

Over(it) == it.ended /\ it.index # -1 /\ it.entry = {} /\ it.nextEntry = {} /\ walk.owed = {}

Iterating ==
  /\ walk \in [seen : SUBSET Key, owed : SUBSET Key]
  /\ iter = {} \/ \E it \in iter : iter = {it} /\ it \in Iterator /\ (Waiting(it) \/ Visiting(it) \/ Over(it))

\* The pauses that are not those of an unlink are those of the iterator.
Pausing(its) == {it \in its : it.safe /\ Started(it)}

\* The inductive invariant of a dict with an iterator.
TraversalInv == Sane /\ OtherPauses = Cardinality(Pausing(iter)) /\ Iterating

-----------------------------------------------------------------------------
(* Chains.                                                                 *)

\* Chain s as chain j of the second table of a good dict: its keys are of that
\* slot, and no two of them are equal.
ChainIn(ht, j, s) ==
  /\ s = ht.ht_table[1][j] /\ s \in Seq(Entry) /\ Len(s) \in Nat
  /\ \A p \in 1..Len(s) : s[p].key \in Key /\ SlotIn1(ht, s[p].key) = j
  /\ \A p, q \in 1..Len(s) : s[p].key = s[q].key => p = q

\* Every chain of the second table is one.
LEMMA ChainFacts ==
  ASSUME NEW ht, GoodDict(ht), NEW j \in DOMAIN ht.ht_table[1], NEW s, s = ht.ht_table[1][j]
  PROVE  ChainIn(ht, j, s)
<1>1. s \in Seq(Entry)
  BY TableFacts DEF GoodDict, StructOK
<1>2. Len(s) \in Nat /\ \A p \in 1..Len(s) : s[p].key \in Key
  <2>1. Len(s) \in Nat /\ \A p \in 1..Len(s) : s[p] \in Entry
    BY <1>1
  <2> QED
    BY <2>1 DEF Entry
<1>3. \A p \in 1..Len(s) : SlotIn1(ht, s[p].key) = j
  <2>1. \A p \in 1..Len(ht.ht_table[1][j]) : PlacedAt(ht, 1, j, p)
    BY PlacedCoordinates DEF GoodDict
  <2> QED
    BY <2>1 DEF PlacedAt, SlotIn1
<1>4. ASSUME NEW p \in 1..Len(s), NEW q \in 1..Len(s), s[p].key = s[q].key PROVE p = q
  <2>1. SameKeyAt(ht, 1, j, p, 1, j, q)
    BY <1>4 DEF SameKeyAt
  <2>2. KeysDistinct(ht) /\ p \in 1..Len(ht.ht_table[1][j]) /\ q \in 1..Len(ht.ht_table[1][j]) /\ 1 \in 0..1
    BY DEF GoodDict
  <2> QED
    BY <2>1, <2>2, DistinctCoordinates
<1> QED
  BY <1>1, <1>2, <1>3, <1>4 DEF ChainIn

\* The keys of the second table are those of its chains.
LEMMA KeysIn1 ==
  ASSUME NEW ht
  PROVE  \A x : x \in KeysIn(ht, 1) <=>
           \E j \in DOMAIN ht.ht_table[1] : \E p \in 1..Len(ht.ht_table[1][j]) : ht.ht_table[1][j][p].key = x
<1>1. ASSUME NEW x \in KeysIn(ht, 1)
      PROVE  \E j \in DOMAIN ht.ht_table[1] : \E p \in 1..Len(ht.ht_table[1][j]) : ht.ht_table[1][j][p].key = x
  <2>1. PICK pos \in Positions(ht, 1) : x = EntryAt(ht, pos).key
    BY DEF KeysIn
  <2> QED
    BY <2>1, CoordinatesOf
<1>2. ASSUME NEW j \in DOMAIN ht.ht_table[1], NEW p \in 1..Len(ht.ht_table[1][j])
      PROVE  ht.ht_table[1][j][p].key \in KeysIn(ht, 1)
  <2>1. PICK pos : pos = [table |-> 1, slot |-> j, index |-> p]
    OBVIOUS
  <2>2. pos \in Positions(ht, 1) /\ EntryAt(ht, pos) = ht.ht_table[1][j][p]
    BY <2>1, PositionAt
  <2> QED
    BY <2>2 DEF KeysIn
<1> QED
  BY <1>1, <1>2

\* The slots of the second table during a rehash are numbers.
LEMMA SlotsOf1 ==
  ASSUME NEW ht, GoodDict(ht), Rehashing(ht)
  PROVE  /\ ht.ht_size_exp[1] \in 2..MaxExp
         /\ DOMAIN ht.ht_table[1] = 0..(Size(ht.ht_size_exp[1]) - 1)
         /\ Size(ht.ht_size_exp[1]) \in Nat
<1>1. ht.ht_size_exp[1] \in 2..MaxExp
  BY DEF GoodDict, Shaped, StructOK, Exponents
<1> QED
  BY <1>1, SizeFacts DEF GoodDict, Shaped

\* There is none outside a rehash.
LEMMA NoSlotsOf1 ==
  ASSUME NEW ht, GoodDict(ht), ~Rehashing(ht)
  PROVE  DOMAIN ht.ht_table[1] = {} /\ KeysIn(ht, 1) = {}
<1>1. DOMAIN ht.ht_table[1] = {}
  BY DEF GoodDict, Shaped, NoTable
<1> QED
  BY <1>1, KeysIn1

\* The saved successor is the next key of the chain, if there is one.
LEMMA SuccessorFacts ==
  ASSUME NEW ht, NEW j, NEW s, ChainIn(ht, j, s), NEW r \in 1..Len(s)
  PROVE  Successor(s, s[r].key) = IF r = Len(s) THEN {} ELSE {s[r + 1].key}
<1>1. Len(s) \in Nat /\ r \in Nat /\ \A p, q \in 1..Len(s) : s[p].key = s[q].key => p = q
  BY DEF ChainIn
<1>2. \A q \in 2..Len(s) : s[q - 1].key = s[r].key <=> q = r + 1
  BY <1>1
<1>3. {q \in 2..Len(s) : s[q - 1].key = s[r].key} = IF r = Len(s) THEN {} ELSE {r + 1}
  BY <1>1, <1>2
<1>4. PICK Q : Q = {q \in 2..Len(s) : s[q - 1].key = s[r].key}
  OBVIOUS
<1>5. Successor(s, s[r].key) = {s[p].key : p \in Q}
  BY <1>4 DEF Successor
<1> QED
  BY <1>3, <1>4, <1>5

-----------------------------------------------------------------------------
(* The progress of an iteration.                                           *)

\* The keys of a chain from r on.
KeysFrom(s, r) == {s[p].key : p \in r..Len(s)}

\* What is ahead of an iteration that is about to return the entry at r, and after it.
AheadAre(ht, j, s, r) ==
  /\ Ahead(ht, j, {s[r].key}) = KeysFrom(s, r)
  /\ Ahead(ht, j, Successor(s, s[r].key)) = KeysFrom(s, r + 1)

\* The keys ahead of the entry at r of a chain are those behind it in the sequence.
LEMMA AheadOfNext ==
  ASSUME NEW ht, NEW j, NEW s, ChainIn(ht, j, s), NEW r \in 1..Len(s)
  PROVE  AheadAre(ht, j, s, r)
<1>1. /\ Len(s) \in Nat /\ r \in Nat /\ s = ht.ht_table[1][j]
      /\ \A p \in 1..Len(s) : s[p].key \in Key
      /\ \A p, q \in 1..Len(s) : s[p].key = s[q].key => p = q
  BY DEF ChainIn
<1>2. ASSUME NEW i \in 1..Len(s)
      PROVE  Ahead(ht, j, {s[i].key}) = KeysFrom(s, i)
  <2>1. \A y : InOrder(s, s[i].key, y) <=> \E p \in i..Len(s) : s[p].key = y
    BY <1>1 DEF InOrder
  <2>2. \A y : y \in Ahead(ht, j, {s[i].key}) <=> y \in Key /\ InOrder(s, s[i].key, y)
    BY <1>1 DEF Ahead
  <2>3. \A p \in i..Len(s) : s[p].key \in Key
    BY <1>1
  <2> QED
    BY <2>1, <2>2, <2>3 DEF KeysFrom
<1>3. CASE r = Len(s)
  <2>1. Successor(s, s[r].key) = {}
    BY <1>3, SuccessorFacts
  <2>2. Ahead(ht, j, {}) = {}
    BY DEF Ahead
  <2>3. KeysFrom(s, r + 1) = {}
    BY <1>1, <1>3 DEF KeysFrom
  <2> QED
    BY <1>2, <2>1, <2>2, <2>3 DEF AheadAre
<1>4. CASE r # Len(s)
  <2>1. r + 1 \in 1..Len(s)
    BY <1>1, <1>4
  <2>2. Successor(s, s[r].key) = {s[r + 1].key}
    BY <1>4, SuccessorFacts
  <2> QED
    BY <1>2, <2>1, <2>2 DEF AheadAre
<1> QED
  BY <1>3, <1>4

\* An iteration that has returned seen and owes owed comes to key k of chain s,
\* slot j: it has not returned it before.
ComesTo(ht, j, s, k, seen, owed) ==
  /\ k \in Key /\ k \notin seen /\ SavedIn(s, Successor(s, k))
  /\ Progress(ht, j, Successor(s, k), seen \union {k}, owed \ {k})

\* At the entry at r of chain j, an iteration has passed one key more: none of
\* those it has returned, and it owes it no longer.
LEMMA ProgressAt ==
  ASSUME NEW ht, NEW j \in Int, NEW s, ChainIn(ht, j, s), NEW r \in 1..Len(s), NEW k, k = s[r].key,
         NEW seen, NEW owed,
         \A x \in seen : SlotIn1(ht, x) <= j /\ x \notin KeysFrom(s, r),
         \A x \in owed : x \in KeysIn(ht, 1) /\ (SlotIn1(ht, x) > j \/ x \in KeysFrom(s, r))
  PROVE  ComesTo(ht, j, s, k, seen, owed)
<1>1. /\ Len(s) \in Nat /\ r \in Nat
      /\ \A p \in 1..Len(s) : s[p].key \in Key /\ SlotIn1(ht, s[p].key) = j
      /\ \A p, q \in 1..Len(s) : s[p].key = s[q].key => p = q
  BY DEF ChainIn
<1>2. Ahead(ht, j, Successor(s, k)) = KeysFrom(s, r + 1)
  <2>1. AheadAre(ht, j, s, r)
    BY AheadOfNext
  <2> QED
    BY <2>1 DEF AheadAre
<1>3. \A x : x \in KeysFrom(s, r) <=> x = k \/ x \in KeysFrom(s, r + 1)
  BY <1>1 DEF KeysFrom
<1>4. k \notin KeysFrom(s, r + 1)
  BY <1>1 DEF KeysFrom
<1>5. k \in Key /\ SlotIn1(ht, k) = j /\ k \notin seen
  BY <1>1, <1>3
<1>6. SavedIn(s, Successor(s, k))
  <2>1. CASE r = Len(s)
    BY <2>1, SuccessorFacts DEF SavedIn
  <2>2. CASE r # Len(s)
    <3>1. r + 1 \in 1..Len(s)
      BY <1>1, <2>2
    <3>2. Successor(s, s[r].key) = {s[r + 1].key}
      BY <2>2, SuccessorFacts
    <3>3. InOrder(s, s[r + 1].key, s[r + 1].key)
      BY <1>1, <3>1 DEF InOrder
    <3> QED
      BY <1>1, <3>1, <3>2, <3>3 DEF SavedIn
  <2> QED
    BY <2>1, <2>2
<1>7. PICK A : A = KeysFrom(s, r + 1)
  OBVIOUS
<1>8. PICK B : B = KeysFrom(s, r)
  OBVIOUS
<1>9. Progress(ht, j, Successor(s, k), seen \union {k}, owed \ {k})
  <2>1. \A x \in seen \union {k} : SlotIn1(ht, x) <= j /\ x \notin A
    BY <1>3, <1>4, <1>5, <1>7, <1>8
  <2>2. \A x \in owed \ {k} : x \in KeysIn(ht, 1) /\ (SlotIn1(ht, x) > j \/ x \in A)
    BY <1>3, <1>7, <1>8
  <2> QED
    BY <1>2, <1>7, <2>1, <2>2 DEF Progress
<1> QED
  BY <1>5, <1>6, <1>9 DEF ComesTo

\* The next entry of the chain.
LEMMA ProgressNext ==
  ASSUME NEW ht, GoodDict(ht), Rehashing(ht), NEW j \in DOMAIN ht.ht_table[1],
         NEW s, s = ht.ht_table[1][j], NEW k, InOrder(s, k, k),
         NEW seen, NEW owed, Progress(ht, j, {k}, seen, owed)
  PROVE  ComesTo(ht, j, s, k, seen, owed)
<1>1. ChainIn(ht, j, s) /\ j \in Int
  BY ChainFacts, SlotsOf1
<1>2. PICK r \in 1..Len(s) : s[r].key = k
  BY DEF InOrder
<1>3. Ahead(ht, j, {k}) = KeysFrom(s, r)
  <2>1. AheadAre(ht, j, s, r)
    BY <1>1, AheadOfNext
  <2> QED
    BY <1>2, <2>1 DEF AheadAre
<1>4. PICK B : B = KeysFrom(s, r)
  OBVIOUS
<1>5. /\ \A x \in seen : SlotIn1(ht, x) <= j /\ x \notin B
      /\ \A x \in owed : x \in KeysIn(ht, 1) /\ (SlotIn1(ht, x) > j \/ x \in B)
  BY <1>3, <1>4 DEF Progress
<1> QED
  BY <1>1, <1>2, <1>4, <1>5, ProgressAt

\* The first entry of the next chain that has one.
LEMMA ProgressBucket ==
  ASSUME NEW ht, GoodDict(ht), Rehashing(ht), NEW low \in Int,
         NEW j \in DOMAIN ht.ht_table[1], j > low,
         NEW s, s = ht.ht_table[1][j], s # << >>, NEW k, k = s[1].key,
         \A i \in DOMAIN ht.ht_table[1] : i > low /\ ht.ht_table[1][i] # << >> => j <= i,
         NEW seen, NEW owed, Progress(ht, low, {}, seen, owed),
         \A x \in seen \union owed : SlotIn1(ht, x) \in Int
  PROVE  ComesTo(ht, j, s, k, seen, owed)
<1>1. ChainIn(ht, j, s) /\ j \in Int
  BY ChainFacts, SlotsOf1
<1>2. 1 \in 1..Len(s)
  BY <1>1 DEF ChainIn
<1>3. Ahead(ht, low, {}) = {}
  BY DEF Ahead
<1>4. PICK B : B = KeysFrom(s, 1)
  OBVIOUS
<1>5. \A x \in seen : SlotIn1(ht, x) <= j /\ x \notin B
  <2>1. \A x \in seen : SlotIn1(ht, x) <= low
    BY DEF Progress
  <2>2. \A x \in B : SlotIn1(ht, x) = j
    BY <1>1, <1>4 DEF ChainIn, KeysFrom
  <2> QED
    BY <1>1, <2>1, <2>2
<1>6. ASSUME NEW x \in owed PROVE x \in KeysIn(ht, 1) /\ (SlotIn1(ht, x) > j \/ x \in B)
  <2>1. x \in KeysIn(ht, 1) /\ SlotIn1(ht, x) > low
    BY <1>3 DEF Progress
  <2>2. PICK i \in DOMAIN ht.ht_table[1] : \E p \in 1..Len(ht.ht_table[1][i]) : ht.ht_table[1][i][p].key = x
    BY <2>1, KeysIn1
  <2>3. PICK c : c = ht.ht_table[1][i]
    OBVIOUS
  <2>4. PICK p \in 1..Len(c) : c[p].key = x
    BY <2>2, <2>3
  <2>5. ChainIn(ht, i, c) /\ SlotIn1(ht, x) = i
    BY SMTT(30), <2>3, <2>4, ChainFacts DEF ChainIn
  <2>6. c # << >>
    BY <2>4, <2>5 DEF ChainIn
  <2>7. j <= i /\ i \in Int
    BY <2>1, <2>3, <2>5, <2>6
  <2>8. i = j => x \in B
    BY <1>4, <2>3, <2>4 DEF KeysFrom
  <2> QED
    BY <1>1, <2>1, <2>5, <2>7, <2>8
<1> QED
  BY <1>1, <1>2, <1>4, <1>5, <1>6, ProgressAt

\* When no chain ahead has an entry, nothing is owed.
LEMMA ProgressEnd ==
  ASSUME NEW ht, GoodDict(ht), NEW low \in Int,
         \A i \in DOMAIN ht.ht_table[1] : i > low => ht.ht_table[1][i] = << >>,
         NEW seen, NEW owed, Progress(ht, low, {}, seen, owed)
  PROVE  owed = {}
<1>1. Ahead(ht, low, {}) = {}
  BY DEF Ahead
<1> SUFFICES ASSUME NEW x \in owed PROVE FALSE
  OBVIOUS
<1>2. x \in KeysIn(ht, 1) /\ SlotIn1(ht, x) > low
  BY <1>1 DEF Progress
<1>3. PICK i \in DOMAIN ht.ht_table[1] : \E p \in 1..Len(ht.ht_table[1][i]) : ht.ht_table[1][i][p].key = x
  BY <1>2, KeysIn1
<1>4. PICK c : c = ht.ht_table[1][i]
  OBVIOUS
<1>5. PICK p \in 1..Len(c) : c[p].key = x
  BY <1>3, <1>4
<1>6. ChainIn(ht, i, c) /\ SlotIn1(ht, x) = i
  BY <1>4, <1>5, ChainFacts DEF ChainIn
<1>7. c = << >>
  BY <1>2, <1>4, <1>6
<1> QED
  BY <1>5, <1>7

-----------------------------------------------------------------------------
(* What the other operations do to a chain under an iterator.              *)

\* Chain n is chain s without keys of gone, with other keys in front at most.
ChainMoved(s, n, gone) ==
  \A x, y : /\ InOrder(s, x, y) /\ x \notin gone /\ y \notin gone => InOrder(n, x, y)
            /\ InOrder(n, x, y) /\ InOrder(s, x, x) => InOrder(s, x, y)

\* Storing a value moves nothing.
LEMMA ChainKept ==
  ASSUME NEW s, NEW n, Len(n) = Len(s), \A p \in 1..Len(s) : n[p].key = s[p].key
  PROVE  ChainMoved(s, n, {})
  BY DEF ChainMoved, InOrder

\* An entry put in front leaves the others in order.
LEMMA ChainFront ==
  ASSUME NEW s \in Seq(Entry), NEW e, NEW n, n = <<e>> \o s,
         \A p, q \in 1..Len(n) : n[p].key = n[q].key => p = q
  PROVE  ChainMoved(s, n, {})
<1>1. /\ Len(s) \in Nat /\ Len(n) = Len(s) + 1
      /\ n[1] = e /\ \A p \in 1..Len(s) : n[p + 1] = s[p] /\ s[p].key # e.key
  <2>1. PICK S : S = Entry \union {e}
    OBVIOUS
  <2>2. s \in Seq(S) /\ e \in S
    <3>1. Len(s) \in Nat /\ s \in [1..Len(s) -> S]
      BY <2>1
    <3> QED
      BY <2>1, <3>1
  <2>3. /\ Len(s) \in Nat /\ Len(n) = Len(s) + 1
        /\ \A p \in 1..(Len(s) + 1) : n[p] = IF p = 1 THEN e ELSE s[p - 1]
    BY <2>2, PrependSeq
  <2>4. n[1] = e /\ \A p \in 1..Len(s) : n[p + 1] = s[p] /\ p + 1 \in 1..Len(n) /\ p + 1 # 1
    BY <2>3
  <2> QED
    BY <2>3, <2>4
<1>2. ASSUME NEW x, NEW y, InOrder(s, x, y) PROVE InOrder(n, x, y)
  <2>1. PICK p, q \in 1..Len(s) : p <= q /\ s[p].key = x /\ s[q].key = y
    BY <1>2 DEF InOrder
  <2>2. p + 1 \in 1..Len(n) /\ q + 1 \in 1..Len(n) /\ p + 1 <= q + 1
    BY <1>1, <2>1
  <2>3. n[p + 1].key = x /\ n[q + 1].key = y
    BY <1>1, <2>1
  <2> QED
    BY <2>2, <2>3 DEF InOrder
<1>3. ASSUME NEW x, NEW y, InOrder(n, x, y), InOrder(s, x, x) PROVE InOrder(s, x, y)
  <2>1. PICK p, q \in 1..Len(n) : p <= q /\ n[p].key = x /\ n[q].key = y
    BY <1>3 DEF InOrder
  <2>2. x # e.key
    BY SMTT(30), <1>3 DEF InOrder
  <2>3. p # 1
    BY <1>1, <2>1, <2>2
  <2>4. p - 1 \in 1..Len(s) /\ q - 1 \in 1..Len(s) /\ p - 1 <= q - 1
    BY <1>1, <2>1, <2>3
  <2>5. n[(p - 1) + 1] = s[p - 1] /\ n[(q - 1) + 1] = s[q - 1] /\ (p - 1) + 1 = p /\ (q - 1) + 1 = q
    BY <1>1, <2>4
  <2>6. s[p - 1].key = x /\ s[q - 1].key = y
    BY <2>1, <2>5
  <2> QED
    BY <2>4, <2>6 DEF InOrder
<1> QED
  BY <1>2, <1>3 DEF ChainMoved

\* An entry taken out leaves the others in order.
LEMMA ChainWithout ==
  ASSUME NEW s \in Seq(Entry), NEW g \in 1..Len(s), NEW n, n = RemoveAt(s, g)
  PROVE  ChainMoved(s, n, {s[g].key})
<1>1. /\ Len(s) \in Nat /\ g \in Nat /\ Len(n) = Len(s) - 1
      /\ \A p \in 1..(Len(s) - 1) : n[p] = IF p < g THEN s[p] ELSE s[p + 1]
  BY SMTT(30), RemoveAtSeq
<1>2. ASSUME NEW x, NEW y, InOrder(s, x, y), x # s[g].key, y # s[g].key PROVE InOrder(n, x, y)
  <2>1. PICK p, q \in 1..Len(s) : p <= q /\ s[p].key = x /\ s[q].key = y
    BY <1>2 DEF InOrder
  <2>2. p # g /\ q # g
    BY <1>2, <2>1
  <2>3. PICK a, b \in Int : a = (IF p < g THEN p ELSE p - 1) /\ b = (IF q < g THEN q ELSE q - 1)
    OBVIOUS
  <2>4. a \in 1..(Len(s) - 1) /\ b \in 1..(Len(s) - 1) /\ a <= b
    BY <1>1, <2>1, <2>2, <2>3
  <2>5. n[a] = s[p]
    BY <1>1, <2>2, <2>3, <2>4
  <2>6. n[b] = s[q]
    BY <1>1, <2>2, <2>3, <2>4
  <2> QED
    BY <1>1, <2>1, <2>4, <2>5, <2>6 DEF InOrder
<1>3. ASSUME NEW x, NEW y, InOrder(n, x, y) PROVE InOrder(s, x, y)
  <2>1. PICK p, q \in 1..Len(n) : p <= q /\ n[p].key = x /\ n[q].key = y
    BY <1>3 DEF InOrder
  <2>2. PICK a, b \in Int : a = (IF p < g THEN p ELSE p + 1) /\ b = (IF q < g THEN q ELSE q + 1)
    OBVIOUS
  <2>3. a \in 1..Len(s) /\ b \in 1..Len(s) /\ a <= b
    BY <1>1, <2>1, <2>2
  <2>4. n[p] = s[a] /\ n[q] = s[b]
    BY <1>1, <2>2
  <2> QED
    BY <2>1, <2>3, <2>4 DEF InOrder
<1> QED
  BY <1>2, <1>3 DEF ChainMoved

\* The second table of n is that of ht, without keys of gone and with new ones
\* in front of its chains.
TableMoved(ht, n, gone) ==
  /\ Rehashing(n) /\ n.ht_size_exp = ht.ht_size_exp /\ DOMAIN n.ht_table[1] = DOMAIN ht.ht_table[1]
  /\ \A j \in DOMAIN ht.ht_table[1] : ChainMoved(ht.ht_table[1][j], n.ht_table[1][j], gone)

\* Then an iteration that has returned those of gone is where it was.
LEMMA ProgressKept ==
  ASSUME NEW ht, NEW n, NEW gone, TableMoved(ht, n, gone), NEW i \in DOMAIN ht.ht_table[1], NEW ks,
         SavedIn(ht.ht_table[1][i], ks), NEW seen, gone \subseteq seen,
         NEW owed, Progress(ht, i, ks, seen, owed)
  PROVE  SavedIn(n.ht_table[1][i], ks) /\ Progress(n, i, ks, seen, owed \intersect KeysIn(n, 1))
<1>1. ChainMoved(ht.ht_table[1][i], n.ht_table[1][i], gone) /\ n.ht_size_exp = ht.ht_size_exp
  BY DEF TableMoved
<1>2. \A x \in Ahead(ht, i, ks) : x \notin gone
  BY DEF Progress
<1>3. \A x \in ks : x \in Key /\ InOrder(ht.ht_table[1][i], x, x) /\ x \in Ahead(ht, i, ks)
  BY DEF SavedIn, Ahead
<1>4. Ahead(n, i, ks) = Ahead(ht, i, ks)
  BY <1>1, <1>2, <1>3 DEF ChainMoved, Ahead
<1>5. SavedIn(n.ht_table[1][i], ks)
  BY <1>1, <1>2, <1>3 DEF ChainMoved, SavedIn
<1>6. \A x : SlotIn1(n, x) = SlotIn1(ht, x)
  BY <1>1 DEF SlotIn1
<1> QED
  BY <1>4, <1>5, <1>6 DEF Progress

\* What is true of more keys gone is true of fewer.
LEMMA ChainMovedMore ==
  ASSUME NEW s, NEW n, NEW gone, ChainMoved(s, n, {})
  PROVE  ChainMoved(s, n, gone)
  BY DEF ChainMoved

\* During a rehash every step but dictEmpty leaves the second table in place.
LEMMA StepMoves ==
  ASSUME Sane, Sane', [Next]_vars, ~dictEmpty, Rehashing(d)
  PROVE  TableMoved(d, d', Deleted')
<1>1. GoodDict(d) /\ GoodDict(d')
  BY DEF Sane
<1>2. EntryChange
  BY StepChange
<1>3. ASSUME SameFrame(d, d'),
             \A j \in DOMAIN d.ht_table[1] : ChainMoved(d.ht_table[1][j], d'.ht_table[1][j], Deleted')
      PROVE  TableMoved(d, d', Deleted')
  BY <1>3 DEF TableMoved, SameFrame, Rehashing
<1>4. \A j \in DOMAIN d.ht_table[1] : d.ht_table[1][j] \in Seq(Entry)
  BY <1>1, ChainFacts DEF ChainIn
<1>5. \A j \in DOMAIN d.ht_table[1] :
        d'.ht_table[1][j] = d.ht_table[1][j] => ChainMoved(d.ht_table[1][j], d'.ht_table[1][j], Deleted')
  BY ChainKept, ChainMovedMore
<1>6. CASE ret'.op = "delete" /\ \E pos \in AllPositions(d) :
             ret'.key = {EntryAt(d, pos).key} /\ EntryGone(d, d', pos)
  <2>1. PICK pos \in AllPositions(d) : ret'.key = {EntryAt(d, pos).key} /\ EntryGone(d, d', pos)
    BY <1>6
  <2>2. ASSUME NEW j \in DOMAIN d.ht_table[1], 1 = pos.table /\ j = pos.slot
        PROVE  ChainMoved(d.ht_table[1][j], d'.ht_table[1][j], Deleted')
    <3>1. PICK s, n, g : s = d.ht_table[1][j] /\ n = d'.ht_table[1][j] /\ g = pos.index
      OBVIOUS
    <3>2. n = RemoveAt(s, g)
      BY <2>1, <2>2, <3>1 DEF EntryGone
    <3>3. pos \in Positions(d, 1)
      <4>1. pos \notin Positions(d, 0)
        BY <2>2, CoordinatesOf
      <4> QED
        BY <4>1 DEF AllPositions
    <3>4. g \in 1..Len(s) /\ EntryAt(d, pos) = s[g]
      BY <2>2, <3>1, <3>3, CoordinatesOf
    <3>5. s \in Seq(Entry)
      BY <1>4, <3>1
    <3>6. ChainMoved(s, n, {s[g].key})
      BY <3>2, <3>4, <3>5, ChainWithout
    <3>7. Deleted' = {s[g].key}
      BY <1>6, <2>1, <3>4 DEF Deleted
    <3> QED
      BY <3>1, <3>6, <3>7
  <2>3. \A j \in DOMAIN d.ht_table[1] : ~(1 = pos.table /\ j = pos.slot) =>
          d'.ht_table[1][j] = d.ht_table[1][j]
    BY <2>1 DEF EntryGone
  <2>4. SameFrame(d, d')
    BY <2>1 DEF EntryGone
  <2> QED
    BY <1>3, <1>5, <2>2, <2>3, <2>4
<1>7. CASE ChangedFrom(d, d')
  <2>1. CASE TablesKept(d, d')
    BY <1>3, <1>5, <2>1 DEF TablesKept
  <2>2. CASE \E i, e : EntryAdded(d, d', InsertTable(d), i, e)
    <3>1. PICK i, e : EntryAdded(d, d', 1, i, e)
      BY <2>2 DEF InsertTable
    <3>2. DOMAIN d'.ht_table[1] = DOMAIN d.ht_table[1] /\ SameFrame(d, d')
      BY <3>1 DEF EntryAdded, SameFrame
    <3>3. ASSUME NEW j \in DOMAIN d.ht_table[1]
          PROVE  ChainMoved(d.ht_table[1][j], d'.ht_table[1][j], Deleted')
      <4>1. CASE j = i
        <5>1. PICK s, n : s = d.ht_table[1][j] /\ n = d'.ht_table[1][j]
          OBVIOUS
        <5>2. n = <<e>> \o s
          <6>1. \A l \in DOMAIN d.ht_table[1] :
                  d'.ht_table[1][l] = IF 1 = 1 /\ l = i THEN <<e>> \o d.ht_table[1][l] ELSE d.ht_table[1][l]
            BY <3>1 DEF EntryAdded
          <6> QED
            BY <4>1, <5>1, <6>1
        <5>3. s \in Seq(Entry)
          BY <1>4, <5>1
        <5>4. ChainIn(d', j, n)
          BY <1>1, <3>2, <5>1, ChainFacts
        <5>5. ChainMoved(s, n, {})
          BY <5>2, <5>3, <5>4, ChainFront DEF ChainIn
        <5> QED
          BY <5>1, <5>5, ChainMovedMore
      <4>2. CASE j # i
        <5>1. d'.ht_table[1][j] = d.ht_table[1][j]
          BY <3>1, <4>2 DEF EntryAdded
        <5> QED
          BY <1>5, <5>1
      <4> QED
        BY <4>1, <4>2
    <3> QED
      BY <1>3, <3>2, <3>3
  <2>3. CASE \E pos \in AllPositions(d) : \E v : ValueStored(d, d', pos, v)
    <3>1. PICK pos \in AllPositions(d) : \E v : ValueStored(d, d', pos, v)
      BY <2>3
    <3>2. SameFrame(d, d')
      BY <3>1 DEF ValueStored
    <3>3. ASSUME NEW j \in DOMAIN d.ht_table[1]
          PROVE  ChainMoved(d.ht_table[1][j], d'.ht_table[1][j], Deleted')
      <4>1. PICK s, n : s = d.ht_table[1][j] /\ n = d'.ht_table[1][j]
        OBVIOUS
      <4>2. Len(n) = Len(s) /\ \A p \in 1..Len(s) : n[p].key = s[p].key
        BY <3>1, <4>1 DEF ValueStored
      <4>3. ChainMoved(s, n, {})
        BY <4>2, ChainKept
      <4> QED
        BY <4>1, <4>3, ChainMovedMore
    <3> QED
      BY <1>3, <3>2, <3>3
  <2> QED
    BY <1>7, <2>1, <2>2, <2>3 DEF ChangedFrom
<1>8. \A g : GrownFrom(d, g) => g = d
  BY DEF GrownFrom, ExpandRefused
<1> QED
  BY <1>2, <1>6, <1>7, <1>8 DEF EntryChange

-----------------------------------------------------------------------------
(* Where a dictNext goes.                                                  *)

\* An iterator that has not come to its end, in the dict ht.
Walking(ht, it) ==
  \/ it.table = 0 /\ it.index = -1 /\ it.nextEntry = {}
  \/ /\ Rehashing(ht) /\ it.table = 1 /\ it.index \in DOMAIN ht.ht_table[1]
     /\ SavedIn(ht.ht_table[1][it.index], it.nextEntry)

\* The slots such an iterator has still to visit are the next ones of the second table.
LEMMA NextSlotsAre ==
  ASSUME NEW ht, GoodDict(ht), NEW it, Walking(ht, it)
  PROVE  \A s : s \in NextSlots(ht, it) <=>
           \E i \in DOMAIN ht.ht_table[1] : i > it.index /\ s = [table |-> 1, slot |-> i]
<1>1. ht.ht_size_exp[0] = -1
  BY DEF GoodDict, Shaped
<1>2. CASE it.table = 0 /\ it.index = -1
  <2>1. \A j \in 0..(Size(ht.ht_size_exp[it.table]) - 1) : FALSE
    BY <1>1, <1>2 DEF Size
  <2>2. \A i \in DOMAIN ht.ht_table[1] : i > it.index /\ Rehashing(ht)
    <3>1. CASE Rehashing(ht)
      BY <1>2, <3>1, SlotsOf1
    <3>2. CASE ~Rehashing(ht)
      BY <3>2, NoSlotsOf1
    <3> QED
      BY <3>1, <3>2
  <2> QED
    BY <1>2, <2>1, <2>2 DEF NextSlots
<1>3. CASE Rehashing(ht) /\ it.table = 1 /\ it.index \in DOMAIN ht.ht_table[1]
  <2>1. DOMAIN ht.ht_table[1] = 0..(Size(ht.ht_size_exp[it.table]) - 1)
    BY <1>3, SlotsOf1
  <2> QED
    BY <1>3, <2>1 DEF NextSlots
<1> QED
  BY <1>2, <1>3 DEF Walking

\* The bucket it comes to is the first of them with an entry.
LEMMA NextBucketIs ==
  ASSUME NEW ht, GoodDict(ht), NEW it, Walking(ht, it)
  PROVE  /\ \A s \in NextBucket(ht, it) :
              /\ s.table = 1 /\ s.slot \in DOMAIN ht.ht_table[1] /\ s.slot > it.index
              /\ ht.ht_table[1][s.slot] # << >>
              /\ \A i \in DOMAIN ht.ht_table[1] : i > it.index /\ ht.ht_table[1][i] # << >> => s.slot <= i
         /\ NextBucket(ht, it) = {} =>
              \A i \in DOMAIN ht.ht_table[1] : i > it.index => ht.ht_table[1][i] = << >>
<1>1. PICK full : full = {s \in NextSlots(ht, it) : ht.ht_table[s.table][s.slot] # << >>}
  OBVIOUS
<1>2. NextBucket(ht, it) =
        {s \in full : \A r \in full : s.table < r.table \/ (s.table = r.table /\ s.slot <= r.slot)}
  BY <1>1 DEF NextBucket
<1>3. \A s : s \in full <=>
        \E i \in DOMAIN ht.ht_table[1] :
          i > it.index /\ ht.ht_table[1][i] # << >> /\ s = [table |-> 1, slot |-> i]
  BY <1>1, NextSlotsAre
<1>4. DOMAIN ht.ht_table[1] \subseteq Nat
  <2>1. CASE Rehashing(ht)
    BY <2>1, SlotsOf1
  <2>2. CASE ~Rehashing(ht)
    BY <2>2, NoSlotsOf1
  <2> QED
    BY <2>1, <2>2
<1>5. ASSUME NEW s \in NextBucket(ht, it)
      PROVE  /\ s.table = 1 /\ s.slot \in DOMAIN ht.ht_table[1] /\ s.slot > it.index
             /\ ht.ht_table[1][s.slot] # << >>
             /\ \A i \in DOMAIN ht.ht_table[1] : i > it.index /\ ht.ht_table[1][i] # << >> => s.slot <= i
  <2>1. PICK j \in DOMAIN ht.ht_table[1] :
          j > it.index /\ ht.ht_table[1][j] # << >> /\ s = [table |-> 1, slot |-> j]
    BY <1>2, <1>3
  <2>2. ASSUME NEW i \in DOMAIN ht.ht_table[1], i > it.index, ht.ht_table[1][i] # << >> PROVE j <= i
    <3>1. PICK r : r = [table |-> 1, slot |-> i]
      OBVIOUS
    <3>2. r \in full
      BY <1>3, <2>2, <3>1
    <3> QED
      BY <1>2, <2>1, <3>1, <3>2
  <2> QED
    BY <2>1, <2>2
<1>6. ASSUME NEW i \in DOMAIN ht.ht_table[1], i > it.index, ht.ht_table[1][i] # << >>
      PROVE  NextBucket(ht, it) # {}
  <2>1. PICK I : I = {j \in DOMAIN ht.ht_table[1] : j > it.index /\ ht.ht_table[1][j] # << >>}
    OBVIOUS
  <2>2. PICK j \in I : \A l \in I : j <= l
    BY <1>4, <1>6, <2>1, LeastNatural
  <2>3. PICK s : s = [table |-> 1, slot |-> j]
    OBVIOUS
  <2>4. s \in full
    BY <1>3, <2>1, <2>2, <2>3
  <2>5. \A r \in full : s.table = r.table /\ s.slot <= r.slot
    BY <1>3, <2>1, <2>2, <2>3
  <2> QED
    BY <1>2, <2>4, <2>5
<1> QED
  BY <1>5, <1>6

\* moved is at a key that is neither seen nor behind what was seen.
LandsAt(ht, moved, seen, owed) ==
  /\ Rehashing(ht) /\ moved.table = 1 /\ moved.index \in DOMAIN ht.ht_table[1] /\ ~moved.ended
  /\ \E k \in Key : /\ moved.entry = {k}
                    /\ moved.nextEntry = Successor(ht.ht_table[1][moved.index], k)
                    /\ ComesTo(ht, moved.index, ht.ht_table[1][moved.index], k, seen, owed)

\* moved has come to its end, where nothing is owed.
LandsAtEnd(moved, owed) ==
  moved.ended /\ moved.index # -1 /\ moved.entry = {} /\ moved.nextEntry = {} /\ owed = {}

\* The slots of the second table are few enough for an iterator.
LEMMA SlotBounds ==
  ASSUME NEW ht, GoodDict(ht)
  PROVE  /\ DOMAIN ht.ht_table[1] \subseteq 0..(2^MaxExp)
         /\ Rehashing(ht) => Size(ht.ht_size_exp[1]) \in 0..(2^MaxExp)
         /\ Rehashing(ht) => \A x \in Key : SlotIn1(ht, x) \in Nat
<1>1. CASE Rehashing(ht)
  <2>1. PICK e \in 2..MaxExp : e = ht.ht_size_exp[1]
    BY <1>1, SlotsOf1
  <2>2. Size(e) = 2^e /\ Size(e) \in Nat /\ \A h \in Nat : InsertSlot(h, e) \in Nat
    BY SizeFacts
  <2>3. MaxExp \in 0..(MaxExp + 1) /\ e \in 0..MaxExp /\ (e # MaxExp => e \in 0..(MaxExp - 1))
    BY SizeAssumption
  <2>4. 2^MaxExp \in Nat /\ (e # MaxExp => 2^e < 2^MaxExp)
    BY <2>3, ShiftAssumption
  <2>5. Size(e) <= 2^MaxExp
    BY <2>2, <2>4
  <2>6. \A x \in Key : SlotIn1(ht, x) \in Nat
    BY <2>1, <2>2, HashAssumption DEF SlotIn1
  <2>7. DOMAIN ht.ht_table[1] = 0..(Size(e) - 1)
    BY <1>1, <2>1, SlotsOf1
  <2>8. DOMAIN ht.ht_table[1] \subseteq 0..(2^MaxExp) /\ Size(e) \in 0..(2^MaxExp)
    <3>1. PICK n \in Nat, N \in Nat : n = Size(e) /\ N = 2^MaxExp /\ n <= N
      BY <2>2, <2>4, <2>5
    <3>2. 0..(n - 1) \subseteq 0..N /\ n \in 0..N
      BY <3>1
    <3> QED
      BY <2>7, <3>1, <3>2
  <2> QED
    BY <2>1, <2>6, <2>8
<1>2. CASE ~Rehashing(ht)
  BY <1>2, NoSlotsOf1
<1> QED
  BY <1>1, <1>2

\* An iterator at a key of a chain is of its type.
LEMMA AtIsIterator ==
  ASSUME NEW ht, GoodDict(ht), NEW it \in Iterator, NEW j \in DOMAIN ht.ht_table[1], NEW k \in Key,
         NEW m, m = At(ht, it, 1, j, k)
  PROVE  /\ m \in Iterator /\ m.safe = it.safe /\ m.ended = it.ended /\ m.table = 1 /\ m.index = j
         /\ m.entry = {k} /\ m.nextEntry = Successor(ht.ht_table[1][j], k)
<1>1. PICK ks : ks = Successor(ht.ht_table[1][j], k)
  OBVIOUS
<1>2. ks \in SUBSET Key
  <2>1. ChainIn(ht, j, ht.ht_table[1][j])
    BY ChainFacts
  <2> QED
    BY <1>1, <2>1 DEF Successor, ChainIn
<1>3. j \in -1..(2^MaxExp)
  <2>1. j \in 0..(2^MaxExp) /\ 2^MaxExp \in Nat
    BY SlotBounds, SizeAssumption, ShiftAssumption
  <2> QED
    BY <2>1
<1>4. m = [it EXCEPT !.table = 1, !.index = j, !.entry = {k}, !.nextEntry = ks]
  BY <1>1 DEF At
<1>5. PICK F, I : /\ I = -1..(2^MaxExp)
                  /\ Iterator = [safe : BOOLEAN, table : 0..1, index : I, entry : SUBSET Key,
                                 nextEntry : SUBSET Key, ended : BOOLEAN, fingerPrint : F]
  BY DEF Iterator
<1>6. m \in Iterator
  <2>1. PICK e \in SUBSET Key : e = {k}
    OBVIOUS
  <2>2. m = [it EXCEPT !.table = 1, !.index = j, !.entry = e, !.nextEntry = ks] /\ j \in I /\ 1 \in 0..1
    BY <1>3, <1>4, <1>5, <2>1
  <2> QED
    BY <1>2, <1>5, <2>2
<1>7. /\ m.safe = it.safe /\ m.ended = it.ended /\ m.table = 1 /\ m.index = j
      /\ m.entry = {k} /\ m.nextEntry = ks
  BY <1>4, <1>5
<1> QED
  BY <1>1, <1>6, <1>7

\* A dictNext lands at the next key, or at the end once everything is returned.
LEMMA AdvanceLands ==
  ASSUME NEW ht, GoodDict(ht), NEW it \in Iterator, ~it.ended, Walking(ht, it),
         NEW seen \in SUBSET Key, NEW owed \in SUBSET Key,
         Progress(ht, it.index, it.nextEntry, seen, owed),
         NEW moved \in Advance(ht, it)
  PROVE  /\ moved \in Iterator /\ moved.safe = it.safe
         /\ LandsAt(ht, moved, seen, owed) \/ LandsAtEnd(moved, owed)
<1>1. DOMAIN ht.ht_table[1] \subseteq Nat /\ it.index \in Int
  BY SlotBounds DEF Iterator
<1>2. CASE it.nextEntry # {}
  <2>1. /\ Rehashing(ht) /\ it.table = 1 /\ it.index \in DOMAIN ht.ht_table[1]
        /\ SavedIn(ht.ht_table[1][it.index], it.nextEntry)
    BY <1>2 DEF Walking
  <2>2. PICK k \in Key : it.nextEntry = {k} /\ InOrder(ht.ht_table[1][it.index], k, k)
    BY <1>2, <2>1 DEF SavedIn
  <2>3. moved = At(ht, it, 1, it.index, k)
    BY <1>2, <2>1, <2>2 DEF Advance
  <2>4. ComesTo(ht, it.index, ht.ht_table[1][it.index], k, seen, owed)
    BY <2>1, <2>2, ProgressNext
  <2>5. /\ moved \in Iterator /\ moved.safe = it.safe /\ moved.ended = it.ended
        /\ moved.table = 1 /\ moved.index = it.index
        /\ moved.entry = {k} /\ moved.nextEntry = Successor(ht.ht_table[1][it.index], k)
    BY <2>1, <2>3, AtIsIterator
  <2> QED
    BY <2>1, <2>4, <2>5 DEF LandsAt
<1>3. CASE it.nextEntry = {} /\ NextBucket(ht, it) # {}
  <2>1. PICK s \in NextBucket(ht, it) :
          moved = At(ht, it, s.table, s.slot, ht.ht_table[s.table][s.slot][1].key)
    BY <1>3 DEF Advance
  <2>2. PICK j, chain, k : j = s.slot /\ chain = ht.ht_table[1][j] /\ k = chain[1].key
    OBVIOUS
  <2>3. /\ s.table = 1 /\ j \in DOMAIN ht.ht_table[1] /\ j > it.index /\ chain # << >>
        /\ \A i \in DOMAIN ht.ht_table[1] : i > it.index /\ ht.ht_table[1][i] # << >> => j <= i
    BY <2>2, NextBucketIs
  <2>4. Rehashing(ht)
    BY <2>3, NoSlotsOf1
  <2>5. \A x \in seen \union owed : SlotIn1(ht, x) \in Int
    BY <2>4, SlotBounds
  <2>6. ComesTo(ht, j, chain, k, seen, owed)
    BY <1>1, <1>3, <2>2, <2>3, <2>4, <2>5, ProgressBucket
  <2>7. k \in Key
    BY <2>6 DEF ComesTo
  <2>8. moved = At(ht, it, 1, j, k)
    BY <2>1, <2>2, <2>3
  <2>9. /\ moved \in Iterator /\ moved.safe = it.safe /\ moved.ended = it.ended
        /\ moved.table = 1 /\ moved.index = j
        /\ moved.entry = {k} /\ moved.nextEntry = Successor(ht.ht_table[1][j], k)
    BY <2>3, <2>7, <2>8, AtIsIterator
  <2> QED
    BY <2>2, <2>3, <2>4, <2>6, <2>7, <2>9 DEF LandsAt
<1>4. CASE it.nextEntry = {} /\ NextBucket(ht, it) = {}
  <2>1. PICK last : last = IF Rehashing(ht) THEN 1 ELSE it.table
    OBVIOUS
  <2>2. moved = [it EXCEPT !.table = last, !.index = Size(ht.ht_size_exp[last]), !.entry = {}, !.ended = TRUE]
    BY <1>4, <2>1 DEF Advance
  <2>3. last \in 0..1 /\ Size(ht.ht_size_exp[last]) \in 0..(2^MaxExp)
    <3>1. CASE Rehashing(ht)
      BY <2>1, <3>1, SlotBounds
    <3>2. CASE ~Rehashing(ht)
      <4>1. last = 0 /\ ht.ht_size_exp[0] = -1
        BY <2>1, <3>2 DEF Walking, GoodDict, Shaped
      <4>2. Size(ht.ht_size_exp[last]) = 0 /\ 2^MaxExp \in Nat
        BY <4>1, SizeAssumption, ShiftAssumption DEF Size
      <4> QED
        BY <4>1, <4>2
    <3> QED
      BY <3>1, <3>2
  <2>4. PICK i : i = Size(ht.ht_size_exp[last])
    OBVIOUS
  <2>5. i \in -1..(2^MaxExp) /\ i # -1
    <3>1. 2^MaxExp \in Nat
      BY SizeAssumption, ShiftAssumption
    <3> QED
      BY <2>3, <2>4, <3>1
  <2>6. /\ moved \in Iterator /\ moved.safe = it.safe /\ moved.ended /\ moved.index = i
        /\ moved.entry = {} /\ moved.nextEntry = {}
    BY <1>4, <2>2, <2>3, <2>4, <2>5 DEF Iterator
  <2>7. owed = {}
    <3>1. \A j \in DOMAIN ht.ht_table[1] : j > it.index => ht.ht_table[1][j] = << >>
      BY <1>4, NextBucketIs
    <3> QED
      BY <1>1, <1>4, <3>1, ProgressEnd
  <2> QED
    BY <2>5, <2>6, <2>7 DEF LandsAtEnd
<1> QED
  BY <1>2, <1>3, <1>4

-----------------------------------------------------------------------------
(* The operations of the client.                                           *)

\* A step is an operation named op, by what it returns.
Returns(op) == \E ks, ok, found : ret' = Return(op, ks, ok, found)

\* The name is the op of ret.
LEMMA OpReturned == \A op : Returns(op) => ret'.op = op
  BY DEF Returns, Return

\* So it is when the process stops.
LEMMA StopReturns == \A op, k : Stop(op, k) => Returns(op)
  BY DEF Stop, Returns

\* The operations that maintain the dict, and dictEmpty.
LEMMA MaintenanceReturns ==
  /\ \A size, try, allocated : dictExpand(size, try, allocated) => Returns("maintain") \/ Returns("abort")
  /\ \A allocated : dictResize(allocated) => Returns("maintain") \/ Returns("abort")
  /\ \A policy : dictSetResizeEnabled(policy) => Returns("maintain")
  /\ dictEmpty => Returns("empty")
<1>1. \A size, try, allocated : dictExpand(size, try, allocated) => Returns("maintain") \/ Returns("abort")
  BY DEF dictExpand, Returns
<1>2. \A allocated : dictResize(allocated) => Returns("maintain") \/ Returns("abort")
  BY DEF dictResize, Returns
<1>3. \A policy : dictSetResizeEnabled(policy) => Returns("maintain")
  BY DEF dictSetResizeEnabled, Returns
<1>4. dictEmpty => Returns("empty")
  BY DEF dictEmpty, Returns
<1> QED
  BY <1>1, <1>2, <1>3, <1>4

\* Those that store an entry or a value.
LEMMA StoringReturns ==
  ASSUME NEW k, NEW v
  PROVE  /\ dictAdd(k, v) => Returns("add") \/ Returns("abort")
         /\ dictReplace(k, v) => Returns("replace") \/ Returns("abort")
         /\ dictSetVal(k, v) => Returns("setval")
<1>1. dictAdd(k, v) => Returns("add") \/ Returns("abort")
  <2>1. ASSUME NEW allowed, AddRaw(k, v, allowed) PROVE Returns("add")
    BY <2>1 DEF AddRaw, Returns
  <2> QED
    BY <2>1, StopReturns DEF dictAdd
<1>2. dictReplace(k, v) => Returns("replace") \/ Returns("abort")
  BY StopReturns DEF dictReplace, Returns
<1>3. dictSetVal(k, v) => Returns("setval")
  BY DEF dictSetVal, Returns
<1> QED
  BY <1>1, <1>2, <1>3

\* Those that look up.
LEMMA FindingReturns ==
  ASSUME NEW k
  PROVE  dictFind(k) \/ dictFindEntryByPtrAndHash(k) \/ dictTwoPhaseUnlinkFind(k) => Returns("find")
<1>1. dictFind(k) => Returns("find")
  BY StopReturns DEF dictFind, Returns
<1>2. dictFindEntryByPtrAndHash(k) => Returns("find")
  BY DEF dictFindEntryByPtrAndHash, Returns
<1>3. dictTwoPhaseUnlinkFind(k) => Returns("find")
  BY StopReturns DEF dictTwoPhaseUnlinkFind, Returns
<1> QED
  BY <1>1, <1>2, <1>3

\* A deletion returns the key it was called for, or that of the entry it held.
LEMMA DeletionKeys ==
  /\ \A k \in Key : dictGenericDelete(k) => ret'.op = "delete" /\ ret'.key = {k}
  /\ dictTwoPhaseUnlinkFree =>
       ret'.op = "delete" /\ \E pos \in unlinking : ret'.key = {EntryAt(d, pos).key}
<1>1. ASSUME NEW k \in Key, dictGenericDelete(k) PROVE ret'.op = "delete" /\ ret'.key = {k}
  <2>1. \E ok, found : ret' = Return("delete", {k}, ok, found)
    BY <1>1 DEF dictGenericDelete, Stop
  <2> QED
    BY <2>1 DEF Return
<1>2. ASSUME dictTwoPhaseUnlinkFree
      PROVE  ret'.op = "delete" /\ \E pos \in unlinking : ret'.key = {EntryAt(d, pos).key}
  <2>1. \E pos \in unlinking : ret' = Return("delete", {EntryAt(d, pos).key}, TRUE, {EntryAt(d, pos)})
    BY <1>2 DEF dictTwoPhaseUnlinkFree
  <2> QED
    BY <2>1 DEF Return
<1> QED
  BY <1>1, <1>2

\* A client empties the dict under no started iterator, and deletes only what
\* its iterator allows.
ClientStep ==
  /\ Next /\ Meanwhile
  /\ dictEmpty => \A it \in iter : ~Started(it)
  /\ \A k \in Deleted' : MayDelete(k)

\* Every operation of the client is such a step.
LEMMA ClientSteps ==
  ASSUME Client
  PROVE  ClientStep
<1>1. dictEmpty => ret'.op = "empty"
  BY MaintenanceReturns, OpReturned
<1>2. ASSUME NEW op, Returns(op), op \notin {"empty", "delete"}, Next, Meanwhile PROVE ClientStep
  BY <1>1, <1>2, OpReturned DEF ClientStep, Deleted
<1>3. CASE \E size \in ExpandSizes, try, allocated \in BOOLEAN :
             dictExpand(size, try, allocated) /\ MayWrite /\ Meanwhile
  <2>1. (Returns("maintain") \/ Returns("abort")) /\ Next /\ Meanwhile
    BY <1>3, MaintenanceReturns DEF Next
  <2> QED
    BY <1>2, <2>1
<1>4. CASE \E allocated \in BOOLEAN : dictResize(allocated) /\ MayWrite /\ Meanwhile
  <2>1. (Returns("maintain") \/ Returns("abort")) /\ Next /\ Meanwhile
    BY <1>4, MaintenanceReturns DEF Next
  <2> QED
    BY <1>2, <2>1
<1>5. CASE \E policy \in Policies : dictSetResizeEnabled(policy) /\ Meanwhile
  <2>1. Returns("maintain") /\ Next /\ Meanwhile
    BY <1>5, MaintenanceReturns DEF Next
  <2> QED
    BY <1>2, <2>1
<1>6. CASE \E k \in Key, v \in Value :
             (dictAdd(k, v) \/ dictReplace(k, v) \/ dictSetVal(k, v)) /\ Meanwhile
  <2>1. PICK k \in Key, v \in Value : dictAdd(k, v) \/ dictReplace(k, v) \/ dictSetVal(k, v)
    BY <1>6
  <2>2. Returns("add") \/ Returns("replace") \/ Returns("setval") \/ Returns("abort")
    BY <2>1, StoringReturns
  <2>3. Next /\ Meanwhile
    BY <1>6 DEF Next
  <2> QED
    BY <1>2, <2>2, <2>3
<1>7. CASE \E k \in Key :
             (dictFind(k) \/ dictFindEntryByPtrAndHash(k) \/ dictTwoPhaseUnlinkFind(k)) /\ Meanwhile
  <2>1. PICK k \in Key : dictFind(k) \/ dictFindEntryByPtrAndHash(k) \/ dictTwoPhaseUnlinkFind(k)
    BY <1>7
  <2>2. Returns("find")
    BY <2>1, FindingReturns
  <2>3. Next /\ Meanwhile
    BY <1>7 DEF Next
  <2> QED
    BY <1>2, <2>2, <2>3
<1>8. CASE \E k \in Key : dictGenericDelete(k) /\ MayDelete(k) /\ Meanwhile
  <2>1. PICK k \in Key : dictGenericDelete(k) /\ MayDelete(k) /\ Meanwhile
    BY <1>8
  <2>2. Deleted' = {k} /\ ret'.op # "empty"
    BY <2>1, DeletionKeys DEF Deleted
  <2>3. Next
    BY <2>1 DEF Next
  <2> QED
    BY <1>1, <2>1, <2>2, <2>3 DEF ClientStep
<1>9. CASE dictTwoPhaseUnlinkFree /\ (\A pos \in unlinking : MayDelete(EntryAt(d, pos).key)) /\ Meanwhile
  <2>1. PICK pos \in unlinking : Deleted' = {EntryAt(d, pos).key} /\ ret'.op # "empty"
    BY <1>9, DeletionKeys DEF Deleted
  <2>2. Next
    BY <1>9 DEF Next
  <2> QED
    BY <1>1, <1>9, <2>1, <2>2 DEF ClientStep
<1>10. CASE dictEmpty /\ (\A it \in iter : ~Started(it)) /\ Meanwhile
  <2>1. Next
    BY <1>10 DEF Next
  <2> QED
    BY <1>1, <1>10, <2>1 DEF ClientStep, Deleted
<1> QED
  BY <1>3, <1>4, <1>5, <1>6, <1>7, <1>8, <1>9, <1>10 DEF Client

\* An iterator is where it was, whatever the client did between its steps.
LEMMA ClientKeepsIterating ==
  ASSUME Sane, Sane', Iterating, ClientStep
  PROVE  Iterating'
<1>1. /\ iter' = iter /\ walk' = [walk EXCEPT !.owed = @ \intersect KeysIn(d', 1)] /\ [Next]_vars
  BY DEF ClientStep, Meanwhile
<1>2. /\ walk \in [seen : SUBSET Key, owed : SUBSET Key]
      /\ iter = {} \/ \E it \in iter : iter = {it} /\ it \in Iterator /\ (Waiting(it) \/ Visiting(it) \/ Over(it))
  BY DEF Iterating
<1>3. /\ walk' \in [seen : SUBSET Key, owed : SUBSET Key]
      /\ walk'.seen = walk.seen /\ walk'.owed = walk.owed \intersect KeysIn(d', 1)
  BY <1>1, <1>2
<1>4. CASE iter = {}
  BY <1>1, <1>3, <1>4 DEF Iterating
<1>5. ASSUME NEW it \in iter, iter = {it}, it \in Iterator, Waiting(it) \/ Visiting(it) \/ Over(it)
      PROVE  Waiting(it)' \/ Visiting(it)' \/ Over(it)'
  <2>1. CASE Waiting(it)
    BY <1>3, <2>1 DEF Waiting
  <2>2. CASE Over(it)
    BY <1>3, <2>2 DEF Over
  <2>3. CASE Visiting(it)
    <3>1. Started(it) /\ Rehashing(d) /\ ~it.ended /\ it.index \in DOMAIN d.ht_table[1]
      BY <2>3 DEF Visiting, Started
    <3>2. ~dictEmpty
      BY <1>5, <3>1 DEF ClientStep
    <3>3. TableMoved(d, d', Deleted')
      BY <1>1, <3>1, <3>2, StepMoves
    <3>4. Deleted' \subseteq walk.seen
      BY <1>5, <2>3, <3>1 DEF ClientStep, MayDelete, Visiting
    <3>5. /\ SavedIn(d'.ht_table[1][it.index], it.nextEntry)
          /\ Progress(d', it.index, it.nextEntry, walk.seen, walk.owed \intersect KeysIn(d', 1))
      BY <2>3, <3>1, <3>3, <3>4, ProgressKept DEF Visiting
    <3> QED
      BY <1>3, <2>3, <3>3, <3>5 DEF Visiting, TableMoved
  <2> QED
    BY <1>5, <2>1, <2>2, <2>3
<1> QED
  BY <1>1, <1>2, <1>3, <1>4, <1>5 DEF Iterating

-----------------------------------------------------------------------------
(* The operations of iterators.                                            *)

\* n is ht but for its pauses.
Repaused(ht, n, x) ==
  /\ n.ht_table = ht.ht_table /\ n.ht_size_exp = ht.ht_size_exp /\ n.reHashIdx = ht.reHashIdx
  /\ GoodDict(n) /\ AllPositions(n) = AllPositions(ht) /\ n.pauseRehash = x

\* A change of the pauses makes such a dict.
LEMMA RepausedFacts ==
  ASSUME NEW ht, GoodDict(ht), NEW x \in Nat, NEW n, n = [ht EXCEPT !.pauseRehash = x]
  PROVE  Repaused(ht, n, x)
<1>1. n.ht_table = ht.ht_table /\ n.ht_size_exp = ht.ht_size_exp /\ n.reHashIdx = ht.reHashIdx
  BY DEF GoodDict, StructOK
<1>2. GoodDict(n) /\ AllPositions(n) = AllPositions(ht) /\ n.pauseRehash = x
  BY PausedGood
<1> QED
  BY <1>1, <1>2 DEF Repaused

\* It stays sane as long as the pauses cover those of an unlink.
LEMMA RepausedSane ==
  ASSUME Sane, NEW x \in Nat, d' = [d EXCEPT !.pauseRehash = x], x >= Cardinality(unlinking),
         UNCHANGED <<dict_can_resize, unlinking, ret>>, up' \in BOOLEAN
  PROVE  Sane' /\ OtherPauses' = x - Cardinality(unlinking) /\ Repaused(d, d', x)
<1>1. Repaused(d, d', x)
  BY RepausedFacts DEF Sane
<1>2. TypeOK'
  BY <1>1 DEF Sane, TypeOK, Repaused, GoodDict
<1>3. OneLink' /\ Cardinality(unlinking) \in Nat
  BY SaneNumbers DEF Sane, OneLink
<1>4. OtherPauses' = x - Cardinality(unlinking) /\ OtherPauses' >= 0
  BY <1>1, <1>3 DEF OtherPauses, Repaused
<1> QED
  BY <1>1, <1>2, <1>3, <1>4 DEF Sane, Repaused

\* An iteration does not depend on the pauses.
LEMMA RepausedProgress ==
  ASSUME NEW ht, NEW n, NEW x, Repaused(ht, n, x), NEW i, NEW ks, NEW seen, NEW owed
  PROVE  Progress(n, i, ks, seen, owed) <=> Progress(ht, i, ks, seen, owed)
<1>1. Positions(n, 1) = Positions(ht, 1) /\ \A pos : EntryAt(n, pos) = EntryAt(ht, pos)
  BY DEF Repaused, Positions, EntryAt
<1>2. KeysIn(n, 1) = KeysIn(ht, 1)
  BY <1>1 DEF KeysIn
<1>3. Ahead(n, i, ks) = Ahead(ht, i, ks)
  BY DEF Ahead, Repaused
<1>4. \A k : SlotIn1(n, k) = SlotIn1(ht, k)
  BY DEF SlotIn1, Repaused
<1> QED
  BY <1>2, <1>3, <1>4 DEF Progress

\* How many pauses the iterator of a client takes.
LEMMA PausesOf ==
  ASSUME NEW it
  PROVE  /\ Cardinality(Pausing({})) = 0
         /\ Cardinality(Pausing({it})) = IF it.safe /\ Started(it) THEN 1 ELSE 0
<1>1. Pausing({}) = {} /\ Pausing({it}) = IF it.safe /\ Started(it) THEN {it} ELSE {}
  BY DEF Pausing
<1> QED
  BY <1>1, FS_EmptySet, FS_Singleton

\* What a dict looks like to dictFingerprint has its type.
LEMMA FingerprintType ==
  ASSUME NEW ht, GoodDict(ht), NEW it \in Iterator
  PROVE  [it EXCEPT !.fingerPrint = Fingerprint(ht)] \in Iterator
<1>1. PICK F, I : /\ F = {<< >>} \union ([0..1 -> Exponents] \X [0..1 -> Nat] \X BOOLEAN \X BOOLEAN)
                  /\ Iterator = [safe : BOOLEAN, table : 0..1, index : I, entry : SUBSET Key,
                                 nextEntry : SUBSET Key, ended : BOOLEAN, fingerPrint : F]
  BY DEF Iterator
<1>2. \E a, b \in BOOLEAN : Fingerprint(ht) = <<ht.ht_size_exp, ht.ht_used, a, b>>
  BY DEF Fingerprint
<1>3. Fingerprint(ht) \in F
  BY <1>1, <1>2 DEF GoodDict, StructOK
<1> QED
  BY <1>1, <1>3

\* An iterator before dictNext: where it is, and what it has to return.
Owing(it) == IF Started(it) THEN walk.owed ELSE KeysIn(d, 1)

\* The iterator dictNext moves, with its fingerprint taken.
Marked(it) == IF Started(it) \/ it.safe THEN it ELSE [it EXCEPT !.fingerPrint = Fingerprint(d)]

\* It has come as far as what it owes says.
LEMMA BeforeNext ==
  ASSUME GoodDict(d), walk \in [seen : SUBSET Key, owed : SUBSET Key],
         NEW it \in Iterator, ~it.ended, Waiting(it) \/ Visiting(it), NEW m, m = Marked(it)
  PROVE  /\ m \in Iterator /\ ~m.ended /\ m.safe = it.safe /\ Walking(d, m)
         /\ Owing(it) \in SUBSET Key
         /\ Progress(d, m.index, m.nextEntry, walk.seen, Owing(it))
         /\ Started(it) <=> Visiting(it)
<1>1. /\ m \in Iterator /\ m.ended = it.ended /\ m.safe = it.safe /\ m.table = it.table
      /\ m.index = it.index /\ m.nextEntry = it.nextEntry
  <2>1. CASE m = it
    BY <2>1
  <2>2. CASE m = [it EXCEPT !.fingerPrint = Fingerprint(d)]
    <3>1. m \in Iterator
      BY <2>2, FingerprintType
    <3> QED
      BY <2>2, <3>1 DEF Iterator
  <2> QED
    BY <2>1, <2>2 DEF Marked
<1>2. KeysIn(d, 1) \subseteq Key /\ \A x \in KeysIn(d, 1) : SlotIn1(d, x) > -1
  <2>1. ASSUME NEW x \in KeysIn(d, 1) PROVE x \in Key /\ SlotIn1(d, x) > -1
    <3>1. PICK j \in DOMAIN d.ht_table[1] : \E p \in 1..Len(d.ht_table[1][j]) : d.ht_table[1][j][p].key = x
      BY KeysIn1
    <3>2. ChainIn(d, j, d.ht_table[1][j])
      BY ChainFacts
    <3>3. Rehashing(d)
      BY NoSlotsOf1
    <3>4. x \in Key
      BY <3>1, <3>2 DEF ChainIn
    <3>5. SlotIn1(d, x) \in Nat
      BY <3>3, <3>4, SlotBounds
    <3> QED
      BY <3>4, <3>5
  <2> QED
    BY <2>1
<1>3. CASE Waiting(it)
  <2>1. ~Started(it) /\ walk.seen = {} /\ it.index = -1 /\ it.table = 0 /\ it.nextEntry = {}
    BY <1>3 DEF Waiting, Started
  <2>2. Owing(it) = KeysIn(d, 1) /\ ~Visiting(it)
    BY <2>1 DEF Owing, Visiting
  <2>3. Progress(d, -1, {}, walk.seen, KeysIn(d, 1))
    BY <1>2, <2>1 DEF Progress
  <2> QED
    BY <1>1, <1>2, <2>1, <2>2, <2>3 DEF Walking
<1>4. CASE Visiting(it)
  <2>1. Started(it) /\ Owing(it) = walk.owed
    BY <1>4 DEF Visiting, Started, Owing
  <2> QED
    BY <1>1, <1>4, <2>1 DEF Walking, Visiting
<1> QED
  BY <1>3, <1>4

\* dictNext keeps the invariant, and its new entry was not returned before.
LEMMA dictNextStep ==
  ASSUME TraversalInv, dictNext
  PROVE  TraversalInv' /\ \A new \in iter' : new.entry \intersect walk.seen = {}
<1>1. Sane /\ GoodDict(d) /\ walk \in [seen : SUBSET Key, owed : SUBSET Key]
  BY DEF TraversalInv, Sane, Iterating
<1>2. PICK it \in iter :
        /\ ~it.ended
        /\ d' = [d EXCEPT !.pauseRehash = IF Started(it) \/ ~it.safe THEN @ ELSE @ + 1]
        /\ \E moved \in Advance(d, Marked(it)) :
             /\ iter' = {moved}
             /\ walk' = [seen |-> walk.seen \union moved.entry, owed |-> Owing(it) \ moved.entry]
        /\ UNCHANGED <<dict_can_resize, unlinking, up, ret>>
  BY DEF dictNext, Marked, Owing
<1>3. iter = {it} /\ it \in Iterator /\ (Waiting(it) \/ Visiting(it))
  BY <1>2 DEF TraversalInv, Iterating, Over
<1>4. PICK moved \in Advance(d, Marked(it)) :
        /\ iter' = {moved}
        /\ walk' = [seen |-> walk.seen \union moved.entry, owed |-> Owing(it) \ moved.entry]
  BY <1>2
<1>5. PICK m : m = Marked(it)
  OBVIOUS
<1>6. /\ m \in Iterator /\ ~m.ended /\ m.safe = it.safe /\ Walking(d, m)
      /\ Owing(it) \in SUBSET Key /\ Progress(d, m.index, m.nextEntry, walk.seen, Owing(it))
      /\ Started(it) <=> Visiting(it)
  BY <1>1, <1>2, <1>3, <1>5, BeforeNext
<1>7. /\ moved \in Iterator /\ moved.safe = it.safe
      /\ LandsAt(d, moved, walk.seen, Owing(it)) \/ LandsAtEnd(moved, Owing(it))
  <2>1. walk.seen \in SUBSET Key /\ moved \in Advance(d, m)
    BY <1>1, <1>4, <1>5
  <2> QED
    BY <1>1, <1>6, <2>1, AdvanceLands
<1>8. PICK x : x = IF Started(it) \/ ~it.safe THEN d.pauseRehash ELSE d.pauseRehash + 1
  OBVIOUS
<1>9. d.pauseRehash \in Nat /\ Cardinality(unlinking) \in Nat /\ d.pauseRehash >= Cardinality(unlinking)
  BY <1>1, SaneNumbers DEF Sane, OtherPauses
<1>10. x \in Nat /\ x >= Cardinality(unlinking)
  BY <1>8, <1>9
<1>11. d' = [d EXCEPT !.pauseRehash = x]
  BY <1>2, <1>8
<1>12. Sane' /\ OtherPauses' = x - Cardinality(unlinking) /\ Repaused(d, d', x)
  <2>1. up' \in BOOLEAN
    BY <1>1, <1>2 DEF Sane, TypeOK
  <2> QED
    BY <1>1, <1>2, <1>10, <1>11, <2>1, RepausedSane
<1>13. OtherPauses' = Cardinality(Pausing(iter'))
  <2>1. Started(moved)
    BY <1>7 DEF LandsAt, LandsAtEnd, Started
  <2>2. Cardinality(Pausing(iter')) = IF it.safe THEN 1 ELSE 0
    BY <1>4, <1>7, <2>1, PausesOf
  <2>3. d.pauseRehash - Cardinality(unlinking) = IF it.safe /\ Started(it) THEN 1 ELSE 0
    BY <1>3, PausesOf DEF TraversalInv, OtherPauses
  <2> QED
    BY <1>8, <1>9, <1>12, <2>2, <2>3
<1>14. CASE LandsAt(d, moved, walk.seen, Owing(it))
  <2>1. PICK k \in Key : /\ moved.entry = {k}
                         /\ moved.nextEntry = Successor(d.ht_table[1][moved.index], k)
                         /\ ComesTo(d, moved.index, d.ht_table[1][moved.index], k, walk.seen, Owing(it))
    BY <1>14 DEF LandsAt
  <2>2. walk'.seen = walk.seen \union {k} /\ walk'.owed = Owing(it) \ {k}
    BY <1>4, <2>1
  <2>3. k \notin walk.seen /\ SavedIn(d.ht_table[1][moved.index], moved.nextEntry)
    BY <2>1 DEF ComesTo
  <2>4. Progress(d', moved.index, moved.nextEntry, walk'.seen, walk'.owed)
    <3>1. Progress(d, moved.index, moved.nextEntry, walk'.seen, walk'.owed)
      BY <2>1, <2>2 DEF ComesTo
    <3> QED
      BY <1>12, <3>1, RepausedProgress
  <2>5. Visiting(moved)'
    BY <1>12, <1>14, <2>1, <2>2, <2>3, <2>4 DEF Visiting, LandsAt, Repaused, Rehashing
  <2>6. walk' \in [seen : SUBSET Key, owed : SUBSET Key]
    BY <1>1, <1>4, <1>6, <2>1
  <2>7. Iterating'
    BY <1>4, <1>7, <2>5, <2>6 DEF Iterating
  <2> QED
    BY <1>4, <1>12, <1>13, <2>1, <2>3, <2>7 DEF TraversalInv
<1>15. CASE LandsAtEnd(moved, Owing(it))
  <2>1. walk'.seen = walk.seen /\ walk'.owed = {} /\ moved.entry = {}
    BY <1>4, <1>15 DEF LandsAtEnd
  <2>2. Over(moved)'
    BY <1>15, <2>1 DEF Over, LandsAtEnd
  <2>3. walk' \in [seen : SUBSET Key, owed : SUBSET Key]
    BY <1>1, <1>4, <2>1
  <2>4. Iterating'
    BY <1>4, <1>7, <2>2, <2>3 DEF Iterating
  <2> QED
    BY <1>4, <1>12, <1>13, <2>1, <2>4 DEF TraversalInv
<1> QED
  BY <1>7, <1>14, <1>15

\* A new iterator has returned nothing and pauses nothing; nor does one that
\* memory has no room for.
LEMMA dictInitIteratorStep ==
  ASSUME TraversalInv, NEW safe \in BOOLEAN, dictInitIterator(safe)
  PROVE  TraversalInv'
<1>1. /\ UNCHANGED <<d, dict_can_resize, unlinking, ret>> /\ iter = {} /\ walk' = [seen |-> {}, owed |-> {}]
      /\ up' \in BOOLEAN
  BY DEF dictInitIterator, TraversalInv, Sane, TypeOK
<1>2. PICK it : it = [safe |-> safe, table |-> 0, index |-> -1, entry |-> {}, nextEntry |-> {},
                      fingerPrint |-> << >>, ended |-> FALSE]
  OBVIOUS
<1>3. iter' = {it} \/ iter' = {}
  BY <1>2 DEF dictInitIterator
<1>4. it \in Iterator
  <2>1. -1 \in -1..(2^MaxExp)
    <3>1. 2^MaxExp \in Nat
      BY SizeAssumption, ShiftAssumption
    <3> QED
      BY <3>1
  <2> QED
    BY <1>2, <2>1 DEF Iterator
<1>5. Waiting(it)' /\ ~Started(it)
  BY <1>1, <1>2 DEF Waiting, Started
<1>6. Iterating'
  BY <1>1, <1>3, <1>4, <1>5 DEF Iterating
<1>7. Cardinality(Pausing(iter')) = Cardinality(Pausing(iter))
  <2>1. CASE iter' = {it}
    BY <1>1, <1>5, <2>1, PausesOf
  <2>2. CASE iter' = {}
    BY <1>1, <2>2
  <2> QED
    BY <1>3, <2>1, <2>2
<1>8. Sane' /\ OtherPauses' = OtherPauses
  BY <1>1 DEF TraversalInv, Sane, TypeOK, OneLink, OtherPauses
<1> QED
  BY <1>6, <1>7, <1>8 DEF TraversalInv

\* The release of an iterator takes its pause back.
LEMMA dictResetIteratorStep ==
  ASSUME TraversalInv, dictResetIterator
  PROVE  TraversalInv'
<1>1. PICK it \in iter :
        /\ d' = [d EXCEPT !.pauseRehash = IF Started(it) /\ it.safe THEN @ - 1 ELSE @]
        /\ up' = (Started(it) /\ ~it.safe => it.fingerPrint = Fingerprint(d))
  BY DEF dictResetIterator
<1>2. iter' = {} /\ walk' = walk /\ UNCHANGED <<dict_can_resize, unlinking, ret>>
  BY DEF dictResetIterator
<1>3. iter = {it} /\ Sane
  BY DEF TraversalInv, Iterating
<1>4. PICK x : x = IF Started(it) /\ it.safe THEN d.pauseRehash - 1 ELSE d.pauseRehash
  OBVIOUS
<1>5. /\ d.pauseRehash \in Nat /\ Cardinality(unlinking) \in Nat
      /\ d.pauseRehash - Cardinality(unlinking) = IF it.safe /\ Started(it) THEN 1 ELSE 0
  BY <1>3, PausesOf, SaneNumbers DEF TraversalInv, OtherPauses
<1>6. x \in Nat /\ x = Cardinality(unlinking)
  BY <1>4, <1>5
<1>7. d' = [d EXCEPT !.pauseRehash = x]
  BY <1>1, <1>4
<1>8. up' \in BOOLEAN
  BY <1>1
<1>9. Sane' /\ OtherPauses' = x - Cardinality(unlinking)
  BY <1>2, <1>3, <1>5, <1>6, <1>7, <1>8, RepausedSane
<1>10. Iterating' /\ Cardinality(Pausing(iter')) = 0
  BY <1>2, PausesOf DEF TraversalInv, Iterating
<1> QED
  BY <1>5, <1>6, <1>9, <1>10 DEF TraversalInv

\* The other operations of the client leave the pauses to their owners.
LEMMA ClientInv ==
  ASSUME TraversalInv, Client
  PROVE  TraversalInv' /\ iter' = iter
<1>1. ClientStep
  BY ClientSteps
<1>2. iter' = iter /\ [Next]_vars /\ Sane
  BY <1>1 DEF ClientStep, Meanwhile, TraversalInv
<1>3. Sane' /\ OtherPauses' = Cardinality(Pausing(iter))
  <2>1. CASE dictEmpty
    <3>1. Pausing(iter) = {}
      BY <1>1, <2>1 DEF ClientStep, Pausing
    <3> QED
      BY <1>2, <2>1, <3>1, dictEmptyIsSane, FS_EmptySet
  <2>2. CASE ~dictEmpty
    BY <1>2, <2>2, StepStaysSane DEF StaysSane, TraversalInv
  <2> QED
    BY <2>1, <2>2
<1>4. Iterating'
  BY <1>1, <1>2, <1>3, ClientKeepsIterating DEF TraversalInv
<1> QED
  BY <1>2, <1>3, <1>4 DEF TraversalInv

\* Scans and samples change neither the dict nor the iterator.
LEMMA ReadingInv ==
  ASSUME TraversalInv, UNCHANGED <<d, dict_can_resize, unlinking, ret, iter, walk>>, up' \in BOOLEAN
  PROVE  TraversalInv'
<1>1. Sane' /\ OtherPauses' = OtherPauses
  BY DEF TraversalInv, Sane, TypeOK, OneLink, OtherPauses
<1>2. Iterating'
  BY DEF TraversalInv, Iterating, Waiting, Visiting, Over
<1> QED
  BY <1>1, <1>2 DEF TraversalInv

\* A sample either answers or stops the process.
LEMMA SampleSteps ==
  ASSUME TraversalInv,
         dictScan \/ (\E count \in Counts : dictGetSomeKeys(count)) \/ dictGetRandomKey \/ dictGetFairRandomKey
  PROVE  UNCHANGED <<d, dict_can_resize, unlinking, ret, iter, walk>> /\ up' \in BOOLEAN
<1>1. CASE dictScan
  BY <1>1 DEF dictScan, vars, TraversalInv, Sane, TypeOK
<1>2. CASE \E count \in Counts : dictGetSomeKeys(count)
  <2>1. PICK count \in Counts : dictGetSomeKeys(count)
    BY <1>2
  <2>2. \E des : up' = (Len(des) = Clipped(d, count) /\ Clipped(d, count) > 0)
    BY <2>1 DEF dictGetSomeKeys
  <2> QED
    BY <2>1, <2>2 DEF dictGetSomeKeys
<1>3. CASE dictGetRandomKey
  BY <1>3 DEF dictGetRandomKey
<1>4. CASE dictGetFairRandomKey
  <2>1. \E des : up' = (Len(des) = Clipped(d, 15) /\ Clipped(d, 15) > 0)
    BY <1>4 DEF dictGetFairRandomKey
  <2> QED
    BY <1>4, <2>1 DEF dictGetFairRandomKey
<1> QED
  BY <1>1, <1>2, <1>3, <1>4

\* The invariant holds of a new dict, which has no iterator.
LEMMA InitTraversalInv == TraversalInit => TraversalInv
<1> SUFFICES ASSUME TraversalInit PROVE TraversalInv
  OBVIOUS
<1>1. IInv
  BY InitIInv DEF TraversalInit
<1>2. OtherPauses = Cardinality(Pausing(iter))
  <2>1. OtherPauses = 0
    BY <1>1, SaneNumbers DEF IInv, PauseBalanced, OtherPauses
  <2> QED
    BY <2>1, PausesOf DEF TraversalInit
<1>3. Iterating
  BY DEF TraversalInit, Iterating
<1> QED
  BY <1>1, <1>2, <1>3 DEF TraversalInv, IInv

\* Every step keeps it.
LEMMA NextTraversalInv == TraversalInv /\ [TraversalNext]_traversalVars => TraversalInv'
<1> SUFFICES ASSUME TraversalInv, [TraversalNext]_traversalVars PROVE TraversalInv'
  OBVIOUS
<1>1. CASE Client
  BY <1>1, ClientInv
<1>2. CASE \E safe \in BOOLEAN : dictInitIterator(safe)
  BY <1>2, dictInitIteratorStep
<1>3. CASE dictNext
  BY <1>3, dictNextStep
<1>4. CASE dictResetIterator
  BY <1>4, dictResetIteratorStep
<1>5. CASE dictScan \/ (\E count \in Counts : dictGetSomeKeys(count)) \/ dictGetRandomKey \/ dictGetFairRandomKey
  BY <1>5, SampleSteps, ReadingInv
<1>6. CASE UNCHANGED traversalVars
  <2>1. UNCHANGED <<d, dict_can_resize, unlinking, ret, iter, walk>> /\ up' \in BOOLEAN
    BY <1>6 DEF traversalVars, vars, TraversalInv, Sane, TypeOK
  <2> QED
    BY <2>1, ReadingInv
<1> QED
  BY <1>1, <1>2, <1>3, <1>4, <1>5, <1>6 DEF TraversalNext

\* The inductive invariant holds in every reachable state.
THEOREM TraversalInvariant == TraversalSpec => []TraversalInv
  BY InitTraversalInv, NextTraversalInv, PTL DEF TraversalSpec

\* Every pause of rehashing belongs to an unlink or to a safe iterator that was
\* started: dictNext, dictResetIterator and the phases of an unlink give and
\* take one each, in whatever order they come.
THEOREM PausesHaveOwners == TraversalSpec => []PausesOwned
<1>1. TraversalInv => PausesOwned
  <2> SUFFICES ASSUME TraversalInv PROVE PausesOwned
    OBVIOUS
  <2>1. d.pauseRehash \in Nat /\ Cardinality(unlinking) \in Nat
    BY SaneNumbers DEF TraversalInv
  <2>2. PICK n : n = Cardinality(Pausing(iter))
    OBVIOUS
  <2>3. n \in Nat
    <3>1. iter = {} \/ \E it \in iter : iter = {it}
      BY DEF TraversalInv, Iterating
    <3>2. Cardinality(Pausing({})) = 0 /\ \A it : Cardinality(Pausing({it})) \in {0, 1}
      BY PausesOf
    <3>3. Cardinality(Pausing(iter)) \in {0, 1}
      BY <3>1, <3>2
    <3> QED
      BY <2>2, <3>3
  <2>4. d.pauseRehash = Cardinality(unlinking) + n
    BY <2>1, <2>2, <2>3 DEF TraversalInv, OtherPauses
  <2> QED
    BY <2>2, <2>4 DEF PausesOwned, Pausing
<1> QED
  BY <1>1, TraversalInvariant, PTL

\* An iteration returns no key twice and, by its end, every key that was in the
\* second table all along: insertions come to a chain in front of the saved
\* successor, deletions take only the entry before it, and no slot moves.
THEOREM EachKeyOnce == TraversalSpec => IteratesOnce
<1>1. TraversalInv /\ TraversalInv' /\ [TraversalNext]_traversalVars =>
        [\A it \in iter, new \in iter' :
           /\ new # it => new.entry \intersect walk.seen = {}
           /\ new.ended => walk'.owed = {}]_<<iter, walk>>
  <2> SUFFICES ASSUME TraversalInv, TraversalInv', TraversalNext, NEW it \in iter, NEW new \in iter'
               PROVE  /\ new # it => new.entry \intersect walk.seen = {}
                      /\ new.ended => walk'.owed = {}
    BY DEF traversalVars
  <2>1. new.ended => walk'.owed = {}
    <3>1. iter' = {new} /\ (Waiting(new)' \/ Visiting(new)' \/ Over(new)')
      BY DEF TraversalInv, Iterating
    <3> QED
      BY <3>1 DEF Waiting, Visiting, Over
  <2>2. ASSUME new # it PROVE new.entry \intersect walk.seen = {}
    <3>1. iter = {it}
      BY DEF TraversalInv, Iterating
    <3>2. CASE Client
      BY <2>2, <3>1, <3>2, ClientInv
    <3>3. CASE \E safe \in BOOLEAN : dictInitIterator(safe)
      BY <3>1, <3>3 DEF dictInitIterator
    <3>4. CASE dictNext
      BY <3>4, dictNextStep
    <3>5. CASE dictResetIterator
      BY <3>5 DEF dictResetIterator
    <3>6. CASE dictScan \/ (\E count \in Counts : dictGetSomeKeys(count)) \/ dictGetRandomKey
               \/ dictGetFairRandomKey
      BY <2>2, <3>1, <3>6, SampleSteps
    <3> QED
      BY <3>2, <3>3, <3>4, <3>5, <3>6 DEF TraversalNext
  <2> QED
    BY <2>1, <2>2
<1>2. TraversalSpec => []TraversalInv /\ [][TraversalNext]_traversalVars
  BY TraversalInvariant DEF TraversalSpec
<1> QED
  BY <1>1, <1>2, PTL DEF IteratesOnce

-----------------------------------------------------------------------------
(* The cursor of a scan.                                                   *)

\* A cursor without a bit stands for slot 0, one with a single bit for that power of two.
LEMMA SlotOfBits ==
  /\ SlotOf({}) = 0
  /\ \A b \in 0..MaxExp : SlotOf({b}) = 2^b
<1>1. SlotOf({}) = 0
  <2> DEFINE Body(h, s) == IF s = {} THEN 0 ELSE 2^(CHOOSE x \in s : TRUE) + h[s \ {CHOOSE x \in s : TRUE}]
             Iter == CHOOSE h : h = [s \in SUBSET {} |-> Body(h, s)]
  <2>1. SlotOf({}) = Iter[{}]
    BY DEF SlotOf, FoldSet, MapThenFoldSet
  <2>2. [s \in SUBSET {} |-> 0] = [s \in SUBSET {} |-> Body([t \in SUBSET {} |-> 0], s)]
    OBVIOUS
  <2> HIDE DEF Body
  <2>3. Iter = [s \in SUBSET {} |-> Body(Iter, s)]
    BY <2>2
  <2> HIDE DEF Iter
  <2>4. Iter[{}] = Body(Iter, {})
    BY <2>3
  <2> QED
    BY <2>1, <2>4 DEF Body
<1>2. ASSUME NEW b \in 0..MaxExp PROVE SlotOf({b}) = 2^b
  <2> DEFINE Body(h, s) == IF s = {} THEN 0 ELSE 2^(CHOOSE x \in s : TRUE) + h[s \ {CHOOSE x \in s : TRUE}]
             Iter == CHOOSE h : h = [s \in SUBSET {b} |-> Body(h, s)]
             g == [s \in SUBSET {b} |-> IF s = {} THEN 0 ELSE 2^b]
  <2>1. SlotOf({b}) = Iter[{b}]
    BY DEF SlotOf, FoldSet, MapThenFoldSet
  <2>2. 2^b \in Nat /\ 2^b + 0 = 2^b
    BY SizeAssumption, ShiftAssumption
  <2>3. \A s \in SUBSET {b} : s = {} \/ (s = {b} /\ (CHOOSE x \in s : TRUE) = b /\ s \ {b} = {})
    OBVIOUS
  <2>4. \A s \in SUBSET {b} : g[s] = Body(g, s)
    BY <2>2, <2>3
  <2>5. g = [s \in SUBSET {b} |-> Body(g, s)]
    BY <2>4
  <2> HIDE DEF Body, g
  <2>6. Iter = [s \in SUBSET {b} |-> Body(Iter, s)]
    BY <2>5
  <2> HIDE DEF Iter
  <2>7. Iter[{b}] = Body(Iter, {b}) /\ Iter[{}] = Body(Iter, {})
    BY <2>6
  <2>8. Iter[{}] = 0
    BY <2>7 DEF Body
  <2>9. Body(Iter, {b}) = 2^b + Iter[{}]
    <3>1. (CHOOSE x \in {b} : TRUE) = b /\ {b} \ {b} = {} /\ {b} # {}
      OBVIOUS
    <3> QED
      BY <3>1 DEF Body
  <2> QED
    BY <2>1, <2>2, <2>7, <2>8, <2>9
<1> QED
  BY <1>1, <1>2

\* Reversing the bits of a cursor: all of them, and none.
LEMMA RevOfAll == Rev(CursorBits) = CursorBits /\ Rev({}) = {}
<1>1. \A b \in 0..MaxExp : MaxExp - b \in 0..MaxExp /\ MaxExp - (MaxExp - b) = b
  BY SizeAssumption
<1> QED
  BY <1>1 DEF Rev, CursorBits

\* Past the last cursor comes none.
LEMMA IncrementedAll == Incremented(CursorBits) = {}
  BY DEF Incremented

\* The cursor of a scan is at its end at once when the mask has no bit left.
LEMMA AdvancedEnd ==
  ASSUME NEW v, NEW m, v \subseteq CursorBits, m \subseteq v
  PROVE  Advanced(v, m) = {}
<1>1. v \union (CursorBits \ m) = CursorBits
  OBVIOUS
<1> QED
  BY <1>1, RevOfAll, IncrementedAll DEF Advanced

\* With the one bit of the mask clear, the bits up to it are set.
LEMMA AdvancedBit ==
  ASSUME NEW b \in CursorBits, NEW v \in SUBSET CursorBits, b \notin v
  PROVE  Advanced(v, {b}) = 0..b
<1>1. b \in Int /\ MaxExp \in Nat /\ b >= 0 /\ b <= MaxExp
  BY SizeAssumption DEF CursorBits
<1>2. PICK low : low = MaxExp - b
  OBVIOUS
<1>3. low \in CursorBits /\ low \in Int
  BY <1>1, <1>2 DEF CursorBits
<1>4. Rev(CursorBits \ {b}) = CursorBits \ {low}
  <2>1. \A c \in CursorBits : MaxExp - c \in CursorBits /\ MaxExp - (MaxExp - c) = c
    BY <1>1 DEF CursorBits
  <2>2. \A c \in CursorBits : c # b <=> MaxExp - c # low
    BY <1>1, <1>2 DEF CursorBits
  <2> QED
    BY <2>1, <2>2 DEF Rev
<1>5. Incremented(CursorBits \ {low}) = low..MaxExp
  <2>1. CursorBits \ (CursorBits \ {low}) = {low}
    BY <1>3
  <2>2. {x \in {low} : \A c \in {low} : x <= c} = {low}
    BY <1>3
  <2>3. Incremented(CursorBits \ {low}) = {low} \union {x \in CursorBits \ {low} : x > low}
    BY <2>1, <2>2 DEF Incremented
  <2>4. \A x : x \in {low} \union {y \in CursorBits \ {low} : y > low} <=> x \in low..MaxExp
    BY <1>1, <1>2, <1>3 DEF CursorBits
  <2> QED
    BY <2>3, <2>4
<1>6. Rev(low..MaxExp) = 0..b
  <2>1. \A c \in low..MaxExp : MaxExp - c \in 0..b
    BY <1>1, <1>2
  <2>2. \A c \in 0..b : MaxExp - c \in low..MaxExp /\ MaxExp - (MaxExp - c) = c
    BY <1>1, <1>2
  <2> QED
    BY <2>1, <2>2 DEF Rev
<1>7. v \union (CursorBits \ {b}) = CursorBits \ {b}
  OBVIOUS
<1> QED
  BY <1>4, <1>5, <1>6, <1>7 DEF Advanced

\* During a rehash the second table is looked at in two of its slots.
LEMMA SecondScanIs ==
  ASSUME NEW ht, NEW b \in CursorBits, NEW m, m = {b}
  PROVE  SecondScan(ht, {}, {}, m) = [keys |-> ht.ht_table[1][0] \o ht.ht_table[1][2^b], cursor |-> {}]
<1> DEFINE chain(v) == ht.ht_table[1][SlotOf(v \intersect m)]
           Body(g, v) ==
             IF Advanced(v, m) \intersect (({} \ m) \union (m \ {})) = {}
             THEN [keys |-> chain(v), cursor |-> Advanced(v, m)]
             ELSE [g[Advanced(v, m)] EXCEPT !.keys = chain(v) \o @]
           turn == CHOOSE g : g = [v \in SUBSET CursorBits |-> Body(g, v)]
           last(v) == [keys |-> chain(v), cursor |-> {}]
           two == [v \in SUBSET CursorBits |->
                     IF b \in v THEN last(v) ELSE [last(0..b) EXCEPT !.keys = chain(v) \o @]]
<1>1. SecondScan(ht, {}, {}, m) = turn[{}]
  BY DEF SecondScan
<1>2. b \in 0..MaxExp /\ 0..b \in SUBSET CursorBits /\ b \in 0..b /\ {} \in SUBSET CursorBits
  BY SizeAssumption DEF CursorBits
<1> HIDE DEF chain, turn
<1>3. ASSUME NEW v \in SUBSET CursorBits, b \in v, NEW g PROVE Body(g, v) = last(v)
  <2>1. Advanced(v, m) = {}
    BY <1>3, AdvancedEnd
  <2> QED
    BY <2>1
<1>4. ASSUME NEW v \in SUBSET CursorBits, b \notin v, NEW g
      PROVE  Body(g, v) = [g[0..b] EXCEPT !.keys = chain(v) \o @]
  <2>1. Advanced(v, m) = 0..b
    BY <1>4, AdvancedBit
  <2>2. (0..b) \intersect (({} \ m) \union (m \ {})) # {}
    BY <1>2
  <2> QED
    BY <2>1, <2>2
<1> HIDE DEF Body
<1>5. two = [v \in SUBSET CursorBits |-> Body(two, v)]
  <2>1. ASSUME NEW v \in SUBSET CursorBits PROVE two[v] = Body(two, v)
    <3>1. CASE b \in v
      <4>1. two[v] = last(v)
        BY <3>1
      <4>2. \A g : Body(g, v) = last(v)
        BY <1>3, <3>1
      <4>3. Body(two, v) = last(v)
        <5> HIDE DEF two, last
        <5> QED
          BY <4>2
      <4> HIDE DEF two, last
      <4> QED
        BY <4>1, <4>3
    <3>2. CASE b \notin v
      <4>1. two[0..b] = last(0..b)
        BY <1>2
      <4>2. two[v] = [last(0..b) EXCEPT !.keys = chain(v) \o @]
        BY <3>2
      <4>3. \A g : Body(g, v) = [g[0..b] EXCEPT !.keys = chain(v) \o @]
        BY <1>4, <3>2
      <4>4. Body(two, v) = [two[0..b] EXCEPT !.keys = chain(v) \o @]
        <5> HIDE DEF two, last
        <5> QED
          BY <4>3
      <4> HIDE DEF two, last
      <4> QED
        BY <4>1, <4>2, <4>4
    <3> QED
      BY <3>1, <3>2
  <2> QED
    BY <2>1
<1>6. turn = [v \in SUBSET CursorBits |-> Body(turn, v)]
  <2> HIDE DEF two
  <2> QED
    BY <1>5 DEF turn
<1>7. turn[{}] = [turn[0..b] EXCEPT !.keys = chain({}) \o @] /\ turn[0..b] = last(0..b)
  <2>1. turn[{}] = Body(turn, {}) /\ turn[0..b] = Body(turn, 0..b)
    BY <1>2, <1>6
  <2>2. b \notin {}
    OBVIOUS
  <2>3. Body(turn, {}) = [turn[0..b] EXCEPT !.keys = chain({}) \o @]
    BY <1>2, <1>4, <2>2
  <2>4. Body(turn, 0..b) = last(0..b)
    BY <1>2, <1>3
  <2> QED
    BY <2>1, <2>3, <2>4
<1>8. chain({}) = ht.ht_table[1][0] /\ chain(0..b) = ht.ht_table[1][2^b]
  <2>1. {} \intersect m = {} /\ (0..b) \intersect m = {b}
    BY <1>2
  <2>2. SlotOf({}) = 0 /\ SlotOf({b}) = 2^b
    BY <1>2, SlotOfBits
  <2> QED
    BY <2>1, <2>2 DEF chain
<1>9. turn[{}] = [keys |-> chain({}) \o chain(0..b), cursor |-> {}]
  <2>1. turn[0..b] = [keys |-> chain(0..b), cursor |-> {}]
    BY <1>7
  <2>2. turn[{}] = [keys |-> chain({}) \o turn[0..b].keys, cursor |-> turn[0..b].cursor]
    BY <1>7, <2>1
  <2> QED
    BY <2>1, <2>2
<1> QED
  BY <1>1, <1>8, <1>9

-----------------------------------------------------------------------------
(* What a scan gives.                                                      *)

\* A sequence of entries with different keys.
Distinct(s) ==
  /\ s \in Seq(Entry) /\ Len(s) \in Nat
  /\ \A p, q \in 1..Len(s) : s[p].key = s[q].key => p = q

\* Two of them with no common key make one.
LEMMA DistinctJoin ==
  ASSUME NEW s, Distinct(s), NEW t, Distinct(t), KeysFrom(s, 1) \intersect KeysFrom(t, 1) = {}
  PROVE  Distinct(s \o t) /\ KeysFrom(s \o t, 1) = KeysFrom(s, 1) \union KeysFrom(t, 1)
<1>1. s \in Seq(Entry) /\ t \in Seq(Entry) /\ Len(s) \in Nat /\ Len(t) \in Nat
  BY DEF Distinct
<1>2. PICK n : n = s \o t
  OBVIOUS
<1>3. /\ n \in Seq(Entry) /\ Len(n) = Len(s) + Len(t)
      /\ \A p \in 1..Len(s) : n[p] = s[p]
      /\ \A p \in 1..Len(t) : n[p + Len(s)] = t[p]
  BY <1>1, <1>2
<1>4. \A p \in 1..Len(n) : (p \in 1..Len(s) /\ n[p] = s[p])
                           \/ (p - Len(s) \in 1..Len(t) /\ n[p] = t[p - Len(s)])
  <2>1. ASSUME NEW p \in 1..Len(n), p \notin 1..Len(s)
        PROVE  p - Len(s) \in 1..Len(t) /\ n[p] = t[p - Len(s)]
    <3>1. p - Len(s) \in 1..Len(t) /\ (p - Len(s)) + Len(s) = p
      BY <1>1, <1>3, <2>1
    <3> QED
      BY <1>3, <3>1
  <2> QED
    BY <1>3, <2>1
<1>5. \A p \in 1..Len(s) : s[p].key \in KeysFrom(s, 1)
  BY DEF KeysFrom
<1>6. \A p \in 1..Len(t) : t[p].key \in KeysFrom(t, 1)
  BY DEF KeysFrom
<1>7. ASSUME NEW p \in 1..Len(n), NEW q \in 1..Len(n), n[p].key = n[q].key PROVE p = q
  <2>1. CASE p \in 1..Len(s) /\ n[p] = s[p] /\ q \in 1..Len(s) /\ n[q] = s[q]
    BY <1>7, <2>1 DEF Distinct
  <2>2. CASE p - Len(s) \in 1..Len(t) /\ n[p] = t[p - Len(s)] /\ q - Len(s) \in 1..Len(t) /\ n[q] = t[q - Len(s)]
    <3>1. p - Len(s) = q - Len(s)
      BY <1>7, <2>2 DEF Distinct
    <3> QED
      BY <1>1, <1>3, <3>1
  <2> QED
    BY <1>4, <1>5, <1>6, <1>7, <2>1, <2>2
<1>8. KeysFrom(n, 1) = KeysFrom(s, 1) \union KeysFrom(t, 1)
  <2>1. ASSUME NEW p \in 1..Len(n) PROVE n[p].key \in KeysFrom(s, 1) \union KeysFrom(t, 1)
    BY <1>4, <1>5, <1>6
  <2>2. ASSUME NEW p \in 1..Len(s) PROVE s[p].key \in KeysFrom(n, 1)
    <3>1. p \in 1..Len(n) /\ n[p] = s[p]
      BY <1>1, <1>3
    <3> QED
      BY <3>1 DEF KeysFrom
  <2>3. ASSUME NEW p \in 1..Len(t) PROVE t[p].key \in KeysFrom(n, 1)
    <3>1. p + Len(s) \in 1..Len(n) /\ n[p + Len(s)] = t[p]
      BY <1>1, <1>3
    <3> QED
      BY <3>1 DEF KeysFrom
  <2> QED
    BY <2>1, <2>2, <2>3 DEF KeysFrom
<1> QED
  BY <1>1, <1>2, <1>3, <1>7, <1>8 DEF Distinct

\* Every chain is one, and its keys are those of its table.
LEMMA ChainDistinct ==
  ASSUME NEW ht, GoodDict(ht), NEW t \in 0..1, NEW j \in DOMAIN ht.ht_table[t], NEW s, s = ht.ht_table[t][j]
  PROVE  Distinct(s) /\ KeysFrom(s, 1) \subseteq KeysIn(ht, t)
<1>1. s \in Seq(Entry)
  BY TableFacts DEF GoodDict, StructOK
<1>2. Len(s) \in Nat
  BY <1>1
<1>3. ASSUME NEW p \in 1..Len(s), NEW q \in 1..Len(s), s[p].key = s[q].key PROVE p = q
  <2>1. SameKeyAt(ht, t, j, p, t, j, q)
    BY <1>3 DEF SameKeyAt
  <2>2. KeysDistinct(ht) /\ p \in 1..Len(ht.ht_table[t][j]) /\ q \in 1..Len(ht.ht_table[t][j])
    BY DEF GoodDict
  <2> QED
    BY <2>1, <2>2, DistinctCoordinates
<1>4. ASSUME NEW p \in 1..Len(s) PROVE s[p].key \in KeysIn(ht, t)
  <2>1. PICK pos : pos = [table |-> t, slot |-> j, index |-> p]
    OBVIOUS
  <2>2. pos \in Positions(ht, t) /\ EntryAt(ht, pos) = s[p]
    BY <2>1, PositionAt
  <2> QED
    BY <2>2 DEF KeysIn
<1> QED
  BY <1>1, <1>2, <1>3, <1>4 DEF Distinct, KeysFrom

\* Two chains have no common key.
LEMMA ChainsApart ==
  ASSUME NEW ht, GoodDict(ht),
         NEW t \in 0..1, NEW j \in DOMAIN ht.ht_table[t], NEW s, s = ht.ht_table[t][j],
         NEW u \in 0..1, NEW l \in DOMAIN ht.ht_table[u], NEW r, r = ht.ht_table[u][l],
         t # u \/ j # l
  PROVE  KeysFrom(s, 1) \intersect KeysFrom(r, 1) = {}
<1>1. ASSUME NEW p \in 1..Len(s), NEW q \in 1..Len(r), s[p].key = r[q].key PROVE FALSE
  <2>1. SameKeyAt(ht, t, j, p, u, l, q)
    BY <1>1 DEF SameKeyAt
  <2>2. KeysDistinct(ht) /\ p \in 1..Len(ht.ht_table[t][j]) /\ q \in 1..Len(ht.ht_table[u][l])
    BY DEF GoodDict
  <2> QED
    BY <2>1, <2>2, DistinctCoordinates
<1> QED
  BY <1>1 DEF KeysFrom

\* The entries of the first table are in its slot 0.
LEMMA FirstTable ==
  ASSUME NEW ht, GoodDict(ht), NEW x \in KeysIn(ht, 0)
  PROVE  0 \in DOMAIN ht.ht_table[0] /\ x \in KeysFrom(ht.ht_table[0][0], 1)
<1>1. PICK pos \in Positions(ht, 0) : x = EntryAt(ht, pos).key
  BY DEF KeysIn
<1>2. pos.slot = InsertSlot(Hash[EntryAt(ht, pos).key], ht.ht_size_exp[0])
  BY <1>1 DEF GoodDict, Placed
<1>3. pos.slot = 0
  BY <1>2 DEF InsertSlot, GoodDict, Shaped
<1>4. /\ pos.slot \in DOMAIN ht.ht_table[0]
      /\ pos.index \in 1..Len(ht.ht_table[0][pos.slot])
      /\ EntryAt(ht, pos) = ht.ht_table[0][pos.slot][pos.index]
  BY CoordinatesOf
<1> QED
  BY <1>1, <1>3, <1>4 DEF KeysFrom

\* What a complete scan emits: no key twice, all those of the first table, and
\* only keys of the dict.
Emitted(ht, keys) ==
  /\ Distinct(keys)
  /\ KeysIn(ht, 0) \subseteq KeysFrom(keys, 1)
  /\ KeysFrom(keys, 1) \subseteq KeysIn(ht, 0) \union KeysIn(ht, 1)

\* A dict whose counters are 0 has no key.
LEMMA NoKeys ==
  ASSUME NEW ht, GoodDict(ht), Count(ht) = 0
  PROVE  KeysIn(ht, 0) = {} /\ KeysIn(ht, 1) = {}
<1>1. ASSUME NEW t \in 0..1 PROVE ht.ht_used[t] \in Nat
  BY DEF GoodDict, StructOK
<1>2. ht.ht_used[0] = 0 /\ ht.ht_used[1] = 0
  BY <1>1 DEF Count
<1>3. ASSUME NEW t \in 0..1 PROVE Positions(ht, t) = {}
  <2>1. IsFiniteSet(Positions(ht, t)) /\ Cardinality(Positions(ht, t)) = ht.ht_used[t] /\ (t = 0 \/ t = 1)
    BY DEF GoodDict, UsedExact
  <2> QED
    BY <1>2, <2>1, FS_EmptySet
<1> QED
  BY <1>3 DEF KeysIn

\* The empty sequence of entries.
LEMMA DistinctNone == Distinct(<< >>) /\ KeysFrom(<< >>, 1) = {}
<1>1. << >> \in Seq(Entry) /\ Len(<< >>) = 0
  OBVIOUS
<1>2. PICK s : s = << >>
  OBVIOUS
<1>3. Len(s) = 0
  BY <1>2
<1>4. 1..Len(s) = {}
  BY <1>3
<1> QED
  BY <1>1, <1>2, <1>4 DEF Distinct, KeysFrom

\* Outside a rehash a dict with an entry has one in slot 0 of its first table.
LEMMA FirstSlotFull ==
  ASSUME NEW ht, GoodDict(ht), ~Rehashing(ht), Count(ht) # 0
  PROVE  0 \in DOMAIN ht.ht_table[0] /\ ht.ht_table[0][0] # << >>
<1>1. Positions(ht, 1) = {}
  BY NoSlotsOf1, PositionFacts
<1>2. Positions(ht, 0) # {}
  <2> SUFFICES ASSUME Positions(ht, 0) = {} PROVE FALSE
    OBVIOUS
  <2>1. ht.ht_used[0] = 0 /\ ht.ht_used[1] = 0
    BY <1>1, FS_EmptySet DEF GoodDict, UsedExact
  <2> QED
    BY <2>1 DEF Count
<1>3. PICK x : x \in KeysIn(ht, 0)
  BY <1>2 DEF KeysIn
<1>4. 0 \in DOMAIN ht.ht_table[0] /\ x \in KeysFrom(ht.ht_table[0][0], 1)
  BY <1>3, FirstTable
<1>5. PICK s : s = ht.ht_table[0][0]
  OBVIOUS
<1>6. s # << >>
  BY <1>4, <1>5, DistinctNone
<1> QED
  BY <1>4, <1>5, <1>6

\* A scan from the first cursor: its answer.
ScanComplete(ht, scan) == scan.cursor = {} /\ Emitted(ht, scan.keys)

\* Outside a rehash the mask has no bit: the scan is over after slot 0.
LEMMA ScanOutsideRehash ==
  ASSUME NEW ht, GoodDict(ht), ~Rehashing(ht), Count(ht) # 0
  PROVE  ScanComplete(ht, Scan(ht, {}))
<1>1. ht.ht_size_exp[0] = -1
  BY DEF GoodDict, Shaped
<1>2. ScanMask(ht.ht_size_exp[0]) = {}
  BY <1>1 DEF ScanMask
<1>3. Scan(ht, {}) = [keys |-> ht.ht_table[0][SlotOf({} \intersect {})], cursor |-> Advanced({}, {})]
  BY <1>2 DEF Scan
<1>4. Advanced({}, {}) = {} /\ SlotOf({} \intersect {}) = 0
  <2>1. {} \intersect {} = {} /\ {} \subseteq CursorBits /\ {} \subseteq {}
    OBVIOUS
  <2> QED
    BY <2>1, AdvancedEnd, SlotOfBits
<1>5. PICK s : s = ht.ht_table[0][0]
  OBVIOUS
<1>6. Scan(ht, {}) = [keys |-> s, cursor |-> {}]
  BY <1>3, <1>4, <1>5
<1>7. 0 \in DOMAIN ht.ht_table[0]
  BY FirstSlotFull
<1>8. Distinct(s) /\ KeysFrom(s, 1) \subseteq KeysIn(ht, 0)
  BY <1>5, <1>7, ChainDistinct
<1>9. KeysIn(ht, 0) \subseteq KeysFrom(s, 1)
  BY <1>5, FirstTable
<1> QED
  BY <1>6, <1>8, <1>9 DEF ScanComplete, Emitted

\* During one the mask of the second table is a single bit: the scan is over
\* after slot 0 of the first table and two slots of the second.
LEMMA ScanInRehash ==
  ASSUME NEW ht, GoodDict(ht), Rehashing(ht), Count(ht) # 0
  PROVE  ScanComplete(ht, Scan(ht, {}))
<1>1. ht.ht_size_exp[0] = -1 /\ 0 \in DOMAIN ht.ht_table[0]
  BY DEF GoodDict, Shaped
<1>2. PICK e : e = ht.ht_size_exp[1]
  OBVIOUS
<1>3. e \in 2..MaxExp /\ DOMAIN ht.ht_table[1] = 0..(Size(e) - 1) /\ e \in Int /\ e # -1
  BY <1>2, SlotsOf1, SizeAssumption
<1>4. PICK b : b = e - 1
  OBVIOUS
<1>5. b \in CursorBits /\ b \in 0..(e - 1) /\ b \in 0..MaxExp
  BY <1>3, <1>4, SizeAssumption DEF CursorBits
<1>6. RehashScanMask(ht.ht_size_exp[0]) = {} /\ RehashScanMask(ht.ht_size_exp[1]) = {b}
  BY <1>1, <1>2, <1>3, <1>4 DEF RehashScanMask
<1>7. PICK s0, s1, s2 : s0 = ht.ht_table[0][0] /\ s1 = ht.ht_table[1][0] /\ s2 = ht.ht_table[1][2^b]
  OBVIOUS
<1>8. SecondScan(ht, {}, {}, {b}) = [keys |-> s1 \o s2, cursor |-> {}]
  BY <1>5, <1>7, SecondScanIs
<1>9. Scan(ht, {}) = [keys |-> s0 \o (s1 \o s2), cursor |-> {}]
  <2>1. SlotOf({} \intersect {}) = 0
    <3>1. {} \intersect {} = {}
      OBVIOUS
    <3> QED
      BY <3>1, SlotOfBits
  <2>2. PICK second : second = SecondScan(ht, {}, {}, {b})
    OBVIOUS
  <2>3. Scan(ht, {}) = [second EXCEPT !.keys = ht.ht_table[0][SlotOf({} \intersect {})] \o @]
    BY <1>6, <2>2 DEF Scan
  <2>4. second = [keys |-> s1 \o s2, cursor |-> {}]
    BY <1>8, <2>2
  <2>5. Scan(ht, {}) = [keys |-> s0 \o second.keys, cursor |-> second.cursor]
    BY <1>7, <2>1, <2>3, <2>4
  <2> QED
    BY <2>4, <2>5
<1>10. 2^b \in DOMAIN ht.ht_table[1] /\ 0 \in DOMAIN ht.ht_table[1] /\ 2^b # 0
  <2>1. e \in 0..(MaxExp + 1) /\ b \in 0..(MaxExp + 1)
    BY <1>3, <1>5, SizeAssumption
  <2>2. 2^b \in Nat \ {0} /\ 2^e \in Nat /\ 2^b < 2^e
    BY <1>5, <2>1, ShiftAssumption
  <2>3. Size(e) = 2^e
    BY <1>3 DEF Size
  <2> QED
    BY <1>3, <2>2, <2>3
<1>11. /\ Distinct(s0) /\ KeysFrom(s0, 1) \subseteq KeysIn(ht, 0)
       /\ Distinct(s1) /\ KeysFrom(s1, 1) \subseteq KeysIn(ht, 1)
       /\ Distinct(s2) /\ KeysFrom(s2, 1) \subseteq KeysIn(ht, 1)
  BY <1>1, <1>7, <1>10, ChainDistinct
<1>12. /\ KeysFrom(s0, 1) \intersect KeysFrom(s1, 1) = {}
       /\ KeysFrom(s0, 1) \intersect KeysFrom(s2, 1) = {}
       /\ KeysFrom(s1, 1) \intersect KeysFrom(s2, 1) = {}
  <2>1. 0 \in 0..1 /\ 1 \in 0..1 /\ 0 # 1
    OBVIOUS
  <2>2. KeysFrom(s0, 1) \intersect KeysFrom(s1, 1) = {}
    BY SMTT(30), <1>1, <1>7, <1>10, <2>1, ChainsApart
  <2>3. KeysFrom(s0, 1) \intersect KeysFrom(s2, 1) = {}
    BY <1>1, <1>7, <1>10, <2>1, ChainsApart
  <2>4. KeysFrom(s1, 1) \intersect KeysFrom(s2, 1) = {}
    BY <1>7, <1>10, <2>1, ChainsApart
  <2> QED
    BY <2>2, <2>3, <2>4
<1>13. PICK two : two = s1 \o s2
  OBVIOUS
<1>14. Distinct(two) /\ KeysFrom(two, 1) = KeysFrom(s1, 1) \union KeysFrom(s2, 1)
  BY <1>11, <1>12, <1>13, DistinctJoin
<1>15. PICK all : all = s0 \o two
  OBVIOUS
<1>16. Distinct(all) /\ KeysFrom(all, 1) = KeysFrom(s0, 1) \union KeysFrom(two, 1)
  BY <1>11, <1>12, <1>14, <1>15, DistinctJoin
<1>17. KeysIn(ht, 0) \subseteq KeysFrom(s0, 1)
  BY <1>7, FirstTable
<1>18. Scan(ht, {}) = [keys |-> all, cursor |-> {}]
  BY <1>9, <1>13, <1>15
<1> QED
  BY <1>11, <1>14, <1>16, <1>17, <1>18 DEF ScanComplete, Emitted

\* Every scan from the first cursor is complete.
LEMMA ScanIs ==
  ASSUME NEW ht, GoodDict(ht)
  PROVE  ScanComplete(ht, Scan(ht, {}))
<1>1. CASE Count(ht) = 0
  <2>1. Scan(ht, {}) = [keys |-> << >>, cursor |-> {}]
    BY <1>1 DEF Scan
  <2>2. KeysIn(ht, 0) = {}
    BY <1>1, NoKeys
  <2> QED
    BY <2>1, <2>2, DistinctNone DEF ScanComplete, Emitted
<1>2. CASE Count(ht) # 0
  BY <1>2, ScanOutsideRehash, ScanInRehash
<1> QED
  BY <1>1, <1>2

-----------------------------------------------------------------------------
(* Samples.                                                                *)

\* Sequences over K, of at most n elements.
Bounded(K, n) == {s \in Seq(K) : Len(s) <= n}

\* One more entry is added, or takes the place of one.
LEMMA OfferedStays ==
  ASSUME NEW K, NEW n \in Nat, NEW des \in Bounded(K, n), NEW k \in K
  PROVE  Offered(des, k, n) \subseteq Bounded(K, n)
<1>1. des \in Seq(K) /\ Len(des) \in Nat /\ Len(des) <= n
  BY DEF Bounded
<1>2. CASE Len(des) < n
  <2>1. Append(des, k) \in Seq(K) /\ Len(Append(des, k)) = Len(des) + 1
    BY <1>1
  <2>2. Offered(des, k, n) = {Append(des, k)}
    BY <1>2 DEF Offered
  <2> QED
    BY <1>1, <1>2, <2>1, <2>2 DEF Bounded
<1>3. CASE ~(Len(des) < n)
  <2>1. Len(des) = n
    BY <1>1, <1>3
  <2>2. ASSUME NEW r \in 1..n PROVE [des EXCEPT ![r] = k] \in Bounded(K, n)
    <3>1. [des EXCEPT ![r] = k] \in Seq(K) /\ Len([des EXCEPT ![r] = k]) = Len(des)
      BY <1>1, <2>1
    <3> QED
      BY <2>1, <3>1 DEF Bounded
  <2>3. Offered(des, k, n) = {des} \union {[des EXCEPT ![r] = k] : r \in 1..n}
    BY <1>3 DEF Offered
  <2> QED
    BY <2>2, <2>3
<1> QED
  BY <1>2, <1>3

\* What is offered in a chain, as the set of what des may become.
Offering(S, k, n) == UNION {Offered(des, k, n) : des \in S}

LEMMA OfferingStays ==
  ASSUME NEW K, NEW n \in Nat, NEW S \in SUBSET Bounded(K, n), NEW k \in K
  PROVE  Offering(S, k, n) \in SUBSET Bounded(K, n)
  BY OfferedStays DEF Offering

\* The fold over the entries of a chain.
LEMMA ChainOffered ==
  ASSUME NEW K, NEW n \in Nat, NEW chain, NEW N \in Nat, NEW I, I = 1..N, DOMAIN chain = I,
         \A p \in I : chain[p].key \in K, NEW des0 \in Bounded(K, n)
  PROVE  FoldLeft(LAMBDA S, e : UNION {Offered(des, e.key, n) : des \in S}, {des0}, chain)
           \in SUBSET Bounded(K, n)
<1> DEFINE V == SUBSET Bounded(K, n)
           Sets == SUBSET I
           step == [p \in I \X V |-> Offering(p[2], chain[p[1]].key, n)]
           Body(h, s) == IF s = {} THEN {des0} ELSE Offering(h[s \ {Max(s)}], chain[Max(s)].key, n)
           Iter == CHOOSE h : h = [s \in Sets |-> Body(h, s)]
           W == [k \in 0..N |-> V]
<1>1. \A i \in I, S \in V : Offering(S, chain[i].key, n) \in V
  BY OfferingStays
<1>2. \A s \in Sets : s # {} => Max(s) \in I /\ s \ {Max(s)} \in Sets
  BY MaxIsOne
<1>3. {des0} \in V
  OBVIOUS
<1> HIDE DEF V
<1>4. step \in [I \X V -> V]
  BY <1>1
<1> HIDE DEF step
<1>5. PICK g \in [SUBSET I -> V] : FoldsUp(g, {des0}, I, step)
  BY ZenonT(60), <1>3, <1>4, FoldExists
<1>6. ASSUME NEW s \in Sets PROVE g[s] = Body(g, s)
  <2>1. CASE s = {}
    BY <1>5, <2>1 DEF FoldsUp
  <2>2. CASE s # {}
    <3>1. PICK m, S : m = Max(s) /\ S = g[s \ {Max(s)}]
      OBVIOUS
    <3>2. m \in I /\ S \in V
      BY <1>2, <1>5, <2>2, <3>1
    <3>3. g[s] = step[<<m, S>>]
      BY <1>5, <2>2, <3>1 DEF FoldsUp
    <3>4. step[<<m, S>>] = Offering(S, chain[m].key, n)
      BY <3>2 DEF step
    <3> QED
      BY <2>2, <3>1, <3>3, <3>4
  <2> QED
    BY <2>1, <2>2
<1> HIDE DEF Body
<1>7. g = [s \in Sets |-> Body(g, s)]
  BY <1>5, <1>6
<1>8. Iter = [s \in Sets |-> Body(Iter, s)]
  BY <1>7
<1>9. FoldLeft(LAMBDA S, e : UNION {Offered(des, e.key, n) : des \in S}, {des0}, chain) = Iter[I]
  BY DEF FoldLeft, MapThenFoldSet, Offering, Body
<1> HIDE DEF Iter
<1>10. \A s \in SUBSET I : Iter[s] \in W[IF s = {} THEN 0 ELSE Max(s)]
  <2>1. Iter[{}] \in W[0]
    BY <1>3, <1>8 DEF Body
  <2>2. ASSUME NEW s \in SUBSET I, s # {}, Iter[s \ {Max(s)}] \in W[Max(s) - 1] PROVE Iter[s] \in W[Max(s)]
    <3>1. PICK m, S : m = Max(s) /\ S = Iter[s \ {Max(s)}]
      OBVIOUS
    <3>2. m \in I /\ m - 1 \in 0..N /\ m \in 0..N
      BY <1>2, <2>2, <3>1
    <3>3. S \in V
      BY <2>2, <3>1, <3>2
    <3>4. Iter[s] = Offering(S, chain[m].key, n)
      BY <1>8, <2>2, <3>1 DEF Body
    <3> QED
      BY <1>1, <3>1, <3>2, <3>3, <3>4
  <2>3. \A j, k \in 0..N : j <= k => W[j] \subseteq W[k]
    OBVIOUS
  <2> HIDE DEF W
  <2> QED
    BY <2>1, <2>2, <2>3, FoldRises
<1>11. Iter[I] \in V
  <2>1. PICK last : last = IF I = {} THEN 0 ELSE Max(I)
    OBVIOUS
  <2>2. W[last] = V
    <3>1. last \in 0..N
      <4>1. I # {} => Max(I) \in I
        BY <1>2
      <4>2. CASE I = {}
        BY <2>1, <4>2
      <4>3. CASE I # {}
        <5>1. last \in I
          BY <2>1, <4>1, <4>3
        <5> QED
          BY <5>1
      <4> QED
        BY <4>2, <4>3
    <3> QED
      BY <3>1
  <2> HIDE DEF W
  <2>3. Iter[I] \in W[last]
    BY <1>10, <2>1
  <2> QED
    BY <2>2, <2>3
<1> QED
  BY <1>9, <1>11 DEF V

\* Where a search for samples may be.
WalkStates(ht, n) ==
  [i : DOMAIN ht.ht_table[1], emptylen : Nat, des : Bounded(KeysIn(ht, 1), n)]

\* Its steps stay there.
LEMMA SampleStepStays ==
  ASSUME NEW ht, GoodDict(ht), Rehashing(ht), NEW n \in Nat, NEW w \in WalkStates(ht, n)
  PROVE  SampleStep(ht, w, n) \subseteq WalkStates(ht, n)
<1> DEFINE slots == DOMAIN ht.ht_table[1]
           K == KeysIn(ht, 1)
           chain == ht.ht_table[1][w.i]
           after(i) == (i + 1) % Cardinality(slots)
           lost == w.emptylen + 1 >= 5 /\ w.emptylen + 1 > n
           filled == FoldLeft(LAMBDA S, e : UNION {Offered(des, e.key, n) : des \in S}, {w.des}, chain)
<1>1. w.i \in slots /\ w.emptylen \in Nat /\ w.des \in Bounded(K, n)
  BY DEF WalkStates
<1>2. ASSUME NEW i \in slots PROVE after(i) \in slots
  <2>1. PICK size : size = Size(ht.ht_size_exp[1])
    OBVIOUS
  <2>2. size \in Nat /\ slots = 0..(size - 1)
    BY <2>1, SlotsOf1
  <2>3. size > 0 /\ i \in Nat
    BY <2>2
  <2>4. Cardinality(slots) = size
    <3>1. size - 1 \in Int /\ 0 \in Int /\ ~(0 > size - 1) /\ (size - 1) - 0 + 1 = size
      BY <2>2, <2>3
    <3>2. PICK last : last = size - 1
      OBVIOUS
    <3>3. Cardinality(0..last) = IF 0 > last THEN 0 ELSE last - 0 + 1
      BY <3>1, <3>2, FS_Interval
    <3> QED
      BY <2>2, <3>1, <3>2, <3>3
  <2>5. (i + 1) % size \in 0..(size - 1)
    BY <2>2, <2>3
  <2> QED
    BY <2>2, <2>4, <2>5
<1>3. filled \in SUBSET Bounded(K, n)
  <2>1. PICK s : s = chain
    OBVIOUS
  <2>2. Distinct(s) /\ KeysFrom(s, 1) \subseteq K
    BY <1>1, <2>1, ChainDistinct
  <2>3. Len(s) \in Nat /\ DOMAIN s = 1..Len(s) /\ \A p \in 1..Len(s) : s[p].key \in K
    BY <2>2 DEF Distinct, KeysFrom
  <2>4. FoldLeft(LAMBDA S, e : UNION {Offered(des, e.key, n) : des \in S}, {w.des}, s) \in SUBSET Bounded(K, n)
    BY <1>1, <2>3, ChainOffered
  <2> QED
    BY <2>1, <2>4
<1>4. SampleStep(ht, w, n) =
        IF Len(w.des) = n THEN {w}
        ELSE IF chain # << >>
        THEN {[i |-> after(w.i), emptylen |-> 0, des |-> des] : des \in filled}
        ELSE {[i |-> after(i), emptylen |-> IF lost THEN 0 ELSE w.emptylen + 1, des |-> w.des] :
                i \in IF lost THEN slots ELSE {w.i}}
  BY DEF SampleStep
<1>5. (IF lost THEN 0 ELSE w.emptylen + 1) \in Nat
  BY <1>1
<1> HIDE DEF slots, K, chain, after, lost, filled
<1>6. ASSUME NEW i \in slots, NEW m \in Nat, NEW des \in Bounded(K, n)
      PROVE  [i |-> i, emptylen |-> m, des |-> des] \in WalkStates(ht, n)
  BY DEF WalkStates, slots, K
<1>7. {[i |-> after(w.i), emptylen |-> 0, des |-> des] : des \in filled} \subseteq WalkStates(ht, n)
  BY <1>1, <1>2, <1>3, <1>6
<1>8. {[i |-> after(i), emptylen |-> IF lost THEN 0 ELSE w.emptylen + 1, des |-> w.des] :
         i \in IF lost THEN slots ELSE {w.i}} \subseteq WalkStates(ht, n)
  BY <1>1, <1>2, <1>5, <1>6
<1> QED
  BY <1>4, <1>7, <1>8

\* What a search can have put into des.
LEMMA SamplesBounded ==
  ASSUME NEW ht, GoodDict(ht), NEW n \in Nat
  PROVE  Samples(ht, n) \subseteq Bounded(KeysIn(ht, 1), n)
<1>1. CASE ~Rehashing(ht)
  <2>1. << >> \in Seq(KeysIn(ht, 1)) /\ Len(<< >>) = 0
    OBVIOUS
  <2> QED
    BY <1>1, <2>1 DEF Samples, Bounded
<1>2. CASE Rehashing(ht)
  <2> DEFINE W == WalkStates(ht, n)
             V == SUBSET W
             top == 10 * n
             turns == 0..top
             Z == {0}
             starts == {[i |-> i, emptylen |-> 0, des |-> << >>] : i \in DOMAIN ht.ht_table[1]}
             move(S) == UNION {SampleStep(ht, w, n) : w \in S}
             Body(h, s) == IF s = 0 THEN starts ELSE move(h[s - 1])
             walks == CHOOSE h : h = [s \in turns |-> Body(h, s)]
             rank == [s \in turns |-> s]
             before == [s \in turns \ Z |-> s - 1]
             start == [s \in Z |-> starts]
             step == [p \in (turns \ Z) \X V |-> move(p[2])]
  <2>1. top \in Nat /\ top = 10 * n
    OBVIOUS
  <2>2. starts \in V
    <3>1. << >> \in Bounded(KeysIn(ht, 1), n)
      <4>1. << >> \in Seq(KeysIn(ht, 1)) /\ Len(<< >>) = 0
        OBVIOUS
      <4> QED
        BY <4>1 DEF Bounded
    <3> QED
      BY <3>1 DEF WalkStates
  <2>3. ASSUME NEW S \in V PROVE move(S) \in V
    BY <1>2, <2>3, SampleStepStays
  <2>4. Samples(ht, n) = {w.des : w \in walks[top]}
    BY <1>2 DEF Samples
  <2> HIDE DEF starts, move, V, top
  <2>5. Recursion(turns, V, top, rank, Z, start, before, step)
    <3>1. rank \in [turns -> 0..top] /\ Z \subseteq turns /\ start \in [Z -> V] /\ V # {}
      BY <2>1, <2>2
    <3>2. before \in [turns \ Z -> turns]
      BY <2>1
    <3>3. step \in [(turns \ Z) \X V -> V]
      BY <2>3
    <3>4. \A s \in turns \ Z : rank[before[s]] < rank[s]
      BY <2>1
    <3> HIDE DEF rank, before, start, step, Z, turns
    <3> QED
      BY <2>1, <3>1, <3>2, <3>3, <3>4 DEF Recursion
  <2>6. PICK g \in [turns -> V] :
          \A s \in turns : g[s] = IF s \in Z THEN start[s] ELSE step[<<s, g[before[s]]>>]
    <3> HIDE DEF rank, before, start, step, Z, turns
    <3> QED
      BY <2>5, RecursionByRank
  <2>7. ASSUME NEW s \in turns PROVE g[s] = Body(g, s)
    <3>1. CASE s = 0
      BY <2>6, <3>1
    <3>2. CASE s # 0
      <4>1. s \in turns \ Z /\ before[s] = s - 1 /\ s - 1 \in 0..top
        BY <2>1, <3>2
      <4>2. g[s - 1] \in V
        BY <2>6, <4>1
      <4>3. step[<<s, g[s - 1]>>] = move(g[s - 1])
        BY <4>1, <4>2
      <4> QED
        BY <2>6, <3>2, <4>1, <4>3
    <3> QED
      BY <3>1, <3>2
  <2> HIDE DEF Body
  <2>8. g = [s \in turns |-> Body(g, s)]
    BY <2>7
  <2>9. walks = [s \in turns |-> Body(walks, s)]
    BY <2>8
  <2> HIDE DEF walks
  <2>10. Nat \subseteq {s \in Nat : s \in 0..top => walks[s] \in V}
    <3> DEFINE P == {s \in Nat : s \in 0..top => walks[s] \in V}
    <3>1. 0 \in P
      BY <2>2, <2>9 DEF Body
    <3>2. ASSUME NEW s \in Nat, s \in P PROVE s + 1 \in P
      <4>1. CASE s + 1 \in 0..top
        <5>1. s \in 0..top /\ s + 1 # 0 /\ (s + 1) - 1 = s
          BY <2>1, <4>1
        <5>2. walks[s + 1] = Body(walks, s + 1)
          BY <2>9, <4>1
        <5>3. walks[s + 1] = move(walks[s])
          BY <5>1, <5>2 DEF Body
        <5> QED
          BY <2>3, <3>2, <5>1, <5>3
      <4> QED
        BY <4>1
    <3> HIDE DEF P
    <3>3. Nat \subseteq P
      BY <3>1, <3>2, InductionOverNat
    <3> QED
      BY <3>3 DEF P
  <2>11. walks[top] \in V
    BY <2>1, <2>10
  <2> QED
    BY <2>4, <2>11 DEF V, WalkStates
<1> QED
  BY <1>1, <1>2

-----------------------------------------------------------------------------
(* What a scan or a sample has given to the client.                        *)

\* The keys of a sequence of entries: as many as it has.
LEMMA KeysOfEntries ==
  ASSUME NEW s, Distinct(s), NEW k, k = [p \in DOMAIN s |-> s[p].key]
  PROVE  k \in Seq(Key) /\ Range(k) = KeysFrom(s, 1) /\ Cardinality(Range(k)) = Len(k)
<1>1. s \in Seq(Entry) /\ Len(s) \in Nat /\ DOMAIN s = 1..Len(s)
  BY DEF Distinct
<1>2. PICK I : I = 1..Len(s)
  OBVIOUS
<1>3. \A p \in I : s[p].key \in Key
  <2>1. \A p \in I : s[p] \in Entry
    BY <1>1, <1>2
  <2> QED
    BY <2>1 DEF Entry
<1>4. k \in Seq(Key) /\ Len(k) = Len(s) /\ DOMAIN k = I /\ \A p \in I : k[p] = s[p].key
  BY <1>1, <1>2, <1>3
<1>5. Range(k) = KeysFrom(s, 1)
  BY <1>2, <1>4 DEF Range, KeysFrom
<1>6. IsFiniteSet(I) /\ Cardinality(I) = Len(s)
  <2>1. IsFiniteSet(1..Len(s)) /\ Cardinality(1..Len(s)) = IF 1 > Len(s) THEN 0 ELSE Len(s) - 1 + 1
    BY <1>1, FS_Interval
  <2> QED
    BY <1>1, <1>2, <2>1
<1>7. Cardinality(Range(k)) = Cardinality(I)
  <2>1. \A p, q \in I : k[p] = k[q] => p = q
    BY <1>2, <1>4 DEF Distinct
  <2>2. k \in [I -> Range(k)] /\ \A y \in Range(k) : \E p \in I : k[p] = y
    BY <1>4 DEF Range
  <2>3. k \in Bijection(I, Range(k))
    BY <2>1, <2>2 DEF Bijection, Injection, Surjection, IsInjective
  <2>4. ExistsBijection(I, Range(k))
    BY <2>3 DEF ExistsBijection
  <2> QED
    BY <1>6, <2>4, FS_Bijection
<1> QED
  BY <1>4, <1>5, <1>6, <1>7

\* The keys of a good dict are keys, and it counts them by a natural.
LEMMA KeyType ==
  ASSUME NEW ht, GoodDict(ht)
  PROVE  KeysIn(ht, 0) \subseteq Key /\ KeysIn(ht, 1) \subseteq Key /\ Count(ht) \in Nat
<1>1. ASSUME NEW t \in 0..1 PROVE KeysIn(ht, t) \subseteq Key /\ ht.ht_used[t] \in Nat
  <2>1. ASSUME NEW pos \in Positions(ht, t) PROVE EntryAt(ht, pos).key \in Key
    <3>1. pos \in AllPositions(ht)
      BY DEF AllPositions
    <3>2. EntryAt(ht, pos) \in Entry
      BY <3>1, EntryType DEF GoodDict
    <3> QED
      BY <3>2 DEF Entry
  <2> QED
    BY <2>1 DEF KeysIn, GoodDict, StructOK
<1> QED
  BY <1>1 DEF Count

\* Where the last answer is kept.
GivenTypeOK ==
  given \in [by : {"none", "scan", "some", "random", "fair"}, keys : Seq(Key), cursor : SUBSET CursorBits]

\* What the client holds of its last scan or sample: no cursor is left over,
\* and while the dict is as it was a scan has its keys.
Answered == GivenTypeOK /\ given.cursor = {} /\ ScanExact

\* What a sample answers.
SampleAnswer(ht, g) ==
  /\ \E by \in {"some", "random", "fair"}, keys \in Seq(Key) : g = Given(by, keys, {})
  /\ Len(g.keys) <= Count(ht)
  /\ Range(g.keys) \subseteq KeysIn(ht, 0) \union KeysIn(ht, 1)
  /\ g.by = "random" /\ ~Rehashing(ht) /\ Count(ht) > 0 => g.keys # << >>

\* An answer, by what it is made of.
LEMMA AnswerOf ==
  ASSUME NEW ht, NEW by \in {"some", "random", "fair"}, NEW keys \in Seq(Key), NEW g, g = Given(by, keys, {}),
         Len(keys) <= Count(ht), Range(keys) \subseteq KeysIn(ht, 0) \union KeysIn(ht, 1),
         by = "random" /\ ~Rehashing(ht) /\ Count(ht) > 0 => keys # << >>
  PROVE  SampleAnswer(ht, g)
<1>1. g.by = by /\ g.keys = keys
  BY DEF Given
<1> QED
  BY <1>1 DEF SampleAnswer

\* Bounded sequences of stored keys are answers to the other questions than a random key.
LEMMA BoundedAnswer ==
  ASSUME NEW ht, GoodDict(ht), NEW by \in {"some", "fair"}, NEW n \in Nat, n <= Count(ht),
         NEW keys \in Bounded(KeysIn(ht, 1), n), NEW g, g = Given(by, keys, {})
  PROVE  SampleAnswer(ht, g)
<1>1. keys \in Seq(KeysIn(ht, 1)) /\ Len(keys) \in Nat /\ Len(keys) <= n
  BY DEF Bounded
<1>2. keys \in Seq(Key) /\ Range(keys) \subseteq KeysIn(ht, 1)
  <2>1. \A p \in 1..Len(keys) : keys[p] \in KeysIn(ht, 1)
    BY <1>1
  <2>2. KeysIn(ht, 1) \subseteq Key
    BY KeyType
  <2> QED
    BY <1>1, <2>1, <2>2 DEF Range
<1>3. Len(keys) <= Count(ht)
  BY <1>1, KeyType
<1> QED
  BY <1>2, <1>3, AnswerOf

\* The reduced count is at most the number of entries.
LEMMA ClippedFacts ==
  ASSUME NEW ht, GoodDict(ht), NEW count \in Nat
  PROVE  Clipped(ht, count) \in Nat /\ Clipped(ht, count) <= Count(ht)
  BY KeyType DEF Clipped

\* The empty sequence is one of the bounded ones.
LEMMA NoneBounded == \A K : \A n \in Nat : << >> \in Bounded(K, n)
<1>1. \A K : << >> \in Seq(K)
  OBVIOUS
<1>2. Len(<< >>) = 0
  OBVIOUS
<1> QED
  BY <1>1, <1>2 DEF Bounded

\* dictGetSomeKeys.
LEMMA SomeKeysAnswer ==
  ASSUME GoodDict(d), NEW count \in Nat, dictGetSomeKeys(count)
  PROVE  SampleAnswer(d, given')
<1>1. PICK n : n = Clipped(d, count)
  OBVIOUS
<1>2. n \in Nat /\ n <= Count(d)
  BY <1>1, ClippedFacts
<1>3. PICK des \in Samples(d, n) : \E keys \in {des, << >>} : given' = Given("some", keys, {})
  BY <1>1 DEF dictGetSomeKeys
<1>4. des \in Bounded(KeysIn(d, 1), n) /\ << >> \in Bounded(KeysIn(d, 1), n)
  BY <1>2, <1>3, SamplesBounded, NoneBounded
<1>5. PICK keys \in {des, << >>} : given' = Given("some", keys, {})
  BY <1>3
<1> QED
  BY <1>2, <1>4, <1>5, BoundedAnswer

\* dictGetFairRandomKey.
LEMMA FairKeyAnswer ==
  ASSUME GoodDict(d), dictGetFairRandomKey
  PROVE  SampleAnswer(d, given')
<1>1. PICK n : n = Clipped(d, 15)
  OBVIOUS
<1>2. n \in Nat /\ n <= Count(d)
  BY <1>1, ClippedFacts
<1>3. PICK des \in Samples(d, n) :
        /\ up' = (Len(des) = n /\ n > 0)
        /\ \E keys \in IF up' THEN {<<des[r]>> : r \in 1..n} ELSE {<< >>} : given' = Given("fair", keys, {})
  BY <1>1 DEF dictGetFairRandomKey
<1>4. PICK keys \in IF up' THEN {<<des[r]>> : r \in 1..n} ELSE {<< >>} : given' = Given("fair", keys, {})
  BY <1>3
<1>5. keys \in Bounded(KeysIn(d, 1), n)
  <2>1. CASE Len(des) = n /\ n > 0
    <3>1. PICK r \in 1..n : keys = <<des[r]>>
      BY <1>3, <1>4, <2>1
    <3>2. des \in Bounded(KeysIn(d, 1), n)
      BY <1>2, <1>3, SamplesBounded
    <3>3. des[r] \in KeysIn(d, 1)
      BY <2>1, <3>1, <3>2 DEF Bounded
    <3>4. PICK k : k = des[r]
      OBVIOUS
    <3>5. <<k>> \in Seq(KeysIn(d, 1)) /\ Len(<<k>>) = 1
      BY <3>3, <3>4
    <3> QED
      BY <1>2, <2>1, <3>1, <3>4, <3>5 DEF Bounded
  <2>2. CASE ~(Len(des) = n /\ n > 0)
    <3>1. keys = << >>
      BY <1>3, <1>4, <2>2
    <3> QED
      BY <1>2, <3>1, NoneBounded
  <2> QED
    BY <2>1, <2>2
<1> QED
  BY <1>2, <1>4, <1>5, BoundedAnswer

\* dictGetRandomKey.
LEMMA RandomKeyAnswer ==
  ASSUME GoodDict(d), dictGetRandomKey
  PROVE  SampleAnswer(d, given')
<1>1. Count(d) \in Nat
  BY KeyType
<1>2. CASE given' = Given("random", << >>, {}) /\ (Count(d) = 0 \/ Rehashing(d))
  <2>1. PICK keys : keys = << >>
    OBVIOUS
  <2>2. keys \in Seq(Key) /\ Len(keys) = 0 /\ Range(keys) = {}
    BY <2>1 DEF Range
  <2>3. given' = Given("random", keys, {}) /\ ~(~Rehashing(d) /\ Count(d) > 0)
    BY <1>2, <2>1
  <2>4. Len(keys) <= Count(d)
    BY <1>1, <2>2
  <2> QED
    BY <2>2, <2>3, <2>4, AnswerOf
<1>3. CASE Count(d) # 0 /\ ~Rehashing(d) /\ \E k \in RandomKeys(d) : given' = Given("random", <<k>>, {})
  <2>1. PICK k \in RandomKeys(d) : given' = Given("random", <<k>>, {})
    BY <1>3
  <2>2. 0 \in DOMAIN d.ht_table[0]
    BY <1>3, FirstSlotFull
  <2>3. PICK s : s = d.ht_table[0][0]
    OBVIOUS
  <2>4. Distinct(s) /\ KeysFrom(s, 1) \subseteq KeysIn(d, 0)
    BY <2>2, <2>3, ChainDistinct
  <2>5. k \in KeysFrom(s, 1)
    <3>1. DOMAIN s = 1..Len(s)
      BY <2>4 DEF Distinct
    <3> QED
      BY <2>1, <2>3, <3>1 DEF RandomKeys, KeysFrom
  <2>6. k \in KeysIn(d, 0) /\ k \in Key
    BY <2>4, <2>5, KeyType
  <2>7. PICK keys : keys = <<k>>
    OBVIOUS
  <2>8. keys \in Seq(Key) /\ Len(keys) = 1 /\ Range(keys) = {k} /\ keys # << >>
    BY <2>6, <2>7 DEF Range
  <2>9. given' = Given("random", keys, {}) /\ Len(keys) <= Count(d)
    BY <1>1, <1>3, <2>1, <2>7, <2>8
  <2> QED
    BY <2>6, <2>8, <2>9, AnswerOf
<1>4. \/ given' = Given("random", << >>, {}) /\ (Count(d) = 0 \/ Rehashing(d))
      \/ Count(d) # 0 /\ ~Rehashing(d) /\ \E k \in RandomKeys(d) : given' = Given("random", <<k>>, {})
  <2>1. CASE Count(d) = 0
    BY <2>1 DEF dictGetRandomKey
  <2>2. CASE Count(d) # 0 /\ RandomKeyFaults(d)
    <3>1. Rehashing(d)
      BY <2>2, FirstSlotFull DEF RandomKeyFaults
    <3> QED
      BY <2>2, <3>1 DEF dictGetRandomKey
  <2>3. CASE Count(d) # 0 /\ ~RandomKeyFaults(d)
    BY <2>3 DEF dictGetRandomKey, RandomKeyFaults
  <2> QED
    BY <2>1, <2>2, <2>3
<1> QED
  BY <1>2, <1>3, <1>4

\* A sample gives an answer.
Sampling == (\E count \in Counts : dictGetSomeKeys(count)) \/ dictGetRandomKey \/ dictGetFairRandomKey

LEMMA SampleAnswers ==
  ASSUME GoodDict(d), Sampling
  PROVE  SampleAnswer(d, given')
<1>1. \A count \in Counts : count \in Nat
  BY CountAssumption
<1> QED
  BY <1>1, SomeKeysAnswer, FairKeyAnswer, RandomKeyAnswer DEF Sampling

\* Every other step gives nothing, or what a scan emits.
LEMMA OtherStepsGive ==
  ASSUME TraversalNext, ~Sampling
  PROVE  given' = Nothing \/ dictScan
<1>1. CASE Client
  <2>1. ClientStep
    BY <1>1, ClientSteps
  <2> QED
    BY <2>1 DEF ClientStep, Meanwhile
<1>2. CASE \E safe \in BOOLEAN : dictInitIterator(safe)
  BY <1>2 DEF dictInitIterator
<1>3. CASE dictNext
  BY <1>3 DEF dictNext
<1>4. CASE dictResetIterator
  BY <1>4 DEF dictResetIterator
<1> QED
  BY <1>1, <1>2, <1>3, <1>4 DEF TraversalNext, Sampling

\* Nothing is an answer, if there is no scan to compare it with.
LEMMA NothingAnswered ==
  /\ given = Nothing => Answered
  /\ given' = Nothing => Answered'
<1>1. /\ Nothing \in [by : {"none", "scan", "some", "random", "fair"}, keys : Seq(Key), cursor : SUBSET CursorBits]
      /\ Nothing.by # "scan" /\ Nothing.cursor = {}
  BY DEF Nothing, Given
<1>2. given = Nothing => Answered
  BY <1>1 DEF Answered, GivenTypeOK, ScanExact
<1>3. given' = Nothing => Answered'
  BY <1>1 DEF Answered, GivenTypeOK, ScanExact
<1> QED
  BY <1>2, <1>3

\* A scan answers with each of its entries once.
LEMMA ScanAnswered ==
  ASSUME GoodDict(d), Answered, dictScan
  PROVE  Answered'
<1>1. d' = d /\ given.cursor = {}
  BY DEF dictScan, vars, Answered
<1>2. PICK s : s = Scan(d, {}).keys
  OBVIOUS
<1>3. Scan(d, {}).cursor = {} /\ Emitted(d, s)
  BY <1>2, ScanIs DEF ScanComplete
<1>4. PICK k : k = [p \in DOMAIN s |-> s[p].key]
  OBVIOUS
<1>5. given' = Given("scan", k, {})
  BY <1>1, <1>2, <1>3, <1>4 DEF dictScan
<1>6. k \in Seq(Key) /\ Range(k) = KeysFrom(s, 1) /\ Cardinality(Range(k)) = Len(k)
  BY <1>3, <1>4, KeysOfEntries DEF Emitted
<1>7. given'.by = "scan" /\ given'.keys = k /\ given'.cursor = {}
  BY <1>5 DEF Given
<1>8. GivenTypeOK'
  BY <1>5, <1>6 DEF GivenTypeOK, Given
<1>9. ScanExact'
  BY <1>1, <1>3, <1>6, <1>7 DEF ScanExact, Emitted
<1> QED
  BY <1>7, <1>8, <1>9 DEF Answered

\* A sample is an answer too.
LEMMA SampleAnswered ==
  ASSUME GoodDict(d), Sampling
  PROVE  Answered'
<1>1. PICK by \in {"some", "random", "fair"} : \E keys \in Seq(Key) : given' = Given(by, keys, {})
  BY SampleAnswers DEF SampleAnswer
<1>2. PICK keys \in Seq(Key) : given' = Given(by, keys, {})
  BY <1>1
<1>3. given'.by = by /\ given'.cursor = {} /\ by # "scan"
  BY <1>1, <1>2 DEF Given
<1> QED
  BY <1>1, <1>2, <1>3 DEF Answered, GivenTypeOK, Given, ScanExact

\* Every answer the client has got is one of those.
LEMMA AnswersKept == TraversalInv /\ Answered /\ [TraversalNext]_traversalVars => Answered'
<1> SUFFICES ASSUME TraversalInv, Answered, [TraversalNext]_traversalVars PROVE Answered'
  OBVIOUS
<1>1. GoodDict(d)
  BY DEF TraversalInv, Sane
<1>2. CASE UNCHANGED traversalVars
  BY <1>2 DEF traversalVars, vars, Answered, GivenTypeOK, ScanExact
<1>3. CASE TraversalNext /\ Sampling
  BY <1>1, <1>3, SampleAnswered
<1>4. CASE TraversalNext /\ ~Sampling
  BY <1>1, <1>4, OtherStepsGive, NothingAnswered, ScanAnswered
<1> QED
  BY <1>2, <1>3, <1>4

\* It holds in every reachable state.
THEOREM AnswersInvariant == TraversalSpec => []Answered
<1>1. TraversalInit => Answered
  BY NothingAnswered DEF TraversalInit
<1> QED
  BY <1>1, AnswersKept, TraversalInvariant, PTL DEF TraversalSpec

\* One call of dictScan from the first cursor is a complete scan: the cursor it
\* returns is the first one, no entry is emitted twice, and none of the first
\* table is left out.
THEOREM ScanInOneCall == TraversalSpec => []ScanExact
<1>1. Answered => ScanExact
  BY DEF Answered
<1> QED
  BY <1>1, AnswersInvariant, PTL

\* A sample claims no more entries than the dict has, gives stored ones only,
\* and outside a rehash the search for a random key ends.
THEOREM SamplesRight == TraversalSpec => SamplesAnswer
<1>1. TraversalInv /\ [TraversalNext]_traversalVars =>
        [given'.by \in {"some", "random", "fair"} =>
           /\ Len(given'.keys) <= Count(d)
           /\ Range(given'.keys) \subseteq KeysIn(d, 0) \union KeysIn(d, 1)
           /\ given'.by = "random" /\ ~Rehashing(d) /\ Count(d) > 0 => given'.keys # << >>]_given
  <2> SUFFICES ASSUME TraversalInv, TraversalNext, given'.by \in {"some", "random", "fair"}
               PROVE  /\ Len(given'.keys) <= Count(d)
                      /\ Range(given'.keys) \subseteq KeysIn(d, 0) \union KeysIn(d, 1)
                      /\ given'.by = "random" /\ ~Rehashing(d) /\ Count(d) > 0 => given'.keys # << >>
    BY DEF traversalVars
  <2>1. GoodDict(d)
    BY DEF TraversalInv, Sane
  <2>2. CASE Sampling
    BY <2>1, <2>2, SampleAnswers DEF SampleAnswer
  <2>3. CASE ~Sampling
    <3>1. Nothing.by = "none"
      BY DEF Nothing, Given
    <3>2. dictScan => given'.by = "scan"
      BY DEF dictScan, Given
    <3> QED
      BY <2>3, <3>1, <3>2, OtherStepsGive
  <2> QED
    BY <2>2, <2>3
<1>2. TraversalSpec => []TraversalInv /\ [][TraversalNext]_traversalVars
  BY TraversalInvariant DEF TraversalSpec
<1> QED
  BY <1>1, <1>2, PTL DEF SamplesAnswer

\* The variables have their types, and the successor an iterator has saved is
\* an entry of the chain it is in: of those only the entry it is at is deleted.
THEOREM SavedStaysAlive == TraversalSpec => []NextAlive
<1>1. TraversalInv /\ Answered => NextAlive
  <2> SUFFICES ASSUME TraversalInv, Answered PROVE NextAlive
    OBVIOUS
  <2>1. StructOK(d) /\ walk \in [seen : SUBSET Key, owed : SUBSET Key] /\ GivenTypeOK
    BY DEF TraversalInv, Sane, GoodDict, Iterating, Answered
  <2>2. \A S, x : S = {} \/ S = {x} => Cardinality(S) <= 1
    BY FS_EmptySet, FS_Singleton
  <2>3. iter = {} \/ \E it \in iter : iter = {it} /\ it \in Iterator /\ (Waiting(it) \/ Visiting(it) \/ Over(it))
    BY DEF TraversalInv, Iterating
  <2>4. ASSUME NEW it \in iter, it \in Iterator, Waiting(it) \/ Visiting(it) \/ Over(it)
        PROVE  Cardinality(it.entry) <= 1 /\ Cardinality(it.nextEntry) <= 1
    <3>1. it.entry = {} \/ \E k : it.entry = {k}
      BY <2>4 DEF Waiting, Visiting, Over
    <3>2. it.nextEntry = {} \/ \E k : it.nextEntry = {k}
      BY <2>4 DEF Waiting, Visiting, Over, SavedIn
    <3> QED
      BY <2>2, <3>1, <3>2
  <2>5. TraversalTypeOK
    <3>1. Cardinality(iter) <= 1
      BY <2>2, <2>3
    <3> QED
      BY <2>1, <2>3, <2>4, <3>1 DEF TraversalTypeOK, GivenTypeOK
  <2>6. ASSUME NEW it \in iter, NEW k \in it.nextEntry
        PROVE  it.index \in DOMAIN d.ht_table[it.table] /\ \E e \in Range(d.ht_table[it.table][it.index]) : k = e.key
    <3>1. Visiting(it)
      BY <2>3, <2>6 DEF Waiting, Over
    <3>2. it.table = 1 /\ it.index \in DOMAIN d.ht_table[1] /\ SavedIn(d.ht_table[1][it.index], it.nextEntry)
      BY <3>1 DEF Visiting
    <3>3. PICK s : s = d.ht_table[1][it.index]
      OBVIOUS
    <3>4. InOrder(s, k, k)
      BY <2>6, <3>2, <3>3 DEF SavedIn
    <3>5. PICK p \in 1..Len(s) : s[p].key = k
      BY <3>4 DEF InOrder
    <3>6. Distinct(s)
      BY <3>2, <3>3, ChainDistinct DEF TraversalInv, Sane
    <3>7. p \in DOMAIN s
      BY <3>5, <3>6 DEF Distinct
    <3> QED
      BY <3>2, <3>3, <3>5, <3>7 DEF Range
  <2> QED
    BY <2>5, <2>6 DEF NextAlive
<1> QED
  BY <1>1, TraversalInvariant, AnswersInvariant, PTL
=============================================================================
