---------------------------- MODULE DictTraversal ----------------------------
(***************************************************************************)
(* Walking over a dict: the iterators, the scan and the samples of dict.c. *)
(* A client has at most one iterator.  Between its steps it goes on using  *)
(* the dict, as far as iterators allow: under an unsafe one it only reads; *)
(* under a safe one it may add, set and expand, and delete the entry it is *)
(* at.  Defragmentation, which moves entries without changing them, is     *)
(* left out: an entry has no address here.                                 *)
(*                                                                         *)
(* The code asks ht_size_exp for the slots of a table.  Table 0 keeps the  *)
(* exponent -1, so every walk takes it for a table without slots: an       *)
(* iterator skips it, the scan masks its cursor to slot 0 and a sample     *)
(* does not look into it.                                                  *)
(***************************************************************************)
EXTENDS Dict

CONSTANTS
  Counts    \* how many entries a client asks of dictGetSomeKeys

ASSUME CountAssumption == Counts \subseteq Nat \ {0}

VARIABLES
  iter,     \* the iterator of the client: a set of at most one struct
  walk,     \* the keys that iterator has returned, and those it owes
  given     \* what the last scan or sample gave to the client

traversalVars == <<vars, iter, walk, given>>

-----------------------------------------------------------------------------
(* Iterators.                                                              *)

\* The negation of index == -1 && table == 0, which a first dictNext ends.
Started(it) == ~(it.index = -1 /\ it.table = 0)

\* dictFingerprint, without the collisions of its hash.  An address may be
\* given to a later table, so only the presence of a table tells.
Fingerprint(ht) ==
  <<ht.ht_size_exp, ht.ht_used, ht.ht_table[0] = NoTable, ht.ht_table[1] = NoTable>>

\* Mutant: the rehash is not looked at, the iterator ends with its table.
NextSlots_OneTable(ht, it) ==
  {[table |-> it.table, slot |-> i] :
     i \in {j \in 0..(Size(ht.ht_size_exp[it.table]) - 1) : j > it.index}}

\* The slots an iterator has still to visit: those its table has according to
\* its exponent and, during a rehash, those of the second one.
NextSlots(ht, it) ==
  {[table |-> it.table, slot |-> i] :
     i \in {j \in 0..(Size(ht.ht_size_exp[it.table]) - 1) : j > it.index}}
    \union {[table |-> 1, slot |-> i] :
              i \in IF it.table = 0 /\ Rehashing(ht) THEN DOMAIN ht.ht_table[1] ELSE {}}

\* The first of them that has an entry, as a set of at most one.
NextBucket(ht, it) ==
  LET full == {s \in NextSlots(ht, it) : ht.ht_table[s.table][s.slot] # << >>}
  IN  {s \in full : \A r \in full : s.table < r.table \/ (s.table = r.table /\ s.slot <= r.slot)}

\* Mutant: the entry itself is saved, not its successor.
Successor_Itself(chain, k) == {k} \intersect {chain[p].key : p \in DOMAIN chain}

\* dictGetNext: the key after k in a chain, as a set of at most one.
Successor(chain, k) ==
  {chain[p].key : p \in {q \in 2..Len(chain) : chain[q - 1].key = k}}

\* The iterator at key k of slot i of table t, the successor already saved.
At(ht, it, t, i, k) ==
  [it EXCEPT !.table = t, !.index = i, !.entry = {k},
             !.nextEntry = Successor(ht.ht_table[t][i], k)]

\* The iterator after a dictNext: at the saved successor, else at the head of
\* the next chain, else at the end.
Advance(ht, it) ==
  IF it.nextEntry # {}
  THEN {At(ht, it, it.table, it.index, k) : k \in it.nextEntry}
  ELSE IF NextBucket(ht, it) # {}
  THEN {At(ht, it, s.table, s.slot, ht.ht_table[s.table][s.slot][1].key) : s \in NextBucket(ht, it)}
  ELSE LET last == IF Rehashing(ht) THEN 1 ELSE it.table
       IN  {[it EXCEPT !.table = last, !.index = Size(ht.ht_size_exp[last]), !.entry = {},
                       !.ended = TRUE]}

-----------------------------------------------------------------------------
(* The cursor of a scan, as the set of its bits that are 1.                *)

CursorBits == 0..MaxExp

SlotOf(v) == FoldSet(LAMBDA b, sum : 2^b + sum, 0, v)

Rev(v) == {MaxExp - b : b \in v}

\* v + 1: the lowest clear bit is set and those below it are cleared.
Incremented(v) ==
  LET low == {b \in CursorBits \ v : \A c \in CursorBits \ v : b <= c}
  IN  low \union {b \in v : \E l \in low : b > l}

\* v |= ~m, then one more in the reversed order of the bits.
Advanced(v, m) == Rev(Incremented(Rev(v \union (CursorBits \ m))))

\* The masks of a scan: all bits below the exponent when no rehash is going on;
\* during one 1 << exp - 1, which C reads as 1 << (exp - 1), a single bit.
ScanMask(e)       == IF e = -1 THEN {} ELSE 0..(e - 1)
RehashScanMask(e) == IF e = -1 THEN {} ELSE {e - 1}

\* Mutant: one turn only, as in the scan of a single table.
SecondScan_OneTurn(ht, from, m0, m1) ==
  [keys |-> ht.ht_table[1][SlotOf(from \intersect m1)], cursor |-> Advanced(from, m1)]

\* The do-while over the second table, until the bits in which the masks differ
\* are used up: what it emits from cursor `from' on, and the cursor it returns.
SecondScan(ht, from, m0, m1) ==
  LET turn[v \in SUBSET CursorBits] ==
        LET chain == ht.ht_table[1][SlotOf(v \intersect m1)]
            next  == Advanced(v, m1)
        IN  IF next \intersect ((m0 \ m1) \union (m1 \ m0)) = {}
            THEN [keys |-> chain, cursor |-> next]
            ELSE [turn[next] EXCEPT !.keys = chain \o @]
  IN  turn[from]

\* What dictScan passes to its callback and the cursor it returns.
Scan(ht, v) ==
  IF Count(ht) = 0
  THEN [keys |-> << >>, cursor |-> {}]
  ELSE IF ~Rehashing(ht)
  THEN LET m0 == ScanMask(ht.ht_size_exp[0])
       IN  [keys |-> ht.ht_table[0][SlotOf(v \intersect m0)], cursor |-> Advanced(v, m0)]
  ELSE LET m0 == RehashScanMask(ht.ht_size_exp[0])
           second == SecondScan(ht, v, m0, RehashScanMask(ht.ht_size_exp[1]))
       IN  [second EXCEPT !.keys = ht.ht_table[0][SlotOf(v \intersect m0)] \o @]

-----------------------------------------------------------------------------
(* Samples.                                                                *)

\* One more entry for des, which has room for n: it goes to the next place or,
\* when there is none left, to a random place or nowhere.
Offered(des, k, n) ==
  IF Len(des) < n THEN {Append(des, k)} ELSE {des} \union {[des EXCEPT ![r] = k] : r \in 1..n}

\* One turn of the loop of dictGetSomeKeys during a rehash, from slot w.i of
\* the second table, after w.emptylen empty chains.
SampleStep(ht, w, n) ==
  LET slots == DOMAIN ht.ht_table[1]
      chain == ht.ht_table[1][w.i]
      after(i) == (i + 1) % Cardinality(slots)
      lost == w.emptylen + 1 >= 5 /\ w.emptylen + 1 > n
  IN  IF Len(w.des) = n THEN {w}
      ELSE IF chain # << >>
      THEN {[i |-> after(w.i), emptylen |-> 0, des |-> des] :
              des \in FoldLeft(LAMBDA S, e : UNION {Offered(des, e.key, n) : des \in S}, {w.des}, chain)}
      ELSE {[i |-> after(i), emptylen |-> IF lost THEN 0 ELSE w.emptylen + 1, des |-> w.des] :
              i \in IF lost THEN slots ELSE {w.i}}

\* What dictGetSomeKeys may have put into des when its 10 * n steps are used
\* up or n entries are there; it looks at nothing unless a rehash is going on.
Samples(ht, n) ==
  LET starts == {[i |-> i, emptylen |-> 0, des |-> << >>] : i \in DOMAIN ht.ht_table[1]}
      walks[s \in 0..(10 * n)] ==
        IF s = 0 THEN starts ELSE UNION {SampleStep(ht, w, n) : w \in walks[s - 1]}
  IN  IF Rehashing(ht) THEN {w.des : w \in walks[10 * n]} ELSE {<< >>}

\* Mutant: the reduction is left out.
Clipped_Not(ht, count) == count

\* count is reduced to the number of entries.
Clipped(ht, count) == IF Count(ht) < count THEN Count(ht) ELSE count

\* dictGetRandomKey stops the process: during a rehash the random number is
\* taken modulo (ht_size_exp[0] == -1 ? 0 : ...); otherwise the loop ends only
\* when slot 0, the one the mask leaves, has an entry.
RandomKeyFaults(ht) == Rehashing(ht) \/ ht.ht_table[0][0] = << >>

RandomKeys(ht) == {ht.ht_table[0][0][p].key : p \in DOMAIN ht.ht_table[0][0]}

-----------------------------------------------------------------------------
(* Operations on iterators, and walks.                                     *)

Given(by, keys, cursor) == [by |-> by, keys |-> keys, cursor |-> cursor]

Nothing == Given("none", << >>, {})

TraversalInit ==
  /\ Init
  /\ iter = {}
  /\ walk = [seen |-> {}, owed |-> {}]
  /\ given = Nothing

\* dictInitIterator and dictInitSafeIterator, on a struct of the client's or on
\* one that dictGetIterator allocates: it aborts when there is no memory for it.
dictInitIterator(safe) ==
  /\ MayRead
  /\ iter = {}
  /\ \/ /\ iter' = {[safe |-> safe, table |-> 0, index |-> -1, entry |-> {}, nextEntry |-> {},
                     fingerPrint |-> << >>, ended |-> FALSE]}
        /\ UNCHANGED up
     \/ iter' = {} /\ up' = FALSE
  /\ walk' = [seen |-> {}, owed |-> {}]
  /\ given' = Nothing
  /\ UNCHANGED <<d, dict_can_resize, unlinking, ret>>

\* dictNext.  The first one pauses rehashing or takes the fingerprint.  A
\* client does not call it again once it has returned NULL.
dictNext ==
  /\ MayRead
  /\ \E it \in {i \in iter : ~i.ended} :
       LET marked == IF Started(it) \/ it.safe THEN it ELSE [it EXCEPT !.fingerPrint = Fingerprint(d)]
           owed == IF Started(it) THEN walk.owed ELSE KeysIn(d, 1)
       IN  /\ d' = [d EXCEPT !.pauseRehash = IF Started(it) \/ ~it.safe THEN @ ELSE @ + 1]
           /\ \E moved \in Advance(d, marked) :
                /\ iter' = {moved}
                /\ walk' = [seen |-> walk.seen \union moved.entry, owed |-> owed \ moved.entry]
  /\ given' = Nothing
  /\ UNCHANGED <<dict_can_resize, unlinking, up, ret>>

\* Mutant: an iterator that has come to its end is taken for a new one.
dictResetIterator_NotEnded ==
  /\ MayRead
  /\ \E it \in iter :
       LET open == Started(it) /\ ~it.ended
       IN  /\ d' = [d EXCEPT !.pauseRehash = IF open /\ it.safe THEN @ - 1 ELSE @]
           /\ up' = (open /\ ~it.safe => it.fingerPrint = Fingerprint(d))
  /\ iter' = {}
  /\ given' = Nothing
  /\ UNCHANGED <<dict_can_resize, unlinking, ret, walk>>

\* dictResetIterator and dictReleaseIterator; an unsafe iterator asserts that
\* the dict has still its fingerprint.
dictResetIterator ==
  /\ MayRead
  /\ \E it \in iter :
       /\ d' = [d EXCEPT !.pauseRehash = IF Started(it) /\ it.safe THEN @ - 1 ELSE @]
       /\ up' = (Started(it) /\ ~it.safe => it.fingerPrint = Fingerprint(d))
  /\ iter' = {}
  /\ given' = Nothing
  /\ UNCHANGED <<dict_can_resize, unlinking, ret, walk>>

\* dictScan, from the first cursor or from the one the last scan returned.  The
\* pause of rehashing ends with the call.
dictScan ==
  /\ MayRead
  /\ \E v \in {{}, given.cursor} :
       LET scan == Scan(d, v)
       IN  given' = Given("scan", [p \in DOMAIN scan.keys |-> scan.keys[p].key], scan.cursor)
  /\ UNCHANGED <<vars, iter, walk>>

\* dictGetSomeKeys.  The function has no return statement after its loop: when
\* the steps are used up the count it returns is undefined.
dictGetSomeKeys(count) ==
  LET n == Clipped(d, count)
  IN  /\ MayRead
      /\ \E des \in Samples(d, n) :
           /\ up' = (Len(des) = n /\ n > 0)
           /\ given' = Given("some", IF up' THEN des ELSE << >>, {})
      /\ UNCHANGED <<d, dict_can_resize, unlinking, ret, iter, walk>>

\* dictGetRandomKey.
dictGetRandomKey ==
  /\ MayRead
  /\ IF Count(d) = 0
     THEN up' = TRUE /\ given' = Given("random", << >>, {})
     ELSE IF RandomKeyFaults(d)
     THEN up' = FALSE /\ given' = Given("random", << >>, {})
     ELSE up' = TRUE /\ \E k \in RandomKeys(d) : given' = Given("random", <<k>>, {})
  /\ UNCHANGED <<d, dict_can_resize, unlinking, ret, iter, walk>>

\* dictGetFairRandomKey: one of 15 samples; the count of samples may be the
\* undefined one.
dictGetFairRandomKey ==
  LET n == Clipped(d, 15)
  IN  /\ MayRead
      /\ \E des \in Samples(d, n) :
           /\ up' = (Len(des) = n /\ n > 0)
           /\ \E keys \in IF up' THEN {<<des[r]>> : r \in 1..n} ELSE {<< >>} :
                given' = Given("fair", keys, {})
      /\ UNCHANGED <<d, dict_can_resize, unlinking, ret, iter, walk>>

-----------------------------------------------------------------------------
(* The other operations, as far as the client may call them under its      *)
(* iterator.                                                               *)

\* What an iterator is owed of the keys that are still in the second table.
Meanwhile ==
  /\ walk' = [walk EXCEPT !.owed = @ \intersect KeysIn(d', 1)]
  /\ given' = Nothing
  /\ UNCHANGED iter

MayWrite == \A it \in iter : Started(it) => it.safe

\* The entry an iterator is at may be deleted, for its successor is saved.
MayDelete(k) == \A it \in iter : Started(it) => it.safe /\ (it.ended \/ k \in it.entry)

Client ==
  \/ \E size \in ExpandSizes, try, allocated \in BOOLEAN : dictExpand(size, try, allocated) /\ MayWrite /\ Meanwhile
  \/ \E allocated \in BOOLEAN : dictResize(allocated) /\ MayWrite /\ Meanwhile
  \/ \E policy \in Policies : dictSetResizeEnabled(policy) /\ Meanwhile
  \/ \E k \in Key, v \in Value : dictAdd(k, v) /\ MayWrite /\ Meanwhile
  \/ \E k \in Key, v \in Value : dictReplace(k, v) /\ MayWrite /\ Meanwhile
  \/ \E k \in Key, v \in Value : dictSetVal(k, v) /\ Meanwhile
  \/ \E k \in Key : dictFind(k) /\ Meanwhile
  \/ \E k \in Key : dictFindEntryByPtrAndHash(k) /\ Meanwhile
  \/ \E k \in Key : dictGenericDelete(k) /\ MayDelete(k) /\ Meanwhile
  \/ \E k \in Key : dictTwoPhaseUnlinkFind(k) /\ Meanwhile
  \/ dictTwoPhaseUnlinkFree /\ (\A pos \in unlinking : MayDelete(EntryAt(d, pos).key)) /\ Meanwhile
  \/ dictEmpty /\ (\A it \in iter : ~Started(it)) /\ Meanwhile

TraversalNext ==
  \/ Client
  \/ \E safe \in BOOLEAN : dictInitIterator(safe)
  \/ dictNext
  \/ dictResetIterator
  \/ dictScan
  \/ \E count \in Counts : dictGetSomeKeys(count)
  \/ dictGetRandomKey
  \/ dictGetFairRandomKey

TraversalSpec == TraversalInit /\ [][TraversalNext]_traversalVars

-----------------------------------------------------------------------------
(* Properties.                                                             *)

Iterator ==
  [safe : BOOLEAN, table : 0..1, index : -1..(2^MaxExp), entry : SUBSET Key,
   nextEntry : SUBSET Key, ended : BOOLEAN,
   fingerPrint : {<< >>} \union ([0..1 -> Exponents] \X [0..1 -> Nat] \X BOOLEAN \X BOOLEAN)]

\* Every variable has its type; an iterator is at one entry at most.
TraversalTypeOK ==
  /\ StructOK(d)
  /\ \A it \in iter : it \in Iterator /\ Cardinality(it.entry) <= 1 /\ Cardinality(it.nextEntry) <= 1
  /\ Cardinality(iter) <= 1
  /\ walk \in [seen : SUBSET Key, owed : SUBSET Key]
  /\ given \in [by : {"none", "scan", "some", "random", "fair"}, keys : Seq(Key), cursor : SUBSET CursorBits]

\* Every pause of rehashing has an owner that will take it back: the client
\* that is unlinking an entry, or its safe iterator from the first dictNext to
\* the release, however the two overlap.
PausesOwned ==
  d.pauseRehash = Cardinality(unlinking) + Cardinality({it \in iter : it.safe /\ Started(it)})

\* The successor an iterator has saved is never freed under it: it is an entry
\* of the chain the iterator is in, whatever was added in front of it and
\* although the entry before it may have been deleted.
NextAlive ==
  /\ TraversalTypeOK
  /\ \A it \in iter : it.nextEntry \subseteq
       {e.key : e \in IF it.index \in DOMAIN d.ht_table[it.table]
                      THEN Range(d.ht_table[it.table][it.index]) ELSE {}}

\* An iteration returns no key twice, and when it ends it has returned every
\* key that was in the second table from its start to its end.
IteratesOnce ==
  [][\A it \in iter, new \in iter' :
       /\ new # it => new.entry \intersect walk.seen = {}
       /\ new.ended => walk'.owed = {}]_<<iter, walk>>

\* A scan comes to an end in one call: it emits no entry twice, and all those
\* of the first table; outside a rehash those are all there are.
ScanExact ==
  given.by = "scan" =>
    /\ given.cursor = {}
    /\ Cardinality(Range(given.keys)) = Len(given.keys)
    /\ KeysIn(d, 0) \subseteq Range(given.keys)
    /\ Range(given.keys) \subseteq KeysIn(d, 0) \union KeysIn(d, 1)

\* A sample never claims more entries than the dict has, and what it gives is
\* stored.  Outside a rehash dictGetRandomKey finds an entry of any dict that
\* has one: its search in the one slot the mask leaves ends.
SamplesAnswer ==
  [][given'.by \in {"some", "random", "fair"} =>
       /\ Len(given'.keys) <= Count(d)
       /\ Range(given'.keys) \subseteq KeysIn(d, 0) \union KeysIn(d, 1)
       /\ given'.by = "random" /\ ~Rehashing(d) /\ Count(d) > 0 => given'.keys # << >>]_given

=============================================================================
