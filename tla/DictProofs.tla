----------------------------- MODULE DictProofs -----------------------------
(***************************************************************************)
(* Theorems about Dict, for every set of keys and every hash function.     *)
(***************************************************************************)
EXTENDS Dict, FiniteSetTheorems, TLAPS

\* The inductive invariant of a struct dict: what the operations keep of it.
\* KeysDistinct alone is not inductive: a duplicate is found because an entry is
\* where an insertion looks for it (Placed), in a table that exists (Shaped).
GoodDict(ht) ==
  /\ StructOK(ht)
  /\ Shaped(ht)
  /\ Placed(ht)
  /\ KeysDistinct(ht)
  /\ UsedExact(ht)
  /\ \A t \in 0..1 : IsFiniteSet(Positions(ht, t))

-----------------------------------------------------------------------------
(* Sequences and sizes.                                                    *)

\* A chain with an entry put in front of it.
LEMMA PrependSeq ==
  ASSUME NEW S, NEW s \in Seq(S), NEW e \in S
  PROVE  /\ <<e>> \o s \in Seq(S)
         /\ Len(<<e>> \o s) = Len(s) + 1
         /\ \A i \in 1..(Len(s) + 1) : (<<e>> \o s)[i] = IF i = 1 THEN e ELSE s[i - 1]
  OBVIOUS

\* A chain with one entry taken out.
LEMMA RemoveAtSeq ==
  ASSUME NEW S, NEW s \in Seq(S), NEW p \in 1..Len(s)
  PROVE  /\ RemoveAt(s, p) \in Seq(S)
         /\ Len(RemoveAt(s, p)) = Len(s) - 1
         /\ \A i \in 1..(Len(s) - 1) : RemoveAt(s, p)[i] = IF i < p THEN s[i] ELSE s[i + 1]
<1> DEFINE a == SubSeq(s, 1, p - 1)
           b == SubSeq(s, p + 1, Len(s))
<1>1. a \in Seq(S) /\ Len(a) = p - 1 /\ \A i \in 1..(p - 1) : a[i] = s[i]
  OBVIOUS
<1>2. b \in Seq(S) /\ Len(b) = Len(s) - p /\ \A i \in 1..(Len(s) - p) : b[i] = s[p + i]
  OBVIOUS
<1>3. RemoveAt(s, p) = a \o b
  BY DEF RemoveAt
<1> HIDE DEF a, b
<1>4. a \o b \in Seq(S) /\ Len(a \o b) = Len(s) - 1
  <2> SUFFICES ASSUME a \in Seq(S), b \in Seq(S)
               PROVE  a \o b \in Seq(S) /\ Len(a \o b) = Len(s) - 1
    BY <1>1, <1>2
  <2>1. a \o b \in Seq(S) /\ Len(a \o b) = Len(a) + Len(b)
    OBVIOUS
  <2>2. Len(s) \in Nat /\ p \in Nat
    OBVIOUS
  <2>3. Len(a) + Len(b) = Len(s) - 1
    BY <1>1, <1>2, <2>2
  <2> QED
    BY <2>1, <2>3
<1>5. ASSUME NEW i \in 1..(Len(s) - 1)
      PROVE  (a \o b)[i] = IF i < p THEN s[i] ELSE s[i + 1]
  BY <1>1, <1>2
<1> QED
  BY <1>3, <1>4, <1>5

\* A table size is a positive number, and the masks stay inside the table.
LEMMA SizeFacts ==
  ASSUME NEW e \in 2..MaxExp
  PROVE  /\ Size(e) = 2^e
         /\ Size(e) \in Nat \ {0}
         /\ \A h \in Nat : InsertSlot(h, e) \in 0..(Size(e) - 1)
<1>1. MaxExp \in Nat /\ e \in Int /\ e # -1
  BY SizeAssumption
<1>2. Size(e) = 2^e
  BY <1>1 DEF Size
<1>3. 2^e \in Nat \ {0}
  BY <1>1, ShiftAssumption
<1>4. \A n \in Nat \ {0}, h \in Nat : h % n \in 0..(n - 1)
  OBVIOUS
<1> QED
  BY <1>1, <1>2, <1>3, <1>4 DEF InsertSlot

\* The exponent for a size that some table has room for.
LEMMA NextExpFits ==
  ASSUME NEW size, NEW room \in 2..MaxExp, 2^room >= size
  PROVE  NextExp(size) \in 2..MaxExp
<1> DEFINE fits == {e \in 2..MaxExp : 2^e >= size}
<1>1. fits # {}
  OBVIOUS
<1>2. NextExp(size) = CHOOSE e \in fits : \A f \in fits : e <= f
  BY <1>1 DEF NextExp
<1>3. fits \in SUBSET Nat
  BY SizeAssumption
<1>4. \E e \in fits : \A f \in fits : e <= f
  <2>1. PICK e \in fits : \A f \in fits : <<f, e>> \notin OpToRel(<, Nat)
    BY <1>1, <1>3, NatLessThanWellFounded, WFMin
  <2>2. \A f \in fits : ~(f < e)
    BY <1>3, <2>1 DEF OpToRel
  <2> QED
    BY <1>3, <2>2
<1> QED
  BY <1>2, <1>4

\* A table that a dict may grow to has an exponent of the right range.
LEMMA NextExpFacts ==
  ASSUME NEW size, ~(NextExp(size) > MaxExp)
  PROVE  NextExp(size) \in 2..MaxExp
<1>1. CASE \E room \in 2..MaxExp : 2^room >= size
  BY <1>1, NextExpFits
<1>2. CASE ~\E room \in 2..MaxExp : 2^room >= size
  BY <1>2, SizeAssumption DEF NextExp
<1> QED
  BY <1>1, <1>2

-----------------------------------------------------------------------------
(* Tables and positions.                                                   *)

\* The NULL table has no slot, and no other table is empty.
LEMMA TableFacts ==
  ASSUME NEW T, IsTable(T)
  PROVE  /\ T # NoTable => 0 \in DOMAIN T
         /\ T = NoTable => DOMAIN T = {}
         /\ \A i \in DOMAIN T : T[i] \in Seq(Entry)
<1>1. CASE T = NoTable
  BY <1>1 DEF NoTable
<1>2. CASE T # NoTable
  <2>1. PICK e \in 2..MaxExp : T \in [0..(2^e - 1) -> Seq(Entry)]
    BY <1>2 DEF IsTable
  <2>2. 2^e \in Nat \ {0}
    BY SizeFacts
  <2> QED
    BY <1>2, <2>1, <2>2
<1> QED
  BY <1>1, <1>2

\* A position names a table, a slot of it and an index into the chain there.
LEMMA PositionFacts ==
  ASSUME NEW ht, NEW t
  PROVE  \A pos : pos \in Positions(ht, t) <=>
           \E i \in DOMAIN ht.ht_table[t] : \E p \in 1..Len(ht.ht_table[t][i]) :
             pos = [table |-> t, slot |-> i, index |-> p]
  BY DEF Positions

\* A new table has no entry.
LEMMA NewTableFacts ==
  ASSUME NEW e \in 2..MaxExp
  PROVE  /\ IsTable(NewTable(e))
         /\ NewTable(e) # NoTable
         /\ DOMAIN NewTable(e) = 0..(Size(e) - 1)
         /\ 0 \in DOMAIN NewTable(e)
         /\ \A i \in DOMAIN NewTable(e) : Len(NewTable(e)[i]) = 0
<1>1. DOMAIN NewTable(e) = 0..(Size(e) - 1) /\ 0 \in DOMAIN NewTable(e)
  BY SizeFacts DEF NewTable
<1>2. NewTable(e) \in [0..(2^e - 1) -> Seq(Entry)]
  BY SizeFacts DEF NewTable
<1>3. NewTable(e) # NoTable
  BY <1>1 DEF NoTable
<1>4. \A i \in DOMAIN NewTable(e) : Len(NewTable(e)[i]) = 0
  BY DEF NewTable
<1> QED
  BY <1>1, <1>2, <1>3, <1>4 DEF IsTable

\* A dict as _dictReset leaves it is good.
EmptyDict ==
  [ht_table |-> [t \in 0..1 |-> NoTable], ht_used |-> [t \in 0..1 |-> 0],
   ht_size_exp |-> [t \in 0..1 |-> -1], reHashIdx |-> -1, pauseRehash |-> 0]

\* A new dict is good.
LEMMA EmptyDictGood == GoodDict(EmptyDict)
<1>1. StructOK(EmptyDict)
  BY DEF StructOK, EmptyDict, IsTable, Exponents
<1>2. Shaped(EmptyDict)
  BY DEF Shaped, EmptyDict, Rehashing
<1>3. \A t \in 0..1 : Positions(EmptyDict, t) = {}
  BY DEF EmptyDict, Positions, NoTable
<1>4. UsedExact(EmptyDict) /\ \A t \in 0..1 : IsFiniteSet(Positions(EmptyDict, t))
  <2>1. \A t \in 0..1 : EmptyDict.ht_used[t] = 0
    BY DEF EmptyDict
  <2> QED
    BY <1>3, <2>1, FS_EmptySet DEF UsedExact
<1>5. Placed(EmptyDict) /\ KeysDistinct(EmptyDict)
  BY <1>3 DEF Placed, KeysDistinct, AllPositions
<1> QED
  BY <1>1, <1>2, <1>4, <1>5 DEF GoodDict

\* A table of empty chains has no position, and neither has the NULL table.
LEMMA NoPositions ==
  ASSUME NEW ht, NEW t, \A i \in DOMAIN ht.ht_table[t] : Len(ht.ht_table[t][i]) = 0
  PROVE  Positions(ht, t) = {}
  BY PositionFacts

\* Positions depend on the lengths of the chains only.
LEMMA SameLengths ==
  ASSUME NEW ht, NEW n, NEW t,
         DOMAIN n.ht_table[t] = DOMAIN ht.ht_table[t],
         \A j \in DOMAIN ht.ht_table[t] : Len(n.ht_table[t][j]) = Len(ht.ht_table[t][j])
  PROVE  Positions(n, t) = Positions(ht, t)
<1>1. ASSUME NEW pos \in Positions(n, t) PROVE pos \in Positions(ht, t)
  <2>1. PICK j \in DOMAIN n.ht_table[t] : \E p \in 1..Len(n.ht_table[t][j]) :
          pos = [table |-> t, slot |-> j, index |-> p]
    BY PositionFacts
  <2> QED
    BY <2>1, PositionFacts
<1>2. ASSUME NEW pos \in Positions(ht, t) PROVE pos \in Positions(n, t)
  <2>1. PICK j \in DOMAIN ht.ht_table[t] : \E p \in 1..Len(ht.ht_table[t][j]) :
          pos = [table |-> t, slot |-> j, index |-> p]
    BY PositionFacts
  <2> QED
    BY <2>1, PositionFacts
<1> QED
  BY <1>1, <1>2

\* Positions and entries depend on the tables only.
LEMMA SamePositions ==
  ASSUME NEW ht, NEW hu, NEW t, ht.ht_table[t] = hu.ht_table[t]
  PROVE  /\ Positions(ht, t) = Positions(hu, t)
         /\ \A pos \in Positions(ht, t) : EntryAt(ht, pos) = EntryAt(hu, pos)
<1>1. Positions(ht, t) = Positions(hu, t)
  BY DEF Positions
<1>2. \A pos \in Positions(ht, t) : pos.table = t
  BY PositionFacts
<1> QED
  BY <1>1, <1>2 DEF EntryAt

\* Coordinates: the pairs of a position and the entry there.
LEMMA PositionAt ==
  ASSUME NEW ht, NEW u \in 0..1, NEW j \in DOMAIN ht.ht_table[u], NEW p \in 1..Len(ht.ht_table[u][j])
  PROVE  LET pos == [table |-> u, slot |-> j, index |-> p]
         IN  /\ pos \in Positions(ht, u) /\ pos \in AllPositions(ht)
             /\ EntryAt(ht, pos) = ht.ht_table[u][j][p]
<1> DEFINE pos == [table |-> u, slot |-> j, index |-> p]
<1>1. pos \in Positions(ht, u)
  BY PositionFacts
<1>2. u = 0 \/ u = 1
  OBVIOUS
<1> QED
  BY <1>1, <1>2 DEF AllPositions, EntryAt

\* A position of a table names a slot of it and an index of its chain.
LEMMA CoordinatesOf ==
  ASSUME NEW ht, NEW u \in 0..1, NEW pos \in Positions(ht, u)
  PROVE  /\ pos.table = u /\ pos.slot \in DOMAIN ht.ht_table[u]
         /\ pos.index \in 1..Len(ht.ht_table[u][pos.slot])
         /\ pos = [table |-> u, slot |-> pos.slot, index |-> pos.index]
         /\ EntryAt(ht, pos) = ht.ht_table[u][pos.slot][pos.index]
<1>1. PICK j \in DOMAIN ht.ht_table[u] : \E p \in 1..Len(ht.ht_table[u][j]) :
        pos = [table |-> u, slot |-> j, index |-> p]
  BY PositionFacts
<1> QED
  BY <1>1 DEF EntryAt

\* The properties of the positions, on coordinates.
PlacedAt(ht, u, j, p) == j = InsertSlot(Hash[ht.ht_table[u][j][p].key], ht.ht_size_exp[u])

\* Placement, said of slots and indexes.
LEMMA PlacedCoordinates ==
  ASSUME NEW ht
  PROVE  Placed(ht) <=>
           \A u \in 0..1 : \A j \in DOMAIN ht.ht_table[u] : \A p \in 1..Len(ht.ht_table[u][j]) :
             PlacedAt(ht, u, j, p)
<1>1. ASSUME Placed(ht), NEW u \in 0..1, NEW j \in DOMAIN ht.ht_table[u], NEW p \in 1..Len(ht.ht_table[u][j])
      PROVE  PlacedAt(ht, u, j, p)
  <2> DEFINE pos == [table |-> u, slot |-> j, index |-> p]
  <2>1. pos \in Positions(ht, u) /\ EntryAt(ht, pos) = ht.ht_table[u][j][p] /\ pos.slot = j
    BY PositionAt
  <2> HIDE DEF pos
  <2> QED
    BY <1>1, <2>1 DEF Placed, PlacedAt
<1>2. ASSUME \A u \in 0..1 : \A j \in DOMAIN ht.ht_table[u] : \A p \in 1..Len(ht.ht_table[u][j]) :
               PlacedAt(ht, u, j, p),
             NEW u \in 0..1, NEW pos \in Positions(ht, u)
      PROVE  pos.slot = InsertSlot(Hash[EntryAt(ht, pos).key], ht.ht_size_exp[u])
  <2>1. /\ pos.slot \in DOMAIN ht.ht_table[u]
        /\ pos.index \in 1..Len(ht.ht_table[u][pos.slot])
        /\ EntryAt(ht, pos) = ht.ht_table[u][pos.slot][pos.index]
    BY CoordinatesOf
  <2>2. PlacedAt(ht, u, pos.slot, pos.index)
    BY <1>2, <2>1
  <2> QED
    BY <2>1, <2>2 DEF PlacedAt
<1> QED
  BY <1>1, <1>2 DEF Placed

SameKeyAt(ht, u, j, p, w, l, q) == ht.ht_table[u][j][p].key = ht.ht_table[w][l][q].key

\* Unique keys, said of slots and indexes.
LEMMA DistinctCoordinates ==
  ASSUME NEW ht, KeysDistinct(ht),
         NEW u \in 0..1, NEW j \in DOMAIN ht.ht_table[u], NEW p \in 1..Len(ht.ht_table[u][j]),
         NEW w \in 0..1, NEW l \in DOMAIN ht.ht_table[w], NEW q \in 1..Len(ht.ht_table[w][l]),
         SameKeyAt(ht, u, j, p, w, l, q)
  PROVE  u = w /\ j = l /\ p = q
<1> DEFINE a == [table |-> u, slot |-> j, index |-> p]
           b == [table |-> w, slot |-> l, index |-> q]
<1>1. a \in AllPositions(ht) /\ EntryAt(ht, a) = ht.ht_table[u][j][p]
  BY PositionAt
<1>2. b \in AllPositions(ht) /\ EntryAt(ht, b) = ht.ht_table[w][l][q]
  BY PositionAt
<1>3. a = b
  <2> HIDE DEF a, b
  <2> QED
    BY <1>1, <1>2 DEF KeysDistinct, SameKeyAt
<1> QED
  BY <1>3

\* And back.
LEMMA DistinctFromCoordinates ==
  ASSUME NEW ht,
         \A u \in 0..1 : \A j \in DOMAIN ht.ht_table[u] : \A p \in 1..Len(ht.ht_table[u][j]) :
         \A w \in 0..1 : \A l \in DOMAIN ht.ht_table[w] : \A q \in 1..Len(ht.ht_table[w][l]) :
           SameKeyAt(ht, u, j, p, w, l, q) => u = w /\ j = l /\ p = q
  PROVE  KeysDistinct(ht)
<1> SUFFICES ASSUME NEW u \in 0..1, NEW w \in 0..1, NEW a \in Positions(ht, u), NEW b \in Positions(ht, w),
                    EntryAt(ht, a).key = EntryAt(ht, b).key
             PROVE  a = b
  BY DEF KeysDistinct, AllPositions
<1>1. /\ a.slot \in DOMAIN ht.ht_table[u]
      /\ a.index \in 1..Len(ht.ht_table[u][a.slot])
      /\ a = [table |-> u, slot |-> a.slot, index |-> a.index]
      /\ EntryAt(ht, a) = ht.ht_table[u][a.slot][a.index]
  BY CoordinatesOf
<1>2. /\ b.slot \in DOMAIN ht.ht_table[w]
      /\ b.index \in 1..Len(ht.ht_table[w][b.slot])
      /\ b = [table |-> w, slot |-> b.slot, index |-> b.index]
      /\ EntryAt(ht, b) = ht.ht_table[w][b.slot][b.index]
  BY CoordinatesOf
<1>3. SameKeyAt(ht, u, a.slot, a.index, w, b.slot, b.index)
  BY <1>1, <1>2, Zenon DEF SameKeyAt
<1>4. u = w /\ a.slot = b.slot /\ a.index = b.index
  BY <1>1, <1>2, <1>3
<1> QED
  BY <1>1, <1>2, <1>4, Zenon

-----------------------------------------------------------------------------
(* Growing keeps a dict good and its entries where they are.               *)

\* A resize that starts keeps the dict good and every entry where it is.
LEMMA ExpandedGood ==
  ASSUME NEW ht, GoodDict(ht), NEW size, ~ExpandRefused(ht, size)
  PROVE  /\ GoodDict(Expanded(ht, size))
         /\ Expanded(ht, size).ht_table[0] # NoTable
         /\ AllPositions(Expanded(ht, size)) = AllPositions(ht)
         /\ \A pos \in AllPositions(ht) : EntryAt(Expanded(ht, size), pos) = EntryAt(ht, pos)
<1> DEFINE e == NextExp(size)
           n == Expanded(ht, size)
           g == IF ht.ht_table[0] = NoTable THEN 0 ELSE 1
<1>1. e \in 2..MaxExp /\ ~Rehashing(ht)
  BY NextExpFacts DEF ExpandRefused
<1>2. StructOK(ht) /\ Shaped(ht) /\ Placed(ht) /\ KeysDistinct(ht) /\ UsedExact(ht)
  BY DEF GoodDict
<1>3. ht.ht_table[1] = NoTable /\ ht.ht_size_exp[1] = -1 /\ ht.ht_size_exp[0] = -1
  BY <1>1, <1>2 DEF Shaped
<1>4. g \in 0..1 /\ ht.ht_table[g] = NoTable
  BY <1>3
<1>5. /\ n.ht_table = [ht.ht_table EXCEPT ![g] = NewTable(e)]
      /\ n.ht_used = [ht.ht_used EXCEPT ![g] = 0]
      /\ n.ht_size_exp = IF g = 0 THEN ht.ht_size_exp ELSE [ht.ht_size_exp EXCEPT ![1] = e]
      /\ n.reHashIdx = IF g = 0 THEN ht.reHashIdx ELSE 0
      /\ n.pauseRehash = ht.pauseRehash
      /\ DOMAIN n = DOMAIN ht
  <2>1. DOMAIN ht = {"ht_table", "ht_used", "ht_size_exp", "reHashIdx", "pauseRehash"}
    BY <1>2 DEF StructOK
  <2>2. CASE g = 0
    BY <2>1, <2>2 DEF Expanded
  <2>3. CASE g = 1
    BY <2>1, <2>3 DEF Expanded
  <2> QED
    BY <1>4, <2>2, <2>3
<1> HIDE DEF n, g, e
<1>6. StructOK(n)
  <2>1. \A t \in 0..1 : IsTable(n.ht_table[t])
    BY <1>1, <1>2, <1>4, <1>5, NewTableFacts DEF StructOK
  <2>2. n.ht_size_exp \in [0..1 -> Exponents]
    BY <1>1, <1>2, <1>4, <1>5 DEF StructOK, Exponents
  <2> QED
    BY <1>2, <1>4, <1>5, <2>1, <2>2 DEF StructOK
<1>7. Shaped(n)
  <2>1. e # -1
    BY <1>1, SizeAssumption
  <2>2. CASE g = 0
    BY <1>1, <1>2, <1>3, <1>5, <2>2, NewTableFacts DEF Shaped, Rehashing, StructOK
  <2>3. CASE g = 1
    <3>1. ht.ht_table[0] # NoTable
      BY <2>3 DEF g
    <3> QED
      BY <1>1, <1>2, <1>3, <1>5, <2>1, <2>3, <3>1, NewTableFacts DEF Shaped, Rehashing, StructOK
  <2> QED
    BY <1>4, <2>2, <2>3
<1>8. \A t \in 0..1 : /\ Positions(n, t) = Positions(ht, t)
                      /\ \A pos \in Positions(ht, t) : EntryAt(n, pos) = EntryAt(ht, pos)
  <2>1. Positions(n, g) = {}
    <3>1. n.ht_table[g] = NewTable(e)
      BY <1>2, <1>4, <1>5 DEF StructOK
    <3> QED
      BY <1>1, <3>1, NewTableFacts, NoPositions
  <2>2. Positions(ht, g) = {}
    BY <1>4, NoPositions DEF NoTable
  <2>3. ASSUME NEW t \in 0..1, t # g
        PROVE  n.ht_table[t] = ht.ht_table[t]
    BY <1>2, <1>4, <1>5, <2>3 DEF StructOK
  <2> QED
    BY <1>4, <2>1, <2>2, <2>3, SamePositions
<1>9. AllPositions(n) = AllPositions(ht) /\ \A pos \in AllPositions(ht) : EntryAt(n, pos) = EntryAt(ht, pos)
  BY <1>8 DEF AllPositions
<1>10. Placed(n)
  <2>1. ASSUME NEW t \in 0..1, NEW pos \in Positions(n, t)
        PROVE  pos.slot = InsertSlot(Hash[EntryAt(n, pos).key], n.ht_size_exp[t])
    <3>1. pos \in Positions(ht, t) /\ EntryAt(n, pos) = EntryAt(ht, pos)
      BY <1>8
    <3>2. Positions(ht, 1) = {}
      BY <1>3, NoPositions DEF NoTable
    <3>3. n.ht_size_exp[0] = ht.ht_size_exp[0]
      BY <1>2, <1>4, <1>5 DEF StructOK
    <3> QED
      BY <1>2, <3>1, <3>2, <3>3 DEF Placed
  <2> QED
    BY <2>1 DEF Placed
<1>11. KeysDistinct(n)
  BY <1>2, <1>9 DEF KeysDistinct
<1>12. UsedExact(n) /\ \A t \in 0..1 : IsFiniteSet(Positions(n, t))
  <2>1. ht.ht_used[g] = 0
    <3>1. Positions(ht, g) = {}
      BY <1>4, NoPositions DEF NoTable
    <3> QED
      BY <1>2, <1>4, <3>1, FS_EmptySet DEF UsedExact
  <2>2. n.ht_used = ht.ht_used
    BY <1>2, <1>4, <1>5, <2>1 DEF StructOK
  <2> QED
    BY <1>2, <1>8, <2>2 DEF UsedExact, GoodDict
<1>13. n.ht_table[0] # NoTable
  BY <1>1, <1>2, <1>4, <1>5, NewTableFacts DEF StructOK, g
<1> QED
  BY <1>6, <1>7, <1>9, <1>10, <1>11, <1>12, <1>13 DEF GoodDict, n

-----------------------------------------------------------------------------
(* A search with the slots of an insertion finds every entry of its key.   *)

\* The search before an insertion looks wherever the key may be.
LEMMA SearchComplete ==
  ASSUME NEW ht, GoodDict(ht), NEW k \in Key, Hits(ht, k, InsertSlots(ht, k)) = {}
  PROVE  \A pos \in AllPositions(ht) : EntryAt(ht, pos).key # k
<1> DEFINE slots == InsertSlots(ht, k)
<1> SUFFICES ASSUME NEW t \in 0..1, NEW i \in DOMAIN ht.ht_table[t],
                    NEW p \in 1..Len(ht.ht_table[t][i]), ht.ht_table[t][i][p].key = k
             PROVE  FALSE
  BY PositionFacts DEF AllPositions, EntryAt
<1> DEFINE pos == [table |-> t, slot |-> i, index |-> p]
<1>1. pos \in Positions(ht, t) /\ EntryAt(ht, pos).key = k
  BY PositionFacts DEF EntryAt
<1>2. i = slots[t]
  BY <1>1 DEF GoodDict, Placed, InsertSlots
<1>3. t \in SearchedTables(ht)
  <2>1. CASE Rehashing(ht)
    BY <2>1 DEF SearchedTables
  <2>2. CASE ~Rehashing(ht)
    BY <2>2 DEF GoodDict, Shaped, NoTable, SearchedTables
  <2> QED
    BY <2>1, <2>2
<1>4. p \in KeyIndexes(ht, t, slots[t], k)
  BY <1>2 DEF KeyIndexes
<1>5. pos \in Hits(ht, k, slots)
  BY <1>2, <1>3, <1>4 DEF Hits
<1> QED
  BY <1>5

\* What a search finds is the position of an entry with the key.
LEMMA HitFacts ==
  ASSUME NEW ht, NEW k, NEW slots, NEW pos \in Hits(ht, k, slots)
  PROVE  pos \in AllPositions(ht) /\ EntryAt(ht, pos).key = k
<1>1. PICK t \in {0, 1} : \E p \in KeyIndexes(ht, t, slots[t], k) :
        pos = [table |-> t, slot |-> slots[t], index |-> p]
  BY DEF Hits, SearchedTables
<1>p. PICK p \in KeyIndexes(ht, t, slots[t], k) : pos = [table |-> t, slot |-> slots[t], index |-> p]
  BY <1>1
<1>2. /\ slots[t] \in DOMAIN ht.ht_table[t]
      /\ p \in 1..Len(ht.ht_table[t][slots[t]])
      /\ ht.ht_table[t][slots[t]][p].key = k
  BY <1>p DEF KeyIndexes
<1> QED
  BY <1>p, <1>2, PositionFacts DEF AllPositions, EntryAt

\* The slot an insertion takes is a slot of the table it inserts into.
LEMMA InsertSlotInTable ==
  ASSUME NEW ht, GoodDict(ht), ht.ht_table[0] # NoTable, NEW k \in Key
  PROVE  /\ InsertTable(ht) \in 0..1
         /\ InsertSlots(ht, k)[InsertTable(ht)] \in DOMAIN ht.ht_table[InsertTable(ht)]
<1>1. Hash[k] \in Nat
  BY HashAssumption
<1>2. CASE Rehashing(ht)
  <2>1. ht.ht_size_exp[1] \in 2..MaxExp
    BY <1>2 DEF GoodDict, StructOK, Shaped, Exponents
  <2>2. DOMAIN ht.ht_table[1] = 0..(Size(ht.ht_size_exp[1]) - 1)
    BY <1>2 DEF GoodDict, Shaped
  <2>3. InsertSlot(Hash[k], ht.ht_size_exp[1]) \in 0..(Size(ht.ht_size_exp[1]) - 1)
    BY <1>1, <2>1, SizeFacts
  <2>4. InsertTable(ht) = 1 /\ InsertSlots(ht, k)[1] = InsertSlot(Hash[k], ht.ht_size_exp[1])
    BY <1>2 DEF InsertTable, InsertSlots
  <2>5. InsertSlots(ht, k)[1] \in DOMAIN ht.ht_table[1]
    BY <2>2, <2>3, <2>4, Zenon
  <2> QED
    BY <2>4, <2>5
<1>3. CASE ~Rehashing(ht)
  BY <1>3 DEF InsertTable, InsertSlots, GoodDict, Shaped, InsertSlot
<1> QED
  BY <1>2, <1>3

-----------------------------------------------------------------------------
(* Insertion keeps a dict good.                                            *)

\* n is ht with one more chain entry, e in front of chain i of table t.
EntryInFront(ht, n, t, i, e) ==
  /\ DOMAIN n.ht_table = 0..1
  /\ \A u \in 0..1 : u # t => n.ht_table[u] = ht.ht_table[u] /\ n.ht_used[u] = ht.ht_used[u]
  /\ n.ht_used \in [0..1 -> Nat]
  /\ n.ht_used[t] = ht.ht_used[t] + 1
  /\ n.ht_size_exp = ht.ht_size_exp
  /\ n.reHashIdx = ht.reHashIdx
  /\ n.pauseRehash = ht.pauseRehash
  /\ DOMAIN n = DOMAIN ht
  /\ IsTable(n.ht_table[t])
  /\ \A u \in 0..1 : DOMAIN n.ht_table[u] = DOMAIN ht.ht_table[u]
  /\ \A u \in 0..1 : \A j \in DOMAIN ht.ht_table[u] :
       n.ht_table[u][j] = IF u = t /\ j = i THEN <<e>> \o ht.ht_table[t][i] ELSE ht.ht_table[u][j]

\* What Prepended changes of a struct dict.
LEMMA PrependedFields ==
  ASSUME NEW ht, StructOK(ht), NEW t \in 0..1, NEW i \in DOMAIN ht.ht_table[t], NEW e \in Entry
  PROVE  EntryInFront(ht, Prepended(ht, t, i, e), t, i, e)
<1> DEFINE n == Prepended(ht, t, i, e)
<1>1. /\ n.ht_table = [ht.ht_table EXCEPT ![t] = [ht.ht_table[t] EXCEPT ![i] = <<e>> \o ht.ht_table[t][i]]]
      /\ n.ht_used = [ht.ht_used EXCEPT ![t] = ht.ht_used[t] + 1]
      /\ n.ht_size_exp = ht.ht_size_exp
      /\ n.reHashIdx = ht.reHashIdx
      /\ n.pauseRehash = ht.pauseRehash
      /\ DOMAIN n = DOMAIN ht
  BY DEF StructOK, Prepended
<1> HIDE DEF n
<1>2. DOMAIN ht.ht_table = 0..1 /\ ht.ht_used \in [0..1 -> Nat]
  BY DEF StructOK
<1>3. PICK x \in 2..MaxExp : ht.ht_table[t] \in [0..(2^x - 1) -> Seq(Entry)]
  BY DEF StructOK, IsTable, NoTable
<1>4. <<e>> \o ht.ht_table[t][i] \in Seq(Entry)
  BY <1>3, PrependSeq
<1>5. n.ht_table[t] \in [0..(2^x - 1) -> Seq(Entry)]
  BY <1>1, <1>2, <1>3, <1>4, SMTT(30)
<1>6. IsTable(n.ht_table[t])
  BY <1>5 DEF IsTable
<1>7. DOMAIN n.ht_table[t] = DOMAIN ht.ht_table[t]
  BY <1>3, <1>5
<1> QED
  BY <1>1, <1>2, <1>6, <1>7 DEF n, EntryInFront

\* A new entry in front of the chain an insertion of its key searches keeps a
\* dict good, when no entry has that key.
LEMMA PrependedGood ==
  ASSUME NEW ht, GoodDict(ht), NEW t \in 0..1, NEW i \in DOMAIN ht.ht_table[t], NEW e \in Entry,
         i = InsertSlot(Hash[e.key], ht.ht_size_exp[t]),
         \A pos \in AllPositions(ht) : EntryAt(ht, pos).key # e.key
  PROVE  GoodDict(Prepended(ht, t, i, e))
<1> DEFINE s == ht.ht_table[t][i]
           n == Prepended(ht, t, i, e)
           last == [table |-> t, slot |-> i, index |-> Len(s) + 1]
<1>1. StructOK(ht) /\ Shaped(ht) /\ Placed(ht) /\ KeysDistinct(ht) /\ UsedExact(ht)
  BY DEF GoodDict
<1>2. s \in Seq(Entry) /\ Len(s) \in Nat
  <2>1. s \in Seq(Entry)
    BY <1>1, TableFacts DEF StructOK
  <2> QED
    BY <2>1
<1>3. /\ DOMAIN n.ht_table = 0..1
      /\ \A u \in 0..1 : u # t => n.ht_table[u] = ht.ht_table[u] /\ n.ht_used[u] = ht.ht_used[u]
      /\ n.ht_used \in [0..1 -> Nat]
      /\ n.ht_used[t] = ht.ht_used[t] + 1
      /\ n.ht_size_exp = ht.ht_size_exp
      /\ n.reHashIdx = ht.reHashIdx
      /\ n.pauseRehash = ht.pauseRehash
      /\ DOMAIN n = DOMAIN ht
      /\ IsTable(n.ht_table[t])
      /\ \A u \in 0..1 : /\ DOMAIN n.ht_table[u] = DOMAIN ht.ht_table[u]
                         /\ \A j \in DOMAIN ht.ht_table[u] :
                              n.ht_table[u][j] = IF u = t /\ j = i THEN <<e>> \o s ELSE ht.ht_table[u][j]
  <2>1. EntryInFront(ht, n, t, i, e)
    BY <1>1, PrependedFields
  <2> HIDE DEF n
  <2> QED
    BY <2>1 DEF EntryInFront
<1>4. /\ Len(<<e>> \o s) = Len(s) + 1
      /\ \A p \in 1..(Len(s) + 1) : (<<e>> \o s)[p] = IF p = 1 THEN e ELSE s[p - 1]
  BY <1>2, PrependSeq
<1> HIDE DEF n
<1>5. StructOK(n)
  <2>1. \A u \in 0..1 : IsTable(n.ht_table[u])
    BY <1>1, <1>3 DEF StructOK
  <2> QED
    BY <1>1, <1>3, <2>1 DEF StructOK
<1>6. Shaped(n)
  <2>1. \A u \in 0..1 : n.ht_table[u] = NoTable <=> ht.ht_table[u] = NoTable
    <3>1. \A u \in 0..1 : IsTable(n.ht_table[u]) /\ IsTable(ht.ht_table[u])
      BY <1>1, <1>5 DEF StructOK
    <3> QED
      BY <1>3, <3>1, TableFacts
  <2> QED
    BY <1>1, <1>3, <2>1 DEF Shaped, Rehashing
<1>7. ASSUME NEW u \in 0..1, NEW j \in DOMAIN n.ht_table[u], NEW p \in 1..Len(n.ht_table[u][j])
      PROVE  \/ u = t /\ j = i /\ p = 1 /\ n.ht_table[u][j][p] = e
             \/ u = t /\ j = i /\ p # 1 /\ p - 1 \in 1..Len(s) /\ n.ht_table[u][j][p] = s[p - 1]
             \/ ~(u = t /\ j = i) /\ p \in 1..Len(ht.ht_table[u][j])
                /\ n.ht_table[u][j][p] = ht.ht_table[u][j][p]
  <2>1. j \in DOMAIN ht.ht_table[u]
    BY <1>3
  <2>2. CASE u = t /\ j = i
    <3>1. n.ht_table[u][j] = <<e>> \o s
      BY <1>3, <2>1, <2>2
    <3>2. p \in 1..(Len(s) + 1)
      BY <1>4, <3>1
    <3>3. (<<e>> \o s)[p] = IF p = 1 THEN e ELSE s[p - 1]
      BY <1>4, <3>2
    <3>4. p # 1 => p - 1 \in 1..Len(s)
      BY <1>2, <3>2
    <3> HIDE DEF s
    <3> QED
      BY <2>2, <3>1, <3>3, <3>4
  <2>3. CASE ~(u = t /\ j = i)
    <3>1. n.ht_table[u][j] = ht.ht_table[u][j]
      BY <1>3, <2>1, <2>3
    <3> QED
      BY <2>3, <3>1
  <2> QED
    BY <2>2, <2>3
<1>8. \A u \in 0..1 : DOMAIN n.ht_table[u] = DOMAIN ht.ht_table[u]
  BY <1>3
<1>9. Placed(n)
  <2> SUFFICES ASSUME NEW u \in 0..1, NEW j \in DOMAIN n.ht_table[u], NEW p \in 1..Len(n.ht_table[u][j])
               PROVE  PlacedAt(n, u, j, p)
    BY PlacedCoordinates
  <2>1. j \in DOMAIN ht.ht_table[u] /\ n.ht_size_exp[u] = ht.ht_size_exp[u]
    BY <1>3
  <2>2. \A a \in 1..Len(ht.ht_table[u][j]) : PlacedAt(ht, u, j, a)
    BY <1>1, <2>1, PlacedCoordinates
  <2>3. CASE u = t /\ j = i /\ p = 1 /\ n.ht_table[u][j][p] = e
    BY <2>1, <2>3 DEF PlacedAt
  <2>4. CASE u = t /\ j = i /\ p - 1 \in 1..Len(s) /\ n.ht_table[u][j][p] = s[p - 1]
    BY <2>1, <2>2, <2>4 DEF PlacedAt
  <2>5. CASE p \in 1..Len(ht.ht_table[u][j]) /\ n.ht_table[u][j][p] = ht.ht_table[u][j][p]
    BY <2>1, <2>2, <2>5 DEF PlacedAt
  <2> QED
    BY <1>7, <2>3, <2>4, <2>5, SMTT(30)
<1>10. KeysDistinct(n)
  <2> DEFINE Old(u, j, p) == IF u = t /\ j = i THEN p - 1 ELSE p
  <2>1. ASSUME NEW u \in 0..1, NEW j \in DOMAIN n.ht_table[u], NEW p \in 1..Len(n.ht_table[u][j])
        PROVE  /\ p \in Int
               /\ \/ u = t /\ j = i /\ p = 1 /\ n.ht_table[u][j][p].key = e.key
                  \/ /\ j \in DOMAIN ht.ht_table[u]
                     /\ Old(u, j, p) \in 1..Len(ht.ht_table[u][j])
                     /\ n.ht_table[u][j][p] = ht.ht_table[u][j][Old(u, j, p)]
                     /\ n.ht_table[u][j][p].key # e.key
    <3>1. j \in DOMAIN ht.ht_table[u] /\ p \in Int
      BY <1>8
    <3>2. ASSUME NEW a \in 1..Len(ht.ht_table[u][j])
          PROVE  ht.ht_table[u][j][a].key # e.key
      <4> DEFINE pos == [table |-> u, slot |-> j, index |-> a]
      <4>1. pos \in AllPositions(ht) /\ EntryAt(ht, pos) = ht.ht_table[u][j][a]
        BY <3>1, PositionAt
      <4> HIDE DEF pos
      <4> QED
        BY <4>1
    <3>3. CASE u = t /\ j = i /\ p = 1 /\ n.ht_table[u][j][p] = e
      BY <3>1, <3>3
    <3>4. CASE u = t /\ j = i /\ p - 1 \in 1..Len(s) /\ n.ht_table[u][j][p] = s[p - 1]
      BY <3>1, <3>2, <3>4
    <3>5. CASE ~(u = t /\ j = i) /\ p \in 1..Len(ht.ht_table[u][j]) /\ n.ht_table[u][j][p] = ht.ht_table[u][j][p]
      BY <3>1, <3>2, <3>5
    <3> QED
      BY <1>7, <3>3, <3>4, <3>5, ZenonT(60)
  <2> SUFFICES ASSUME NEW u \in 0..1, NEW j \in DOMAIN n.ht_table[u], NEW p \in 1..Len(n.ht_table[u][j]),
                      NEW w \in 0..1, NEW l \in DOMAIN n.ht_table[w], NEW q \in 1..Len(n.ht_table[w][l]),
                      n.ht_table[u][j][p].key = n.ht_table[w][l][q].key
               PROVE  u = w /\ j = l /\ p = q
    BY DistinctFromCoordinates DEF SameKeyAt
  <2>2. CASE n.ht_table[u][j][p].key = e.key
    BY <2>1, <2>2, ZenonT(60)
  <2>3. CASE n.ht_table[u][j][p].key # e.key
    <3>1. /\ p \in Int /\ j \in DOMAIN ht.ht_table[u]
          /\ Old(u, j, p) \in 1..Len(ht.ht_table[u][j])
          /\ n.ht_table[u][j][p] = ht.ht_table[u][j][Old(u, j, p)]
      BY <2>1, <2>3
    <3>2. /\ q \in Int /\ l \in DOMAIN ht.ht_table[w]
          /\ Old(w, l, q) \in 1..Len(ht.ht_table[w][l])
          /\ n.ht_table[w][l][q] = ht.ht_table[w][l][Old(w, l, q)]
      BY <2>1, <2>3
    <3>3. SameKeyAt(ht, u, j, Old(u, j, p), w, l, Old(w, l, q))
      BY <3>1, <3>2 DEF SameKeyAt
    <3>4. u = w /\ j = l /\ Old(u, j, p) = Old(w, l, q)
      <4> HIDE DEF Old
      <4> QED
        BY <1>1, <3>1, <3>2, <3>3, DistinctCoordinates
    <3> QED
      BY <3>1, <3>2, <3>4
  <2> QED
    BY <2>2, <2>3
<1>11. UsedExact(n) /\ \A u \in 0..1 : IsFiniteSet(Positions(n, u))
  <2>1. ASSUME NEW u \in 0..1, u # t
        PROVE  Positions(n, u) = Positions(ht, u) /\ n.ht_used[u] = ht.ht_used[u]
    BY <1>3, <2>1, SamePositions
  <2>2. Positions(n, t) = Positions(ht, t) \union {last}
    <3>1. ASSUME NEW j \in DOMAIN ht.ht_table[t], NEW p
          PROVE  p \in 1..Len(n.ht_table[t][j]) <=> p \in 1..Len(ht.ht_table[t][j]) \/ (j = i /\ p = Len(s) + 1)
      <4>1. CASE j = i
        <5>1. Len(n.ht_table[t][j]) = Len(s) + 1
          BY <1>3, <1>4, <4>1
        <5> QED
          BY <1>2, <4>1, <5>1
      <4>2. CASE j # i
        BY <1>3, <4>2
      <4> QED
        BY <4>1, <4>2
    <3> HIDE DEF s
    <3> QED
      BY <1>8, <3>1, PositionFacts
  <2>3. last \notin Positions(ht, t)
    <3>1. ~(Len(s) + 1 \in 1..Len(s))
      BY <1>2
    <3> QED
      BY <3>1, PositionFacts
  <2>4. Cardinality(Positions(n, t)) = Cardinality(Positions(ht, t)) + 1 /\ IsFiniteSet(Positions(n, t))
    BY SMTT(30), <2>2, <2>3, FS_AddElement DEF GoodDict
  <2> QED
    BY <1>1, <1>3, <2>1, <2>4 DEF UsedExact, GoodDict
<1> QED
  BY <1>5, <1>6, <1>9, <1>10, <1>11 DEF GoodDict, n

\* Inserting a key that the search missed keeps the dict good.
LEMMA InsertedGood ==
  ASSUME NEW ht, GoodDict(ht), ht.ht_table[0] # NoTable,
         NEW k \in Key, NEW v \in Value, Hits(ht, k, InsertSlots(ht, k)) = {}
  PROVE  GoodDict(Inserted(ht, [key |-> k, val |-> v]))
<1>1. [key |-> k, val |-> v] \in Entry
  BY DEF Entry
<1>2. InsertTable(ht) \in 0..1 /\ InsertSlots(ht, k)[InsertTable(ht)] \in DOMAIN ht.ht_table[InsertTable(ht)]
  BY InsertSlotInTable
<1>3. \A pos \in AllPositions(ht) : EntryAt(ht, pos).key # k
  BY SearchComplete
<1>4. InsertSlots(ht, k)[InsertTable(ht)] = InsertSlot(Hash[k], ht.ht_size_exp[InsertTable(ht)])
  BY <1>2 DEF InsertSlots
<1> QED
  BY <1>1, <1>2, <1>3, <1>4, PrependedGood DEF Inserted

-----------------------------------------------------------------------------
(* Unlinking an entry keeps a dict good.                                   *)

\* A dict one of whose chains is replaced by another one.
ChainReplaced(ht, n, t, i, c) ==
  /\ n.ht_table = [ht.ht_table EXCEPT ![t] = [ht.ht_table[t] EXCEPT ![i] = c]]
  /\ n.ht_size_exp = ht.ht_size_exp
  /\ n.reHashIdx = ht.reHashIdx
  /\ n.pauseRehash \in Nat
  /\ n.ht_used \in [0..1 -> Nat]
  /\ DOMAIN n = DOMAIN ht

\* Replacing a chain keeps the shape of the dict.
LEMMA ChainReplacedShape ==
  ASSUME NEW ht, StructOK(ht), Shaped(ht), NEW t \in 0..1, NEW i \in DOMAIN ht.ht_table[t],
         NEW c \in Seq(Entry), NEW n, ChainReplaced(ht, n, t, i, c)
  PROVE  /\ StructOK(n)
         /\ Shaped(n)
         /\ \A u \in 0..1 : u # t => n.ht_table[u] = ht.ht_table[u]
         /\ \A u \in 0..1 : DOMAIN n.ht_table[u] = DOMAIN ht.ht_table[u]
         /\ \A u \in 0..1 : \A j \in DOMAIN ht.ht_table[u] :
              n.ht_table[u][j] = IF u = t /\ j = i THEN c ELSE ht.ht_table[u][j]
<1>1. DOMAIN ht.ht_table = 0..1 /\ \A u \in 0..1 : IsTable(ht.ht_table[u])
  BY DEF StructOK
<1>2. PICK x \in 2..MaxExp : ht.ht_table[t] \in [0..(2^x - 1) -> Seq(Entry)]
  BY DEF StructOK, IsTable, NoTable
<1>3. /\ n.ht_table[t] = [ht.ht_table[t] EXCEPT ![i] = c]
      /\ \A u \in 0..1 : u # t => n.ht_table[u] = ht.ht_table[u]
      /\ DOMAIN n.ht_table = 0..1
  BY <1>1 DEF ChainReplaced
<1>4. n.ht_table[t] \in [0..(2^x - 1) -> Seq(Entry)]
  BY <1>2, <1>3
<1>5. \A u \in 0..1 : IsTable(n.ht_table[u])
  BY <1>1, <1>3, <1>4 DEF IsTable
<1>6. StructOK(n)
  BY <1>3, <1>5 DEF StructOK, ChainReplaced
<1>7. \A u \in 0..1 : DOMAIN n.ht_table[u] = DOMAIN ht.ht_table[u]
  BY <1>3
<1>8. Shaped(n)
  <2>1. \A u \in 0..1 : n.ht_table[u] = NoTable <=> ht.ht_table[u] = NoTable
    BY <1>1, <1>5, <1>7, TableFacts
  <2> QED
    BY <1>7, <2>1 DEF Shaped, Rehashing, ChainReplaced
<1> QED
  BY <1>3, <1>6, <1>7, <1>8

\* Unlinking an entry keeps the dict good.
LEMMA RemovedGood ==
  ASSUME NEW ht, GoodDict(ht), NEW gone \in AllPositions(ht)
  PROVE  GoodDict(Removed(ht, gone))
<1> DEFINE t == gone.table
           i == gone.slot
           g == gone.index
           s == ht.ht_table[t][i]
           c == RemoveAt(s, g)
           n == Removed(ht, gone)
           last == [table |-> t, slot |-> i, index |-> Len(s)]
<1>1. StructOK(ht) /\ Shaped(ht) /\ Placed(ht) /\ KeysDistinct(ht) /\ UsedExact(ht)
  BY DEF GoodDict
<1>2. PICK u \in 0..1 : gone \in Positions(ht, u)
  BY DEF AllPositions
<1>3. t \in 0..1 /\ i \in DOMAIN ht.ht_table[t] /\ g \in 1..Len(s) /\ gone \in Positions(ht, t)
  BY <1>2, CoordinatesOf
<1>4. s \in Seq(Entry) /\ Len(s) \in Nat
  <2>1. s \in Seq(Entry)
    BY <1>1, <1>3, TableFacts DEF StructOK
  <2> QED
    BY <2>1
<1>5. /\ c \in Seq(Entry)
      /\ Len(c) = Len(s) - 1
      /\ \A p \in 1..(Len(s) - 1) : c[p] = IF p < g THEN s[p] ELSE s[p + 1]
  <2> HIDE DEF s, g
  <2> QED
    BY <1>3, <1>4, RemoveAtSeq
<1>6. Cardinality(Positions(ht, t)) \in Nat \ {0}
  BY <1>3, FS_EmptySet, FS_CardinalityType DEF GoodDict
<1>7. ht.ht_used[t] - 1 \in Nat
  BY <1>1, <1>3, <1>6 DEF UsedExact
<1>8. /\ n.ht_table = [ht.ht_table EXCEPT ![t] = [ht.ht_table[t] EXCEPT ![i] = c]]
      /\ n.ht_used = [ht.ht_used EXCEPT ![t] = ht.ht_used[t] - 1]
      /\ n.ht_size_exp = ht.ht_size_exp
      /\ n.reHashIdx = ht.reHashIdx
      /\ n.pauseRehash = ht.pauseRehash
      /\ DOMAIN n = DOMAIN ht
  BY <1>1 DEF Removed, StructOK
<1> HIDE DEF n, c, g, i, t
<1>9. ChainReplaced(ht, n, t, i, c)
  BY <1>1, <1>3, <1>7, <1>8 DEF ChainReplaced, StructOK
<1>10. /\ StructOK(n) /\ Shaped(n)
       /\ \A w \in 0..1 : w # t => n.ht_table[w] = ht.ht_table[w]
       /\ \A w \in 0..1 : DOMAIN n.ht_table[w] = DOMAIN ht.ht_table[w]
       /\ \A w \in 0..1 : \A j \in DOMAIN ht.ht_table[w] :
            n.ht_table[w][j] = IF w = t /\ j = i THEN c ELSE ht.ht_table[w][j]
  BY <1>1, <1>3, <1>5, <1>9, ChainReplacedShape
<1> DEFINE Old(w, j, p) == IF w = t /\ j = i /\ ~(p < g) THEN p + 1 ELSE p
<1>11. ASSUME NEW w \in 0..1, NEW j \in DOMAIN n.ht_table[w], NEW p \in 1..Len(n.ht_table[w][j])
       PROVE  /\ p \in Int
              /\ j \in DOMAIN ht.ht_table[w]
              /\ Old(w, j, p) \in 1..Len(ht.ht_table[w][j])
              /\ n.ht_table[w][j][p] = ht.ht_table[w][j][Old(w, j, p)]
  <2>1. j \in DOMAIN ht.ht_table[w] /\ p \in Int
    BY <1>10
  <2>2. CASE w = t /\ j = i
    <3>1. n.ht_table[w][j] = c /\ p \in 1..(Len(s) - 1)
      BY <1>5, <1>10, <2>1, <2>2
    <3>2. c[p] = IF p < g THEN s[p] ELSE s[p + 1]
      BY <1>5, <3>1
    <3>3. Old(w, j, p) \in 1..Len(s)
      BY <1>3, <1>4, <2>2, <3>1
    <3> HIDE DEF s
    <3>4. c[p] = s[Old(w, j, p)]
      BY <2>2, <3>2
    <3> QED
      BY <2>1, <2>2, <3>1, <3>3, <3>4 DEF s
  <2>3. CASE ~(w = t /\ j = i)
    <3>1. n.ht_table[w][j] = ht.ht_table[w][j]
      BY <1>10, <2>1, <2>3
    <3> QED
      BY <2>1, <2>3, <3>1
  <2> QED
    BY <2>2, <2>3
<1>12. Placed(n)
  <2> SUFFICES ASSUME NEW w \in 0..1, NEW j \in DOMAIN n.ht_table[w], NEW p \in 1..Len(n.ht_table[w][j])
               PROVE  PlacedAt(n, w, j, p)
    BY PlacedCoordinates
  <2>1. PlacedAt(ht, w, j, Old(w, j, p))
    <3> HIDE DEF Old
    <3> QED
      BY <1>1, <1>11, PlacedCoordinates
  <2>2. n.ht_table[w][j][p] = ht.ht_table[w][j][Old(w, j, p)] /\ n.ht_size_exp[w] = ht.ht_size_exp[w]
    BY <1>8, <1>11
  <2> QED
    BY <2>1, <2>2 DEF PlacedAt
<1>13. KeysDistinct(n)
  <2> SUFFICES ASSUME NEW w \in 0..1, NEW j \in DOMAIN n.ht_table[w], NEW p \in 1..Len(n.ht_table[w][j]),
                      NEW x \in 0..1, NEW l \in DOMAIN n.ht_table[x], NEW q \in 1..Len(n.ht_table[x][l]),
                      n.ht_table[w][j][p].key = n.ht_table[x][l][q].key
               PROVE  w = x /\ j = l /\ p = q
    BY DistinctFromCoordinates DEF SameKeyAt
  <2>1. /\ p \in Int /\ j \in DOMAIN ht.ht_table[w]
        /\ Old(w, j, p) \in 1..Len(ht.ht_table[w][j])
        /\ n.ht_table[w][j][p] = ht.ht_table[w][j][Old(w, j, p)]
    BY <1>11
  <2>2. /\ q \in Int /\ l \in DOMAIN ht.ht_table[x]
        /\ Old(x, l, q) \in 1..Len(ht.ht_table[x][l])
        /\ n.ht_table[x][l][q] = ht.ht_table[x][l][Old(x, l, q)]
    BY <1>11
  <2>3. SameKeyAt(ht, w, j, Old(w, j, p), x, l, Old(x, l, q))
    BY <2>1, <2>2 DEF SameKeyAt
  <2>4. w = x /\ j = l /\ Old(w, j, p) = Old(x, l, q)
    <3> HIDE DEF Old
    <3> QED
      BY <1>1, <2>1, <2>2, <2>3, DistinctCoordinates
  <2>5. g \in Int
    BY <1>3, <1>4
  <2> QED
    BY <2>1, <2>2, <2>4, <2>5
<1>14. UsedExact(n) /\ \A w \in 0..1 : IsFiniteSet(Positions(n, w))
  <2>1. ASSUME NEW w \in 0..1, w # t
        PROVE  Positions(n, w) = Positions(ht, w) /\ n.ht_used[w] = ht.ht_used[w]
    BY <1>1, <1>3, <1>8, <1>10, <2>1, SamePositions DEF StructOK
  <2>2. Positions(n, t) = Positions(ht, t) \ {last}
    <3>1. ASSUME NEW j \in DOMAIN ht.ht_table[t], NEW p
          PROVE  p \in 1..Len(n.ht_table[t][j]) <=> p \in 1..Len(ht.ht_table[t][j]) /\ ~(j = i /\ p = Len(s))
      <4>1. CASE j = i
        <5>1. Len(n.ht_table[t][j]) = Len(s) - 1
          BY <1>3, <1>5, <1>10, <4>1
        <5> QED
          BY <1>4, <4>1, <5>1
      <4>2. CASE j # i
        BY <1>3, <1>10, <4>2
      <4> QED
        BY <4>1, <4>2
    <3>2. DOMAIN n.ht_table[t] = DOMAIN ht.ht_table[t]
      BY <1>3, <1>10
    <3> HIDE DEF s
    <3> QED
      BY <3>1, <3>2, PositionFacts
  <2>3. last \in Positions(ht, t)
    <3>1. Len(s) \in 1..Len(s)
      BY <1>3, <1>4
    <3> QED
      BY <1>3, <3>1, PositionFacts
  <2>4. Cardinality(Positions(n, t)) = Cardinality(Positions(ht, t)) - 1 /\ IsFiniteSet(Positions(n, t))
    BY <1>3, <2>2, <2>3, FS_RemoveElement DEF GoodDict
  <2>5. n.ht_used[t] = ht.ht_used[t] - 1
    BY <1>1, <1>3, <1>8 DEF StructOK
  <2> QED
    BY <1>1, <1>3, <2>1, <2>4, <2>5 DEF UsedExact, GoodDict
<1> QED
  BY <1>10, <1>12, <1>13, <1>14 DEF GoodDict, n

-----------------------------------------------------------------------------
(* Storing a value keeps a dict good.                                      *)

\* So does storing a value.
LEMMA WithValGood ==
  ASSUME NEW ht, GoodDict(ht), NEW pos \in AllPositions(ht), NEW v \in Value
  PROVE  GoodDict(WithVal(ht, pos, v))
<1> DEFINE t == pos.table
           i == pos.slot
           g == pos.index
           s == ht.ht_table[t][i]
           c == [s EXCEPT ![g].val = v]
           n == WithVal(ht, pos, v)
<1>1. StructOK(ht) /\ Shaped(ht) /\ Placed(ht) /\ KeysDistinct(ht) /\ UsedExact(ht)
  BY DEF GoodDict
<1>2. PICK u \in 0..1 : pos \in Positions(ht, u)
  BY DEF AllPositions
<1>3. t \in 0..1 /\ i \in DOMAIN ht.ht_table[t] /\ g \in 1..Len(s)
  BY <1>2, CoordinatesOf
<1>4. s \in Seq(Entry)
  BY <1>1, <1>3, TableFacts DEF StructOK
<1>5. /\ c \in Seq(Entry)
      /\ Len(c) = Len(s)
      /\ \A p \in 1..Len(s) : c[p].key = s[p].key
  <2>1. s[g] \in Entry
    BY <1>3, <1>4
  <2>2. [s[g] EXCEPT !.val = v] \in Entry /\ [s[g] EXCEPT !.val = v].key = s[g].key
    BY <2>1 DEF Entry
  <2>3. c = [s EXCEPT ![g] = [s[g] EXCEPT !.val = v]]
    OBVIOUS
  <2> HIDE DEF c, s, g
  <2> QED
    BY <1>3, <1>4, <2>2, <2>3
<1>6. /\ n.ht_table = [ht.ht_table EXCEPT ![t] = [ht.ht_table[t] EXCEPT ![i] = c]]
      /\ n.ht_used = ht.ht_used
      /\ n.ht_size_exp = ht.ht_size_exp
      /\ n.reHashIdx = ht.reHashIdx
      /\ n.pauseRehash = ht.pauseRehash
      /\ DOMAIN n = DOMAIN ht
  BY <1>1 DEF WithVal, StructOK
<1> HIDE DEF n, c, g, i, t
<1>7. ChainReplaced(ht, n, t, i, c)
  BY <1>1, <1>6 DEF ChainReplaced, StructOK
<1>8. /\ StructOK(n) /\ Shaped(n)
      /\ \A w \in 0..1 : w # t => n.ht_table[w] = ht.ht_table[w]
      /\ \A w \in 0..1 : DOMAIN n.ht_table[w] = DOMAIN ht.ht_table[w]
      /\ \A w \in 0..1 : \A j \in DOMAIN ht.ht_table[w] :
           n.ht_table[w][j] = IF w = t /\ j = i THEN c ELSE ht.ht_table[w][j]
  BY <1>1, <1>3, <1>5, <1>7, ChainReplacedShape
<1>9. ASSUME NEW w \in 0..1, NEW j \in DOMAIN ht.ht_table[w]
      PROVE  /\ Len(n.ht_table[w][j]) = Len(ht.ht_table[w][j])
             /\ \A p \in 1..Len(ht.ht_table[w][j]) : n.ht_table[w][j][p].key = ht.ht_table[w][j][p].key
  <2>1. CASE w = t /\ j = i
    BY <1>5, <1>8, <2>1
  <2>2. CASE ~(w = t /\ j = i)
    BY <1>8, <2>2
  <2> QED
    BY <2>1, <2>2
<1>10. Placed(n)
  <2> SUFFICES ASSUME NEW w \in 0..1, NEW j \in DOMAIN n.ht_table[w], NEW p \in 1..Len(n.ht_table[w][j])
               PROVE  PlacedAt(n, w, j, p)
    BY PlacedCoordinates
  <2>1. j \in DOMAIN ht.ht_table[w] /\ p \in 1..Len(ht.ht_table[w][j])
    BY <1>8, <1>9
  <2>2. PlacedAt(ht, w, j, p)
    BY <1>1, <2>1, PlacedCoordinates
  <2> QED
    BY <1>6, <1>9, <2>1, <2>2 DEF PlacedAt
<1>11. KeysDistinct(n)
  <2> SUFFICES ASSUME NEW w \in 0..1, NEW j \in DOMAIN n.ht_table[w], NEW p \in 1..Len(n.ht_table[w][j]),
                      NEW x \in 0..1, NEW l \in DOMAIN n.ht_table[x], NEW q \in 1..Len(n.ht_table[x][l]),
                      n.ht_table[w][j][p].key = n.ht_table[x][l][q].key
               PROVE  w = x /\ j = l /\ p = q
    BY DistinctFromCoordinates DEF SameKeyAt
  <2>1. j \in DOMAIN ht.ht_table[w] /\ p \in 1..Len(ht.ht_table[w][j])
    BY <1>8, <1>9
  <2>2. l \in DOMAIN ht.ht_table[x] /\ q \in 1..Len(ht.ht_table[x][l])
    BY <1>8, <1>9
  <2>3. SameKeyAt(ht, w, j, p, x, l, q)
    BY <1>9, <2>1, <2>2 DEF SameKeyAt
  <2> QED
    BY <1>1, <2>1, <2>2, <2>3, DistinctCoordinates
<1>12. ASSUME NEW w \in 0..1
       PROVE  Positions(n, w) = Positions(ht, w)
  <2>1. DOMAIN n.ht_table[w] = DOMAIN ht.ht_table[w]
    BY <1>8
  <2>2. \A j \in DOMAIN ht.ht_table[w] : Len(n.ht_table[w][j]) = Len(ht.ht_table[w][j])
    BY <1>9
  <2> QED
    BY <2>1, <2>2, SameLengths
<1>13. UsedExact(n) /\ \A w \in 0..1 : IsFiniteSet(Positions(n, w))
  BY <1>1, <1>6, <1>12 DEF UsedExact, GoodDict
<1> QED
  BY <1>8, <1>10, <1>11, <1>13 DEF GoodDict, n

-----------------------------------------------------------------------------
(* Facts about what the operations read.                                   *)

\* What is at a position is an entry.
LEMMA EntryType ==
  ASSUME NEW ht, StructOK(ht), NEW pos \in AllPositions(ht)
  PROVE  EntryAt(ht, pos) \in Entry
<1>1. PICK u \in 0..1 : pos \in Positions(ht, u)
  BY DEF AllPositions
<1>2. /\ pos.slot \in DOMAIN ht.ht_table[u]
      /\ pos.index \in 1..Len(ht.ht_table[u][pos.slot])
      /\ EntryAt(ht, pos) = ht.ht_table[u][pos.slot][pos.index]
  BY <1>1, CoordinatesOf
<1>3. ht.ht_table[u][pos.slot] \in Seq(Entry)
  BY <1>2, TableFacts DEF StructOK
<1> QED
  BY <1>2, <1>3

\* A search finds at most one entry.
LEMMA HitsAtMostOne ==
  ASSUME NEW ht, GoodDict(ht), NEW k, NEW slots, Hits(ht, k, slots) # {}
  PROVE  Cardinality(Hits(ht, k, slots)) = 1
<1>1. PICK pos : pos \in Hits(ht, k, slots)
  OBVIOUS
<1>2. \A q \in Hits(ht, k, slots) : q = pos
  BY <1>1, HitFacts DEF GoodDict, KeysDistinct
<1>3. Hits(ht, k, slots) = {pos}
  BY <1>1, <1>2
<1> QED
  BY <1>3, FS_Singleton

\* The growth before an insertion keeps the dict good, and every entry.
LEMMA GrownGood ==
  ASSUME NEW ht, GoodDict(ht), NEW allowed
  PROVE  /\ GoodDict(ExpandIfNeeded(ht, allowed))
         /\ AllPositions(ExpandIfNeeded(ht, allowed)) = AllPositions(ht)
         /\ \A pos \in AllPositions(ht) : EntryAt(ExpandIfNeeded(ht, allowed), pos) = EntryAt(ht, pos)
  BY ExpandedGood DEF ExpandIfNeeded, Expand

\* A pause or its end leaves the tables alone.
LEMMA PausedGood ==
  ASSUME NEW ht, GoodDict(ht), NEW x \in Nat
  PROVE  LET n == [ht EXCEPT !.pauseRehash = x]
         IN  GoodDict(n) /\ AllPositions(n) = AllPositions(ht) /\ n.pauseRehash = x
<1> DEFINE n == [ht EXCEPT !.pauseRehash = x]
<1>1. /\ n.ht_table = ht.ht_table /\ n.ht_used = ht.ht_used /\ n.ht_size_exp = ht.ht_size_exp
      /\ n.reHashIdx = ht.reHashIdx /\ n.pauseRehash = x /\ DOMAIN n = DOMAIN ht
  BY DEF GoodDict, StructOK
<1> HIDE DEF n
<1>2. \A t \in 0..1 : /\ Positions(n, t) = Positions(ht, t)
                      /\ \A pos \in Positions(ht, t) : EntryAt(n, pos) = EntryAt(ht, pos)
  BY <1>1, SamePositions
<1>3. AllPositions(n) = AllPositions(ht) /\ \A pos \in AllPositions(ht) : EntryAt(n, pos) = EntryAt(ht, pos)
  BY <1>2 DEF AllPositions
<1>4. StructOK(n) /\ Shaped(n)
  BY <1>1 DEF GoodDict, StructOK, Shaped, Rehashing
<1>5. Placed(n) /\ UsedExact(n) /\ \A t \in 0..1 : IsFiniteSet(Positions(n, t))
  BY <1>1, <1>2 DEF GoodDict, Placed, UsedExact
<1>6. KeysDistinct(n)
  BY <1>3 DEF GoodDict, KeysDistinct
<1> QED
  BY <1>1, <1>3, <1>4, <1>5, <1>6 DEF GoodDict, n

\* Only the two phases of an unlink change the pause counter.
LEMMA PauseKept ==
  ASSUME NEW ht, GoodDict(ht)
  PROVE  /\ \A size : Expanded(ht, size).pauseRehash = ht.pauseRehash
         /\ \A allowed : ExpandIfNeeded(ht, allowed).pauseRehash = ht.pauseRehash
         /\ \A e : Inserted(ht, e).pauseRehash = ht.pauseRehash
         /\ \A pos : Removed(ht, pos).pauseRehash = ht.pauseRehash
         /\ \A pos, v : WithVal(ht, pos, v).pauseRehash = ht.pauseRehash
<1>1. "pauseRehash" \in DOMAIN ht
  BY DEF GoodDict, StructOK
<1>2. \A size : Expanded(ht, size).pauseRehash = ht.pauseRehash
  BY <1>1 DEF Expanded
<1>3. \A allowed : ExpandIfNeeded(ht, allowed).pauseRehash = ht.pauseRehash
  BY <1>2 DEF ExpandIfNeeded, Expand
<1>4. \A e : Inserted(ht, e).pauseRehash = ht.pauseRehash
  BY <1>1 DEF Inserted, Prepended
<1>5. \A pos : Removed(ht, pos).pauseRehash = ht.pauseRehash
  BY <1>1 DEF Removed
<1>6. \A pos, v : WithVal(ht, pos, v).pauseRehash = ht.pauseRehash
  BY <1>1 DEF WithVal
<1> QED
  BY <1>2, <1>3, <1>4, <1>5, <1>6

-----------------------------------------------------------------------------
(* The invariant of the specification.                                     *)

OneLink == unlinking = {} \/ Cardinality(unlinking) = 1

\* The pauses of rehashing that are not those of an unlink.
OtherPauses == d.pauseRehash - Cardinality(unlinking)

\* What each operation keeps of the dict, whoever else has paused its rehashing.
Sane == TypeOK /\ GoodDict(d) /\ OneLink /\ OtherPauses >= 0

IInv == Sane /\ PauseBalanced

\* A step that keeps the dict sane, and the pauses of others as they are.
StaysSane == Sane' /\ OtherPauses' = OtherPauses

\* Where the dict is good, its links are those of the invariant, and the values
\* of the other variables are of their types, the invariant holds.
OtherTypesOK ==
  /\ dict_can_resize \in ResizePolicies
  /\ up \in BOOLEAN
  /\ ret \in Returned

\* What an operation returns has the type of ret.
LEMMA ReturnType ==
  ASSUME NEW op \in {"create", "maintain", "add", "replace", "setval", "find", "delete", "empty", "abort"},
         NEW ks \in SUBSET Key, NEW ok \in BOOLEAN, NEW found \in SUBSET Entry
  PROVE  Return(op, ks, ok, found) \in Returned
  BY DEF Return, Returned

\* A sane dict counts its pauses, and its client its links, by naturals.
LEMMA SaneNumbers == Sane => d.pauseRehash \in Nat /\ Cardinality(unlinking) \in Nat
  BY FS_EmptySet DEF Sane, GoodDict, StructOK, OneLink

\* The same after a step.
LEMMA SaneNumbersNext == Sane' => d'.pauseRehash \in Nat /\ Cardinality(unlinking') \in Nat
<1>1. (Sane => d.pauseRehash \in Nat /\ Cardinality(unlinking) \in Nat)'
  BY SaneNumbers, PTL
<1> QED
  BY <1>1

\* A step that unlinks nothing leaves the dict sane if it keeps it good.
LEMMA QuietStep ==
  ASSUME Sane, unlinking = {}, UNCHANGED unlinking, GoodDict(d'), d'.pauseRehash = d.pauseRehash,
         OtherTypesOK'
  PROVE  StaysSane
<1>1. TypeOK'
  BY DEF TypeOK, OtherTypesOK, GoodDict
<1>2. OneLink' /\ OtherPauses' = OtherPauses
  BY DEF Sane, OneLink, OtherPauses
<1> QED
  BY <1>1, <1>2 DEF Sane, StaysSane

\* So does a step that changes neither the dict nor the links.
LEMMA ReadStep ==
  ASSUME Sane, UNCHANGED <<d, unlinking>>, OtherTypesOK'
  PROVE  StaysSane
<1>1. TypeOK' /\ GoodDict(d)'
  BY DEF Sane, TypeOK, OtherTypesOK, GoodDict
<1>2. OneLink' /\ OtherPauses' = OtherPauses
  BY DEF Sane, OneLink, OtherPauses
<1> QED
  BY <1>1, <1>2 DEF Sane, StaysSane

\* A search of a good dict returns entries.
LEMMA FoundType ==
  ASSUME NEW ht, GoodDict(ht), NEW k, NEW slots
  PROVE  {EntryAt(ht, pos) : pos \in Hits(ht, k, slots)} \in SUBSET Entry
  BY HitFacts, EntryType DEF GoodDict

\* An operation that stops the process leaves the dict as it was.
LEMMA StopStep ==
  ASSUME Sane, NEW op \in {"add", "replace", "find", "delete", "abort"}, NEW k \in Key, Stop(op, k)
  PROVE  StaysSane
<1>1. OtherTypesOK'
  <2>1. Return(op, {k}, FALSE, {}) \in Returned
    BY DEF Return, Returned
  <2> QED
    BY <2>1 DEF Sane, TypeOK, OtherTypesOK, Stop
<1> QED
  BY <1>1, ReadStep DEF Stop

\* It holds of a dict nobody has used yet.
LEMMA InitIInv == Init => IInv
<1> SUFFICES ASSUME Init PROVE IInv
  OBVIOUS
<1>1. d = EmptyDict
  BY DEF Init, EmptyDict
<1>2. GoodDict(d)
  BY <1>1, EmptyDictGood
<1>3. TypeOK
  <2>1. ret = Return("create", {}, TRUE, {})
    BY DEF Init
  <2>2. ret \in Returned
    BY <2>1, ReturnType
  <2> QED
    BY <1>2, <2>2 DEF Init, TypeOK, GoodDict, ResizePolicies
<1>4. PauseBalanced /\ OneLink /\ OtherPauses = 0
  <2>1. d.pauseRehash = 0 /\ unlinking = {}
    BY <1>1 DEF EmptyDict, Init
  <2> QED
    BY <2>1, FS_EmptySet DEF PauseBalanced, OneLink, OtherPauses
<1> QED
  BY <1>2, <1>3, <1>4 DEF IInv, Sane

-----------------------------------------------------------------------------
(* Each operation keeps the invariant.                                     *)

\* dictExpand leaves a sane dict sane, and the pauses of others alone.
LEMMA dictExpandStaysSane ==
  ASSUME Sane, NEW size \in ExpandSizes, NEW try \in BOOLEAN, NEW allocated \in BOOLEAN,
         dictExpand(size, try, allocated)
  PROVE  StaysSane
<1>1. GoodDict(d) /\ unlinking = {} /\ unlinking' = unlinking
  BY DEF Sane, dictExpand, MayChange
<1>2. d' = d \/ (~ExpandRefused(d, size) /\ d' = Expanded(d, size))
  BY DEF dictExpand
<1>3. GoodDict(d') /\ d'.pauseRehash = d.pauseRehash
  <2>1. CASE d' = d
    BY <1>1, <2>1
  <2>2. CASE ~ExpandRefused(d, size) /\ d' = Expanded(d, size)
    BY <1>1, <2>2, ExpandedGood, PauseKept
  <2> QED
    BY <1>2, <2>1, <2>2
<1>4. OtherTypesOK'
  <2>1. \A op \in {"maintain", "abort"}, ok \in BOOLEAN : Return(op, {}, ok, {}) \in Returned
    BY DEF Return, Returned
  <2>2. up' \in BOOLEAN /\ \E op \in {"maintain", "abort"}, ok \in BOOLEAN : ret' = Return(op, {}, ok, {})
    BY DEF dictExpand
  <2> QED
    BY <2>1, <2>2 DEF dictExpand, Sane, TypeOK, OtherTypesOK
<1> QED
  BY <1>1, <1>3, <1>4, QuietStep

\* dictResize leaves a sane dict sane, and the pauses of others alone.
LEMMA dictResizeStaysSane ==
  ASSUME Sane, NEW allocated \in BOOLEAN, dictResize(allocated)
  PROVE  StaysSane
<1> DEFINE minimal == IF d.ht_used[0] < 4 THEN 4 ELSE d.ht_used[0]
<1>1. GoodDict(d) /\ unlinking = {} /\ unlinking' = unlinking
  BY DEF Sane, dictResize, MayChange
<1>2. d' = d \/ (~ExpandRefused(d, minimal) /\ d' = Expanded(d, minimal))
  BY DEF dictResize
<1> HIDE DEF minimal
<1>3. GoodDict(d') /\ d'.pauseRehash = d.pauseRehash
  <2>1. CASE d' = d
    BY <1>1, <2>1
  <2>2. CASE ~ExpandRefused(d, minimal) /\ d' = Expanded(d, minimal)
    BY <1>1, <2>2, ExpandedGood, PauseKept
  <2> QED
    BY <1>2, <2>1, <2>2
<1>4. OtherTypesOK'
  <2>1. \A op \in {"maintain", "abort"}, ok \in BOOLEAN : Return(op, {}, ok, {}) \in Returned
    BY DEF Return, Returned
  <2>2. up' \in BOOLEAN /\ \E op \in {"maintain", "abort"}, ok \in BOOLEAN : ret' = Return(op, {}, ok, {})
    BY DEF dictResize
  <2> QED
    BY <2>1, <2>2 DEF dictResize, Sane, TypeOK, OtherTypesOK
<1> QED
  BY <1>1, <1>3, <1>4, QuietStep

\* dictSetResizeEnabled leaves a sane dict sane, and the pauses of others alone.
LEMMA dictSetResizeEnabledStaysSane ==
  ASSUME Sane, NEW policy \in Policies, dictSetResizeEnabled(policy)
  PROVE  StaysSane
<1>1. Return("maintain", {}, TRUE, {}) \in Returned
  BY DEF Return, Returned
<1>2. OtherTypesOK'
  BY <1>1, PolicyAssumption DEF dictSetResizeEnabled, Sane, TypeOK, OtherTypesOK
<1> QED
  BY <1>2, ReadStep DEF dictSetResizeEnabled

\* What an insertion that does not stop the process finds after the growth.
LEMMA SafeGrowth ==
  ASSUME GoodDict(d), NEW k, NEW allowed, ~InsertFaults(d, k, allowed), ~GrowthRefused(d, allowed)
  PROVE  LET grown == ExpandIfNeeded(d, allowed)
         IN  /\ GoodDict(grown)
             /\ grown.pauseRehash = d.pauseRehash
             /\ grown.ht_table[0] # NoTable
             /\ {EntryAt(grown, pos) : pos \in Hits(grown, k, InsertSlots(grown, k))} \in SUBSET Entry
<1> DEFINE grown == ExpandIfNeeded(d, allowed)
<1>1. GoodDict(grown) /\ grown.pauseRehash = d.pauseRehash
  BY GrownGood, PauseKept
<1>2. grown.ht_table[0] # NoTable
  BY DEF InsertFaults
<1>3. {EntryAt(grown, pos) : pos \in Hits(grown, k, InsertSlots(grown, k))} \in SUBSET Entry
  BY <1>1, FoundType
<1> QED
  BY <1>1, <1>2, <1>3

\* dictAdd leaves a sane dict sane, and the pauses of others alone.
LEMMA dictAddStaysSane ==
  ASSUME Sane, NEW k \in Key, NEW v \in Value, dictAdd(k, v)
  PROVE  StaysSane
<1>1. GoodDict(d) /\ unlinking = {}
  BY DEF Sane, dictAdd, MayChange
<1>2. PICK allowed \in ExpandAllowed :
        AddRaw(k, v, allowed) \/ Stop("add", k) \/ Stop("abort", k)
  BY DEF dictAdd
<1>3. CASE Stop("add", k) \/ Stop("abort", k)
  BY <1>3, StopStep
<1>4. CASE AddRaw(k, v, allowed)
  <2> DEFINE grown == ExpandIfNeeded(d, allowed)
             existing == Hits(grown, k, InsertSlots(grown, k))
             new == [key |-> k, val |-> v]
             found == {EntryAt(grown, pos) : pos \in existing}
  <2>1. ~InsertFaults(d, k, allowed) /\ UNCHANGED <<dict_can_resize, unlinking, up>>
    BY <1>4 DEF AddRaw
  <2>2. \/ GrowthRefused(d, allowed) /\ d' = d /\ ret' = Return("add", {k}, FALSE, {})
        \/ /\ ~GrowthRefused(d, allowed)
           /\ \/ d' = grown /\ ret' = Return("add", {k}, FALSE, found)
              \/ existing = {} /\ d' = Inserted(grown, new) /\ ret' = Return("add", {k}, TRUE, {new})
    BY <1>4 DEF AddRaw
  <2>3. ~GrowthRefused(d, allowed) =>
          /\ GoodDict(grown) /\ grown.pauseRehash = d.pauseRehash
          /\ grown.ht_table[0] # NoTable /\ found \in SUBSET Entry
    BY <1>1, <2>1, SafeGrowth
  <2>4. ~GrowthRefused(d, allowed) /\ existing = {} =>
          GoodDict(Inserted(grown, new)) /\ Inserted(grown, new).pauseRehash = d.pauseRehash
    BY <2>3, InsertedGood, PauseKept
  <2>5. /\ Return("add", {k}, FALSE, {}) \in Returned
        /\ ~GrowthRefused(d, allowed) => Return("add", {k}, FALSE, found) \in Returned
        /\ Return("add", {k}, TRUE, {new}) \in Returned
    <3>1. {new} \in SUBSET Entry
      BY DEF Entry
    <3> HIDE DEF new, found, existing
    <3> QED
      BY <2>3, <3>1 DEF Return, Returned
  <2> HIDE DEF grown, existing, new, found
  <2>6. GoodDict(d') /\ d'.pauseRehash = d.pauseRehash
    BY <1>1, <2>2, <2>3, <2>4
  <2>7. OtherTypesOK'
    BY <2>1, <2>2, <2>5 DEF Sane, TypeOK, OtherTypesOK
  <2> QED
    BY <1>1, <2>1, <2>6, <2>7, QuietStep
<1> QED
  BY <1>2, <1>3, <1>4

\* dictReplace leaves a sane dict sane, and the pauses of others alone.
LEMMA dictReplaceStaysSane ==
  ASSUME Sane, NEW k \in Key, NEW v \in Value, dictReplace(k, v)
  PROVE  StaysSane
<1>1. GoodDict(d) /\ unlinking = {}
  BY DEF Sane, dictReplace, MayChange
<1>2. PICK allowed \in ExpandAllowed :
        LET grown == ExpandIfNeeded(d, allowed)
            existing == Hits(grown, k, InsertSlots(grown, k))
            new == [key |-> k, val |-> v]
        IN  \/ Stop("replace", k) \/ Stop("abort", k)
            \/ /\ ~InsertFaults(d, k, allowed) /\ ~GrowthRefused(d, allowed)
               /\ \/ existing = {} /\ d' = Inserted(grown, new)
                  \/ \E pos \in existing : d' = WithVal(grown, pos, v)
               /\ ret' = Return("replace", {k}, existing = {}, {new})
               /\ UNCHANGED <<dict_can_resize, unlinking, up>>
  BY DEF dictReplace
<1> DEFINE grown == ExpandIfNeeded(d, allowed)
           existing == Hits(grown, k, InsertSlots(grown, k))
           new == [key |-> k, val |-> v]
<1>3. CASE Stop("replace", k) \/ Stop("abort", k)
  BY <1>3, StopStep
<1>4. CASE ~Stop("replace", k) /\ ~Stop("abort", k)
  <2>1. /\ ~InsertFaults(d, k, allowed) /\ ~GrowthRefused(d, allowed) /\ UNCHANGED <<dict_can_resize, unlinking, up>>
        /\ ret' = Return("replace", {k}, existing = {}, {new})
        /\ \/ existing = {} /\ d' = Inserted(grown, new)
           \/ \E pos \in existing : d' = WithVal(grown, pos, v)
    BY <1>2, <1>4
  <2>2. GoodDict(grown) /\ grown.pauseRehash = d.pauseRehash /\ grown.ht_table[0] # NoTable
    BY <1>1, <2>1, SafeGrowth
  <2>3. existing = {} => GoodDict(Inserted(grown, new)) /\ Inserted(grown, new).pauseRehash = d.pauseRehash
    BY <2>2, InsertedGood, PauseKept
  <2>4. \A pos \in existing : pos \in AllPositions(grown)
    BY HitFacts
  <2>5. {new} \in SUBSET Entry
    BY DEF Entry
  <2> HIDE DEF grown, existing, new
  <2>6. GoodDict(d') /\ d'.pauseRehash = d.pauseRehash
    BY <2>1, <2>2, <2>3, <2>4, WithValGood, PauseKept
  <2>7. ret' \in Returned
    BY <2>1, <2>5 DEF Return, Returned
  <2>8. OtherTypesOK'
    BY <2>1, <2>7 DEF Sane, TypeOK, OtherTypesOK
  <2> QED
    BY <1>1, <2>1, <2>6, <2>8, QuietStep
<1> QED
  BY <1>3, <1>4

\* dictSetVal leaves a sane dict sane, and the pauses of others alone.
LEMMA dictSetValStaysSane ==
  ASSUME Sane, NEW k \in Key, NEW v \in Value, dictSetVal(k, v)
  PROVE  StaysSane
<1>1. GoodDict(d) /\ unlinking = {} /\ UNCHANGED <<dict_can_resize, unlinking, up>>
  BY DEF Sane, dictSetVal, MayChange
<1>2. PICK pos \in AllPositions(d) : d' = WithVal(d, pos, v)
  BY DEF dictSetVal
<1>3. GoodDict(d') /\ d'.pauseRehash = d.pauseRehash
  BY <1>1, <1>2, WithValGood, PauseKept
<1>4. ret' \in Returned
  BY DEF dictSetVal, Return, Returned, Entry
<1>5. OtherTypesOK'
  BY <1>1, <1>4 DEF Sane, TypeOK, OtherTypesOK
<1> QED
  BY <1>1, <1>3, <1>5, QuietStep

\* A look-up that returns to its caller.
LEMMA LookupType ==
  ASSUME GoodDict(d), NEW k
  PROVE  /\ LookupHits(d, k) \subseteq AllPositions(d)
         /\ {EntryAt(d, pos) : pos \in LookupHits(d, k)} \in SUBSET Entry
         /\ LookupHits(d, k) # {} => Cardinality(LookupHits(d, k)) = 1
<1>1. CASE LookupHits(d, k) = {}
  BY <1>1
<1>2. CASE LookupHits(d, k) # {}
  <2>1. LookupHits(d, k) = Hits(d, k, LookupSlots(d, k))
    BY <1>2 DEF LookupHits
  <2> QED
    BY <1>2, <2>1, HitFacts, FoundType, HitsAtMostOne
<1> QED
  BY <1>1, <1>2

\* dictFind leaves a sane dict sane, and the pauses of others alone.
LEMMA dictFindStaysSane ==
  ASSUME Sane, NEW k \in Key, dictFind(k)
  PROVE  StaysSane
<1> DEFINE hits == LookupHits(d, k)
           found == {EntryAt(d, pos) : pos \in hits}
<1>1. CASE Stop("find", k)
  BY <1>1, StopStep
<1>2. CASE ~Stop("find", k)
  <2>1. ret' = Return("find", {k}, hits # {}, found) /\ UNCHANGED <<d, dict_can_resize, unlinking, up>>
    BY <1>2 DEF dictFind
  <2>2. found \in SUBSET Entry
    BY LookupType DEF Sane
  <2> HIDE DEF hits, found
  <2>3. ret' \in Returned
    BY <2>1, <2>2 DEF Return, Returned
  <2>4. OtherTypesOK'
    BY <2>1, <2>3 DEF Sane, TypeOK, OtherTypesOK
  <2> QED
    BY <2>1, <2>4, ReadStep
<1> QED
  BY <1>1, <1>2

\* dictFindEntryByPtrAndHash leaves a sane dict sane, and the pauses of others alone.
LEMMA dictFindEntryByPtrAndHashStaysSane ==
  ASSUME Sane, NEW k \in Key, dictFindEntryByPtrAndHash(k)
  PROVE  StaysSane
<1> DEFINE hits == IF Count(d) = 0 THEN {} ELSE Hits(d, k, PtrSlots(d, k))
           found == {EntryAt(d, pos) : pos \in hits}
<1>1. ret' = Return("find", {k}, hits # {}, found) /\ UNCHANGED <<d, dict_can_resize, unlinking, up>>
  BY DEF dictFindEntryByPtrAndHash
<1>2. found \in SUBSET Entry
  BY FoundType DEF Sane
<1> HIDE DEF hits, found
<1>3. ret' \in Returned
  BY <1>1, <1>2 DEF Return, Returned
<1>4. OtherTypesOK'
  BY <1>1, <1>3 DEF Sane, TypeOK, OtherTypesOK
<1> QED
  BY <1>1, <1>4, ReadStep

\* dictGenericDelete leaves a sane dict sane, and the pauses of others alone.
LEMMA dictGenericDeleteStaysSane ==
  ASSUME Sane, NEW k \in Key, dictGenericDelete(k)
  PROVE  StaysSane
<1> DEFINE hits == LookupHits(d, k)
<1>1. GoodDict(d) /\ unlinking = {}
  BY DEF Sane, dictGenericDelete, MayChange
<1>2. CASE Stop("delete", k)
  BY <1>2, StopStep
<1>3. CASE ret' = Return("delete", {k}, FALSE, {}) /\ UNCHANGED <<d, dict_can_resize, unlinking, up>>
  <2>1. ret' \in Returned
    BY <1>3 DEF Return, Returned
  <2>2. OtherTypesOK'
    BY <1>3, <2>1 DEF Sane, TypeOK, OtherTypesOK
  <2> QED
    BY <1>3, <2>2, ReadStep
<1>4. ASSUME NEW pos \in hits, d' = Removed(d, pos), ret' = Return("delete", {k}, TRUE, {EntryAt(d, pos)}),
             UNCHANGED <<dict_can_resize, unlinking, up>>
      PROVE  StaysSane
  <2>1. pos \in AllPositions(d)
    BY <1>1, <1>4, LookupType
  <2>2. GoodDict(Removed(d, pos)) /\ Removed(d, pos).pauseRehash = d.pauseRehash
    BY <1>1, <2>1, RemovedGood, PauseKept
  <2>3. EntryAt(d, pos) \in Entry
    BY <1>1, <2>1, EntryType DEF GoodDict
  <2>4. ret' \in Returned
    BY <1>4, <2>3 DEF Return, Returned
  <2>5. OtherTypesOK'
    BY <1>4, <2>4 DEF Sane, TypeOK, OtherTypesOK
  <2> QED
    BY <1>1, <1>4, <2>2, <2>5, QuietStep
<1> QED
  BY <1>2, <1>3, <1>4 DEF dictGenericDelete

\* dictTwoPhaseUnlinkFind leaves a sane dict sane, and the pauses of others alone.
LEMMA dictTwoPhaseUnlinkFindStaysSane ==
  ASSUME Sane, NEW k \in Key, dictTwoPhaseUnlinkFind(k)
  PROVE  StaysSane
<1> DEFINE hits == LookupHits(d, k)
           found == {EntryAt(d, pos) : pos \in hits}
           pause == IF hits = {} THEN d.pauseRehash ELSE d.pauseRehash + 1
           n == [d EXCEPT !.pauseRehash = pause]
<1>1. GoodDict(d) /\ unlinking = {} /\ d.pauseRehash \in Nat
  BY DEF Sane, dictTwoPhaseUnlinkFind, MayChange, GoodDict, StructOK
<1>2. CASE Stop("find", k)
  BY <1>2, StopStep
<1>3. CASE /\ ret' = Return("find", {k}, hits # {}, found)
           /\ unlinking' = hits /\ d' = n /\ UNCHANGED <<dict_can_resize, up>>
  <2>1. hits \subseteq AllPositions(d) /\ found \in SUBSET Entry /\ (hits # {} => Cardinality(hits) = 1)
    BY <1>1, LookupType
  <2>2. pause = d.pauseRehash + (IF hits = {} THEN 0 ELSE 1) /\ pause \in Nat
    BY <1>1
  <2>3. GoodDict(n) /\ AllPositions(n) = AllPositions(d) /\ n.pauseRehash = pause
    BY <1>1, <2>2, PausedGood
  <2> HIDE DEF hits, found, pause, n
  <2>4. ret' \in Returned
    BY <1>3, <2>1 DEF Return, Returned
  <2>5. TypeOK'
    BY <1>3, <2>1, <2>3, <2>4 DEF Sane, TypeOK, GoodDict
  <2>6. OneLink'
    BY <1>3, <2>1, FS_EmptySet DEF OneLink
  <2>7. OtherPauses' = OtherPauses
    <3>1. d'.pauseRehash = d.pauseRehash + (IF hits = {} THEN 0 ELSE 1)
      BY <1>3, <2>2, <2>3
    <3>2. Cardinality(unlinking) = 0 /\ Cardinality(unlinking') = IF hits = {} THEN 0 ELSE 1
      BY <1>1, <1>3, <2>1, FS_EmptySet
    <3> QED
      BY <1>1, <3>1, <3>2 DEF OtherPauses
  <2> QED
    BY <1>3, <2>3, <2>5, <2>6, <2>7 DEF Sane, StaysSane
<1> QED
  BY <1>2, <1>3 DEF dictTwoPhaseUnlinkFind

\* dictTwoPhaseUnlinkFree leaves a sane dict sane, and the pauses of others alone.
LEMMA dictTwoPhaseUnlinkFreeStaysSane ==
  ASSUME Sane, dictTwoPhaseUnlinkFree
  PROVE  StaysSane
<1>1. GoodDict(d) /\ unlinking' = {} /\ UNCHANGED <<dict_can_resize, up>>
  BY DEF Sane, dictTwoPhaseUnlinkFree
<1>2. PICK pos \in unlinking :
        /\ d' = [Removed(d, pos) EXCEPT !.pauseRehash = @ - 1]
        /\ ret' = Return("delete", {EntryAt(d, pos).key}, TRUE, {EntryAt(d, pos)})
  BY DEF dictTwoPhaseUnlinkFree
<1> DEFINE r == Removed(d, pos)
<1>3. Cardinality(unlinking) = 1 /\ d.pauseRehash \in Nat \ {0}
  BY <1>2 DEF Sane, OneLink, OtherPauses, GoodDict, StructOK
<1>4. pos \in AllPositions(d)
  BY <1>2 DEF Sane, TypeOK
<1>5. GoodDict(r) /\ r.pauseRehash = d.pauseRehash
  BY <1>1, <1>3, <1>4, RemovedGood, PauseKept
<1>6. EntryAt(d, pos) \in Entry
  BY <1>1, <1>4, EntryType DEF GoodDict
<1>7. d' = [r EXCEPT !.pauseRehash = r.pauseRehash - 1]
  BY <1>2
<1> HIDE DEF r
<1>8. d' = [r EXCEPT !.pauseRehash = d.pauseRehash - 1] /\ d.pauseRehash - 1 \in Nat
  BY <1>3, <1>5, <1>7
<1>9. GoodDict(d') /\ d'.pauseRehash = d.pauseRehash - 1
  BY <1>5, <1>8, PausedGood
<1>10. ret' \in Returned
  BY <1>2, <1>6 DEF Return, Returned, Entry
<1>11. TypeOK'
  BY <1>1, <1>9, <1>10 DEF Sane, TypeOK, GoodDict
<1>12. OneLink' /\ OtherPauses' = OtherPauses
  BY <1>1, <1>3, <1>9, FS_EmptySet DEF OtherPauses, OneLink
<1> QED
  BY <1>9, <1>11, <1>12 DEF Sane, StaysSane

\* A dict that is emptied is not paused.
LEMMA dictEmptyIsSane ==
  ASSUME Sane, dictEmpty
  PROVE  Sane' /\ OtherPauses' = 0
<1>1. d' = EmptyDict /\ unlinking' = {} /\ dict_can_resize' = dict_can_resize /\ up' \in BOOLEAN
  BY DEF dictEmpty, EmptyDict, MayChange
<1>2. GoodDict(d') /\ d'.pauseRehash = 0
  BY <1>1, EmptyDictGood DEF EmptyDict
<1>3. ret' \in Returned
  BY DEF dictEmpty, Return, Returned
<1>4. TypeOK'
  BY <1>1, <1>2, <1>3 DEF Sane, TypeOK, GoodDict
<1>5. OneLink' /\ OtherPauses' = 0
  BY <1>1, <1>2, FS_EmptySet DEF OtherPauses, OneLink
<1> QED
  BY <1>2, <1>4, <1>5 DEF Sane

\* Every operation but dictEmpty leaves the pauses of others alone.
LEMMA StepStaysSane ==
  ASSUME Sane, [Next]_vars, ~dictEmpty
  PROVE  StaysSane
<1>1. CASE \E size \in ExpandSizes, try, allocated \in BOOLEAN : dictExpand(size, try, allocated)
  BY <1>1, dictExpandStaysSane
<1>2. CASE \E allocated \in BOOLEAN : dictResize(allocated)
  BY <1>2, dictResizeStaysSane
<1>3. CASE \E policy \in Policies : dictSetResizeEnabled(policy)
  BY <1>3, dictSetResizeEnabledStaysSane
<1>4. CASE \E k \in Key, v \in Value : dictAdd(k, v)
  BY <1>4, dictAddStaysSane
<1>5. CASE \E k \in Key, v \in Value : dictReplace(k, v)
  BY <1>5, dictReplaceStaysSane
<1>6. CASE \E k \in Key, v \in Value : dictSetVal(k, v)
  BY <1>6, dictSetValStaysSane
<1>7. CASE \E k \in Key : dictFind(k)
  BY <1>7, dictFindStaysSane
<1>8. CASE \E k \in Key : dictFindEntryByPtrAndHash(k)
  BY <1>8, dictFindEntryByPtrAndHashStaysSane
<1>9. CASE \E k \in Key : dictGenericDelete(k)
  BY <1>9, dictGenericDeleteStaysSane
<1>10. CASE \E k \in Key : dictTwoPhaseUnlinkFind(k)
  BY <1>10, dictTwoPhaseUnlinkFindStaysSane
<1>11. CASE dictTwoPhaseUnlinkFree
  BY <1>11, dictTwoPhaseUnlinkFreeStaysSane
<1>12. CASE UNCHANGED vars
  BY <1>12, ReadStep DEF vars, Sane, TypeOK, OtherTypesOK
<1> QED
  BY <1>1, <1>2, <1>3, <1>4, <1>5, <1>6, <1>7, <1>8, <1>9, <1>10, <1>11, <1>12 DEF Next

\* The invariant is inductive: dictEmpty resets the pauses, no other step shifts them.
LEMMA NextIInv == IInv /\ [Next]_vars => IInv'
<1>1. IInv /\ [Next]_vars /\ ~dictEmpty => IInv'
  <2>1. IInv /\ [Next]_vars /\ ~dictEmpty => StaysSane
    BY StepStaysSane DEF IInv
  <2>2. Sane => (PauseBalanced <=> OtherPauses = 0)
    BY SaneNumbers DEF PauseBalanced, OtherPauses
  <2>3. Sane' => (PauseBalanced' <=> OtherPauses' = 0)
    BY SaneNumbersNext DEF PauseBalanced, OtherPauses
  <2> QED
    BY <2>1, <2>2, <2>3 DEF IInv, StaysSane
<1>2. IInv /\ dictEmpty => IInv'
  BY dictEmptyIsSane, SaneNumbersNext DEF IInv, PauseBalanced, OtherPauses
<1> QED
  BY <1>1, <1>2

\* The inductive invariant holds in every reachable state.
THEOREM Invariant == Spec => []IInv
  BY InitIInv, NextIInv, PTL DEF Spec

-----------------------------------------------------------------------------
(* The properties of the model, for every value of its constants.          *)

\* The variables have their types: every chain holds entries of the client and
\* the entry held between the phases of an unlink is still in the dict.
THEOREM TypeCorrect == Spec => []TypeOK
<1>1. IInv => TypeOK
  BY DEF IInv, Sane
<1> QED
  BY <1>1, Invariant, PTL

\* No key is stored twice, in whichever tables, whatever the hashes collide on
\* and whenever a resize starts.
THEOREM KeysStayUnique == Spec => []UniqueKeys
<1>1. IInv => UniqueKeys
  BY DEF IInv, Sane, GoodDict, UniqueKeys
<1> QED
  BY <1>1, Invariant, PTL

\* The counters of the two tables are the numbers of their entries.
THEOREM CountersExact == Spec => []UsedCounts
<1>1. IInv => UsedCounts
  BY DEF IInv, Sane, GoodDict, UsedCounts
<1> QED
  BY <1>1, Invariant, PTL

\* Every entry is where the next insertion of its key looks for it.
THEOREM EntriesInPlace == Spec => []Placement
<1>1. IInv => Placement
  BY DEF IInv, Sane, GoodDict, Placement
<1> QED
  BY <1>1, Invariant, PTL

\* The second table exists while a rehash is going on, and only then.
THEOREM TablesShaped == Spec => []TwoTables
<1>1. IInv => TwoTables
  BY DEF IInv, Sane, GoodDict, TwoTables
<1> QED
  BY <1>1, Invariant, PTL

\* Rehashing is paused exactly while an entry is about to be unlinked.
THEOREM PausesBalanced == Spec => []PauseBalanced
<1>1. IInv => PauseBalanced
  BY DEF IInv, Sane
<1> QED
  BY <1>1, Invariant, PTL

-----------------------------------------------------------------------------
(* Insertion during a rehash.                                              *)

\* There is nothing to grow, and a table to insert into.
LEMMA NoFaultInRehash ==
  ASSUME IInv, Rehashing(d), KeyCompare, NEW k, NEW allowed
  PROVE  ~InsertFaults(d, k, allowed) /\ ~GrowthRefused(d, allowed)
<1>1. NeededSize(d, allowed) = {}
  BY DEF NeededSize
<1>2. ExpandIfNeeded(d, allowed) = d
  BY <1>1 DEF ExpandIfNeeded
<1>3. d.ht_table[0] # NoTable
  BY DEF IInv, Sane, GoodDict, Shaped
<1> QED
  BY <1>1, <1>2, <1>3 DEF InsertFaults, GrowthRefused, DividesByZero

\* What is allocated is the entry of a key that neither table holds: a search
\* through the slots of an insertion misses no key.
LEMMA AllocationInRehash ==
  ASSUME IInv, Rehashing(d), NEW k \in Key, NEW allowed, Allocates(d, k, allowed)
  PROVE  k \notin KeysIn(d, 0) \union KeysIn(d, 1)
<1>1. NeededSize(d, allowed) = {} /\ ExpandIfNeeded(d, allowed) = d
  BY DEF NeededSize, ExpandIfNeeded
<1>2. Hits(d, k, InsertSlots(d, k)) = {}
  BY <1>1 DEF Allocates
<1>3. \A pos \in AllPositions(d) : EntryAt(d, pos).key # k
  BY <1>2, SearchComplete DEF IInv, Sane
<1> QED
  BY <1>3 DEF KeysIn, AllPositions

\* The process is stopped by a new key memory has no room for.
OutOfMemory ==
  \E k \in Key : ret' = Return("abort", {k}, FALSE, {}) /\ k \notin KeysIn(d, 0) \union KeysIn(d, 1)

\* A step that stops the process during a rehash, and is neither a look-up nor
\* a deletion, is the insertion of a key that is not stored, with memory out: no
\* table is allocated, and the search finds every key that is stored.
THEOREM InsertionSafe == Spec => InsertSafeInRehash
<1>1. IInv /\ [Next]_vars =>
        [Rehashing(d) /\ KeyCompare /\ ~up' /\ ret'.op \notin {"find", "delete", "empty"} => OutOfMemory]_up
  <2> SUFFICES ASSUME IInv, Next, Rehashing(d), KeyCompare, ret'.op \notin {"find", "delete", "empty"}
               PROVE  up' \/ up' = up \/ OutOfMemory
    BY DEF vars
  <2>1. ASSUME NEW k \in Key, NEW allowed, Allocates(d, k, allowed), Stop("abort", k)
        PROVE  OutOfMemory
    BY <2>1, AllocationInRehash DEF OutOfMemory, Stop
  <2>2. ASSUME NEW k \in Key, NEW v \in Value, dictAdd(k, v)
        PROVE  up' = up \/ OutOfMemory
    <3>1. PICK allowed \in ExpandAllowed :
            \/ UNCHANGED up
            \/ InsertFaults(d, k, allowed)
            \/ Allocates(d, k, allowed) /\ Stop("abort", k)
      BY <2>2 DEF dictAdd, AddRaw
    <3> QED
      BY <2>1, <3>1, NoFaultInRehash
  <2>3. ASSUME NEW k \in Key, NEW v \in Value, dictReplace(k, v)
        PROVE  up' = up \/ OutOfMemory
    <3>1. PICK allowed \in ExpandAllowed :
            \/ UNCHANGED up
            \/ InsertFaults(d, k, allowed) \/ GrowthRefused(d, allowed)
            \/ Allocates(d, k, allowed) /\ Stop("abort", k)
      BY <2>3 DEF dictReplace
    <3> QED
      BY <2>1, <3>1, NoFaultInRehash
  <2>4. CASE \E size \in ExpandSizes, try, allocated \in BOOLEAN : dictExpand(size, try, allocated)
    BY <2>4 DEF dictExpand, ExpandRefused
  <2>5. CASE dictEmpty
    BY <2>5 DEF Return, dictEmpty
  <2>6. CASE \E k \in Key : dictFind(k)
    BY <2>6 DEF Return, dictFind, Stop
  <2>7. CASE \E k \in Key : dictGenericDelete(k)
    BY <2>7 DEF Return, dictGenericDelete, Stop
  <2>8. CASE \E k \in Key : dictTwoPhaseUnlinkFind(k)
    BY <2>8 DEF Return, dictTwoPhaseUnlinkFind, Stop
  <2>9. CASE \/ \E allocated \in BOOLEAN : dictResize(allocated)
             \/ dictTwoPhaseUnlinkFree
             \/ \E policy \in Policies : dictSetResizeEnabled(policy)
             \/ \E k \in Key, v \in Value : dictSetVal(k, v)
             \/ \E k \in Key : dictFindEntryByPtrAndHash(k)
    BY <2>9 DEF dictResize, dictTwoPhaseUnlinkFree, dictSetResizeEnabled, dictSetVal, dictFindEntryByPtrAndHash
  <2> QED
    BY <2>2, <2>3, <2>4, <2>5, <2>6, <2>7, <2>8, <2>9 DEF Next
<1> QED
  BY <1>1, Invariant, PTL DEF Spec, InsertSafeInRehash, OutOfMemory

-----------------------------------------------------------------------------
(* What each operation does to the entries.                                *)

\* The entries of a table with their slots.
Items(ht, t) == {[slot |-> pos.slot, entry |-> EntryAt(ht, pos)] : pos \in Positions(ht, t)}

Item(i, e) == [slot |-> i, entry |-> e]

\* A dict with other entries in the same tables.
SameFrame(ht, n) ==
  /\ n.ht_size_exp = ht.ht_size_exp
  /\ n.reHashIdx = ht.reHashIdx
  /\ \A t \in 0..1 : DOMAIN n.ht_table[t] = DOMAIN ht.ht_table[t]

\* An item is an entry of a chain.
LEMMA ItemFacts ==
  ASSUME NEW ht, NEW t \in 0..1
  PROVE  \A x : x \in Items(ht, t) <=>
           \E i \in DOMAIN ht.ht_table[t] : \E p \in 1..Len(ht.ht_table[t][i]) :
             x = Item(i, ht.ht_table[t][i][p])
<1>1. ASSUME NEW x \in Items(ht, t)
      PROVE  \E i \in DOMAIN ht.ht_table[t] : \E p \in 1..Len(ht.ht_table[t][i]) :
               x = Item(i, ht.ht_table[t][i][p])
  <2>1. PICK pos \in Positions(ht, t) : x = [slot |-> pos.slot, entry |-> EntryAt(ht, pos)]
    BY DEF Items
  <2> QED
    BY <2>1, CoordinatesOf DEF Item
<1>2. ASSUME NEW i \in DOMAIN ht.ht_table[t], NEW p \in 1..Len(ht.ht_table[t][i])
      PROVE  Item(i, ht.ht_table[t][i][p]) \in Items(ht, t)
  <2> DEFINE pos == [table |-> t, slot |-> i, index |-> p]
  <2>1. pos \in Positions(ht, t) /\ EntryAt(ht, pos) = ht.ht_table[t][i][p] /\ pos.slot = i
    BY PositionAt
  <2> QED
    BY <2>1 DEF Items, Item
<1> QED
  BY <1>1, <1>2

\* The items of both tables are the entries, and their keys the keys.
LEMMA ItemsAre ==
  ASSUME NEW ht
  PROVE  /\ \A t : KeysIn(ht, t) = {x.entry.key : x \in Items(ht, t)}
         /\ Entries(ht) = {x.entry : x \in Items(ht, 0) \union Items(ht, 1)}
<1>0. /\ \A t : \A pos \in Positions(ht, t) : \E x \in Items(ht, t) : x.entry = EntryAt(ht, pos)
      /\ \A t : \A x \in Items(ht, t) : \E pos \in Positions(ht, t) : x.entry = EntryAt(ht, pos)
  <2>1. ASSUME NEW t, NEW pos \in Positions(ht, t)
        PROVE  \E x \in Items(ht, t) : x.entry = EntryAt(ht, pos)
    <3> DEFINE x == [slot |-> pos.slot, entry |-> EntryAt(ht, pos)]
    <3>1. x \in Items(ht, t) /\ x.entry = EntryAt(ht, pos)
      BY DEF Items
    <3> QED
      BY <3>1
  <2>2. ASSUME NEW t, NEW x \in Items(ht, t)
        PROVE  \E pos \in Positions(ht, t) : x.entry = EntryAt(ht, pos)
    BY DEF Items
  <2> QED
    BY <2>1, <2>2
<1>1. ASSUME NEW t PROVE KeysIn(ht, t) = {x.entry.key : x \in Items(ht, t)}
  <2>1. \A k : k \in KeysIn(ht, t) <=> \E pos \in Positions(ht, t) : k = EntryAt(ht, pos).key
    BY DEF KeysIn
  <2>2. \A k : k \in KeysIn(ht, t) <=> \E x \in Items(ht, t) : k = x.entry.key
    BY <1>0, <2>1
  <2> QED
    BY <2>2
<1>2. Entries(ht) = {x.entry : x \in Items(ht, 0) \union Items(ht, 1)}
  <2>1. \A e : e \in Entries(ht) <=> \E pos \in Positions(ht, 0) \union Positions(ht, 1) : e = EntryAt(ht, pos)
    BY DEF Entries, AllPositions
  <2>2. \A e : e \in Entries(ht) <=> \E x \in Items(ht, 0) \union Items(ht, 1) : e = x.entry
    BY <1>0, <2>1
  <2> QED
    BY <2>2
<1> QED
  BY <1>1, <1>2

\* Dicts with the same entries at the same positions have the same items.
LEMMA SameItems ==
  ASSUME NEW ht, NEW n, NEW t, Positions(n, t) = Positions(ht, t),
         \A pos \in Positions(ht, t) : EntryAt(n, pos) = EntryAt(ht, pos)
  PROVE  Items(n, t) = Items(ht, t)
BY DEF Items

\* One position has one item, and one key.
LEMMA ItemsDistinct ==
  ASSUME NEW ht, KeysDistinct(ht), NEW t \in 0..1, NEW u \in 0..1,
         NEW x \in Items(ht, t), NEW y \in Items(ht, u), x.entry.key = y.entry.key
  PROVE  t = u /\ x = y
<1>1. PICK p \in Positions(ht, t) : x = [slot |-> p.slot, entry |-> EntryAt(ht, p)]
  BY DEF Items
<1>2. PICK q \in Positions(ht, u) : y = [slot |-> q.slot, entry |-> EntryAt(ht, q)]
  BY DEF Items
<1>3. p \in AllPositions(ht) /\ q \in AllPositions(ht)
  BY DEF AllPositions
<1>4. p = q
  BY <1>1, <1>2, <1>3 DEF KeysDistinct
<1> QED
  BY <1>1, <1>2, <1>4, CoordinatesOf

\* Items are in slots of their table.
LEMMA ItemType ==
  ASSUME NEW ht, GoodDict(ht), NEW t \in 0..1, NEW x \in Items(ht, t)
  PROVE  /\ x = Item(x.slot, x.entry) /\ x.slot \in DOMAIN ht.ht_table[t] /\ x.entry \in Entry
         /\ x.slot = InsertSlot(Hash[x.entry.key], ht.ht_size_exp[t])
<1>1. PICK p \in Positions(ht, t) : x = [slot |-> p.slot, entry |-> EntryAt(ht, p)]
  BY DEF Items
<1>2. p \in AllPositions(ht)
  BY DEF AllPositions
<1>3. EntryAt(ht, p) \in Entry
  BY <1>2, EntryType DEF GoodDict
<1>4. p.slot \in DOMAIN ht.ht_table[t]
  BY CoordinatesOf
<1>5. p.slot = InsertSlot(Hash[EntryAt(ht, p).key], ht.ht_size_exp[t])
  BY DEF GoodDict, Placed
<1> QED
  BY <1>1, <1>3, <1>4, <1>5 DEF Item

\* Growing moves no entry.
LEMMA ExpandedItems ==
  ASSUME NEW ht, GoodDict(ht), NEW size, ~ExpandRefused(ht, size)
  PROVE  \A t \in 0..1 : Items(Expanded(ht, size), t) = Items(ht, t)
<1> DEFINE n == Expanded(ht, size)
<1>1. /\ AllPositions(n) = AllPositions(ht)
      /\ \A pos \in AllPositions(ht) : EntryAt(n, pos) = EntryAt(ht, pos)
  BY ExpandedGood
<1> HIDE DEF n
<1>2. ASSUME NEW t \in 0..1, NEW m, NEW pos
      PROVE  pos \in Positions(m, t) <=> pos \in AllPositions(m) /\ pos.table = t
  BY CoordinatesOf DEF AllPositions
<1>3. ASSUME NEW t \in 0..1 PROVE Positions(n, t) = Positions(ht, t)
  <2>1. \A pos : pos \in Positions(n, t) <=> pos \in AllPositions(n) /\ pos.table = t
    BY <1>2
  <2>2. \A pos : pos \in Positions(ht, t) <=> pos \in AllPositions(ht) /\ pos.table = t
    BY <1>2
  <2> QED
    BY <1>1, <2>1, <2>2
<1>4. \A t \in 0..1 : \A pos \in Positions(ht, t) : EntryAt(n, pos) = EntryAt(ht, pos)
  BY <1>1, <1>2
<1> QED
  BY <1>3, <1>4, SameItems DEF n

\* n is ht with other bookkeeping.
TablesKept(ht, n) ==
  /\ SameFrame(ht, n) /\ n.ht_used = ht.ht_used
  /\ \A t \in 0..1 : Items(n, t) = Items(ht, t) /\ n.ht_table[t] = ht.ht_table[t]

\* A pause moves no entry either.
LEMMA PausedItems ==
  ASSUME NEW ht, GoodDict(ht), NEW x, NEW n, n = [ht EXCEPT !.pauseRehash = x]
  PROVE  TablesKept(ht, n)
<1>1. n.ht_table = ht.ht_table /\ n.ht_used = ht.ht_used /\ n.ht_size_exp = ht.ht_size_exp
      /\ n.reHashIdx = ht.reHashIdx
  BY DEF GoodDict, StructOK
<1>2. ASSUME NEW t \in 0..1 PROVE Items(n, t) = Items(ht, t)
  <2>1. ht.ht_table[t] = n.ht_table[t]
    BY <1>1
  <2>2. Positions(ht, t) = Positions(n, t)
    BY <2>1, SamePositions
  <2>3. \A pos \in Positions(ht, t) : EntryAt(n, pos) = EntryAt(ht, pos)
    BY <1>1 DEF EntryAt
  <2> QED
    BY <2>2, <2>3, SameItems
<1> QED
  BY <1>1, <1>2 DEF SameFrame, TablesKept

\* n is ht with entry e added to chain i of table t.
EntryAdded(ht, n, t, i, e) ==
  /\ SameFrame(ht, n)
  /\ \A u \in 0..1 : Items(n, u) = Items(ht, u) \union (IF u = t THEN {Item(i, e)} ELSE {})
  /\ \A u \in 0..1 : \A j \in DOMAIN ht.ht_table[u] :
       n.ht_table[u][j] = IF u = t /\ j = i THEN <<e>> \o ht.ht_table[u][j] ELSE ht.ht_table[u][j]
  /\ n.ht_used = [ht.ht_used EXCEPT ![t] = @ + 1]

\* Prepending adds one item.
LEMMA PrependedItems ==
  ASSUME NEW ht, GoodDict(ht), NEW t \in 0..1, NEW i \in DOMAIN ht.ht_table[t], NEW e \in Entry,
         NEW n, n = Prepended(ht, t, i, e)
  PROVE  EntryAdded(ht, n, t, i, e)
<1> DEFINE s == ht.ht_table[t][i]
<1>0. StructOK(ht)
  BY DEF GoodDict
<1>1. /\ n.ht_size_exp = ht.ht_size_exp /\ n.reHashIdx = ht.reHashIdx
      /\ \A u \in 0..1 : /\ DOMAIN n.ht_table[u] = DOMAIN ht.ht_table[u]
                         /\ \A j \in DOMAIN ht.ht_table[u] :
                              n.ht_table[u][j] = IF u = t /\ j = i THEN <<e>> \o s ELSE ht.ht_table[u][j]
  <2>1. EntryInFront(ht, n, t, i, e)
    BY <1>0, PrependedFields
  <2> QED
    BY <2>1 DEF EntryInFront
<1>2. s \in Seq(Entry)
  BY <1>0, TableFacts DEF StructOK
<1>3. n.ht_used = [ht.ht_used EXCEPT ![t] = @ + 1]
  BY <1>0 DEF Prepended, StructOK
<1> HIDE DEF s
<1>4. /\ Len(s) \in Nat /\ Len(<<e>> \o s) = Len(s) + 1
      /\ \A p \in 1..(Len(s) + 1) : (<<e>> \o s)[p] = IF p = 1 THEN e ELSE s[p - 1]
  BY <1>2, PrependSeq
<1>5. \A u \in 0..1 : Items(n, u) = Items(ht, u) \union (IF u = t THEN {Item(i, e)} ELSE {})
  <2>1. ASSUME NEW u \in 0..1, NEW x \in Items(n, u)
        PROVE  x \in Items(ht, u) \/ (u = t /\ x = Item(i, e))
    <3>1. PICK j, p : j \in DOMAIN ht.ht_table[u] /\ p \in 1..Len(n.ht_table[u][j]) /\ x = Item(j, n.ht_table[u][j][p])
      BY <1>1, ItemFacts
    <3>2. CASE u = t /\ j = i
      <4>1. n.ht_table[u][j] = <<e>> \o s /\ p \in 1..(Len(s) + 1)
        <5>1. n.ht_table[u][j] = <<e>> \o s
          BY <1>1, <3>1, <3>2
        <5> QED
          BY <1>4, <3>1, <5>1
      <4>2. CASE p = 1
        BY <1>4, <3>1, <3>2, <4>1, <4>2
      <4>3. CASE p # 1
        <5>1. p - 1 \in 1..Len(s) /\ x = Item(j, ht.ht_table[u][j][p - 1])
          BY <1>4, <3>1, <3>2, <4>1, <4>3 DEF s
        <5> QED
          BY <3>2, <5>1, ItemFacts DEF s
      <4> QED
        BY <4>2, <4>3
    <3>3. CASE ~(u = t /\ j = i)
      BY <1>1, <3>1, <3>3, ItemFacts
    <3> QED
      BY <3>2, <3>3
  <2>2. ASSUME NEW u \in 0..1, NEW x \in Items(ht, u)
        PROVE  x \in Items(n, u)
    <3>1. PICK j, p : j \in DOMAIN ht.ht_table[u] /\ p \in 1..Len(ht.ht_table[u][j]) /\ x = Item(j, ht.ht_table[u][j][p])
      BY ItemFacts
    <3>2. CASE u = t /\ j = i
      <4>1. n.ht_table[u][j] = <<e>> \o s /\ p \in 1..Len(s) /\ x = Item(j, s[p])
        BY <1>1, <3>1, <3>2 DEF s
      <4>2. PICK q : q = p + 1
        OBVIOUS
      <4>3. q \in 1..(Len(s) + 1) /\ q # 1 /\ q - 1 = p
        BY <1>4, <4>1, <4>2
      <4>4. q \in 1..Len(n.ht_table[u][j]) /\ n.ht_table[u][j][q] = s[p]
        BY <1>4, <4>1, <4>3
      <4>5. x = Item(j, n.ht_table[u][j][q]) /\ j \in DOMAIN n.ht_table[u]
        BY <1>1, <3>1, <4>1, <4>4
      <4> QED
        BY <4>4, <4>5, ItemFacts
    <3>3. CASE ~(u = t /\ j = i)
      BY <1>1, <3>1, <3>3, ItemFacts
    <3> QED
      BY <3>2, <3>3
  <2>3. Item(i, e) \in Items(n, t)
    <3>1. 1 \in 1..Len(n.ht_table[t][i]) /\ n.ht_table[t][i][1] = e
      <4>1. n.ht_table[t][i] = <<e>> \o s
        BY <1>1
      <4> QED
        BY <1>4, <4>1
    <3> QED
      BY <1>1, <3>1, ItemFacts
  <2> QED
    BY <2>1, <2>2, <2>3
<1> QED
  BY <1>1, <1>3, <1>5 DEF SameFrame, EntryAdded, s

\* n is ht without entry g of s, its chain i of table t.
EntryTaken(ht, n, t, i, s, g) ==
  /\ SameFrame(ht, n)
  /\ s \in Seq(Entry) /\ Len(s) \in Nat /\ g \in Nat
  /\ n.ht_table[t][i] = RemoveAt(s, g)
  /\ Len(n.ht_table[t][i]) = Len(s) - 1
  /\ \A p \in 1..(Len(s) - 1) : n.ht_table[t][i][p] = IF p < g THEN s[p] ELSE s[p + 1]
  /\ \A w \in 0..1 : \A j \in DOMAIN ht.ht_table[w] :
       ~(w = t /\ j = i) => n.ht_table[w][j] = ht.ht_table[w][j]
  /\ n.ht_used = [ht.ht_used EXCEPT ![t] = @ - 1]

\* What Removed changes of a struct dict.
LEMMA RemovedFields ==
  ASSUME NEW ht, GoodDict(ht), NEW t \in 0..1, NEW i \in DOMAIN ht.ht_table[t],
         NEW s, s = ht.ht_table[t][i], NEW g \in 1..Len(s),
         NEW gone, gone = [table |-> t, slot |-> i, index |-> g], NEW n, n = Removed(ht, gone)
  PROVE  EntryTaken(ht, n, t, i, s, g)
<1>1. StructOK(ht) /\ Shaped(ht) /\ gone \in AllPositions(ht)
  BY PositionAt DEF GoodDict
<1>2. s \in Seq(Entry) /\ Len(s) \in Nat
  <2>1. s \in Seq(Entry)
    BY <1>1, TableFacts DEF StructOK
  <2> QED
    BY <2>1
<1>3. PICK c : c = RemoveAt(s, g)
  OBVIOUS
<1>4. /\ c \in Seq(Entry) /\ Len(c) = Len(s) - 1
      /\ \A p \in 1..(Len(s) - 1) : c[p] = IF p < g THEN s[p] ELSE s[p + 1]
  BY <1>2, <1>3, RemoveAtSeq
<1>5. /\ n.ht_table = [ht.ht_table EXCEPT ![t] = [ht.ht_table[t] EXCEPT ![i] = c]]
      /\ n.ht_used = [ht.ht_used EXCEPT ![t] = @ - 1]
      /\ n.ht_size_exp = ht.ht_size_exp
      /\ n.reHashIdx = ht.reHashIdx
      /\ DOMAIN n = DOMAIN ht
  BY <1>1, <1>3 DEF Removed, StructOK
<1>6. GoodDict(n)
  BY <1>1, RemovedGood
<1>7. ChainReplaced(ht, n, t, i, c)
  BY <1>5, <1>6 DEF ChainReplaced, GoodDict, StructOK
<1>8. /\ \A u \in 0..1 : DOMAIN n.ht_table[u] = DOMAIN ht.ht_table[u]
      /\ \A u \in 0..1 : \A j \in DOMAIN ht.ht_table[u] :
           n.ht_table[u][j] = IF u = t /\ j = i THEN c ELSE ht.ht_table[u][j]
  BY <1>1, <1>4, <1>7, ChainReplacedShape
<1>9. n.ht_table[t][i] = c
  BY <1>8
<1>10. SameFrame(ht, n)
  BY <1>5, <1>8 DEF SameFrame
<1>11. n.ht_table[t][i] = RemoveAt(s, g)
  BY <1>3, <1>9
<1>12. Len(n.ht_table[t][i]) = Len(s) - 1
  BY <1>4, <1>9
<1>13. \A p \in 1..(Len(s) - 1) : n.ht_table[t][i][p] = IF p < g THEN s[p] ELSE s[p + 1]
  BY <1>4, <1>9
<1>14. \A w \in 0..1 : \A j \in DOMAIN ht.ht_table[w] :
         ~(w = t /\ j = i) => n.ht_table[w][j] = ht.ht_table[w][j]
  BY <1>8
<1>15. n.ht_used = [ht.ht_used EXCEPT ![t] = @ - 1]
  BY <1>5
<1> QED
  BY <1>2, <1>10, <1>11, <1>12, <1>13, <1>14, <1>15 DEF EntryTaken

\* Unlinking takes one item away.
LEMMA RemovedItems ==
  ASSUME NEW ht, GoodDict(ht), NEW t \in 0..1, NEW i \in DOMAIN ht.ht_table[t],
         NEW s, s = ht.ht_table[t][i], NEW g \in 1..Len(s),
         NEW gone, gone = [table |-> t, slot |-> i, index |-> g], NEW n, n = Removed(ht, gone)
  PROVE  \A u \in 0..1 : Items(n, u) = Items(ht, u) \ (IF u = t THEN {Item(i, s[g])} ELSE {})
<1>0. EntryTaken(ht, n, t, i, s, g)
  BY RemovedFields
<1>1. /\ SameFrame(ht, n)
      /\ s \in Seq(Entry) /\ Len(s) \in Nat /\ g \in Nat
      /\ Len(n.ht_table[t][i]) = Len(s) - 1
      /\ \A p \in 1..(Len(s) - 1) : n.ht_table[t][i][p] = IF p < g THEN s[p] ELSE s[p + 1]
      /\ \A w \in 0..1 : \A j \in DOMAIN ht.ht_table[w] :
           ~(w = t /\ j = i) => n.ht_table[w][j] = ht.ht_table[w][j]
      /\ n.ht_used = [ht.ht_used EXCEPT ![t] = @ - 1]
  BY <1>0 DEF EntryTaken
<1>2. KeysDistinct(ht) /\ \A u \in 0..1 : DOMAIN n.ht_table[u] = DOMAIN ht.ht_table[u]
  BY <1>1 DEF GoodDict, SameFrame
<1>3. ASSUME NEW u \in 0..1, NEW x \in Items(n, u)
      PROVE  x \in Items(ht, u) /\ ~(u = t /\ x = Item(i, s[g]))
  <2>1. PICK j, p : j \in DOMAIN ht.ht_table[u] /\ p \in 1..Len(n.ht_table[u][j]) /\ x = Item(j, n.ht_table[u][j][p])
    BY <1>2, ItemFacts
  <2>2. CASE u = t /\ j = i
    <3>1. PICK q \in 1..Len(s) : q # g /\ n.ht_table[u][j][p] = s[q]
      <4>1. p \in 1..(Len(s) - 1) /\ p \in Nat
        BY <1>1, <2>1, <2>2
      <4>2. CASE p < g
        BY <1>1, <2>2, <4>1, <4>2
      <4>3. CASE ~(p < g)
        <5>1. p + 1 \in 1..Len(s) /\ p + 1 # g
          BY <1>1, <4>1, <4>3
        <5> QED
          BY <1>1, <2>2, <4>1, <4>3, <5>1
      <4> QED
        BY <4>2, <4>3
    <3>2. x \in Items(ht, u)
      BY <2>1, <2>2, <3>1, ItemFacts
    <3>3. s[q].key # s[g].key
      BY <1>2, <3>1, DistinctCoordinates DEF SameKeyAt
    <3> QED
      BY <2>1, <3>1, <3>2, <3>3 DEF Item
  <2>3. CASE ~(u = t /\ j = i)
    BY <1>1, <2>1, <2>3, ItemFacts DEF Item
  <2> QED
    BY <2>2, <2>3
<1>4. ASSUME NEW u \in 0..1, NEW x \in Items(ht, u), ~(u = t /\ x = Item(i, s[g]))
      PROVE  x \in Items(n, u)
  <2>1. PICK j, p : j \in DOMAIN ht.ht_table[u] /\ p \in 1..Len(ht.ht_table[u][j]) /\ x = Item(j, ht.ht_table[u][j][p])
    BY ItemFacts
  <2>2. CASE u = t /\ j = i
    <3>1. p # g /\ p \in 1..Len(s) /\ p \in Nat
      BY <1>1, <1>4, <2>1, <2>2
    <3>2. PICK q \in 1..(Len(s) - 1) : n.ht_table[t][i][q] = s[p]
      <4>1. CASE p < g
        <5>1. p \in 1..(Len(s) - 1)
          BY <1>1, <3>1, <4>1
        <5> QED
          BY <1>1, <4>1, <5>1
      <4>2. CASE ~(p < g)
        <5>1. PICK q : q = p - 1
          OBVIOUS
        <5>2. q \in 1..(Len(s) - 1) /\ ~(q < g) /\ q + 1 = p
          BY <1>1, <3>1, <4>2, <5>1
        <5> QED
          BY <1>1, <5>2
      <4> QED
        BY <4>1, <4>2
    <3>3. x = Item(j, n.ht_table[u][j][q]) /\ j \in DOMAIN n.ht_table[u]
      BY <1>2, <2>1, <2>2, <3>2
    <3>4. q \in 1..Len(n.ht_table[u][j])
      BY <1>1, <2>2, <3>2
    <3> QED
      BY <3>3, <3>4, ItemFacts
  <2>3. CASE ~(u = t /\ j = i)
    BY SMTT(30), <1>1, <1>2, <2>1, <2>3, ItemFacts
  <2> QED
    BY <2>2, <2>3
<1> QED
  BY <1>3, <1>4

\* n is ht with value v in the entry at pos.
ValueStored(ht, n, pos, v) ==
  /\ SameFrame(ht, n) /\ n.ht_used = ht.ht_used
  /\ \A w \in 0..1 : Positions(n, w) = Positions(ht, w)
  /\ \A q \in AllPositions(ht) :
       EntryAt(n, q) = IF q = pos THEN [key |-> EntryAt(ht, pos).key, val |-> v] ELSE EntryAt(ht, q)
  /\ \A w \in 0..1 : \A j \in DOMAIN ht.ht_table[w] :
       /\ Len(n.ht_table[w][j]) = Len(ht.ht_table[w][j])
       /\ \A p \in 1..Len(ht.ht_table[w][j]) : n.ht_table[w][j][p].key = ht.ht_table[w][j][p].key

\* Storing a value changes the entry at one position.
LEMMA WithValAt ==
  ASSUME NEW ht, GoodDict(ht), NEW pos \in AllPositions(ht), NEW v \in Value, NEW n, n = WithVal(ht, pos, v)
  PROVE  ValueStored(ht, n, pos, v)
<1> DEFINE t == pos.table
           i == pos.slot
           g == pos.index
           s == ht.ht_table[t][i]
           c == [s EXCEPT ![g].val = v]
<1>1. StructOK(ht) /\ Shaped(ht)
  BY DEF GoodDict
<1>2. PICK u \in 0..1 : pos \in Positions(ht, u)
  BY DEF AllPositions
<1>3. /\ t \in 0..1 /\ i \in DOMAIN ht.ht_table[t] /\ g \in 1..Len(s)
      /\ pos = [table |-> t, slot |-> i, index |-> g] /\ EntryAt(ht, pos) = s[g]
  BY <1>2, CoordinatesOf
<1>4. s \in Seq(Entry)
  BY <1>1, <1>3, TableFacts DEF StructOK
<1>5. /\ c \in Seq(Entry)
      /\ Len(c) = Len(s)
      /\ \A p \in 1..Len(s) : c[p] = IF p = g THEN [key |-> s[g].key, val |-> v] ELSE s[p]
  <2>1. s[g] \in Entry
    BY <1>3, <1>4
  <2>2. [s[g] EXCEPT !.val = v] = [key |-> s[g].key, val |-> v] /\ [s[g] EXCEPT !.val = v] \in Entry
    <3>1. ASSUME NEW x \in Entry PROVE [x EXCEPT !.val = v] = [key |-> x.key, val |-> v]
      BY DEF Entry
    <3>2. [s[g] EXCEPT !.val = v] = [key |-> s[g].key, val |-> v]
      BY <2>1, <3>1
    <3>3. s[g].key \in Key
      BY <2>1 DEF Entry
    <3> QED
      BY <3>2, <3>3 DEF Entry
  <2>3. c = [s EXCEPT ![g] = [s[g] EXCEPT !.val = v]]
    OBVIOUS
  <2> HIDE DEF c, s, g
  <2> QED
    BY <1>3, <1>4, <2>2, <2>3
<1>6. /\ n.ht_table = [ht.ht_table EXCEPT ![t] = [ht.ht_table[t] EXCEPT ![i] = c]]
      /\ n.ht_used = ht.ht_used
      /\ n.ht_size_exp = ht.ht_size_exp
      /\ n.reHashIdx = ht.reHashIdx
      /\ n.pauseRehash = ht.pauseRehash
      /\ DOMAIN n = DOMAIN ht
  BY <1>1 DEF WithVal, StructOK
<1> HIDE DEF c, g, i, t, s
<1>7. ChainReplaced(ht, n, t, i, c)
  BY <1>1, <1>6 DEF ChainReplaced, StructOK
<1>8. /\ \A w \in 0..1 : DOMAIN n.ht_table[w] = DOMAIN ht.ht_table[w]
      /\ \A w \in 0..1 : \A j \in DOMAIN ht.ht_table[w] :
           n.ht_table[w][j] = IF w = t /\ j = i THEN c ELSE ht.ht_table[w][j]
  BY <1>1, <1>3, <1>5, <1>7, ChainReplacedShape
<1>9. SameFrame(ht, n)
  BY <1>6, <1>8 DEF SameFrame
<1>k. ASSUME NEW w \in 0..1, NEW j \in DOMAIN ht.ht_table[w]
      PROVE  /\ Len(n.ht_table[w][j]) = Len(ht.ht_table[w][j])
             /\ \A p \in 1..Len(ht.ht_table[w][j]) : n.ht_table[w][j][p].key = ht.ht_table[w][j][p].key
  <2>1. CASE w = t /\ j = i
    BY <1>5, <1>8, <2>1 DEF s
  <2>2. CASE ~(w = t /\ j = i)
    BY <1>8, <2>2
  <2> QED
    BY <2>1, <2>2
<1>10. ASSUME NEW w \in 0..1
       PROVE  Positions(n, w) = Positions(ht, w)
  BY <1>8, <1>k, SameLengths
<1>11. ASSUME NEW q \in AllPositions(ht)
       PROVE  EntryAt(n, q) = IF q = pos THEN [key |-> EntryAt(ht, pos).key, val |-> v] ELSE EntryAt(ht, q)
  <2>1. PICK w \in 0..1 : q \in Positions(ht, w)
    BY DEF AllPositions
  <2>2. /\ q.table = w /\ q.slot \in DOMAIN ht.ht_table[w] /\ q.index \in 1..Len(ht.ht_table[w][q.slot])
        /\ q = [table |-> w, slot |-> q.slot, index |-> q.index]
        /\ EntryAt(ht, q) = ht.ht_table[w][q.slot][q.index]
    BY <2>1, CoordinatesOf
  <2>3. EntryAt(n, q) = n.ht_table[w][q.slot][q.index]
    BY <2>2 DEF EntryAt
  <2>4. CASE w = t /\ q.slot = i
    <3>1. n.ht_table[w][q.slot] = c /\ ht.ht_table[w][q.slot] = s
      BY <1>8, <2>2, <2>4 DEF s
    <3>2. q = pos <=> q.index = g
      BY <1>3, <2>2, <2>4 DEF g
    <3> QED
      BY <1>3, <1>5, <2>2, <2>3, <3>1, <3>2
  <2>5. CASE ~(w = t /\ q.slot = i)
    <3>1. q # pos
      BY <1>3, <2>2, <2>5 DEF t, i
    <3> QED
      BY <1>8, <2>2, <2>3, <2>5, <3>1
  <2> QED
    BY <2>4, <2>5
<1> QED
  BY <1>6, <1>9, <1>k, <1>10, <1>11 DEF ValueStored

\* Inserting adds one item, in the table that takes insertions.
LEMMA InsertedItems ==
  ASSUME NEW ht, GoodDict(ht), ht.ht_table[0] # NoTable, NEW e \in Entry, NEW n, n = Inserted(ht, e)
  PROVE  \E i : EntryAdded(ht, n, InsertTable(ht), i, e)
<1>1. e.key \in Key
  BY DEF Entry
<1>2. PICK t : t = InsertTable(ht)
  OBVIOUS
<1>3. PICK i : i = InsertSlots(ht, e.key)[t]
  OBVIOUS
<1>4. t \in 0..1 /\ i \in DOMAIN ht.ht_table[t]
  BY <1>1, <1>2, <1>3, InsertSlotInTable
<1>5. n = Prepended(ht, t, i, e)
  BY <1>2, <1>3 DEF Inserted
<1>6. EntryAdded(ht, n, t, i, e)
  BY <1>4, <1>5, PrependedItems
<1> QED
  BY <1>2, <1>6

\* n is ht without the entry at pos.
EntryGone(ht, n, pos) ==
  /\ SameFrame(ht, n)
  /\ \A u \in 0..1 :
       Items(n, u) = Items(ht, u) \ (IF u = pos.table THEN {Item(pos.slot, EntryAt(ht, pos))} ELSE {})
  /\ \A u \in 0..1 : \A j \in DOMAIN ht.ht_table[u] :
       n.ht_table[u][j] = IF u = pos.table /\ j = pos.slot
                          THEN RemoveAt(ht.ht_table[u][j], pos.index) ELSE ht.ht_table[u][j]
  /\ n.ht_used = [ht.ht_used EXCEPT ![pos.table] = @ - 1]

\* Unlinking a position takes its item away.
LEMMA UnlinkedItems ==
  ASSUME NEW ht, GoodDict(ht), NEW pos \in AllPositions(ht), NEW n, n = Removed(ht, pos)
  PROVE  EntryGone(ht, n, pos)
<1>1. PICK t \in 0..1 : pos \in Positions(ht, t)
  BY DEF AllPositions
<1>2. PICK i, g : i = pos.slot /\ g = pos.index
  OBVIOUS
<1>3. PICK s : s = ht.ht_table[t][i]
  OBVIOUS
<1>4. /\ pos.table = t /\ i \in DOMAIN ht.ht_table[t] /\ g \in 1..Len(s)
      /\ pos = [table |-> t, slot |-> i, index |-> g] /\ EntryAt(ht, pos) = s[g]
  BY <1>1, <1>2, <1>3, CoordinatesOf
<1>5. EntryTaken(ht, n, t, i, s, g)
  BY <1>3, <1>4, RemovedFields
<1>6. \A u \in 0..1 : Items(n, u) = Items(ht, u) \ (IF u = t THEN {Item(i, s[g])} ELSE {})
  BY <1>3, <1>4, RemovedItems
<1>7. \A u \in 0..1 : \A j \in DOMAIN ht.ht_table[u] :
        n.ht_table[u][j] = IF u = t /\ j = i THEN RemoveAt(ht.ht_table[u][j], g) ELSE ht.ht_table[u][j]
  BY <1>3, <1>5 DEF EntryTaken
<1>8. SameFrame(ht, n) /\ n.ht_used = [ht.ht_used EXCEPT ![t] = @ - 1]
  BY <1>5 DEF EntryTaken
<1> QED
  BY <1>2, <1>4, <1>6, <1>7, <1>8 DEF EntryGone

\* A search hits iff a searched table has an item of the key in the slot.
LEMMA HitsAreItems ==
  ASSUME NEW ht, NEW k, NEW slots
  PROVE  Hits(ht, k, slots) # {} <=>
           \E t \in SearchedTables(ht) : \E x \in Items(ht, t) : x.slot = slots[t] /\ x.entry.key = k
<1>1. ASSUME NEW pos \in Hits(ht, k, slots)
      PROVE  \E t \in SearchedTables(ht) : \E x \in Items(ht, t) : x.slot = slots[t] /\ x.entry.key = k
  <2>1. PICK t \in SearchedTables(ht) : \E p \in KeyIndexes(ht, t, slots[t], k) :
          pos = [table |-> t, slot |-> slots[t], index |-> p]
    BY DEF Hits
  <2>2. PICK p \in KeyIndexes(ht, t, slots[t], k) : pos = [table |-> t, slot |-> slots[t], index |-> p]
    BY <2>1
  <2>3. /\ slots[t] \in DOMAIN ht.ht_table[t] /\ p \in 1..Len(ht.ht_table[t][slots[t]])
        /\ ht.ht_table[t][slots[t]][p].key = k /\ t \in 0..1
    BY <2>2 DEF KeyIndexes, SearchedTables
  <2>4. Item(slots[t], ht.ht_table[t][slots[t]][p]) \in Items(ht, t)
    BY <2>3, ItemFacts
  <2> QED
    BY <2>3, <2>4 DEF Item
<1>2. ASSUME NEW t \in SearchedTables(ht), NEW x \in Items(ht, t), x.slot = slots[t], x.entry.key = k
      PROVE  Hits(ht, k, slots) # {}
  <2>1. t \in 0..1
    BY DEF SearchedTables
  <2>2. PICK i, p : /\ i \in DOMAIN ht.ht_table[t] /\ p \in 1..Len(ht.ht_table[t][i])
                    /\ x = Item(i, ht.ht_table[t][i][p])
    BY <2>1, ItemFacts
  <2>3. i = slots[t] /\ p \in KeyIndexes(ht, t, slots[t], k)
    BY <1>2, <2>2 DEF Item, KeyIndexes
  <2>4. [table |-> t, slot |-> slots[t], index |-> p] \in Hits(ht, k, slots)
    BY <2>3 DEF Hits
  <2> QED
    BY <2>4
<1> QED
  BY <1>1, <1>2

\* A look-up asks the same when the items of the searched tables grow.
LEMMA StillHits ==
  ASSUME NEW ht, NEW n, NEW k, NEW slots, NEW slotsNext,
         \A t \in SearchedTables(ht) : t \in SearchedTables(n) /\ slotsNext[t] = slots[t],
         \A t \in SearchedTables(ht) : \A x \in Items(ht, t) :
           \E y \in Items(n, t) : y.slot = x.slot /\ y.entry.key = x.entry.key,
         Hits(ht, k, slots) # {}
  PROVE  Hits(n, k, slotsNext) # {}
<1>1. PICK t, x : t \in SearchedTables(ht) /\ x \in Items(ht, t) /\ x.slot = slots[t] /\ x.entry.key = k
  BY HitsAreItems
<1>2. PICK y \in Items(n, t) : y.slot = x.slot /\ y.entry.key = x.entry.key
  BY <1>1
<1>3. t \in SearchedTables(n) /\ y \in Items(n, t) /\ y.slot = slotsNext[t] /\ y.entry.key = k
  BY <1>1, <1>2
<1> QED
  BY <1>3, HitsAreItems

-----------------------------------------------------------------------------
(* What each step does to the entries.                                     *)

\* g is ht, or ht after a resize was started.
GrownFrom(ht, g) == g = ht \/ \E size : ~ExpandRefused(ht, size) /\ g = Expanded(ht, size)

\* n is ht with at most one entry added or one value stored.
ChangedFrom(ht, n) ==
  \/ TablesKept(ht, n)
  \/ \E i, e : EntryAdded(ht, n, InsertTable(ht), i, e)
  \/ \E pos \in AllPositions(ht) : \E v : ValueStored(ht, n, pos, v)

GrowthAllowed == ret'.op = "maintain" \/ dict_can_resize = "ENABLE"

EntryChange ==
  \/ dictEmpty
  \/ /\ ret'.op = "delete"
     /\ \E pos \in AllPositions(d) : ret'.key = {EntryAt(d, pos).key} /\ EntryGone(d, d', pos)
  \/ \E g : GrownFrom(d, g) /\ (g # d => GrowthAllowed) /\ ChangedFrom(g, d')

\* The result of an operation has a name, and names the keys it was called with.
LEMMA OpOfReturn ==
  \A op, ks, ok, found : Return(op, ks, ok, found).op = op /\ Return(op, ks, ok, found).key = ks
BY DEF Return

\* A dict whose tables are kept is unchanged as far as its entries go.
LEMMA QuietChange ==
  ASSUME d' = d
  PROVE  EntryChange
<1>1. TablesKept(d, d)
  BY DEF TablesKept, SameFrame
<1> QED
  BY <1>1 DEF EntryChange, GrownFrom, ChangedFrom

\* A dict resized by the growth before an insertion grew, if the policy let it.
LEMMA NeededGrowth ==
  ASSUME Sane, NEW allowed, ~GrowthRefused(d, allowed), NEW g, g = ExpandIfNeeded(d, allowed)
  PROVE  GrownFrom(d, g) /\ (g # d => dict_can_resize = "ENABLE")
<1>1. CASE NeededSize(d, allowed) = {}
  BY <1>1 DEF GrownFrom, ExpandIfNeeded
<1>2. CASE NeededSize(d, allowed) # {}
  <2>1. PICK size : size = CHOOSE s \in NeededSize(d, allowed) : TRUE
    OBVIOUS
  <2>2. size \in NeededSize(d, allowed)
    BY <1>2, <2>1
  <2>3. ~ExpandRefused(d, size)
    BY <2>2 DEF GrowthRefused
  <2>4. g = Expanded(d, size)
    BY <1>2, <2>1, <2>3 DEF ExpandIfNeeded, Expand
  <2>5. Size(d.ht_size_exp[0]) = 0
    BY DEF Sane, GoodDict, Shaped, Size
  <2>6. dict_can_resize = "ENABLE"
    BY <2>2, <2>5 DEF NeededSize
  <2> QED
    BY <2>3, <2>4, <2>6 DEF GrownFrom
<1> QED
  BY <1>1, <1>2

\* dictAdd grows the dict, if the policy lets it, and adds at most one entry.
LEMMA dictAddChange ==
  ASSUME Sane, NEW k \in Key, NEW v \in Value, dictAdd(k, v)
  PROVE  EntryChange
<1>1. GoodDict(d)
  BY DEF Sane
<1>2. PICK allowed \in ExpandAllowed : AddRaw(k, v, allowed) \/ Stop("add", k) \/ Stop("abort", k)
  BY DEF dictAdd
<1>3. CASE d' = d
  BY <1>3, QuietChange
<1>4. CASE d' # d
  <2>1. PICK grown, new : grown = ExpandIfNeeded(d, allowed) /\ new = [key |-> k, val |-> v]
    OBVIOUS
  <2>2. /\ ~InsertFaults(d, k, allowed) /\ ~GrowthRefused(d, allowed)
        /\ d' = grown \/ d' = Inserted(grown, new)
    BY <1>2, <1>4, <2>1 DEF AddRaw, Stop
  <2>3. GrownFrom(d, grown) /\ (grown # d => dict_can_resize = "ENABLE")
    BY <2>1, <2>2, NeededGrowth
  <2>4. CASE d' = grown
    <3>1. TablesKept(grown, d')
      BY <2>4 DEF TablesKept, SameFrame
    <3> QED
      BY <2>3, <3>1 DEF EntryChange, ChangedFrom, GrowthAllowed
  <2>5. CASE d' = Inserted(grown, new)
    <3>1. GoodDict(grown) /\ grown.ht_table[0] # NoTable
      BY <1>1, <2>1, <2>2, SafeGrowth
    <3>2. new \in Entry
      BY <2>1 DEF Entry
    <3>3. \E i : EntryAdded(grown, d', InsertTable(grown), i, new)
      BY <2>5, <3>1, <3>2, InsertedItems
    <3> QED
      BY <2>3, <3>3 DEF EntryChange, ChangedFrom, GrowthAllowed
  <2> QED
    BY <2>2, <2>4, <2>5
<1> QED
  BY <1>3, <1>4

\* dictReplace grows it likewise, and adds an entry or stores a value.
LEMMA dictReplaceChange ==
  ASSUME Sane, NEW k \in Key, NEW v \in Value, dictReplace(k, v)
  PROVE  EntryChange
<1>1. GoodDict(d)
  BY DEF Sane
<1>2. PICK allowed \in ExpandAllowed :
        LET grown == ExpandIfNeeded(d, allowed)
            existing == Hits(grown, k, InsertSlots(grown, k))
            new == [key |-> k, val |-> v]
        IN  \/ Stop("replace", k) \/ Stop("abort", k)
            \/ /\ ~InsertFaults(d, k, allowed) /\ ~GrowthRefused(d, allowed)
               /\ \/ d' = Inserted(grown, new)
                  \/ \E pos \in existing : d' = WithVal(grown, pos, v)
  BY DEF dictReplace
<1>3. CASE d' = d
  BY <1>3, QuietChange
<1>4. CASE d' # d
  <2>1. PICK grown, new : grown = ExpandIfNeeded(d, allowed) /\ new = [key |-> k, val |-> v]
    OBVIOUS
  <2>2. /\ ~InsertFaults(d, k, allowed) /\ ~GrowthRefused(d, allowed)
        /\ \/ d' = Inserted(grown, new)
           \/ \E pos \in Hits(grown, k, InsertSlots(grown, k)) : d' = WithVal(grown, pos, v)
    BY <1>2, <1>4, <2>1 DEF Stop
  <2>3. GrownFrom(d, grown) /\ (grown # d => dict_can_resize = "ENABLE")
    BY <2>1, <2>2, NeededGrowth
  <2>4. GoodDict(grown) /\ grown.ht_table[0] # NoTable
    BY <1>1, <2>1, <2>2, SafeGrowth
  <2>5. CASE d' = Inserted(grown, new)
    <3>2. new \in Entry
      BY <2>1 DEF Entry
    <3>3. \E i : EntryAdded(grown, d', InsertTable(grown), i, new)
      BY <2>4, <2>5, <3>2, InsertedItems
    <3> QED
      BY <2>3, <3>3 DEF EntryChange, ChangedFrom, GrowthAllowed
  <2>6. ASSUME NEW pos \in Hits(grown, k, InsertSlots(grown, k)), d' = WithVal(grown, pos, v)
        PROVE  EntryChange
    <3>1. pos \in AllPositions(grown)
      BY HitFacts
    <3>2. ValueStored(grown, d', pos, v)
      BY <2>4, <2>6, <3>1, WithValAt
    <3> QED
      BY <2>3, <3>1, <3>2 DEF EntryChange, ChangedFrom, GrowthAllowed
  <2> QED
    BY <2>2, <2>5, <2>6
<1> QED
  BY <1>3, <1>4

\* A resize moves no entry.
LEMMA ExpansionChange ==
  ASSUME NEW size, d' = d \/ (~ExpandRefused(d, size) /\ d' = Expanded(d, size) /\ ret'.op = "maintain")
  PROVE  EntryChange
<1>1. CASE d' = d
  BY <1>1, QuietChange
<1>2. CASE ~ExpandRefused(d, size) /\ d' = Expanded(d, size) /\ ret'.op = "maintain"
  <2>1. GrownFrom(d, d')
    BY <1>2 DEF GrownFrom
  <2>2. TablesKept(d', d')
    BY DEF TablesKept, SameFrame
  <2> QED
    BY <1>2, <2>1, <2>2 DEF EntryChange, ChangedFrom, GrowthAllowed
<1> QED
  BY <1>1, <1>2

\* Nor does a pause.
LEMMA PauseChange ==
  ASSUME GoodDict(d), NEW x, d' = [d EXCEPT !.pauseRehash = x]
  PROVE  EntryChange
<1>1. TablesKept(d, d')
  BY PausedItems
<1> QED
  BY <1>1 DEF EntryChange, GrownFrom, ChangedFrom

\* The second phase takes the entry out that the first one found.
LEMMA dictTwoPhaseUnlinkFreeChange ==
  ASSUME Sane, NEW pos \in unlinking, d' = [Removed(d, pos) EXCEPT !.pauseRehash = @ - 1]
  PROVE  EntryGone(d, d', pos)
<1>1. GoodDict(d) /\ pos \in AllPositions(d)
  BY DEF Sane, TypeOK
<1>2. PICK r : r = Removed(d, pos)
  OBVIOUS
<1>3. GoodDict(r) /\ EntryGone(d, r, pos)
  BY <1>1, <1>2, RemovedGood, UnlinkedItems
<1>4. TablesKept(r, d')
  <2>1. PICK x : x = r.pauseRehash - 1
    OBVIOUS
  <2>2. d' = [r EXCEPT !.pauseRehash = x]
    BY <1>2, <2>1
  <2> QED
    BY <1>3, <2>2, PausedItems
<1> QED
  BY <1>3, <1>4 DEF EntryGone, TablesKept, SameFrame

\* A step empties the dict, unlinks one entry, or keeps those there are.
LEMMA StepChange ==
  ASSUME Sane, [Next]_vars
  PROVE  EntryChange
<1>0. GoodDict(d)
  BY DEF Sane
<1>1. CASE \E size \in ExpandSizes, try, allocated \in BOOLEAN : dictExpand(size, try, allocated)
  BY <1>1, ExpansionChange, OpOfReturn DEF dictExpand
<1>2. CASE \E allocated \in BOOLEAN : dictResize(allocated)
  <2>1. PICK allocated \in BOOLEAN : dictResize(allocated)
    BY <1>2
  <2>2. PICK minimal : minimal = IF d.ht_used[0] < 4 THEN 4 ELSE d.ht_used[0]
    OBVIOUS
  <2>3. d' = d \/ (~ExpandRefused(d, minimal) /\ d' = Expanded(d, minimal))
    BY <2>1, <2>2 DEF dictResize
  <2>4. CASE d' # d
    <3>1. ret' = Return("maintain", {}, TRUE, {})
      BY <2>1, <2>4 DEF dictResize
    <3>2. ret'.op = "maintain"
      BY <3>1, OpOfReturn
    <3> QED
      BY <2>3, <2>4, <3>2, ExpansionChange
  <2> QED
    BY <2>4, QuietChange
<1>3. CASE \E policy \in Policies : dictSetResizeEnabled(policy)
  BY <1>3, QuietChange DEF dictSetResizeEnabled
<1>4. CASE \E k \in Key, v \in Value : dictAdd(k, v)
  BY <1>4, dictAddChange
<1>5. CASE \E k \in Key, v \in Value : dictReplace(k, v)
  BY <1>5, dictReplaceChange
<1>6. CASE \E k \in Key, v \in Value : dictSetVal(k, v)
  <2>1. PICK pos \in AllPositions(d), v \in Value : d' = WithVal(d, pos, v)
    BY <1>6 DEF dictSetVal
  <2>2. ValueStored(d, d', pos, v)
    BY <1>0, <2>1, WithValAt
  <2> QED
    BY <2>2 DEF EntryChange, GrownFrom, ChangedFrom
<1>7. CASE \E k \in Key : dictFind(k) \/ dictFindEntryByPtrAndHash(k)
  BY <1>7, QuietChange DEF dictFind, dictFindEntryByPtrAndHash, Stop
<1>8. CASE \E k \in Key : dictGenericDelete(k)
  <2>1. PICK k \in Key : dictGenericDelete(k)
    BY <1>8
  <2>2. CASE d' = d
    BY <2>2, QuietChange
  <2>3. CASE d' # d
    <3>1. PICK pos \in LookupHits(d, k) :
            d' = Removed(d, pos) /\ ret' = Return("delete", {k}, TRUE, {EntryAt(d, pos)})
      BY <2>1, <2>3 DEF dictGenericDelete, Stop
    <3>2. pos \in AllPositions(d) /\ EntryAt(d, pos).key = k
      BY HitFacts DEF LookupHits
    <3>3. EntryGone(d, d', pos)
      BY <1>0, <3>1, <3>2, UnlinkedItems
    <3>4. ret'.op = "delete" /\ ret'.key = {EntryAt(d, pos).key}
      BY <3>1, <3>2 DEF Return
    <3> QED
      BY <3>2, <3>3, <3>4 DEF EntryChange
  <2> QED
    BY <2>2, <2>3
<1>9. CASE \E k \in Key : dictTwoPhaseUnlinkFind(k)
  BY <1>0, <1>9, QuietChange, PauseChange DEF dictTwoPhaseUnlinkFind, Stop
<1>10. CASE dictTwoPhaseUnlinkFree
  <2>1. PICK pos \in unlinking :
          /\ d' = [Removed(d, pos) EXCEPT !.pauseRehash = @ - 1]
          /\ ret' = Return("delete", {EntryAt(d, pos).key}, TRUE, {EntryAt(d, pos)})
    BY <1>10 DEF dictTwoPhaseUnlinkFree
  <2>2. pos \in AllPositions(d)
    BY DEF Sane, TypeOK
  <2>3. ret'.op = "delete" /\ ret'.key = {EntryAt(d, pos).key}
    BY <2>1 DEF Return
  <2>4. EntryGone(d, d', pos)
    BY <1>0, <2>1, <2>2, dictTwoPhaseUnlinkFreeChange
  <2> QED
    BY <2>2, <2>3, <2>4 DEF EntryChange
<1>11. CASE dictEmpty
  BY <1>11 DEF EntryChange
<1>12. CASE UNCHANGED vars
  BY <1>12, QuietChange DEF vars
<1> QED
  BY <1>1, <1>2, <1>3, <1>4, <1>5, <1>6, <1>7, <1>8, <1>9, <1>10, <1>11, <1>12 DEF Next

-----------------------------------------------------------------------------
(* The action properties of the model.                                     *)

\* Every item of table t is in n, but for its value.
SameKeys(ht, n, t) ==
  \A x \in Items(ht, t) : \E y \in Items(n, t) : y.slot = x.slot /\ y.entry.key = x.entry.key

\* No table is replaced, the first one gains no key, the second loses but those
\* that are gone.
Drains(ht, n, gone) ==
  /\ Rehashing(n)
  /\ KeysIn(n, 0) \subseteq KeysIn(ht, 0)
  /\ KeysIn(ht, 1) \subseteq KeysIn(n, 1) \union gone
  /\ DOMAIN n.ht_table[1] = DOMAIN ht.ht_table[1]

\* The keys of a table are those of its items.
LEMMA FewerKeys ==
  ASSUME NEW ht, NEW n, NEW t, SameKeys(n, ht, t)
  PROVE  KeysIn(n, t) \subseteq KeysIn(ht, t)
<1>1. KeysIn(n, t) = {x.entry.key : x \in Items(n, t)} /\ KeysIn(ht, t) = {x.entry.key : x \in Items(ht, t)}
  BY ItemsAre
<1> QED
  BY <1>1 DEF SameKeys

\* The items of a dict in which a value was stored: the same, but for values.
LEMMA StoredItems ==
  ASSUME NEW ht, NEW n, NEW pos \in AllPositions(ht), NEW v, ValueStored(ht, n, pos, v), NEW t \in 0..1
  PROVE  /\ SameKeys(ht, n, t)
         /\ SameKeys(n, ht, t)
<1>1. \A q \in Positions(ht, t) : q \in AllPositions(ht)
  BY DEF AllPositions
<1>2. \A q \in Positions(ht, t) : EntryAt(n, q).key = EntryAt(ht, q).key
  BY <1>1 DEF ValueStored
<1>3. Positions(n, t) = Positions(ht, t)
  BY DEF ValueStored
<1>4. ASSUME NEW x \in Items(ht, t)
      PROVE  \E y \in Items(n, t) : y.slot = x.slot /\ y.entry.key = x.entry.key
  <2>1. PICK q \in Positions(ht, t) : x = [slot |-> q.slot, entry |-> EntryAt(ht, q)]
    BY DEF Items
  <2>2. [slot |-> q.slot, entry |-> EntryAt(n, q)] \in Items(n, t)
    BY <1>3, <2>1 DEF Items
  <2> QED
    BY <1>2, <2>1, <2>2
<1>5. ASSUME NEW y \in Items(n, t)
      PROVE  \E x \in Items(ht, t) : y.slot = x.slot /\ y.entry.key = x.entry.key
  <2>1. PICK q \in Positions(n, t) : y = [slot |-> q.slot, entry |-> EntryAt(n, q)]
    BY DEF Items
  <2>2. [slot |-> q.slot, entry |-> EntryAt(ht, q)] \in Items(ht, t)
    BY <1>3, <2>1 DEF Items
  <2> QED
    BY <1>2, <1>3, <2>1, <2>2
<1> QED
  BY <1>4, <1>5 DEF SameKeys

\* The items an insertion or a store leaves in place.
LEMMA ChangedItems ==
  ASSUME NEW ht, NEW n, ChangedFrom(ht, n), NEW t \in 0..1
  PROVE  /\ SameFrame(ht, n)
         /\ SameKeys(ht, n, t)
         /\ t # InsertTable(ht) => SameKeys(n, ht, t)
<1>1. CASE TablesKept(ht, n)
  BY <1>1 DEF TablesKept, SameKeys
<1>2. ASSUME NEW i, NEW e, EntryAdded(ht, n, InsertTable(ht), i, e)
      PROVE  /\ SameFrame(ht, n)
             /\ Items(ht, t) \subseteq Items(n, t)
             /\ t # InsertTable(ht) => Items(n, t) = Items(ht, t)
  BY <1>2 DEF EntryAdded
<1>3. ASSUME NEW pos \in AllPositions(ht), NEW v, ValueStored(ht, n, pos, v)
      PROVE  /\ SameFrame(ht, n)
             /\ SameKeys(ht, n, t)
             /\ SameKeys(n, ht, t)
  <2>1. SameFrame(ht, n)
    BY <1>3 DEF ValueStored
  <2>2. SameKeys(ht, n, t) /\ SameKeys(n, ht, t)
    BY <1>3, StoredItems
  <2> QED
    BY <2>1, <2>2
<1> QED
  BY <1>1, <1>2, <1>3 DEF ChangedFrom, SameKeys

\* An entry that is gone takes its key along, and no other.
LEMMA GoneItems ==
  ASSUME NEW ht, NEW n, NEW pos \in AllPositions(ht), EntryGone(ht, n, pos), NEW t \in 0..1, NEW x \in Items(ht, t),
         x.entry.key # EntryAt(ht, pos).key
  PROVE  x \in Items(n, t)
<1>1. x # Item(pos.slot, EntryAt(ht, pos))
  BY DEF Item
<1> QED
  BY <1>1 DEF EntryGone

\* While a rehash is going on, only dictEmpty ends it.
THEOREM RehashKeepsTables == Spec => OldTableDrains
<1>1. Sane /\ [Next]_vars =>
        [Rehashing(d) => \/ Drains(d, d', Deleted')
                         \/ ~Rehashing(d') /\ ret'.op = "empty"]_d
  <2> SUFFICES ASSUME Sane, [Next]_vars, Rehashing(d)
               PROVE  \/ Drains(d, d', Deleted')
                      \/ ~Rehashing(d') /\ ret'.op = "empty"
    OBVIOUS
  <2>1. EntryChange
    BY StepChange
  <2>2. CASE dictEmpty
    BY <2>2, OpOfReturn DEF dictEmpty, Rehashing
  <2>3. ASSUME NEW pos \in AllPositions(d), EntryGone(d, d', pos),
               ret'.op = "delete", ret'.key = {EntryAt(d, pos).key}
        PROVE  Drains(d, d', Deleted')
    <3>1. SameFrame(d, d') /\ SameKeys(d', d, 0)
      BY <2>3 DEF EntryGone, SameKeys
    <3>2. KeysIn(d', 0) \subseteq KeysIn(d, 0)
      BY <3>1, FewerKeys
    <3>3. Deleted' = {EntryAt(d, pos).key}
      BY <2>3 DEF Deleted
    <3>4. KeysIn(d, 1) = {x.entry.key : x \in Items(d, 1)} /\ KeysIn(d', 1) = {x.entry.key : x \in Items(d', 1)}
      BY ItemsAre
    <3>5. KeysIn(d, 1) \subseteq KeysIn(d', 1) \union Deleted'
      BY <2>3, <3>3, <3>4, GoneItems
    <3> QED
      BY <3>1, <3>2, <3>5 DEF Drains, SameFrame, Rehashing
  <2>4. ASSUME NEW g, GrownFrom(d, g), ChangedFrom(g, d') PROVE Drains(d, d', Deleted')
    <3>1. g = d
      BY <2>4 DEF GrownFrom, ExpandRefused
    <3>2. SameFrame(d, d') /\ InsertTable(d) = 1
      BY <2>4, <3>1, ChangedItems DEF InsertTable
    <3>3. SameKeys(d', d, 0) /\ SameKeys(d, d', 1)
      BY <2>4, <3>1, <3>2, ChangedItems DEF InsertTable
    <3>4. KeysIn(d', 0) \subseteq KeysIn(d, 0) /\ KeysIn(d, 1) \subseteq KeysIn(d', 1)
      BY <3>3, FewerKeys
    <3> QED
      BY <3>2, <3>4 DEF Drains, SameFrame, Rehashing
  <2> QED
    BY <2>1, <2>2, <2>3, <2>4 DEF EntryChange
<1>2. Spec => []Sane
  BY Invariant, PTL DEF IInv
<1> QED
  BY <1>1, <1>2, PTL DEF Spec, OldTableDrains, Drains

\* Under the policies that forbid growth no operation on a key allocates.
THEOREM PolicyGovernsGrowth == Spec => GrowthByPolicy
<1>1. Sane /\ [Next]_vars =>
        [ret'.op \notin {"maintain", "empty"} /\ dict_can_resize # "ENABLE"
           => \A t \in 0..1 : DOMAIN d'.ht_table[t] = DOMAIN d.ht_table[t]]_d
  <2> SUFFICES ASSUME Sane, [Next]_vars, ret'.op \notin {"maintain", "empty"}, dict_can_resize # "ENABLE"
               PROVE  SameFrame(d, d')
    BY DEF SameFrame
  <2>1. EntryChange
    BY StepChange
  <2>2. ~dictEmpty
    <3>1. dictEmpty => ret'.op = "empty"
      BY DEF dictEmpty, Return
    <3> QED
      BY <3>1
  <2>3. ASSUME NEW pos \in AllPositions(d), EntryGone(d, d', pos) PROVE SameFrame(d, d')
    BY <2>3 DEF EntryGone
  <2>4. ASSUME NEW g, g # d => GrowthAllowed, ChangedFrom(g, d') PROVE SameFrame(d, d')
    <3>1. g = d
      BY <2>4 DEF GrowthAllowed
    <3> QED
      BY <2>4, <3>1, ChangedItems
  <2> QED
    BY <2>1, <2>2, <2>3, <2>4 DEF EntryChange
<1>2. Spec => []Sane
  BY Invariant, PTL DEF IInv
<1> QED
  BY <1>1, <1>2, PTL DEF Spec, GrowthByPolicy

\* A dict whose first table is missing has no item.
LEMMA NoItems ==
  ASSUME NEW ht, GoodDict(ht), NEW t \in SearchedTables(ht), NEW x \in Items(ht, t)
  PROVE  ht.ht_table[0] # NoTable
<1>1. t \in 0..1
  BY DEF SearchedTables
<1>2. PICK i : i \in DOMAIN ht.ht_table[t]
  BY <1>1, ItemFacts
<1>3. CASE t = 0
  BY <1>2, <1>3 DEF NoTable
<1>4. CASE t # 0
  BY <1>4 DEF SearchedTables, GoodDict, Shaped
<1> QED
  BY <1>3, <1>4

\* Growing hides no key: table 0 is searched as before.
LEMMA ExpandedVisible ==
  ASSUME NEW ht, GoodDict(ht), NEW size, ~ExpandRefused(ht, size), NEW n, n = Expanded(ht, size)
  PROVE  Visible(ht) \subseteq Visible(n)
<1> SUFFICES ASSUME NEW k \in Key, LookupHits(ht, k) # {}
             PROVE  LookupHits(n, k) # {}
  BY DEF Visible
<1>1. Count(ht) # 0 /\ Hits(ht, k, LookupSlots(ht, k)) # {}
  BY DEF LookupHits
<1>2. ~Rehashing(ht) /\ SearchedTables(ht) = {0}
  BY DEF ExpandRefused, SearchedTables
<1>3. ht.ht_table[0] # NoTable
  BY <1>1, HitsAreItems, NoItems
<1>4. PICK e : e = NextExp(size)
  OBVIOUS
<1>5. /\ n.ht_size_exp[0] = ht.ht_size_exp[0]
      /\ n.ht_used[0] = ht.ht_used[0] /\ n.ht_used[1] = 0
  BY <1>3 DEF Expanded, GoodDict, StructOK
<1>6. ht.ht_used[1] = 0
  <2>1. ht.ht_table[1] = NoTable
    BY <1>2 DEF GoodDict, Shaped
  <2>2. Positions(ht, 1) = {}
    BY <2>1, NoPositions DEF NoTable
  <2> QED
    BY <2>2, FS_EmptySet DEF GoodDict, UsedExact
<1>7. Count(n) # 0
  BY <1>1, <1>5, <1>6 DEF Count, GoodDict, StructOK
<1>8. Hits(n, k, LookupSlots(n, k)) # {}
  <2>1. 0 \in SearchedTables(n)
    BY DEF SearchedTables
  <2>2. LookupSlots(n, k)[0] = LookupSlots(ht, k)[0]
    BY <1>5 DEF LookupSlots
  <2>3. Items(n, 0) = Items(ht, 0)
    BY ExpandedItems
  <2>4. PICK x \in Items(ht, 0) : x.slot = LookupSlots(ht, k)[0] /\ x.entry.key = k
    BY <1>1, <1>2, HitsAreItems
  <2>5. 0 \in SearchedTables(n) /\ x \in Items(n, 0) /\ x.slot = LookupSlots(n, k)[0]
    BY <2>1, <2>2, <2>3, <2>4
  <2> QED
    BY <2>4, <2>5, HitsAreItems
<1> QED
  BY <1>7, <1>8 DEF LookupHits

\* Adding an entry or storing a value hides no key.
LEMMA ChangedVisible ==
  ASSUME NEW ht, GoodDict(ht), NEW n, ChangedFrom(ht, n)
  PROVE  Visible(ht) \subseteq Visible(n)
<1> SUFFICES ASSUME NEW k \in Key, LookupHits(ht, k) # {}
             PROVE  LookupHits(n, k) # {}
  BY DEF Visible
<1>1. Count(ht) # 0 /\ Hits(ht, k, LookupSlots(ht, k)) # {}
  BY DEF LookupHits
<1>2. SameFrame(ht, n)
  BY ChangedItems
<1>3. SearchedTables(n) = SearchedTables(ht) /\ LookupSlots(n, k) = LookupSlots(ht, k)
  BY <1>2 DEF SameFrame, SearchedTables, Rehashing, LookupSlots
<1>4. Count(n) # 0
  <2>1. ht.ht_used \in [0..1 -> Nat]
    BY DEF GoodDict, StructOK
  <2>2. CASE n.ht_used = ht.ht_used
    BY <1>1, <2>2 DEF Count
  <2>3. ASSUME NEW i, NEW e, EntryAdded(ht, n, InsertTable(ht), i, e)
        PROVE  Count(n) # 0
    <3>1. PICK t \in 0..1 : t = InsertTable(ht)
      BY DEF InsertTable
    <3>2. n.ht_used = [ht.ht_used EXCEPT ![t] = @ + 1]
      BY <2>3, <3>1 DEF EntryAdded
    <3> QED
      BY <2>1, <3>2 DEF Count
  <2> QED
    BY <2>2, <2>3 DEF ChangedFrom, TablesKept, ValueStored
<1>5. PICK t, x : /\ t \in SearchedTables(ht) /\ x \in Items(ht, t)
                  /\ x.slot = LookupSlots(ht, k)[t] /\ x.entry.key = k
  BY <1>1, HitsAreItems
<1>6. t \in 0..1
  BY <1>5 DEF SearchedTables
<1>7. PICK y \in Items(n, t) : y.slot = x.slot /\ y.entry.key = x.entry.key
  BY <1>5, <1>6, ChangedItems DEF SameKeys
<1>8. t \in SearchedTables(n) /\ y \in Items(n, t) /\ y.slot = LookupSlots(n, k)[t] /\ y.entry.key = k
  BY <1>3, <1>5, <1>7
<1>9. Hits(n, k, LookupSlots(n, k)) # {}
  BY <1>8, HitsAreItems
<1> QED
  BY <1>4, <1>9 DEF LookupHits

\* An unlinked entry hides no key but its own.
LEMMA GoneVisible ==
  ASSUME NEW ht, NEW n, GoodDict(ht), GoodDict(n), NEW pos \in AllPositions(ht), EntryGone(ht, n, pos)
  PROVE  Visible(ht) \subseteq Visible(n) \union {EntryAt(ht, pos).key}
<1> SUFFICES ASSUME NEW k \in Key, LookupHits(ht, k) # {}, k # EntryAt(ht, pos).key
             PROVE  LookupHits(n, k) # {}
  BY DEF Visible
<1>1. Hits(ht, k, LookupSlots(ht, k)) # {}
  BY DEF LookupHits
<1>2. SearchedTables(n) = SearchedTables(ht) /\ LookupSlots(n, k) = LookupSlots(ht, k)
  BY DEF EntryGone, SameFrame, SearchedTables, Rehashing, LookupSlots
<1>3. PICK t, x : /\ t \in SearchedTables(ht) /\ x \in Items(ht, t)
                  /\ x.slot = LookupSlots(ht, k)[t] /\ x.entry.key = k
  BY <1>1, HitsAreItems
<1>4. t \in 0..1
  BY <1>3 DEF SearchedTables
<1>5. x \in Items(n, t)
  BY <1>3, <1>4, GoneItems
<1>6. Hits(n, k, LookupSlots(n, k)) # {}
  <2>1. t \in SearchedTables(n) /\ x.slot = LookupSlots(n, k)[t]
    BY <1>2, <1>3
  <2> QED
    BY <1>3, <1>5, <2>1, HitsAreItems
<1>7. Count(n) # 0
  <2>1. Positions(n, t) # {}
    BY <1>5 DEF Items
  <2>2. n.ht_used[t] # 0
    BY <1>4, <2>1, FS_EmptySet DEF GoodDict, UsedExact
  <2>3. n.ht_used \in [0..1 -> Nat]
    BY DEF GoodDict, StructOK
  <2> QED
    BY <1>4, <2>2, <2>3 DEF Count
<1> QED
  BY <1>6, <1>7 DEF LookupHits

\* What a look-up finds it finds until that key is deleted, resize or not.
THEOREM FoundStaysFound == Spec => VisibleStays
<1>1. Sane /\ Sane' /\ [Next]_vars =>
        [ret'.op = "empty" \/ Visible(d) \subseteq Visible(d') \union Deleted']_d
  <2> SUFFICES ASSUME Sane, Sane', [Next]_vars, ret'.op # "empty"
               PROVE  Visible(d) \subseteq Visible(d') \union Deleted'
    OBVIOUS
  <2>1. EntryChange
    BY StepChange
  <2>2. ~dictEmpty
    <3>1. dictEmpty => ret'.op = "empty"
      BY DEF dictEmpty, Return
    <3> QED
      BY <3>1
  <2>3. GoodDict(d) /\ GoodDict(d')
    BY DEF Sane
  <2>4. ASSUME NEW pos \in AllPositions(d), EntryGone(d, d', pos),
               ret'.op = "delete", ret'.key = {EntryAt(d, pos).key}
        PROVE  Visible(d) \subseteq Visible(d') \union Deleted'
    <3>1. Deleted' = {EntryAt(d, pos).key}
      BY <2>4 DEF Deleted
    <3> QED
      BY <2>3, <2>4, <3>1, GoneVisible
  <2>5. ASSUME NEW g, GrownFrom(d, g), ChangedFrom(g, d')
        PROVE  Visible(d) \subseteq Visible(d')
    <3>1. GoodDict(g) /\ Visible(d) \subseteq Visible(g)
      BY <2>3, <2>5, ExpandedGood, ExpandedVisible DEF GrownFrom
    <3> QED
      BY <2>5, <3>1, ChangedVisible
  <2> QED
    BY <2>1, <2>2, <2>4, <2>5 DEF EntryChange
<1>2. Spec => []Sane
  BY Invariant, PTL DEF IInv
<1> QED
  BY <1>1, <1>2, PTL DEF Spec, VisibleStays

-----------------------------------------------------------------------------
(* The dict implements the store of DictStore.                             *)

\* The entries after each kind of change.
LEMMA EntriesOfItems ==
  ASSUME NEW ht
  PROVE  \A e : e \in Entries(ht) <=> \E t \in 0..1 : \E x \in Items(ht, t) : e = x.entry
<1>1. Entries(ht) = {x.entry : x \in Items(ht, 0) \union Items(ht, 1)}
  BY ItemsAre
<1> QED
  BY <1>1

\* The same items are the same entries.
LEMMA EntriesKept ==
  ASSUME NEW ht, NEW n, \A t \in 0..1 : Items(n, t) = Items(ht, t)
  PROVE  Entries(n) = Entries(ht)
<1>1. \A e : e \in Entries(n) <=> \E t \in 0..1 : \E x \in Items(n, t) : e = x.entry
  BY EntriesOfItems
<1>2. \A e : e \in Entries(ht) <=> \E t \in 0..1 : \E x \in Items(ht, t) : e = x.entry
  BY EntriesOfItems
<1>3. \A e : e \in Entries(n) <=> e \in Entries(ht)
  BY <1>1, <1>2
<1> QED
  BY <1>3

\* One more item is one more entry.
LEMMA EntriesAdded ==
  ASSUME NEW ht, NEW n, NEW i, NEW e, NEW t \in 0..1, EntryAdded(ht, n, t, i, e)
  PROVE  Entries(n) = Entries(ht) \union {e}
<1>1. \A u \in 0..1 : Items(n, u) = Items(ht, u) \union (IF u = t THEN {Item(i, e)} ELSE {})
  BY DEF EntryAdded
<1>2. Item(i, e).entry = e
  BY DEF Item
<1>3. \A f : f \in Entries(n) <=> \E u \in 0..1 : \E x \in Items(n, u) : f = x.entry
  BY EntriesOfItems
<1>4. \A f : f \in Entries(ht) <=> \E u \in 0..1 : \E x \in Items(ht, u) : f = x.entry
  BY EntriesOfItems
<1>5. ASSUME NEW f \in Entries(n) PROVE f \in Entries(ht) \/ f = e
  BY <1>1, <1>2, <1>3, <1>4
<1>6. ASSUME NEW f \in Entries(ht) PROVE f \in Entries(n)
  BY <1>1, <1>3, <1>4
<1>7. e \in Entries(n)
  BY <1>1, <1>2, <1>3
<1> QED
  BY <1>5, <1>6, <1>7

\* The entry of a key is the only one.
LEMMA OnlyEntry ==
  ASSUME NEW ht, KeysDistinct(ht), NEW pos \in AllPositions(ht)
  PROVE  /\ {e \in Entries(ht) : e.key = EntryAt(ht, pos).key} = {EntryAt(ht, pos)}
         /\ \A q \in AllPositions(ht) : EntryAt(ht, q) = EntryAt(ht, pos) => q = pos
<1>1. \A q \in AllPositions(ht) : EntryAt(ht, q).key = EntryAt(ht, pos).key => q = pos
  BY DEF KeysDistinct
<1>2. \A e : e \in Entries(ht) <=> \E q \in AllPositions(ht) : e = EntryAt(ht, q)
  BY DEF Entries
<1>3. \A e \in Entries(ht) : e.key = EntryAt(ht, pos).key => e = EntryAt(ht, pos)
  BY <1>1, <1>2
<1>4. EntryAt(ht, pos) \in Entries(ht)
  BY <1>2
<1> QED
  BY <1>1, <1>3, <1>4

\* One item less is one entry less, as no two items have the same entry.
LEMMA EntriesLost ==
  ASSUME NEW ht, GoodDict(ht), NEW n, NEW pos \in AllPositions(ht), EntryGone(ht, n, pos)
  PROVE  Entries(n) = Entries(ht) \ {EntryAt(ht, pos)}
<1>0. KeysDistinct(ht)
  BY DEF GoodDict
<1>1. PICK t \in 0..1 : pos \in Positions(ht, t)
  BY DEF AllPositions
<1>2. PICK gone : gone = Item(pos.slot, EntryAt(ht, pos))
  OBVIOUS
<1>3. pos.table = t /\ gone \in Items(ht, t) /\ gone.entry = EntryAt(ht, pos)
  BY <1>1, <1>2, CoordinatesOf DEF Items, Item
<1>4. \A u \in 0..1 : Items(n, u) = Items(ht, u) \ (IF u = t THEN {gone} ELSE {})
  BY <1>2, <1>3 DEF EntryGone
<1>5. \A u \in 0..1 : \A x \in Items(ht, u) : x.entry = gone.entry => u = t /\ x = gone
  BY <1>0, <1>3, ItemsDistinct
<1>6. \A f : f \in Entries(n) <=> \E u \in 0..1 : \E x \in Items(n, u) : f = x.entry
  BY EntriesOfItems
<1>7. \A f : f \in Entries(ht) <=> \E u \in 0..1 : \E x \in Items(ht, u) : f = x.entry
  BY EntriesOfItems
<1>8. ASSUME NEW f \in Entries(n) PROVE f \in Entries(ht) /\ f # gone.entry
  BY <1>4, <1>5, <1>6, <1>7
<1>9. ASSUME NEW f \in Entries(ht), f # gone.entry PROVE f \in Entries(n)
  BY <1>4, <1>6, <1>7, <1>9
<1> QED
  BY <1>3, <1>8, <1>9

\* A stored value replaces an entry.
LEMMA EntriesStored ==
  ASSUME NEW ht, GoodDict(ht), NEW n, NEW pos \in AllPositions(ht), NEW v, ValueStored(ht, n, pos, v)
  PROVE  Entries(n) = (Entries(ht) \ {EntryAt(ht, pos)}) \union {[key |-> EntryAt(ht, pos).key, val |-> v]}
<1> DEFINE new == [key |-> EntryAt(ht, pos).key, val |-> v]
<1>1. AllPositions(n) = AllPositions(ht)
  BY DEF ValueStored, AllPositions
<1>2. \A q \in AllPositions(ht) : EntryAt(n, q) = IF q = pos THEN new ELSE EntryAt(ht, q)
  BY DEF ValueStored
<1>3. \A q \in AllPositions(ht) : EntryAt(ht, q) = EntryAt(ht, pos) => q = pos
  BY OnlyEntry DEF GoodDict
<1> HIDE DEF new
<1>4. \A e : e \in Entries(ht) <=> \E q \in AllPositions(ht) : e = EntryAt(ht, q)
  BY DEF Entries
<1>5. \A e : e \in Entries(n) <=> \E q \in AllPositions(ht) : e = EntryAt(n, q)
  BY <1>1 DEF Entries
<1>6. ASSUME NEW e \in Entries(n) PROVE e = new \/ (e \in Entries(ht) /\ e # EntryAt(ht, pos))
  BY <1>2, <1>3, <1>4, <1>5
<1>7. ASSUME NEW e \in Entries(ht), e # EntryAt(ht, pos) PROVE e \in Entries(n)
  BY <1>2, <1>4, <1>5, <1>7
<1>8. new \in Entries(n)
  BY <1>2, <1>5
<1> QED
  BY <1>6, <1>7, <1>8 DEF new

\* A search that hits returns the entry of its key.
LEMMA HitsFound ==
  ASSUME NEW ht, GoodDict(ht), NEW k, NEW hits, hits \subseteq AllPositions(ht), hits # {},
         \A pos \in hits : EntryAt(ht, pos).key = k
  PROVE  /\ {EntryAt(ht, pos) : pos \in hits} = {e \in Entries(ht) : e.key = k}
         /\ k \in {e.key : e \in Entries(ht)}
<1>1. PICK pos \in hits : TRUE
  OBVIOUS
<1>2. pos \in AllPositions(ht) /\ EntryAt(ht, pos).key = k
  BY <1>1
<1>3. KeysDistinct(ht)
  BY DEF GoodDict
<1>4. hits = {pos}
  BY <1>1, <1>2, <1>3 DEF KeysDistinct
<1>5. {e \in Entries(ht) : e.key = k} = {EntryAt(ht, pos)}
  BY <1>2, <1>3, OnlyEntry
<1> QED
  BY <1>2, <1>4, <1>5

\* Every key has at most one entry, so there are no more entries than keys.
LEMMA UsedFits ==
  ASSUME NEW ht, GoodDict(ht), NEW t \in 0..1
  PROVE  ht.ht_used[t] <= Cardinality(Key)
<1> DEFINE S == Positions(ht, t)
           f == [pos \in S |-> EntryAt(ht, pos).key]
<1>1. \A pos \in S : EntryAt(ht, pos) \in Entry /\ pos \in AllPositions(ht)
  BY EntryType DEF AllPositions, GoodDict
<1>2. f \in [S -> Key]
  BY <1>1 DEF Entry
<1>3. \A p, q \in S : f[p] = f[q] => p = q
  BY <1>1 DEF GoodDict, KeysDistinct
<1> HIDE DEF f
<1>4. f \in Injection(S, Key)
  BY <1>2, <1>3 DEF Injection, IsInjective
<1>5. Cardinality(S) <= Cardinality(Key)
  BY <1>4, KeysAssumption, FS_Injection
<1> QED
  BY <1>5 DEF GoodDict, UsedExact

\* Growth is never refused for want of a table that is large enough.
LEMMA RoomToGrow ==
  ASSUME Sane, NEW allowed
  PROVE  ~GrowthRefused(d, allowed)
<1> SUFFICES ASSUME NEW size \in NeededSize(d, allowed)
             PROVE  ~ExpandRefused(d, size)
  BY DEF GrowthRefused
<1>1. GoodDict(d)
  BY DEF Sane
<1>2. d.ht_size_exp[0] = -1 /\ d.ht_used[0] \in Nat
  BY <1>1 DEF GoodDict, Shaped, StructOK
<1>3. size = d.ht_used[0] + 1 /\ ~Rehashing(d)
  BY <1>2 DEF NeededSize, Size
<1>4. d.ht_used[0] <= Cardinality(Key)
  BY <1>1, UsedFits
<1>5. Cardinality(Key) \in Nat /\ Cardinality(Key) < 2^MaxExp /\ 2^MaxExp \in Nat /\ MaxExp \in 2..MaxExp
  <2>1. MaxExp \in 0..(MaxExp + 1) /\ MaxExp \in 2..MaxExp
    BY SizeAssumption
  <2>2. 2^MaxExp \in Nat
    BY <2>1, ShiftAssumption
  <2>3. Cardinality(Key) \in Nat /\ Cardinality(Key) < 2^MaxExp
    BY KeysAssumption, FS_CardinalityType
  <2> QED
    BY <2>1, <2>2, <2>3
<1>6. 2^MaxExp >= size
  BY <1>2, <1>3, <1>4, <1>5
<1>7. NextExp(size) \in 2..MaxExp
  BY <1>5, <1>6, NextExpFits
<1>8. ~(NextExp(size) > MaxExp) /\ NextExp(size) # -1
  BY <1>7, SizeAssumption
<1> QED
  BY <1>2, <1>3, <1>8 DEF ExpandRefused

\* The new dict is the empty store.
LEMMA InitIsStore == Init => Store!Init
<1> SUFFICES ASSUME Init PROVE Store!Init
  OBVIOUS
<1>1. d = EmptyDict /\ up = TRUE /\ ret = Return("create", {}, TRUE, {})
  BY DEF Init, EmptyDict
<1>2. \A t \in 0..1 : Positions(EmptyDict, t) = {}
  BY NoPositions DEF EmptyDict, NoTable
<1>3. Entries(EmptyDict) = {}
  BY <1>2 DEF Entries, AllPositions
<1> QED
  BY <1>1, <1>3 DEF Store!Init, store, Return, Store!Return

\* The outcome of an operation is written the same way.
LEMMA SameReturn == \A op, ks, ok, found : Return(op, ks, ok, found) = Store!Return(op, ks, ok, found)
BY DEF Return, Store!Return

\* A search for a key that misses it everywhere finds a new key.
LEMMA NewKey ==
  ASSUME NEW ht, GoodDict(ht), NEW k \in Key, Hits(ht, k, InsertSlots(ht, k)) = {}
  PROVE  k \notin {e.key : e \in Entries(ht)}
<1>1. \A pos \in AllPositions(ht) : EntryAt(ht, pos).key # k
  BY SearchComplete
<1> QED
  BY <1>1 DEF Entries

\* The growth before an insertion finds room, and keeps the entries.
LEMMA GrowthKeepsStore ==
  ASSUME Sane, NEW allowed, NEW k, ~InsertFaults(d, k, allowed), NEW g, g = ExpandIfNeeded(d, allowed)
  PROVE  GoodDict(g) /\ g.ht_table[0] # NoTable /\ Entries(g) = Entries(d)
<1>1. GoodDict(d) /\ ~GrowthRefused(d, allowed)
  BY RoomToGrow DEF Sane
<1>2. GoodDict(g) /\ g.ht_table[0] # NoTable
  BY <1>1, SafeGrowth
<1>3. AllPositions(g) = AllPositions(d) /\ \A pos \in AllPositions(d) : EntryAt(g, pos) = EntryAt(d, pos)
  BY <1>1, GrownGood
<1> QED
  BY <1>2, <1>3 DEF Entries

\* Inserting a new entry adds it to the store.
LEMMA InsertedStore ==
  ASSUME NEW ht, GoodDict(ht), ht.ht_table[0] # NoTable, NEW e \in Entry
  PROVE  Entries(Inserted(ht, e)) = Entries(ht) \union {e}
<1>1. PICK n : n = Inserted(ht, e)
  OBVIOUS
<1>2. PICK i : EntryAdded(ht, n, InsertTable(ht), i, e)
  BY <1>1, InsertedItems
<1>3. PICK t \in 0..1 : t = InsertTable(ht)
  BY DEF InsertTable
<1>4. Entries(n) = Entries(ht) \union {e}
  BY <1>2, <1>3, EntriesAdded
<1> QED
  BY <1>1, <1>4

\* A value is stored in the entry of its key.
LEMMA StoredStore ==
  ASSUME NEW ht, GoodDict(ht), NEW pos \in AllPositions(ht), NEW k, EntryAt(ht, pos).key = k, NEW v \in Value
  PROVE  Entries(WithVal(ht, pos, v))
           = (Entries(ht) \ {e \in Entries(ht) : e.key = k}) \union {[key |-> k, val |-> v]}
<1>1. PICK n : n = WithVal(ht, pos, v)
  OBVIOUS
<1>2. ValueStored(ht, n, pos, v)
  BY <1>1, WithValAt
<1>3. Entries(n) = (Entries(ht) \ {EntryAt(ht, pos)}) \union {[key |-> k, val |-> v]}
  BY <1>2, EntriesStored
<1>4. {e \in Entries(ht) : e.key = k} = {EntryAt(ht, pos)}
  BY OnlyEntry DEF GoodDict
<1> QED
  BY <1>1, <1>3, <1>4

\* Unlinking takes the entry of a key out of the store.
LEMMA UnlinkedStore ==
  ASSUME NEW ht, GoodDict(ht), NEW pos \in AllPositions(ht), NEW k, EntryAt(ht, pos).key = k,
         NEW n, EntryGone(ht, n, pos)
  PROVE  /\ Entries(n) = Entries(ht) \ {e \in Entries(ht) : e.key = k}
         /\ {EntryAt(ht, pos)} = {e \in Entries(ht) : e.key = k}
         /\ k \in {e.key : e \in Entries(ht)}
<1>1. Entries(n) = Entries(ht) \ {EntryAt(ht, pos)}
  BY EntriesLost
<1>2. {e \in Entries(ht) : e.key = k} = {EntryAt(ht, pos)}
  BY OnlyEntry DEF GoodDict
<1>3. EntryAt(ht, pos) \in Entries(ht)
  BY <1>2
<1> QED
  BY <1>1, <1>2, <1>3

\* The store allows an operation to stop the process.
LEMMA StopIsStore ==
  ASSUME up, NEW k \in Key, NEW op \in {"add", "replace", "find", "delete", "abort"}, Stop(op, k)
  PROVE  Store!Next
<1>1. Store!Stop(op, {k})
  BY SameReturn DEF Stop, Store!Stop, store
<1> QED
  BY <1>1 DEF Store!Next

\* dictAdd adds a key that is not stored, and no other.
LEMMA dictAddIsStore ==
  ASSUME Sane, NEW k \in Key, NEW v \in Value, dictAdd(k, v)
  PROVE  Store!Next
<1>0. up
  BY DEF dictAdd, MayChange
<1>1. PICK allowed \in ExpandAllowed : AddRaw(k, v, allowed) \/ Stop("add", k) \/ Stop("abort", k)
  BY DEF dictAdd
<1>2. CASE Stop("add", k) \/ Stop("abort", k)
  BY <1>0, <1>2, StopIsStore
<1>3. CASE AddRaw(k, v, allowed)
  <2>1. PICK grown, new : grown = ExpandIfNeeded(d, allowed) /\ new = [key |-> k, val |-> v]
    OBVIOUS
  <2>2. PICK existing : existing = Hits(grown, k, InsertSlots(grown, k))
    OBVIOUS
  <2>3. ~InsertFaults(d, k, allowed) /\ ~GrowthRefused(d, allowed) /\ up' = up
    BY <1>3, RoomToGrow DEF AddRaw
  <2>4. GoodDict(grown) /\ grown.ht_table[0] # NoTable /\ Entries(grown) = store
    BY <2>1, <2>3, GrowthKeepsStore DEF store
  <2>5. CASE existing # {}
    <3>1. d' = grown /\ ret' = Return("add", {k}, FALSE, {EntryAt(grown, pos) : pos \in existing})
      BY <1>3, <2>1, <2>2, <2>3, <2>5 DEF AddRaw
    <3>2. existing \subseteq AllPositions(grown) /\ \A pos \in existing : EntryAt(grown, pos).key = k
      BY <2>2, HitFacts
    <3>3. /\ {EntryAt(grown, pos) : pos \in existing} = {e \in Entries(grown) : e.key = k}
          /\ k \in {e.key : e \in Entries(grown)}
      BY <2>4, <2>5, <3>2, HitsFound
    <3>4. store' = store
      BY <2>4, <3>1 DEF store
    <3>5. Store!Add(k, v)
      BY <2>3, <2>4, <3>1, <3>3, <3>4, SameReturn
         DEF Store!Add, Store!EntriesOf, Store!StoredKeys, Store!Keep
    <3> QED
      BY <1>0, <3>5 DEF Store!Next
  <2>6. CASE existing = {}
    <3>1. d' = Inserted(grown, new) /\ ret' = Return("add", {k}, TRUE, {new})
      BY <1>3, <2>1, <2>2, <2>3, <2>6 DEF AddRaw
    <3>2. k \notin {e.key : e \in Entries(grown)}
      BY <2>2, <2>4, <2>6, NewKey
    <3>3. Entries(d') = Entries(grown) \union {new}
      BY <2>1, <2>4, <3>1, InsertedStore DEF Entry
    <3>4. store' = store \union {new}
      BY <2>4, <3>3 DEF store
    <3>5. Store!Add(k, v)
      BY <2>1, <2>3, <2>4, <3>1, <3>2, <3>4, SameReturn DEF Store!Add, Store!StoredKeys
    <3> QED
      BY <1>0, <3>5 DEF Store!Next
  <2> QED
    BY <2>5, <2>6
<1> QED
  BY <1>1, <1>2, <1>3

\* dictReplace stores the value whether the key is stored or not.
LEMMA dictReplaceIsStore ==
  ASSUME Sane, NEW k \in Key, NEW v \in Value, dictReplace(k, v)
  PROVE  Store!Next
<1>0. up
  BY DEF dictReplace, MayChange
<1>1. PICK allowed \in ExpandAllowed :
        LET grown == ExpandIfNeeded(d, allowed)
            existing == Hits(grown, k, InsertSlots(grown, k))
            new == [key |-> k, val |-> v]
        IN  \/ Stop("replace", k) \/ Stop("abort", k)
            \/ /\ ~InsertFaults(d, k, allowed)
               /\ \/ existing = {} /\ d' = Inserted(grown, new)
                  \/ \E pos \in existing : d' = WithVal(grown, pos, v)
               /\ ret' = Return("replace", {k}, existing = {}, {new})
               /\ up' = up
  BY DEF dictReplace
<1>2. CASE Stop("replace", k) \/ Stop("abort", k)
  BY <1>0, <1>2, StopIsStore
<1>3. CASE ~Stop("replace", k) /\ ~Stop("abort", k)
  <2>1. PICK grown, new : grown = ExpandIfNeeded(d, allowed) /\ new = [key |-> k, val |-> v]
    OBVIOUS
  <2>2. PICK existing : existing = Hits(grown, k, InsertSlots(grown, k))
    OBVIOUS
  <2>3. /\ ~InsertFaults(d, k, allowed)
        /\ \/ existing = {} /\ d' = Inserted(grown, new)
           \/ \E pos \in existing : d' = WithVal(grown, pos, v)
        /\ ret' = Return("replace", {k}, existing = {}, {new})
        /\ up' = up
    BY <1>1, <1>3, <2>1, <2>2
  <2>4. GoodDict(grown) /\ grown.ht_table[0] # NoTable /\ Entries(grown) = store
    BY <2>1, <2>3, GrowthKeepsStore DEF store
  <2>5. CASE existing = {}
    <3>1. d' = Inserted(grown, new)
      BY <2>3, <2>5
    <3>2. k \notin {e.key : e \in Entries(grown)}
      BY <2>2, <2>4, <2>5, NewKey
    <3>3. Entries(d') = Entries(grown) \union {new}
      BY <2>1, <2>4, <3>1, InsertedStore DEF Entry
    <3>4. {e \in store : e.key = k} = {}
      BY <2>4, <3>2
    <3>5. store' = (store \ Store!EntriesOf(k)) \union {new}
      BY <2>4, <3>3, <3>4 DEF store, Store!EntriesOf
    <3>6. ret' = Store!Return("replace", {k}, TRUE, {new})
      BY <2>3, <2>5, SameReturn
    <3>7. k \notin Store!StoredKeys
      BY <2>4, <3>2 DEF Store!StoredKeys
    <3>8. Store!Replace(k, v)
      BY <2>1, <2>3, <3>5, <3>6, <3>7 DEF Store!Replace
    <3> QED
      BY <1>0, <3>8 DEF Store!Next
  <2>6. ASSUME NEW pos \in existing, d' = WithVal(grown, pos, v)
        PROVE  Store!Replace(k, v)
    <3>1. existing \subseteq AllPositions(grown) /\ \A q \in existing : EntryAt(grown, q).key = k
      BY <2>2, HitFacts
    <3>2. k \in {e.key : e \in Entries(grown)}
      BY <2>4, <3>1, HitsFound
    <3>3. Entries(d') = (Entries(grown) \ {e \in Entries(grown) : e.key = k}) \union {new}
      BY <2>1, <2>4, <2>6, <3>1, StoredStore
    <3>4. store' = (store \ Store!EntriesOf(k)) \union {new}
      BY <2>4, <3>3 DEF store, Store!EntriesOf
    <3>5. ret' = Store!Return("replace", {k}, FALSE, {new})
      BY <2>3, <2>6, SameReturn
    <3>6. k \in Store!StoredKeys
      BY <2>4, <3>2 DEF Store!StoredKeys
    <3> QED
      BY <2>1, <2>3, <3>4, <3>5, <3>6 DEF Store!Replace
  <2>7. ASSUME Store!Replace(k, v) PROVE Store!Next
    BY <1>0, <2>7 DEF Store!Next
  <2> QED
    BY <2>3, <2>5, <2>6, <2>7
<1> QED
  BY <1>2, <1>3

\* dictSetVal stores a value in an entry the client holds.
LEMMA dictSetValIsStore ==
  ASSUME Sane, NEW k \in Key, NEW v \in Value, dictSetVal(k, v)
  PROVE  Store!Next
<1>0. up /\ GoodDict(d) /\ up' = up
  BY DEF dictSetVal, MayChange, Sane
<1>1. PICK pos \in AllPositions(d) : EntryAt(d, pos).key = k /\ d' = WithVal(d, pos, v)
  BY DEF dictSetVal
<1>2. Entries(d') = (Entries(d) \ {e \in Entries(d) : e.key = k}) \union {[key |-> k, val |-> v]}
  BY <1>0, <1>1, StoredStore
<1>3. k \in {e.key : e \in Entries(d)}
  BY <1>1 DEF Entries
<1>4. ret' = Return("setval", {k}, TRUE, {[key |-> k, val |-> v]})
  BY DEF dictSetVal
<1>5. Store!SetVal(k, v)
  BY <1>0, <1>2, <1>3, <1>4, SameReturn DEF Store!SetVal, Store!StoredKeys, Store!EntriesOf, store
<1> QED
  BY <1>0, <1>5 DEF Store!Next

\* A look-up returns what it found.
LEMMA FoundIsStore ==
  ASSUME GoodDict(d), up, NEW k \in Key, NEW hits, hits \subseteq AllPositions(d),
         \A pos \in hits : EntryAt(d, pos).key = k,
         ret' = Return("find", {k}, hits # {}, {EntryAt(d, pos) : pos \in hits}),
         Entries(d') = Entries(d), up' = up
  PROVE  Store!Next
<1> DEFINE found == {EntryAt(d, pos) : pos \in hits}
<1>1. CASE hits = {}
  <2>1. found = {}
    BY <1>1
  <2>2. ret' = Return("find", {k}, FALSE, {})
    BY <1>1, <2>1
  <2>3. Store!Find(k)
    BY <2>2, SameReturn DEF Store!Find, Store!Keep, store
  <2> QED
    BY <2>3 DEF Store!Next
<1>2. CASE hits # {}
  <2>1. found = {e \in Entries(d) : e.key = k} /\ k \in {e.key : e \in Entries(d)}
    BY <1>2, HitsFound
  <2>2. found = Store!EntriesOf(k) /\ found # {}
    BY <2>1 DEF Store!EntriesOf, store
  <2>3. ret' = Return("find", {k}, TRUE, found)
    BY <1>2
  <2> HIDE DEF found
  <2>4. ret' = Store!Return("find", {k}, found # {}, found)
    BY <2>2, <2>3, SameReturn
  <2>5. Store!Find(k)
    BY <2>2, <2>4 DEF Store!Find, Store!Keep, store
  <2> QED
    BY <2>5 DEF Store!Next
<1> QED
  BY <1>1, <1>2

\* The three look-ups, the first phase of an unlink among them.
LEMMA dictFindIsStore ==
  ASSUME Sane, NEW k \in Key, dictFind(k) \/ dictFindEntryByPtrAndHash(k) \/ dictTwoPhaseUnlinkFind(k)
  PROVE  Store!Next
<1>0. up /\ GoodDict(d)
  BY DEF dictFind, dictFindEntryByPtrAndHash, dictTwoPhaseUnlinkFind, MayChange, MayRead, Sane
<1>1. CASE Stop("find", k)
  BY <1>0, <1>1, StopIsStore
<1>2. CASE ~Stop("find", k)
  <2>1. PICK hits :
          /\ hits = LookupHits(d, k) \/ hits = (IF Count(d) = 0 THEN {} ELSE Hits(d, k, PtrSlots(d, k)))
          /\ ret' = Return("find", {k}, hits # {}, {EntryAt(d, pos) : pos \in hits})
          /\ d' = d \/ \E x : d' = [d EXCEPT !.pauseRehash = x]
          /\ up' = up
    BY <1>2 DEF dictFind, dictFindEntryByPtrAndHash, dictTwoPhaseUnlinkFind
  <2>2. hits = {} \/ \E slots : hits = Hits(d, k, slots)
    BY <2>1 DEF LookupHits
  <2>3. hits \subseteq AllPositions(d) /\ \A pos \in hits : EntryAt(d, pos).key = k
    BY <2>2, HitFacts
  <2>4. Entries(d') = Entries(d)
    BY <1>0, <2>1, PausedItems, EntriesKept DEF TablesKept
  <2> QED
    BY <1>0, <2>1, <2>3, <2>4, FoundIsStore
<1> QED
  BY <1>1, <1>2

\* An entry that was unlinked is gone from the store.
LEMMA GoneIsStore ==
  ASSUME GoodDict(d), up, NEW pos \in AllPositions(d), NEW k \in Key, EntryAt(d, pos).key = k,
         EntryGone(d, d', pos), ret' = Return("delete", {k}, TRUE, {EntryAt(d, pos)}), up' = up
  PROVE  Store!Next
<1>1. /\ Entries(d') = Entries(d) \ {e \in Entries(d) : e.key = k}
      /\ {EntryAt(d, pos)} = {e \in Entries(d) : e.key = k}
      /\ k \in {e.key : e \in Entries(d)}
  BY UnlinkedStore
<1>2. Store!Delete(k)
  BY <1>1, SameReturn DEF Store!Delete, Store!StoredKeys, Store!EntriesOf, store
<1> QED
  BY <1>2 DEF Store!Next

\* A deletion misses, or takes the entry of its key.
LEMMA dictGenericDeleteIsStore ==
  ASSUME Sane, NEW k \in Key, dictGenericDelete(k)
  PROVE  Store!Next
<1>0. up /\ GoodDict(d)
  BY DEF dictGenericDelete, MayChange, Sane
<1>1. CASE Stop("delete", k)
  BY <1>0, <1>1, StopIsStore
<1>2. CASE ret' = Return("delete", {k}, FALSE, {}) /\ UNCHANGED <<d, dict_can_resize, unlinking, up>>
  <2>1. Store!Delete(k)
    BY <1>2, SameReturn DEF Store!Delete, Store!Keep, store
  <2> QED
    BY <1>0, <2>1 DEF Store!Next
<1>3. CASE \E pos \in LookupHits(d, k) : /\ d' = Removed(d, pos) /\ up' = up
                                         /\ ret' = Return("delete", {k}, TRUE, {EntryAt(d, pos)})
  <2>1. PICK pos \in LookupHits(d, k) : /\ d' = Removed(d, pos) /\ up' = up
                                        /\ ret' = Return("delete", {k}, TRUE, {EntryAt(d, pos)})
    BY <1>3
  <2>2. pos \in AllPositions(d) /\ EntryAt(d, pos).key = k
    BY HitFacts DEF LookupHits
  <2>3. EntryGone(d, d', pos)
    BY <1>0, <2>1, <2>2, UnlinkedItems
  <2> QED
    BY <1>0, <2>1, <2>2, <2>3, GoneIsStore
<1> QED
  BY <1>1, <1>2, <1>3 DEF dictGenericDelete

\* The second phase of an unlink is a deletion.
LEMMA dictTwoPhaseUnlinkFreeIsStore ==
  ASSUME Sane, dictTwoPhaseUnlinkFree
  PROVE  Store!Next
<1>0. up /\ GoodDict(d) /\ up' = up
  BY DEF dictTwoPhaseUnlinkFree, MayRead, Sane
<1>1. PICK pos \in unlinking :
        /\ d' = [Removed(d, pos) EXCEPT !.pauseRehash = @ - 1]
        /\ ret' = Return("delete", {EntryAt(d, pos).key}, TRUE, {EntryAt(d, pos)})
  BY DEF dictTwoPhaseUnlinkFree
<1>2. pos \in AllPositions(d)
  BY DEF Sane, TypeOK
<1>3. EntryGone(d, d', pos)
  BY <1>1, dictTwoPhaseUnlinkFreeChange
<1>4. PICK k : k = EntryAt(d, pos).key
  OBVIOUS
<1>5. k \in Key
  BY <1>0, <1>2, <1>4, EntryType DEF GoodDict, Entry
<1> QED
  BY <1>0, <1>1, <1>2, <1>3, <1>4, <1>5, GoneIsStore

\* The walk of dictEmpty frees every entry, as the counters are exact.
LEMMA dictEmptyIsStore ==
  ASSUME Sane, dictEmpty
  PROVE  Store!Next
<1>1. up /\ ~ClearFaults(d)
  BY DEF dictEmpty, MayChange, Sane, GoodDict, UsedExact, ClearFaults
<1>2. d' = EmptyDict /\ up' = up /\ ret' = Return("empty", {}, TRUE, {})
  BY <1>1 DEF dictEmpty, EmptyDict, Sane, TypeOK
<1>3. \A t \in 0..1 : Positions(EmptyDict, t) = {}
  BY NoPositions DEF EmptyDict, NoTable
<1>4. Entries(d') = {}
  BY <1>2, <1>3 DEF Entries, AllPositions
<1>5. Store!Empty
  BY <1>2, <1>4, SameReturn DEF Store!Empty, store
<1> QED
  BY <1>1, <1>5 DEF Store!Next

\* A resize keeps the entries, or fails to allocate and stops the process.
LEMMA MaintenanceIsStore ==
  ASSUME Sane, up, NEW size,
         d' = d \/ (~ExpandRefused(d, size) /\ d' = Expanded(d, size)),
         \/ \E ok \in BOOLEAN : ret' = Return("maintain", {}, ok, {}) /\ up' = TRUE
         \/ ret' = Return("abort", {}, FALSE, {}) /\ up' = FALSE
  PROVE  Store!Next
<1>1. GoodDict(d) /\ up = TRUE
  BY DEF Sane, TypeOK
<1>2. store' = store
  BY <1>1, ExpandedItems, EntriesKept DEF store
<1>3. ASSUME NEW ok \in BOOLEAN, ret' = Return("maintain", {}, ok, {}), up' = TRUE
      PROVE  Store!Next
  <2>1. Store!Maintain(ok)
    BY <1>1, <1>2, <1>3, SameReturn DEF Store!Maintain, Store!Keep
  <2> QED
    BY <2>1 DEF Store!Next
<1>4. CASE ret' = Return("abort", {}, FALSE, {}) /\ up' = FALSE
  <2>1. Store!Stop("abort", {})
    BY <1>2, <1>4, SameReturn DEF Store!Stop
  <2> QED
    BY <2>1 DEF Store!Next
<1> QED
  BY <1>3, <1>4

\* Every step of the dict is a step of the store, or changes nothing it shows.
LEMMA NextIsStore == Sane /\ [Next]_vars => [Store!Next]_<<store, up, ret>>
<1> SUFFICES ASSUME Sane, [Next]_vars PROVE Store!Next \/ UNCHANGED <<store, up, ret>>
  OBVIOUS
<1>1. ASSUME NEW size \in ExpandSizes, NEW try \in BOOLEAN, NEW allocated \in BOOLEAN,
             dictExpand(size, try, allocated)
      PROVE  Store!Next
  <2>1. \/ \E ok \in BOOLEAN : ret' = Return("maintain", {}, ok, {}) /\ up' = TRUE
        \/ ret' = Return("abort", {}, FALSE, {}) /\ up' = FALSE
    BY <1>1 DEF dictExpand
  <2>2. d' = d \/ (~ExpandRefused(d, size) /\ d' = Expanded(d, size))
    BY <1>1 DEF dictExpand
  <2>3. up
    BY <1>1 DEF dictExpand, MayChange
  <2> QED
    BY <2>1, <2>2, <2>3, MaintenanceIsStore
<1>2. ASSUME NEW allocated \in BOOLEAN, dictResize(allocated)
      PROVE  Store!Next
  <2>1. PICK minimal : minimal = IF d.ht_used[0] < 4 THEN 4 ELSE d.ht_used[0]
    OBVIOUS
  <2>2. \/ \E ok \in BOOLEAN : ret' = Return("maintain", {}, ok, {}) /\ up' = TRUE
        \/ ret' = Return("abort", {}, FALSE, {}) /\ up' = FALSE
    BY <1>2 DEF dictResize
  <2>3. up
    BY <1>2 DEF dictResize, MayChange
  <2>4. d' = d \/ (~ExpandRefused(d, minimal) /\ d' = Expanded(d, minimal))
    BY <1>2, <2>1 DEF dictResize, MayChange
  <2> QED
    BY <2>2, <2>3, <2>4, MaintenanceIsStore
<1>3. CASE \E policy \in Policies : dictSetResizeEnabled(policy)
  <2>1. up /\ up' = up /\ d' = d /\ ret' = Return("maintain", {}, TRUE, {})
    BY <1>3 DEF dictSetResizeEnabled, MayRead
  <2>2. Store!Maintain(TRUE)
    BY <2>1, SameReturn DEF Store!Maintain, Store!Keep, store
  <2> QED
    BY <2>1, <2>2 DEF Store!Next
<1>4. CASE UNCHANGED vars
  BY <1>4 DEF vars, store
<1> QED
  BY <1>1, <1>2, <1>3, <1>4, dictAddIsStore, dictReplaceIsStore, dictSetValIsStore, dictFindIsStore,
     dictGenericDeleteIsStore, dictTwoPhaseUnlinkFreeIsStore, dictEmptyIsStore DEF Next

\* The dict keeps what DictStore promises, whatever its tables do: it holds a
\* key at most once, and never answers for another key than the one asked for.
THEOREM DictIsStore == Spec => Refinement
<1>1. Spec => []Sane
  BY Invariant, PTL DEF IInv
<1> QED
  BY <1>1, InitIsStore, NextIsStore, PTL DEF Spec, Refinement, Store!Spec

=============================================================================
