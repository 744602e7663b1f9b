---------------------------- MODULE AdlistProofs ----------------------------
(***************************************************************************)
(* Proofs about the linked lists of Adlist.                                *)
(*                                                                         *)
(* The invariant names the chain of each list that is not torn: a function *)
(* s with the list's nodes at 1..m, in order, between a NULL at 0 and a    *)
(* NULL at m + 1.  head is s[1], tail is s[m], and the node s[k] has       *)
(* s[k + 1] next and s[k - 1] before it.  An operation on a list is then   *)
(* an operation on its chain, and Walk, defined by recursion on the links, *)
(* reads the chain.                                                        *)
(*                                                                         *)
(* The second part proves that the lists implement the sequences of        *)
(* ListSeq.  A list without a defect stands for the sequence of the nodes  *)
(* of its chain, s read from 1 to m; a list with a defect stands for       *)
(* Broken.  What each handler does to a chain (PutIn, TakenOut, Turned,    *)
(* JoinedTo, ...) is then a step of ListSeq on that sequence.              *)
(***************************************************************************)
EXTENDS Adlist, RecursionFacts, SequenceTheorems, TLAPS

Strung(i, m, s) ==
  /\ s[0] = NULL /\ s[m + 1] = NULL
  /\ \A k \in 1..m : s[k] \in NodesOf(i)
  /\ \A n \in NodesOf(i) : \E k \in 1..m : s[k] = n
  /\ \A j, k \in 1..m : s[j] = s[k] => j = k
  /\ list[i].head = s[1] /\ list[i].tail = s[m]
  /\ \A k \in 1..m : link[s[k]].next = s[k + 1] /\ link[s[k]].prev = s[k - 1]

Chains(m) == [0..(m + 1) -> Node \union {NULL}]

\* The chain of a list, with its length when the list has no defect.
ChainOf(i, m, s) ==
  /\ m \in 0..Cardinality(Node) /\ s \in Chains(m) /\ Strung(i, m, s)
  /\ defect[i] = {} => list[i].len = m

ListInv(i) ==
  "torn" \notin defect[i] => \E m \in 0..Cardinality(Node) : \E s \in Chains(m) : ChainOf(i, m, s)

\* The iterator at s[k]: what it has still to return is ahead of it, what it
\* has returned is not.
Ahead(j, k) == IF iter.forward THEN j >= k ELSE j <= k

IterAt(i, m, s, k) ==
  /\ iter.next = s[k]
  /\ owed \subseteq NodesOf(i) /\ given \subseteq NodesOf(i)
  /\ \A j \in 1..m : (s[j] \in owed => Ahead(j, k)) /\ (s[j] \in given => ~Ahead(j, k))

IterIn(i) ==
  /\ defect[i] = {}
  /\ \E m \in 0..Cardinality(Node) : \E s \in Chains(m) : \E k \in 1..m :
       ChainOf(i, m, s) /\ IterAt(i, m, s, k)

IterInv == IF iter.next = NULL THEN owed = {} ELSE \E i \in List : IterIn(i)

IInv == TypeOK /\ (\A i \in List : ListInv(i)) /\ IterInv

-----------------------------------------------------------------------------
(* What the recursions on the links compute.                               *)

\* The nodes from s[1] on along a field of the links: m of them, then NULL.
Follows(field, m, s) ==
  /\ s[m + 1] = NULL
  /\ \A k \in 1..m : s[k] \in Node /\ link[s[k]][field] = s[k + 1]

\* The recursion of Walk and of Nth.
Taken(field, s, steps, at) ==
  at = [k \in 0..steps |->
          IF k = 0 THEN s[1] ELSE IF at[k - 1] = NULL THEN NULL ELSE link[at[k - 1]][field]]

\* Step steps from s[1] the recursion is at the next node, or at NULL from m on.
LEMMA StepsFollow ==
  ASSUME NEW field, NEW m \in Nat, NEW s, Follows(field, m, s), NEW steps \in Nat,
         NEW at, Taken(field, s, steps, at)
  PROVE  \A k \in 0..steps : at[k] = IF k < m THEN s[k + 1] ELSE NULL
<1> USE DEF Taken
<1> DEFINE S == {k \in Nat : k <= steps => at[k] = IF k < m THEN s[k + 1] ELSE NULL}
<1>1. 0 \in S
  BY DEF Follows
<1>2. ASSUME NEW k \in Nat, k \in S PROVE k + 1 \in S
  <2> SUFFICES ASSUME k + 1 <= steps PROVE at[k + 1] = IF k + 1 < m THEN s[k + 2] ELSE NULL
    OBVIOUS
  <2>1. at[k + 1] = IF at[k] = NULL THEN NULL ELSE link[at[k]][field]
    BY (k + 1) - 1 = k
  <2>2. at[k] = IF k < m THEN s[k + 1] ELSE NULL
    BY <1>2
  <2>3. CASE k < m
    <3>1. s[k + 1] # NULL /\ link[s[k + 1]][field] = s[k + 2]
      BY <2>3, NullAssumption, (k + 1) + 1 = k + 2 DEF Follows
    <3> QED
      BY <2>1, <2>2, <2>3, <3>1 DEF Follows
  <2> QED
    BY <2>1, <2>2, <2>3
<1>3. Nat \subseteq S
  <2> HIDE DEF S
  <2> QED
    BY <1>1, <1>2, InductionOverNat
<1> SUFFICES ASSUME NEW k \in 0..steps PROVE at[k] = IF k < m THEN s[k + 1] ELSE NULL
  OBVIOUS
<1>4. k \in Nat /\ k <= steps
  OBVIOUS
<1>5. k \in S
  BY <1>3, <1>4
<1> QED
  BY <1>4, <1>5

\* The recursion defines a function.
LEMMA StepsDefined ==
  ASSUME NEW field, NEW m \in Nat, NEW s, Follows(field, m, s), NEW steps \in Nat
  PROVE  \E at : Taken(field, s, steps, at)
<1> DEFINE at == [k \in 0..steps |-> IF k < m THEN s[k + 1] ELSE NULL]
<1>1. ASSUME NEW k \in 0..steps
      PROVE  at[k] = IF k = 0 THEN s[1] ELSE IF at[k - 1] = NULL THEN NULL ELSE link[at[k - 1]][field]
  <2>1. CASE k = 0
    BY <2>1 DEF Follows
  <2>2. CASE k # 0
    <3>1. at[k - 1] = IF k - 1 < m THEN s[k] ELSE NULL
      BY <2>2
    <3>2. CASE k <= m
      <4>1. s[k] # NULL /\ link[s[k]][field] = s[k + 1]
        BY <2>2, <3>2, NullAssumption DEF Follows
      <4> QED
        BY <2>2, <3>1, <3>2, <4>1 DEF Follows
    <3> QED
      BY <2>2, <3>1, <3>2
  <2> QED
    BY <2>1, <2>2
<1>2. Taken(field, s, steps, at)
  BY <1>1, Zenon DEF Taken
<1> HIDE DEF at
<1> QED
  BY <1>2

\* Walk reads the nodes that a field of the links strings together.
LEMMA WalkFollows ==
  ASSUME NEW field, NEW m \in 0..Cardinality(Node), NEW s, Follows(field, m, s)
  PROVE  Walk(s[1], field) = [k \in 1..m |-> s[k]]
<1> DEFINE C == Cardinality(Node)
           at == CHOOSE at : Taken(field, s, C, at)
           ends == {k \in DOMAIN at : at[k] = NULL}
<1>1. C \in Nat /\ m \in Nat
  BY LenAssumption, FS_CardinalityType
<1>2. Taken(field, s, C, at)
  BY <1>1, StepsDefined
<1>3. Walk(s[1], field) = IF ends = {} THEN << >> ELSE [k \in 1..Min(ends) |-> at[k - 1]]
  BY DEF Walk, Taken
<1> HIDE DEF at
<1>4. DOMAIN at = 0..C
  BY <1>2 DEF Taken
<1>5. \A k \in 0..C : at[k] = IF k < m THEN s[k + 1] ELSE NULL
  <2> HIDE DEF C
  <2> QED
    BY <1>1, <1>2, StepsFollow
<1>6. \A k \in 0..C : at[k] = NULL <=> m <= k
  BY <1>5, <1>1, NullAssumption DEF Follows
<1>7. ends = m..C
  BY <1>4, <1>6, <1>1
<1>8. Min(ends) = m
  BY <1>7, <1>1 DEF Min
<1>9. \A k \in 1..m : at[k - 1] = s[k]
  BY <1>5, <1>1
<1>10. [k \in 1..Min(ends) |-> at[k - 1]] = [k \in 1..m |-> s[k]]
  BY <1>8, <1>9
<1>11. ends # {}
  BY <1>7, <1>1
<1> QED
  BY <1>3, <1>10, <1>11, Zenon

\* Nth, from the head or from the tail, finds the node at its number of steps.
LEMMA NthFollows ==
  ASSUME NEW i \in List, NEW index \in Int, NEW steps \in Nat, NEW m \in Nat, NEW s,
         NEW field, field = (IF index < 0 THEN "prev" ELSE "next"), Follows(field, m, s),
         s[1] = IF index < 0 THEN list[i].tail ELSE list[i].head
  PROVE  Nth(i, index, steps) = IF steps < m THEN s[steps + 1] ELSE NULL
<1> DEFINE at == CHOOSE at : Taken(field, s, steps, at)
<1>1. Nth(i, index, steps) = at[steps]
  BY DEF Nth, Taken
<1>2. Taken(field, s, steps, at)
  BY StepsDefined
<1> HIDE DEF at
<1>3. \A k \in 0..steps : at[k] = IF k < m THEN s[k + 1] ELSE NULL
  BY <1>2, StepsFollow
<1> QED
  BY <1>1, <1>3

-----------------------------------------------------------------------------
(* What the assignments of the handlers write.                             *)

\* The numbers: a list counts at most the nodes there are, so len does not wrap.
LEMMA Lengths ==
  /\ LenMax \in Nat /\ Cardinality(Node) \in Nat /\ IsFiniteSet(Node) /\ Cardinality(Node) <= LenMax
  /\ \A len, k \in 0..LenMax : /\ Plus(len, k) \in 0..LenMax
                               /\ len + k <= LenMax => Plus(len, k) = len + k
                               /\ Less(len) \in 0..LenMax
                               /\ len > 0 => Less(len) = len - 1
<1>1. LenMax \in Nat /\ Cardinality(Node) \in Nat /\ IsFiniteSet(Node) /\ Cardinality(Node) <= LenMax
  BY LenAssumption, FS_CardinalityType
<1>2. ASSUME NEW len \in 0..LenMax, NEW k \in 0..LenMax
      PROVE  /\ Plus(len, k) \in 0..LenMax
             /\ len + k <= LenMax => Plus(len, k) = len + k
             /\ len > 0 => Plus(len, LenMax) = len - 1
  <2>1. len + k \in Nat /\ LenMax + 1 \in Nat /\ LenMax + 1 > 0
    BY <1>1
  <2>2. (len + k) % (LenMax + 1) \in 0..LenMax
    BY <2>1, <1>1, Division
  <2>3. ASSUME len + k <= LenMax PROVE (len + k) % (LenMax + 1) = len + k
    BY <2>1, <2>3, <1>1
  <2>4. ASSUME len > 0 PROVE (len + LenMax) % (LenMax + 1) = len - 1
    <3>1. len + LenMax = (len - 1) + 1 * (LenMax + 1)
      BY <1>1
    <3>2. (len + LenMax) % (LenMax + 1) = (len - 1) % (LenMax + 1)
      BY <3>1, <2>1, <1>1, SameRemainder
    <3> QED
      BY <3>2, <2>4, <1>1
  <2> QED
    BY <2>2, <2>3, <2>4 DEF Plus
<1>3. LenMax \in 0..LenMax
  BY <1>1
<1> QED
  BY <1>1, <1>2, <1>3 DEF Less

Links == [prev : Node \union {NULL}, next : Node \union {NULL}]

Lists == [head : Node \union {NULL}, tail : Node \union {NULL}, len : 0..LenMax, free : BOOLEAN]

\* What a handler reads of the links, of the lists and of the iterator.
LEMMA FieldTypes ==
  ASSUME TypeOK
  PROVE  /\ link \in [Node -> Links]
         /\ \A n \in Node : link[n].prev \in Node \union {NULL} /\ link[n].next \in Node \union {NULL}
         /\ \A i \in List : /\ list[i].head \in Node \union {NULL} /\ list[i].tail \in Node \union {NULL}
                            /\ list[i].len \in 0..LenMax /\ list[i].free \in BOOLEAN
         /\ iter.next \in Node \union {NULL}
BY DEF TypeOK, Links

\* A list of any node may count one.
LEMMA OneIsALength == ASSUME NEW n \in Node PROVE 1 \in 0..LenMax
<1>1. Cardinality(Node) # 0
  BY Lengths, FS_EmptySet
<1> QED
  BY <1>1, Lengths

\* The sum of two lengths, when it is one.
LEMMA Sums ==
  ASSUME NEW len \in 0..LenMax, NEW k \in 0..LenMax
  PROVE  Plus(len, k) \in 0..LenMax /\ (len + k <= LenMax => Plus(len, k) = len + k)
BY Lengths

\* The length of a list with one more node.
LEMMA OneMore ==
  ASSUME TypeOK, NEW i \in List, NEW n \in Node
  PROVE  /\ Plus(list[i].len, 1) \in 0..LenMax
         /\ list[i].len + 1 <= Cardinality(Node) => Plus(list[i].len, 1) = list[i].len + 1
<1>1. list[i].len \in 0..LenMax /\ 1 \in 0..LenMax
  BY FieldTypes, OneIsALength
<1>2. PICK len \in 0..LenMax : len = list[i].len
  BY <1>1
<1>3. Plus(len, 1) \in 0..LenMax /\ (len + 1 <= LenMax => Plus(len, 1) = len + 1)
  BY <1>1, Sums
<1>4. Cardinality(Node) \in Nat /\ LenMax \in Nat /\ Cardinality(Node) <= LenMax
  BY Lengths
<1> QED
  BY <1>2, <1>3, <1>4

\* One field of one list.
LEMMA FieldOfList ==
  ASSUME NEW f \in [List -> Lists], NEW i \in List, NEW n \in Node \union {NULL}, NEW len \in 0..LenMax
  PROVE  /\ [f EXCEPT ![i].head = n] \in [List -> Lists]
         /\ [f EXCEPT ![i].tail = n] \in [List -> Lists]
         /\ [f EXCEPT ![i].len = len] \in [List -> Lists]
         /\ [f EXCEPT ![i].head = n][i] = [f[i] EXCEPT !.head = n]
         /\ [f EXCEPT ![i].tail = n][i] = [f[i] EXCEPT !.tail = n]
         /\ [f EXCEPT ![i].len = len][i] = [f[i] EXCEPT !.len = len]
         /\ \A j \in List : j # i => /\ [f EXCEPT ![i].head = n][j] = f[j]
                                     /\ [f EXCEPT ![i].tail = n][j] = f[j]
                                     /\ [f EXCEPT ![i].len = len][j] = f[j]
BY DEF Lists

\* List i is written, and no other one.
Wrote(i, head, tail, len) ==
  /\ list' \in [List -> Lists]
  /\ list'[i] = [head |-> head, tail |-> tail, len |-> len, free |-> list[i].free]
  /\ \A j \in List : j # i => list'[j] = list[j]

\* The assignments of the handlers to one list, as what they write.
LEMMA WroteHeadTailLen ==
  ASSUME TypeOK, NEW i \in List, NEW head \in Node \union {NULL}, NEW tail \in Node \union {NULL},
         NEW len \in 0..LenMax
  PROVE  /\ list' = [list EXCEPT ![i].head = head, ![i].len = len] => Wrote(i, head, list[i].tail, len)
         /\ list' = [list EXCEPT ![i].tail = tail] => Wrote(i, list[i].head, tail, list[i].len)
         /\ list' = [list EXCEPT ![i].head = head, ![i].tail = tail] => Wrote(i, head, tail, list[i].len)
         /\ list' = [list EXCEPT ![i].head = head, ![i].tail = tail, ![i].len = len]
              => Wrote(i, head, tail, len)
<1> DEFINE f == [list EXCEPT ![i].head = head]
           g == [f EXCEPT ![i].tail = tail]
           h == [g EXCEPT ![i].len = len]
           u == [f EXCEPT ![i].len = len]
           v == [list EXCEPT ![i].tail = tail]
<1>0. list \in [List -> Lists] /\ list[i] \in Lists
  BY DEF TypeOK, Lists
<1>1. /\ f \in [List -> Lists] /\ f[i] = [list[i] EXCEPT !.head = head]
      /\ \A j \in List : j # i => f[j] = list[j]
  BY <1>0, FieldOfList
<1>2. /\ v \in [List -> Lists] /\ v[i] = [list[i] EXCEPT !.tail = tail]
      /\ \A j \in List : j # i => v[j] = list[j]
  BY <1>0, FieldOfList
<1> HIDE DEF f, v
<1>3. /\ g \in [List -> Lists] /\ g[i] = [f[i] EXCEPT !.tail = tail]
      /\ \A j \in List : j # i => g[j] = list[j]
  BY <1>1, FieldOfList, ZenonT(60)
<1>4. /\ u \in [List -> Lists] /\ u[i] = [f[i] EXCEPT !.len = len]
      /\ \A j \in List : j # i => u[j] = list[j]
  BY ZenonT(60), <1>1, FieldOfList
<1> HIDE DEF g
<1>5. /\ h \in [List -> Lists] /\ h[i] = [g[i] EXCEPT !.len = len]
      /\ \A j \in List : j # i => h[j] = list[j]
  BY ZenonT(60), <1>3, FieldOfList
<1> HIDE DEF h, u
<1>6. u[i] = [head |-> head, tail |-> list[i].tail, len |-> len, free |-> list[i].free]
  BY <1>0, <1>1, <1>4, ZenonT(60) DEF Lists
<1>7. v[i] = [head |-> list[i].head, tail |-> tail, len |-> list[i].len, free |-> list[i].free]
  BY <1>0, <1>2 DEF Lists
<1>8. g[i] = [head |-> head, tail |-> tail, len |-> list[i].len, free |-> list[i].free]
  BY <1>0, <1>1, <1>3, ZenonT(60) DEF Lists
<1>9. h[i] = [head |-> head, tail |-> tail, len |-> len, free |-> list[i].free]
  BY <1>8, <1>5
<1>10. ASSUME list' = [list EXCEPT ![i].head = head, ![i].len = len]
       PROVE  Wrote(i, head, list[i].tail, len)
  <2>1. list' = u
    BY <1>10, Zenon DEF u, f
  <2> QED
    BY <2>1, <1>4, <1>6 DEF Wrote
<1>11. ASSUME list' = [list EXCEPT ![i].tail = tail]
       PROVE  Wrote(i, list[i].head, tail, list[i].len)
  <2>1. list' = v
    BY <1>11 DEF v
  <2> QED
    BY <2>1, <1>2, <1>7 DEF Wrote
<1>12. ASSUME list' = [list EXCEPT ![i].head = head, ![i].tail = tail]
       PROVE  Wrote(i, head, tail, list[i].len)
  <2>1. list' = g
    BY <1>12, Zenon DEF f, g
  <2> QED
    BY <2>1, <1>3, <1>8 DEF Wrote
<1>13. ASSUME list' = [list EXCEPT ![i].head = head, ![i].tail = tail, ![i].len = len]
       PROVE  Wrote(i, head, tail, len)
  <2>1. list' = h
    BY <1>13, Zenon DEF f, g, h
  <2> QED
    BY <2>1, <1>5, <1>9 DEF Wrote
<1> QED
  BY <1>10, <1>11, <1>12, <1>13

\* One field of a node, and both.
LEMMA FieldOfNode ==
  ASSUME NEW f \in [Node -> Links], NEW n \in Node, NEW v \in Node \union {NULL}
  PROVE  /\ [f EXCEPT ![n].prev = v] \in [Node -> Links]
         /\ [f EXCEPT ![n].next = v] \in [Node -> Links]
         /\ \A x \in Node :
              /\ [f EXCEPT ![n].prev = v][x].prev = IF x = n THEN v ELSE f[x].prev
              /\ [f EXCEPT ![n].prev = v][x].next = f[x].next
              /\ [f EXCEPT ![n].next = v][x].prev = f[x].prev
              /\ [f EXCEPT ![n].next = v][x].next = IF x = n THEN v ELSE f[x].next
BY DEF Links

\* Both fields of a node at once.
LEMMA WholeNode ==
  ASSUME NEW f \in [Node -> Links], NEW n \in Node, NEW v \in Node \union {NULL}, NEW w \in Node \union {NULL}
  PROVE  /\ [f EXCEPT ![n] = [prev |-> v, next |-> w]] \in [Node -> Links]
         /\ \A x \in Node :
              /\ [f EXCEPT ![n] = [prev |-> v, next |-> w]][x].prev = IF x = n THEN v ELSE f[x].prev
              /\ [f EXCEPT ![n] = [prev |-> v, next |-> w]][x].next = IF x = n THEN w ELSE f[x].next
BY DEF Links

\* The nodes of each list once a node is somewhere else.
LEMMA NodeMoved ==
  ASSUME TypeOK, NEW n \in Node, NEW to \in List \union {"client", "free", "lost"},
         owner' = [owner EXCEPT ![n] = to]
  PROVE  /\ owner' \in [Node -> List \union {"client", "free", "lost"}]
         /\ \A i \in List : NodesOf(i)' = IF i = to THEN NodesOf(i) \union {n} ELSE NodesOf(i) \ {n}
BY DEF TypeOK, NodesOf

\* Forgetting the iteration, or following it no further.
LEMMA ForgetTypes ==
  ASSUME TypeOK, NEW i, ForgetIteration(i)
  PROVE  /\ iter' \in [next : Node \union {NULL}, forward : BOOLEAN]
         /\ owed' \subseteq Node /\ given' \subseteq Node
<1>1. CASE Iterating(i)
  <2>1. iter' = [next |-> NULL, forward |-> TRUE] /\ owed' = {} /\ given' = {}
    BY <1>1 DEF ForgetIteration, NoIterator
  <2>2. NULL \in Node \union {NULL} /\ TRUE \in BOOLEAN
    OBVIOUS
  <2> QED
    BY <2>1, <2>2
<1>2. CASE ~Iterating(i)
  BY <1>2 DEF ForgetIteration, TypeOK
<1> QED
  BY <1>1, <1>2

\* Straying changes nothing that the invariant speaks of.
LEMMA StrayStep == IInv /\ Stray => IInv'
<1> SUFFICES ASSUME IInv, Stray PROVE IInv'
  OBVIOUS
<1>1. TypeOK'
  BY DEF IInv, TypeOK, Stray
<1>2. \A i \in List : ListInv(i)'
  BY DEF IInv, Stray, ListInv, ChainOf, Strung, NodesOf
<1>3. IterInv'
  BY DEF IInv, Stray, IterInv, IterIn, IterAt, ChainOf, Strung, NodesOf, Ahead
<1> QED
  BY <1>1, <1>2, <1>3 DEF IInv

\* A node that is in no list, for it is free, lost or the client's.
LEMMA NotInList ==
  ASSUME NEW n, owner[n] \in {"client", "free", "lost"}
  PROVE  \A i \in List : n \notin NodesOf(i)
BY ListAssumption DEF NodesOf

-----------------------------------------------------------------------------
(* Chains.                                                                 *)

\* A chain is no longer than there are nodes.
LEMMA ChainFits ==
  ASSUME NEW m \in Nat, NEW s, \A k \in 1..m : s[k] \in Node,
         \A j, k \in 1..m : s[j] = s[k] => j = k
  PROVE  m \in 0..Cardinality(Node)
<1> DEFINE f == [k \in 1..m |-> s[k]]
<1>1. f \in Injection(1..m, Node)
  BY DEF Injection, IsInjective
<1>2. IsFiniteSet(1..m) /\ Cardinality(1..m) = m
  BY FS_Interval
<1>3. Cardinality(1..m) <= Cardinality(Node)
  BY <1>1, <1>2, Lengths, FS_Injection
<1>4. Cardinality(Node) \in Nat /\ LenMax \in Nat /\ Cardinality(Node) <= LenMax
  BY Lengths
<1> QED
  BY <1>2, <1>3, <1>4

\* The elements of a chain.
LEMMA ChainNodes ==
  ASSUME NEW i, NEW m, NEW s, ChainOf(i, m, s)
  PROVE  /\ m \in Nat /\ s \in Chains(m) /\ Strung(i, m, s)
         /\ \A k \in 1..m : s[k] \in Node /\ s[k] \in NodesOf(i)
         /\ \A k \in 0..(m + 1) : s[k] \in Node \union {NULL} /\ (s[k] = NULL <=> k \in {0, m + 1})
<1>1. m \in Nat /\ s \in Chains(m) /\ Strung(i, m, s)
  BY Lengths DEF ChainOf
<1>2. \A k \in 1..m : s[k] \in Node /\ s[k] \in NodesOf(i)
  BY <1>1 DEF Strung, NodesOf
<1>3. \A k \in 0..(m + 1) : s[k] \in Node \union {NULL}
  BY <1>1 DEF Chains
<1>4. s[0] = NULL /\ s[m + 1] = NULL
  BY <1>1 DEF Strung
<1>5. \A k \in 0..(m + 1) : s[k] = NULL <=> k \in {0, m + 1}
  BY <1>1, <1>2, <1>4, NullAssumption
<1> QED
  BY <1>1, <1>2, <1>3, <1>5

\* What a step does not touch in list i.
Untouched(i) ==
  /\ list'[i] = list[i] /\ defect'[i] = defect[i] /\ NodesOf(i)' = NodesOf(i)
  /\ \A n \in NodesOf(i) : link'[n] = link[n]

\* A list that is not touched keeps its chain, and so its part of the invariant.
LEMMA ChainStays ==
  ASSUME NEW i, Untouched(i), NEW m, NEW s, ChainOf(i, m, s)
  PROVE  ChainOf(i, m, s)'
BY DEF ChainOf, Strung, Untouched

\* A list that is not touched keeps its part of the invariant.
LEMMA ListStays ==
  ASSUME NEW i, Untouched(i), ListInv(i)
  PROVE  ListInv(i)'
<1> SUFFICES ASSUME "torn" \notin defect[i]
             PROVE  \E m \in 0..Cardinality(Node) : \E s \in Chains(m) : ChainOf(i, m, s)'
  BY DEF ListInv, Untouched
<1>1. PICK m \in 0..Cardinality(Node) : \E s \in Chains(m) : ChainOf(i, m, s)
  BY DEF ListInv
<1> QED
  BY <1>1, ChainStays

\* The iterator in a list that is not touched.
LEMMA IterationStays ==
  ASSUME NEW i, Untouched(i), IterIn(i), iter' = iter, owed' \subseteq owed, given' \subseteq given
  PROVE  IterIn(i)'
<1>1. PICK m, s, k : /\ m \in 0..Cardinality(Node) /\ s \in Chains(m) /\ k \in 1..m
                     /\ ChainOf(i, m, s) /\ IterAt(i, m, s, k)
  BY DEF IterIn
<1>2. ChainOf(i, m, s)'
  BY <1>1, ChainStays
<1>3. IterAt(i, m, s, k)'
  BY <1>1 DEF IterAt, Ahead, Untouched
<1> QED
  BY <1>1, <1>2, <1>3 DEF IterIn, Untouched

\* The iterator is in the list whose node it returns next, and in no other.
LEMMA IteratorInOneList ==
  ASSUME NEW i, IterIn(i)
  PROVE  iter.next \in NodesOf(i) /\ iter.next # NULL /\ \A j : iter.next \in NodesOf(j) => j = i
<1>1. PICK m, s, k : /\ m \in 0..Cardinality(Node) /\ s \in Chains(m) /\ k \in 1..m
                     /\ ChainOf(i, m, s) /\ IterAt(i, m, s, k)
  BY DEF IterIn
<1>2. iter.next \in NodesOf(i)
  BY <1>1, ChainNodes DEF IterAt
<1> QED
  BY <1>2, NullAssumption DEF NodesOf

\* A step on list i, that leaves the iteration alone or forgets it.
LEMMA OneList ==
  ASSUME IInv, TypeOK', NEW i \in List, ListInv(i)', \A j \in List : j # i => Untouched(j),
         \/ ForgetIteration(i)
         \/ /\ iter' = iter /\ owed' \subseteq owed /\ given' \subseteq given
            /\ IterIn(i) => IterIn(i)'
  PROVE  IInv'
<1>1. \A j \in List : ListInv(j)'
  BY ListStays DEF IInv
<1>2. IterInv'
  <2>1. CASE ForgetIteration(i) /\ Iterating(i)
    BY <2>1 DEF ForgetIteration, NoIterator, IterInv
  <2>2. CASE ~(ForgetIteration(i) /\ Iterating(i))
    <3>1. /\ iter' = iter /\ owed' \subseteq owed /\ given' \subseteq given
          /\ IterIn(i) => IterIn(i)'
      BY <2>2, IteratorInOneList DEF ForgetIteration, Iterating
    <3>2. CASE iter.next = NULL
      BY <3>1, <3>2 DEF IInv, IterInv
    <3>3. CASE iter.next # NULL
      <4>1. PICK j \in List : IterIn(j)
        BY <3>3 DEF IInv, IterInv
      <4>2. IterIn(j)'
        BY <3>1, <4>1, IterationStays
      <4> QED
        BY <3>1, <3>3, <4>2 DEF IterInv
    <3> QED
      BY <3>2, <3>3
  <2> QED
    BY <2>1, <2>2
<1> QED
  BY <1>1, <1>2 DEF IInv

-----------------------------------------------------------------------------
(* A node put into a chain, and a node taken out of it.                    *)

Inserted(m, s, p, n) ==
  [k \in 0..(m + 2) |-> IF k < p THEN s[k] ELSE IF k = p THEN n ELSE s[k - 1]]

\* A step that puts n at p into the chain of i.
Inserts(i, m, s, p, n) ==
  /\ p \in 1..(m + 1)
  /\ NodesOf(i)' = NodesOf(i) \union {n}
  /\ list'[i].head = IF p = 1 THEN n ELSE list[i].head
  /\ list'[i].tail = IF p = m + 1 THEN n ELSE list[i].tail
  /\ link'[n].prev = s[p - 1] /\ link'[n].next = s[p]
  /\ \A k \in 1..m : /\ link'[s[k]].prev = IF k = p THEN n ELSE link[s[k]].prev
                     /\ link'[s[k]].next = IF k = p - 1 THEN n ELSE link[s[k]].next
  /\ defect'[i] = {} => list'[i].len = m + 1

\* With the node put in, the list has the longer chain.
LEMMA ChainInserted ==
  ASSUME NEW i, NEW m, NEW s, ChainOf(i, m, s), NEW n \in Node, n \notin NodesOf(i),
         NEW p, Inserts(i, m, s, p, n)
  PROVE  ChainOf(i, m + 1, Inserted(m, s, p, n))'
<1> DEFINE t == Inserted(m, s, p, n)
<1>1. /\ m \in Nat /\ p \in 1..(m + 1) /\ (m + 1) + 1 = m + 2
      /\ s[0] = NULL /\ s[m + 1] = NULL /\ \A k \in 1..m : s[k] \in NodesOf(i) /\ s[k] \in Node
      /\ \A k \in 0..(m + 1) : s[k] \in Node \union {NULL}
  BY ChainNodes DEF Inserts, Strung
<1>2. /\ t \in Chains(m + 1)
      /\ \A k \in 0..(m + 2) : t[k] = IF k < p THEN s[k] ELSE IF k = p THEN n ELSE s[k - 1]
  BY <1>1 DEF Inserted, Chains
<1> HIDE DEF t
<1>3. t[0] = NULL /\ t[m + 2] = NULL
  BY <1>1, <1>2
<1>4. \A k \in 1..(m + 1) : t[k] \in NodesOf(i)' /\ t[k] \in Node
  BY <1>1, <1>2 DEF Inserts
<1>5. ASSUME NEW x \in NodesOf(i)' PROVE \E k \in 1..(m + 1) : t[k] = x
  <2>1. CASE x = n
    BY <2>1, <1>1, <1>2
  <2>2. CASE x # n
    <3>1. PICK k \in 1..m : s[k] = x
      BY <2>2, ChainNodes DEF Strung, Inserts
    <3>2. t[IF k < p THEN k ELSE k + 1] = x
      BY <3>1, <1>1, <1>2
    <3> QED
      BY <3>2, <1>1
  <2> QED
    BY <2>1, <2>2
<1>6. ASSUME NEW j \in 1..(m + 1), NEW k \in 1..(m + 1), t[j] = t[k] PROVE j = k
  <2>1. \A a, b \in 1..m : s[a] = s[b] => a = b
    BY ChainNodes DEF Strung
  <2>2. \A a \in 1..m : s[a] # n
    BY <1>1
  <2> QED
    BY <1>1, <1>2, <1>6, <2>1, <2>2
<1>7. list'[i].head = t[1] /\ list'[i].tail = t[m + 1]
  <2>1. list[i].head = s[1] /\ list[i].tail = s[m]
    BY ChainNodes DEF Strung
  <2> QED
    BY <1>1, <1>2, <2>1 DEF Inserts
<1>8. ASSUME NEW k \in 1..(m + 1)
      PROVE  link'[t[k]].next = t[k + 1] /\ link'[t[k]].prev = t[k - 1]
  <2>1. \A a \in 1..m : link[s[a]].next = s[a + 1] /\ link[s[a]].prev = s[a - 1]
    BY ChainNodes DEF Strung
  <2>2. CASE k < p
    <3>1. link'[s[k]].next = (IF k = p - 1 THEN n ELSE s[k + 1]) /\ link'[s[k]].prev = s[k - 1]
      BY <1>1, <2>1, <2>2 DEF Inserts
    <3> QED
      BY <1>1, <1>2, <2>2, <3>1
  <2>3. CASE k = p
    BY <1>1, <1>2, <2>3 DEF Inserts
  <2>4. CASE k > p
    <3>1. /\ link'[s[k - 1]].next = s[k] /\ k - 1 \in 1..m
          /\ link'[s[k - 1]].prev = IF k - 1 = p THEN n ELSE s[k - 2]
      BY <1>1, <2>1, <2>4 DEF Inserts
    <3> QED
      BY <1>1, <1>2, <2>4, <3>1
  <2> QED
    BY <1>1, <2>2, <2>3, <2>4
<1>9. m + 1 \in 0..Cardinality(Node)
  BY <1>1, <1>4, <1>6, ChainFits
<1>10. Strung(i, m + 1, t)'
  BY <1>1, <1>3, <1>4, <1>5, <1>6, <1>7, <1>8 DEF Strung
<1>11. defect'[i] = {} => list'[i].len = m + 1
  BY DEF Inserts
<1> QED
  BY <1>2, <1>9, <1>10, <1>11 DEF ChainOf, t

\* An iterator in that list is where it was; the new node is neither owed nor given.
LEMMA IterationInserted ==
  ASSUME NEW i, NEW m, NEW s, ChainOf(i, m, s), NEW n \in Node, n \notin NodesOf(i),
         NEW p, Inserts(i, m, s, p, n), NEW k \in 1..m, IterAt(i, m, s, k),
         UNCHANGED <<iter, owed, given>>
  PROVE  \E l \in 1..(m + 1) : IterAt(i, m + 1, Inserted(m, s, p, n), l)'
<1> DEFINE t == Inserted(m, s, p, n)
           l == IF k < p THEN k ELSE k + 1
<1>1. m \in Nat /\ p \in 1..(m + 1) /\ l \in 1..(m + 1)
  BY ChainNodes DEF Inserts
<1>2. \A j \in 1..(m + 1) : t[j] = IF j < p THEN s[j] ELSE IF j = p THEN n ELSE s[j - 1]
  BY <1>1 DEF Inserted
<1> HIDE DEF t
<1>3. n \notin owed /\ n \notin given
  BY DEF IterAt
<1>4. iter'.next = t[l]
  BY <1>1, <1>2 DEF IterAt
<1>5. ASSUME NEW j \in 1..(m + 1)
      PROVE  (t[j] \in owed => Ahead(j, l)) /\ (t[j] \in given => ~Ahead(j, l))
  <2>1. \A a \in 1..m : (s[a] \in owed => Ahead(a, k)) /\ (s[a] \in given => ~Ahead(a, k))
    BY DEF IterAt
  <2> QED
    BY <1>1, <1>2, <1>3, <2>1 DEF Ahead
<1>6. IterAt(i, m + 1, t, l)'
  BY <1>4, <1>5 DEF IterAt, Inserts, Ahead
<1> QED
  BY <1>1, <1>6 DEF t

Removed(m, s, p) == [k \in 0..m |-> IF k < p THEN s[k] ELSE s[k + 1]]

\* A step that takes s[p], which is not the last node, out of the chain of i.
Removes(i, m, s, p) ==
  /\ p \in 1..(m - 1)
  /\ NodesOf(i)' = NodesOf(i) \ {s[p]}
  /\ list'[i].head = IF p = 1 THEN s[2] ELSE list[i].head
  /\ list'[i].tail = list[i].tail
  /\ \A k \in 1..m : k # p =>
       /\ link'[s[k]].prev = IF k = p + 1 THEN s[p - 1] ELSE link[s[k]].prev
       /\ link'[s[k]].next = IF k = p - 1 THEN s[p + 1] ELSE link[s[k]].next
  /\ defect'[i] = {} => list'[i].len = m - 1

\* With the node taken out, the list has the shorter chain.
LEMMA ChainRemoved ==
  ASSUME NEW i, NEW m, NEW s, ChainOf(i, m, s), NEW p, Removes(i, m, s, p)
  PROVE  ChainOf(i, m - 1, Removed(m, s, p))'
<1> DEFINE t == Removed(m, s, p)
<1>1. /\ m \in Nat /\ p \in 1..(m - 1) /\ (m - 1) + 1 = m /\ m - 1 \in Nat
      /\ s[0] = NULL /\ s[m + 1] = NULL /\ \A k \in 1..m : s[k] \in NodesOf(i) /\ s[k] \in Node
      /\ \A k \in 0..(m + 1) : s[k] \in Node \union {NULL}
      /\ \A a, b \in 1..m : s[a] = s[b] => a = b
  BY ChainNodes DEF Removes, Strung
<1>2. /\ t \in Chains(m - 1)
      /\ \A k \in 0..m : t[k] = IF k < p THEN s[k] ELSE s[k + 1]
  BY <1>1 DEF Removed, Chains
<1> HIDE DEF t
<1>3. t[0] = NULL /\ t[m] = NULL
  BY <1>1, <1>2
<1>4. \A k \in 1..(m - 1) : t[k] \in NodesOf(i)' /\ t[k] \in Node
  BY <1>1, <1>2 DEF Removes
<1>5. ASSUME NEW x \in NodesOf(i)' PROVE \E k \in 1..(m - 1) : t[k] = x
  <2>1. PICK k \in 1..m : s[k] = x /\ k # p
    BY ChainNodes DEF Strung, Removes
  <2>2. t[IF k < p THEN k ELSE k - 1] = x
    BY <2>1, <1>1, <1>2
  <2> QED
    BY <2>1, <2>2, <1>1
<1>6. ASSUME NEW j \in 1..(m - 1), NEW k \in 1..(m - 1), t[j] = t[k] PROVE j = k
  BY <1>1, <1>2, <1>6
<1>7. list'[i].head = t[1] /\ list'[i].tail = t[m - 1]
  <2>1. list[i].head = s[1] /\ list[i].tail = s[m]
    BY ChainNodes DEF Strung
  <2> QED
    BY <1>1, <1>2, <2>1 DEF Removes
<1>8. ASSUME NEW k \in 1..(m - 1)
      PROVE  link'[t[k]].next = t[k + 1] /\ link'[t[k]].prev = t[k - 1]
  <2>1. \A a \in 1..m : link[s[a]].next = s[a + 1] /\ link[s[a]].prev = s[a - 1]
    BY ChainNodes DEF Strung
  <2>2. CASE k < p
    <3>1. link'[s[k]].next = (IF k = p - 1 THEN s[p + 1] ELSE s[k + 1]) /\ link'[s[k]].prev = s[k - 1]
      BY <1>1, <2>1, <2>2 DEF Removes
    <3> QED
      BY <1>1, <1>2, <2>2, <3>1
  <2>3. CASE k >= p
    <3>1. /\ link'[s[k + 1]].next = s[k + 2] /\ k + 1 \in 1..m
          /\ link'[s[k + 1]].prev = IF k = p THEN s[p - 1] ELSE s[k]
      BY <1>1, <2>1, <2>3 DEF Removes
    <3> QED
      BY <1>1, <1>2, <2>3, <3>1
  <2> QED
    BY <1>1, <2>2, <2>3
<1>9. m - 1 \in 0..Cardinality(Node)
  BY <1>1, Lengths DEF ChainOf
<1>10. Strung(i, m - 1, t)'
  BY <1>1, <1>3, <1>4, <1>5, <1>6, <1>7, <1>8 DEF Strung
<1>11. defect'[i] = {} => list'[i].len = m - 1
  BY DEF Removes
<1> QED
  BY <1>2, <1>9, <1>10, <1>11 DEF ChainOf, t

\* An iterator at another node of that list is where it was.
LEMMA IterationRemoved ==
  ASSUME NEW i, NEW m, NEW s, ChainOf(i, m, s), NEW p, Removes(i, m, s, p),
         NEW k \in 1..m, IterAt(i, m, s, k), iter.next # s[p],
         iter' = iter, owed' = owed \ {s[p]}, given' = given \ {s[p]}
  PROVE  \E l \in 1..(m - 1) : IterAt(i, m - 1, Removed(m, s, p), l)'
<1> DEFINE t == Removed(m, s, p)
           l == IF k < p THEN k ELSE k - 1
<1>1. m \in Nat /\ p \in 1..(m - 1) /\ k # p /\ l \in 1..(m - 1)
  BY ChainNodes DEF Removes, IterAt
<1>2. \A j \in 1..(m - 1) : t[j] = IF j < p THEN s[j] ELSE s[j + 1]
  BY <1>1 DEF Removed
<1> HIDE DEF t
<1>3. iter'.next = t[l]
  BY <1>1, <1>2 DEF IterAt
<1>4. ASSUME NEW j \in 1..(m - 1)
      PROVE  (t[j] \in owed => Ahead(j, l)) /\ (t[j] \in given => ~Ahead(j, l))
  <2>1. \A a \in 1..m : (s[a] \in owed => Ahead(a, k)) /\ (s[a] \in given => ~Ahead(a, k))
    BY DEF IterAt
  <2> QED
    BY <1>1, <1>2, <2>1 DEF Ahead
<1>5. owed' \subseteq NodesOf(i)' /\ given' \subseteq NodesOf(i)'
  BY DEF IterAt, Removes
<1>6. IterAt(i, m - 1, t, l)'
  BY <1>3, <1>4, <1>5 DEF IterAt, Ahead
<1> QED
  BY <1>1, <1>6 DEF t

-----------------------------------------------------------------------------
(* Chains of one node and of none, turned chains and joined ones.          *)

\* A list that holds one node has a chain of it.
LEMMA ChainOfOne ==
  ASSUME NEW i, NEW n \in Node, NodesOf(i)' = {n}, list'[i].head = n, list'[i].tail = n,
         link'[n] = Alone, defect'[i] = {} => list'[i].len = 1
  PROVE  ListInv(i)'
<1> DEFINE t == [k \in 0..2 |-> IF k = 1 THEN n ELSE NULL]
<1>1. t \in Chains(1)
  BY DEF Chains
<1>2. t[0] = NULL /\ t[1] = n /\ t[2] = NULL
  OBVIOUS
<1> HIDE DEF t
<1>3. 1 \in 0..Cardinality(Node)
  <2>1. Cardinality(Node) # 0
    BY Lengths, FS_EmptySet
  <2> QED
    BY <2>1, Lengths
<1>4. \A k \in 1..1 : k = 1
  OBVIOUS
<1>5. Strung(i, 1, t)'
  BY <1>2, <1>4 DEF Strung, Alone
<1> QED
  BY <1>1, <1>3, <1>5 DEF ListInv, ChainOf

\* A list that holds no node has the empty chain.
LEMMA ChainOfNone ==
  ASSUME NEW i, NodesOf(i) = {}, list[i].head = NULL, list[i].tail = NULL, list[i].len = 0
  PROVE  \E s \in Chains(0) : ChainOf(i, 0, s)
<1> DEFINE t == [k \in 0..1 |-> NULL]
<1>1. t \in Chains(0) /\ t[0] = NULL /\ t[1] = NULL
  BY DEF Chains
<1> HIDE DEF t
<1>2. Strung(i, 0, t)
  BY <1>1 DEF Strung
<1> QED
  BY <1>1, <1>2, Lengths DEF ChainOf

TailFirst(m, s) ==
  [k \in 0..(m + 1) |-> IF k \in {0, m + 1} THEN NULL ELSE IF k = 1 THEN s[m] ELSE s[k - 1]]

\* A step that moves the last node of the chain of i to its front.
TailGoesFirst(i, m, s) ==
  /\ m > 1 /\ NodesOf(i)' = NodesOf(i) /\ defect'[i] = defect[i] /\ list'[i].len = list[i].len
  /\ list'[i].head = s[m] /\ list'[i].tail = s[m - 1]
  /\ \A k \in 1..m :
       /\ link'[s[k]].next = IF k = m - 1 THEN NULL ELSE IF k = m THEN s[1] ELSE link[s[k]].next
       /\ link'[s[k]].prev = IF k = 1 THEN s[m] ELSE IF k = m THEN NULL ELSE link[s[k]].prev

\* With the last node moved to the front, the list has the turned chain.
LEMMA ChainTailFirst ==
  ASSUME NEW i, NEW m, NEW s, ChainOf(i, m, s), TailGoesFirst(i, m, s)
  PROVE  ChainOf(i, m, TailFirst(m, s))'
<1> DEFINE t == TailFirst(m, s)
<1>1. /\ m \in Nat /\ m > 1
      /\ s[0] = NULL /\ s[m + 1] = NULL /\ \A k \in 1..m : s[k] \in NodesOf(i) /\ s[k] \in Node
      /\ \A a, b \in 1..m : s[a] = s[b] => a = b
  BY ChainNodes DEF TailGoesFirst, Strung
<1>2. /\ t \in Chains(m) /\ t[0] = NULL /\ t[m + 1] = NULL
      /\ \A k \in 1..m : t[k] = IF k = 1 THEN s[m] ELSE s[k - 1]
  BY <1>1 DEF TailFirst, Chains
<1> HIDE DEF t
<1>3. \A k \in 1..m : t[k] \in NodesOf(i)'
  BY <1>1, <1>2 DEF TailGoesFirst
<1>4. ASSUME NEW x \in NodesOf(i)' PROVE \E k \in 1..m : t[k] = x
  <2>1. PICK k \in 1..m : s[k] = x
    BY ChainNodes DEF Strung, TailGoesFirst
  <2>2. t[IF k = m THEN 1 ELSE k + 1] = x
    BY <2>1, <1>1, <1>2
  <2> QED
    BY <2>1, <2>2, <1>1
<1>5. ASSUME NEW j \in 1..m, NEW k \in 1..m, t[j] = t[k] PROVE j = k
  BY <1>1, <1>2, <1>5
<1>6. list'[i].head = t[1] /\ list'[i].tail = t[m]
  BY <1>1, <1>2 DEF TailGoesFirst
<1>7. ASSUME NEW k \in 1..m
      PROVE  link'[t[k]].next = t[k + 1] /\ link'[t[k]].prev = t[k - 1]
  <2>1. \A a \in 1..m : link[s[a]].next = s[a + 1] /\ link[s[a]].prev = s[a - 1]
    BY ChainNodes DEF Strung
  <2>2. \A a \in 1..m : /\ link'[s[a]].next = IF a = m - 1 THEN NULL ELSE IF a = m THEN s[1] ELSE s[a + 1]
                        /\ link'[s[a]].prev = IF a = 1 THEN s[m] ELSE IF a = m THEN NULL ELSE s[a - 1]
    BY <2>1, <1>1 DEF TailGoesFirst
  <2> QED
    BY <1>1, <1>2, <2>2
<1>8. Strung(i, m, t)'
  BY <1>1, <1>2, <1>3, <1>4, <1>5, <1>6, <1>7 DEF Strung
<1>9. defect'[i] = {} => list'[i].len = m
  BY DEF TailGoesFirst, ChainOf
<1> QED
  BY <1>2, <1>8, <1>9 DEF ChainOf, t

HeadLast(m, s) ==
  [k \in 0..(m + 1) |-> IF k \in {0, m + 1} THEN NULL ELSE IF k = m THEN s[1] ELSE s[k + 1]]

\* A step that moves the first node of the chain of i to its end.
HeadGoesLast(i, m, s) ==
  /\ m > 1 /\ NodesOf(i)' = NodesOf(i) /\ defect'[i] = defect[i] /\ list'[i].len = list[i].len
  /\ list'[i].head = s[2] /\ list'[i].tail = s[1]
  /\ \A k \in 1..m :
       /\ link'[s[k]].next = IF k = m THEN s[1] ELSE IF k = 1 THEN NULL ELSE link[s[k]].next
       /\ link'[s[k]].prev = IF k = 2 THEN NULL ELSE IF k = 1 THEN s[m] ELSE link[s[k]].prev

\* With the first node moved to the end, the list has the turned chain.
LEMMA ChainHeadLast ==
  ASSUME NEW i, NEW m, NEW s, ChainOf(i, m, s), HeadGoesLast(i, m, s)
  PROVE  ChainOf(i, m, HeadLast(m, s))'
<1> DEFINE t == HeadLast(m, s)
<1>1. /\ m \in Nat /\ m > 1
      /\ s[0] = NULL /\ s[m + 1] = NULL /\ \A k \in 1..m : s[k] \in NodesOf(i) /\ s[k] \in Node
      /\ \A a, b \in 1..m : s[a] = s[b] => a = b
  BY ChainNodes DEF HeadGoesLast, Strung
<1>2. /\ t \in Chains(m) /\ t[0] = NULL /\ t[m + 1] = NULL
      /\ \A k \in 1..m : t[k] = IF k = m THEN s[1] ELSE s[k + 1]
  BY <1>1 DEF HeadLast, Chains
<1> HIDE DEF t
<1>3. \A k \in 1..m : t[k] \in NodesOf(i)'
  BY <1>1, <1>2 DEF HeadGoesLast
<1>4. ASSUME NEW x \in NodesOf(i)' PROVE \E k \in 1..m : t[k] = x
  <2>1. PICK k \in 1..m : s[k] = x
    BY ChainNodes DEF Strung, HeadGoesLast
  <2>2. t[IF k = 1 THEN m ELSE k - 1] = x
    BY <2>1, <1>1, <1>2
  <2> QED
    BY <2>1, <2>2, <1>1
<1>5. ASSUME NEW j \in 1..m, NEW k \in 1..m, t[j] = t[k] PROVE j = k
  BY <1>1, <1>2, <1>5
<1>6. list'[i].head = t[1] /\ list'[i].tail = t[m]
  BY <1>1, <1>2 DEF HeadGoesLast
<1>7. ASSUME NEW k \in 1..m
      PROVE  link'[t[k]].next = t[k + 1] /\ link'[t[k]].prev = t[k - 1]
  <2>1. \A a \in 1..m : link[s[a]].next = s[a + 1] /\ link[s[a]].prev = s[a - 1]
    BY ChainNodes DEF Strung
  <2>2. \A a \in 1..m : /\ link'[s[a]].next = IF a = m THEN s[1] ELSE IF a = 1 THEN NULL ELSE s[a + 1]
                        /\ link'[s[a]].prev = IF a = 2 THEN NULL ELSE IF a = 1 THEN s[m] ELSE s[a - 1]
    BY <2>1, <1>1 DEF HeadGoesLast
  <2> QED
    BY <1>1, <1>2, <2>2
<1>8. Strung(i, m, t)'
  BY <1>1, <1>2, <1>3, <1>4, <1>5, <1>6, <1>7 DEF Strung
<1>9. defect'[i] = {} => list'[i].len = m
  BY DEF HeadGoesLast, ChainOf
<1> QED
  BY <1>2, <1>8, <1>9 DEF ChainOf, t

Joined(m, s, o, t) == [k \in 0..(m + o + 1) |-> IF k <= m THEN s[k] ELSE t[k - m]]

\* A step that puts the chain t of o, of p nodes, after the chain s of l, of m nodes.
Joins(l, m, s, o, p, t) ==
  /\ p > 0 /\ NodesOf(l)' = NodesOf(l) \union NodesOf(o)
  /\ list'[l].head = (IF m = 0 THEN t[1] ELSE list[l].head) /\ list'[l].tail = list[o].tail
  /\ \A k \in 1..m : /\ link'[s[k]].prev = link[s[k]].prev
                     /\ link'[s[k]].next = IF k = m THEN t[1] ELSE link[s[k]].next
  /\ \A k \in 1..p : /\ link'[t[k]].prev = IF k = 1 THEN s[m] ELSE link[t[k]].prev
                     /\ link'[t[k]].next = link[t[k]].next
  /\ defect'[l] = {} => list'[l].len = m + p

\* With the nodes of o linked behind its own, l has the chain of both.
LEMMA ChainJoined ==
  ASSUME NEW l, NEW m, NEW s, ChainOf(l, m, s), NEW o, NEW p, NEW t, ChainOf(o, p, t), l # o,
         Joins(l, m, s, o, p, t)
  PROVE  ChainOf(l, m + p, Joined(m, s, p, t))'
<1> DEFINE u == Joined(m, s, p, t)
<1>1. /\ m \in Nat /\ p \in Nat /\ p > 0 /\ m + p \in Nat
      /\ s[0] = NULL /\ t[p + 1] = NULL
      /\ \A k \in 1..m : s[k] \in NodesOf(l) /\ s[k] \in Node
      /\ \A k \in 1..p : t[k] \in NodesOf(o) /\ t[k] \in Node
      /\ \A a, b \in 1..m : s[a] = s[b] => a = b
      /\ \A a, b \in 1..p : t[a] = t[b] => a = b
  BY ChainNodes DEF Joins, Strung
<1>2. /\ u \in Chains(m + p)
      /\ \A k \in 0..(m + p + 1) : u[k] = IF k <= m THEN s[k] ELSE t[k - m]
  <2>1. \A k \in 0..(m + p + 1) : (IF k <= m THEN s[k] ELSE t[k - m]) \in Node \union {NULL}
    BY <1>1, ChainNodes
  <2> QED
    BY <2>1 DEF Joined, Chains
<1> HIDE DEF u
<1>3. u[0] = NULL /\ u[m + p + 1] = NULL
  BY <1>1, <1>2
<1>4. \A k \in 1..(m + p) : u[k] \in NodesOf(l)' /\ u[k] \in Node
  BY <1>1, <1>2 DEF Joins
<1>5. ASSUME NEW x \in NodesOf(l)' PROVE \E k \in 1..(m + p) : u[k] = x
  <2>1. CASE x \in NodesOf(l)
    <3>1. PICK k \in 1..m : s[k] = x
      BY <2>1, ChainNodes DEF Strung
    <3>2. u[k] = x /\ k \in 1..(m + p)
      BY <3>1, <1>1, <1>2
    <3> QED
      BY <3>2
  <2>2. CASE x \in NodesOf(o)
    <3>1. PICK k \in 1..p : t[k] = x
      BY <2>2, ChainNodes DEF Strung
    <3>2. u[m + k] = x /\ m + k \in 1..(m + p)
      BY <3>1, <1>1, <1>2
    <3> QED
      BY <3>2
  <2> QED
    BY <2>1, <2>2 DEF Joins
<1>6. ASSUME NEW j \in 1..(m + p), NEW k \in 1..(m + p), u[j] = u[k] PROVE j = k
  <2>1. \A a \in 1..m, b \in 1..p : s[a] # t[b]
    BY <1>1 DEF NodesOf
  <2> QED
    BY <1>1, <1>2, <1>6, <2>1
<1>7. list'[l].head = u[1] /\ list'[l].tail = u[m + p]
  <2>1. list[l].head = s[1] /\ list[o].tail = t[p]
    BY ChainNodes DEF Strung
  <2> QED
    BY <1>1, <1>2, <2>1 DEF Joins
<1>8. ASSUME NEW k \in 1..(m + p)
      PROVE  link'[u[k]].next = u[k + 1] /\ link'[u[k]].prev = u[k - 1]
  <2>1. /\ \A a \in 1..m : link[s[a]].next = s[a + 1] /\ link[s[a]].prev = s[a - 1]
        /\ \A a \in 1..p : link[t[a]].next = t[a + 1] /\ link[t[a]].prev = t[a - 1]
    BY ChainNodes DEF Strung
  <2>2. CASE k <= m
    <3>1. link'[s[k]].next = (IF k = m THEN t[1] ELSE s[k + 1]) /\ link'[s[k]].prev = s[k - 1]
      BY <1>1, <2>1, <2>2 DEF Joins
    <3> QED
      BY <1>1, <1>2, <2>2, <3>1
  <2>3. CASE k > m
    <3>1. PICK a \in 1..p : a = k - m
      BY <1>1, <2>3
    <3>2. link'[t[a]].next = t[a + 1] /\ link'[t[a]].prev = IF a = 1 THEN s[m] ELSE t[a - 1]
      BY <1>1, <2>1 DEF Joins
    <3>3. u[k] = t[a] /\ u[k + 1] = t[a + 1] /\ u[k - 1] = IF a = 1 THEN s[m] ELSE t[a - 1]
      BY <1>1, <1>2, <3>1
    <3> QED
      BY <3>2, <3>3
  <2> QED
    BY <1>1, <2>2, <2>3
<1>9. m + p \in 0..Cardinality(Node)
  BY <1>1, <1>4, <1>6, ChainFits
<1>10. Strung(l, m + p, u)'
  BY <1>1, <1>3, <1>4, <1>5, <1>6, <1>7, <1>8 DEF Strung
<1>11. defect'[l] = {} => list'[l].len = m + p
  BY DEF Joins
<1> QED
  BY <1>2, <1>9, <1>10, <1>11 DEF ChainOf, u

-----------------------------------------------------------------------------
(* What each operation does to the chain of its list.                      *)

Others(i) == \A j \in List : j # i => Untouched(j)

Kept == UNCHANGED <<iter, owed, given>>

\* n is put into the chain of i, if it has one.
PutIn(i, n) ==
  /\ TypeOK' /\ Others(i) /\ n \in Node /\ n \notin NodesOf(i)
  /\ defect[i] \subseteq defect'[i]
  /\ \A m, s : ChainOf(i, m, s) => \E p : Inserts(i, m, s, p, n)

\* Node number p, not the last one, is taken out of the chain of i.
TakenOut(i, n) ==
  /\ TypeOK' /\ Others(i) /\ n # iter.next
  /\ defect' = defect /\ iter' = iter /\ owed' = owed \ {n} /\ given' = given \ {n}
  /\ \A m, s : ChainOf(i, m, s) => \E p : s[p] = n /\ Removes(i, m, s, p)

\* There is a node for what is put into a chain.
LEMMA RoomForOne ==
  ASSUME NEW i, NEW m, NEW s, ChainOf(i, m, s), NEW n \in Node, n \notin NodesOf(i)
  PROVE  m + 1 <= Cardinality(Node)
<1> DEFINE t == [k \in 1..(m + 1) |-> IF k <= m THEN s[k] ELSE n]
<1>1. m \in Nat /\ \A k \in 1..m : s[k] \in Node /\ s[k] # n
  BY ChainNodes
<1>2. \A k \in 1..(m + 1) : t[k] = IF k <= m THEN s[k] ELSE n
  BY <1>1
<1> HIDE DEF t
<1>3. \A j, k \in 1..m : s[j] = s[k] => j = k
  BY ChainNodes DEF Strung
<1>4. \A k \in 1..(m + 1) : t[k] \in Node
  BY <1>1, <1>2
<1>5. \A j, k \in 1..(m + 1) : t[j] = t[k] => j = k
  BY <1>1, <1>2, <1>3
<1>6. m + 1 \in 0..Cardinality(Node)
  BY <1>1, <1>4, <1>5, ChainFits
<1> QED
  BY <1>6, Lengths

\* Two chains together have no more nodes than there are.
LEMMA RoomForBoth ==
  ASSUME NEW l, NEW m, NEW s, ChainOf(l, m, s), NEW o, NEW p, NEW t, ChainOf(o, p, t), l # o
  PROVE  m + p <= Cardinality(Node)
<1> DEFINE u == [k \in 1..(m + p) |-> IF k <= m THEN s[k] ELSE t[k - m]]
<1>1. /\ m \in Nat /\ p \in Nat
      /\ \A k \in 1..m : s[k] \in Node /\ s[k] \in NodesOf(l)
      /\ \A k \in 1..p : t[k] \in Node /\ t[k] \in NodesOf(o)
  BY ChainNodes
<1>2. \A k \in 1..(m + p) : u[k] = IF k <= m THEN s[k] ELSE t[k - m]
  BY <1>1
<1> HIDE DEF u
<1>3. /\ \A j, k \in 1..m : s[j] = s[k] => j = k
      /\ \A j, k \in 1..p : t[j] = t[k] => j = k
      /\ \A j \in 1..m, k \in 1..p : s[j] # t[k]
  BY <1>1, ChainNodes DEF Strung, NodesOf
<1>4. \A k \in 1..(m + p) : u[k] \in Node
  BY <1>1, <1>2
<1>5. \A j, k \in 1..(m + p) : u[j] = u[k] => j = k
  BY <1>1, <1>2, <1>3
<1>6. m + p \in Nat
  BY <1>1
<1>7. m + p \in 0..Cardinality(Node)
  BY <1>4, <1>5, <1>6, ChainFits
<1> QED
  BY <1>7, Lengths

\* Putting in and taking out preserve the invariant.
LEMMA PutInStep ==
  ASSUME IInv, NEW i \in List, NEW n, PutIn(i, n), (Kept /\ defect' = defect) \/ ForgetIteration(i)
  PROVE  IInv'
<1>1. ASSUME NEW m, NEW s, ChainOf(i, m, s)
      PROVE  \E p : Inserts(i, m, s, p, n) /\ ChainOf(i, m + 1, Inserted(m, s, p, n))'
  BY <1>1, ChainInserted DEF PutIn
<1>2. ListInv(i)'
  <2> SUFFICES ASSUME "torn" \notin defect'[i]
               PROVE  \E m \in 0..Cardinality(Node) : \E s \in Chains(m) : ChainOf(i, m, s)'
    BY DEF ListInv
  <2>1. PICK m, s : ChainOf(i, m, s)
    BY DEF IInv, ListInv, PutIn
  <2>2. PICK p : ChainOf(i, m + 1, Inserted(m, s, p, n))'
    BY <1>1, <2>1
  <2> QED
    BY <2>2 DEF ChainOf
<1>3. ASSUME Kept, defect' = defect, IterIn(i) PROVE IterIn(i)'
  <2>1. PICK m, s, k : k \in 1..m /\ ChainOf(i, m, s) /\ IterAt(i, m, s, k)
    BY <1>3 DEF IterIn
  <2>2. PICK p : Inserts(i, m, s, p, n) /\ ChainOf(i, m + 1, Inserted(m, s, p, n))'
    BY <1>1, <2>1
  <2>3. \E l \in 1..(m + 1) : IterAt(i, m + 1, Inserted(m, s, p, n), l)'
    BY <1>3, <2>1, <2>2, IterationInserted DEF PutIn, Kept
  <2> QED
    BY <1>3, <2>2, <2>3 DEF IterIn, ChainOf
<1> QED
  BY <1>2, <1>3, OneList DEF PutIn, Others, Kept

\* Taking a node out preserves the invariant.
LEMMA TakenOutStep ==
  ASSUME IInv, NEW i \in List, NEW n, TakenOut(i, n)
  PROVE  IInv'
<1>1. ASSUME NEW m, NEW s, ChainOf(i, m, s)
      PROVE  \E p : s[p] = n /\ Removes(i, m, s, p) /\ ChainOf(i, m - 1, Removed(m, s, p))'
  BY <1>1, ChainRemoved DEF TakenOut
<1>2. ListInv(i)'
  <2> SUFFICES ASSUME "torn" \notin defect'[i]
               PROVE  \E m \in 0..Cardinality(Node) : \E s \in Chains(m) : ChainOf(i, m, s)'
    BY DEF ListInv
  <2>1. PICK m, s : ChainOf(i, m, s)
    BY DEF IInv, ListInv, TakenOut
  <2>2. PICK p : ChainOf(i, m - 1, Removed(m, s, p))'
    BY <1>1, <2>1
  <2> QED
    BY <2>2 DEF ChainOf
<1>3. ASSUME IterIn(i) PROVE IterIn(i)'
  <2>1. PICK m, s, k : k \in 1..m /\ ChainOf(i, m, s) /\ IterAt(i, m, s, k)
    BY <1>3 DEF IterIn
  <2>2. PICK p : s[p] = n /\ Removes(i, m, s, p) /\ ChainOf(i, m - 1, Removed(m, s, p))'
    BY <1>1, <2>1
  <2>3. \E l \in 1..(m - 1) : IterAt(i, m - 1, Removed(m, s, p), l)'
    BY <2>1, <2>2, IterationRemoved DEF TakenOut
  <2> QED
    BY <1>3, <2>2, <2>3 DEF IterIn, ChainOf, TakenOut
<1> QED
  BY <1>2, <1>3, OneList DEF TakenOut, Others

\* A list that comes to have one node, or none.
LEMMA OnlyDoes ==
  ASSUME TypeOK, NEW i \in List, NEW n \in Node, NEW len \in 0..LenMax, Only(i, n, len), Fresh(n),
         defect' \in [List -> SUBSET {"short", "torn"}], \A j \in List : j # i => defect'[j] = defect[j],
         defect'[i] = {} => len = 1, UNCHANGED up
  PROVE  TypeOK' /\ Others(i) /\ ListInv(i)' /\ ForgetIteration(i)
<1>1. Wrote(i, n, n, len)
  BY WroteHeadTailLen DEF Only
<1>2. /\ link' \in [Node -> Links]
      /\ link'[n] = Alone /\ \A m \in Node : m # n /\ owner[m] # i => link'[m] = link[m]
  BY DEF Only, TypeOK, Alone, Links
<1>3. /\ owner' \in [Node -> List \union {"client", "free", "lost"}]
      /\ NodesOf(i)' = {n} /\ \A j \in List : j # i => NodesOf(j)' = NodesOf(j)
  <2>1. owner' = [m \in Node |-> IF m = n THEN i ELSE IF owner[m] = i THEN "lost" ELSE owner[m]]
    BY DEF Only
  <2>2. owner' \in [Node -> List \union {"client", "free", "lost"}]
    BY <2>1 DEF TypeOK
  <2>3. NodesOf(i)' = {n}
    BY <2>1, ListAssumption DEF NodesOf
  <2>4. ASSUME NEW j \in List, j # i PROVE NodesOf(j)' = NodesOf(j)
    BY <2>1, <2>4, ListAssumption DEF NodesOf, Fresh
  <2> QED
    BY <2>2, <2>3, <2>4
<1>4. TypeOK'
  BY <1>1, <1>2, <1>3, ForgetTypes DEF Only, TypeOK, Wrote, Links, Lists
<1>5. Others(i)
  <2> SUFFICES ASSUME NEW j \in List, j # i PROVE Untouched(j)
    BY DEF Others
  <2>1. \A m \in NodesOf(j) : link'[m] = link[m]
    BY <1>2, ListAssumption DEF NodesOf, Fresh
  <2> QED
    BY <1>1, <1>3, <2>1 DEF Untouched, Wrote
<1>6. ListInv(i)'
  <2>1. list'[i].head = n /\ list'[i].tail = n /\ list'[i].len = len
    BY <1>1 DEF Wrote
  <2>2. defect'[i] = {} => list'[i].len = 1
    BY <2>1
  <2> QED
    BY <1>2, <1>3, <2>1, <2>2, ChainOfOne
<1> QED
  BY <1>4, <1>5, <1>6 DEF Only

\* Becoming the list of one node preserves the invariant.
LEMMA OnlyStep ==
  ASSUME IInv, NEW i \in List, NEW n \in Node, NEW len \in 0..LenMax, Only(i, n, len), Fresh(n),
         NEW d \in SUBSET {"short"}, defect' = [defect EXCEPT ![i] = d], d = {} => len = 1, UNCHANGED up
  PROVE  IInv'
<1>1. /\ TypeOK /\ defect' \in [List -> SUBSET {"short", "torn"}]
      /\ defect'[i] = d /\ \A j \in List : j # i => defect'[j] = defect[j]
  BY DEF IInv, TypeOK
<1>2. TypeOK' /\ Others(i) /\ ListInv(i)' /\ ForgetIteration(i)
  BY <1>1, OnlyDoes
<1> QED
  BY <1>2, OneList DEF Others

\* What the handlers do when they do not stray; and they stray only from a
\* list with a defect.
SomeDefect == \E j \in List : defect[j] # {}

\* A node to be linked is in no list.
LEMMA FreshIsOut ==
  ASSUME NEW n, Fresh(n)
  PROVE  \A i \in List : n \notin NodesOf(i)
BY NotInList DEF Fresh

\* A list without a defect that counts nodes has its head and its tail.
LEMMA HeadAndTail ==
  ASSUME IInv, NEW i \in List, defect[i] = {}, list[i].len # 0
  PROVE  list[i].head \in NodesOf(i) /\ list[i].tail \in NodesOf(i)
<1>1. PICK m, s : ChainOf(i, m, s)
  BY DEF IInv, ListInv
<1>2. list[i].len = m /\ 1 \in 1..m /\ m \in 1..m
  BY <1>1, ChainNodes DEF ChainOf
<1> QED
  BY <1>1, <1>2, ChainNodes DEF Strung

\* The links and the lists once n is between the nodes p and q of list i.
Between(i, n, p, q, head, tail) ==
  /\ link' \in [Node -> Links]
  /\ \A x \in Node : /\ link'[x].prev = IF x = n THEN p ELSE IF x = q THEN n ELSE link[x].prev
                     /\ link'[x].next = IF x = n THEN q ELSE IF x = p THEN n ELSE link[x].next
  /\ owner' = [owner EXCEPT ![n] = i]
  /\ \E len \in 0..LenMax : /\ Wrote(i, head, tail, len)
                            /\ defect'[i] = {} => len = Plus(list[i].len, 1) /\ defect[i] = {}

\* Where that is in the chain.
Place(i, m, s, n, p, q, head, tail, k) ==
  /\ k \in 1..(m + 1) /\ p = s[k - 1] /\ q = s[k]
  /\ head = IF k = 1 THEN n ELSE list[i].head
  /\ tail = IF k = m + 1 THEN n ELSE list[i].tail

\* A node written between two neighbours is put into the chain at their place.
LEMMA BetweenPutsIn ==
  ASSUME TypeOK, NEW i \in List, NEW n \in Node, \A j \in List : n \notin NodesOf(j),
         NEW p, p = NULL \/ p \in NodesOf(i), NEW q, q = NULL \/ q \in NodesOf(i), NEW head, NEW tail,
         Between(i, n, p, q, head, tail),
         defect' \in [List -> SUBSET {"short", "torn"}], defect[i] \subseteq defect'[i],
         \A j \in List : j # i => defect'[j] = defect[j],
         Kept \/ ForgetIteration(i), UNCHANGED up,
         \A m, s : ChainOf(i, m, s) => \E k : Place(i, m, s, n, p, q, head, tail, k)
  PROVE  PutIn(i, n)
<1>1. PICK len \in 0..LenMax : /\ Wrote(i, head, tail, len)
                               /\ defect'[i] = {} => len = Plus(list[i].len, 1) /\ defect[i] = {}
  BY DEF Between
<1>2. /\ owner' \in [Node -> List \union {"client", "free", "lost"}]
      /\ \A j \in List : NodesOf(j)' = IF j = i THEN NodesOf(j) \union {n} ELSE NodesOf(j)
  <2>1. /\ owner' \in [Node -> List \union {"client", "free", "lost"}]
        /\ \A j \in List : NodesOf(j)' = IF j = i THEN NodesOf(j) \union {n} ELSE NodesOf(j) \ {n}
    BY NodeMoved DEF Between
  <2>2. \A j \in List : NodesOf(j) \ {n} = NodesOf(j)
    OBVIOUS
  <2> QED
    BY <2>1, <2>2
<1>3. /\ iter' \in [next : Node \union {NULL}, forward : BOOLEAN]
      /\ owed' \subseteq Node /\ given' \subseteq Node
  BY ForgetTypes DEF Kept, TypeOK
<1>4. TypeOK'
  BY <1>1, <1>2, <1>3 DEF TypeOK, Between, Wrote, Links, Lists
<1>5. Others(i)
  <2> SUFFICES ASSUME NEW j \in List, j # i PROVE Untouched(j)
    BY DEF Others
  <2>1. \A x \in NodesOf(j) : x \in Node /\ x # n /\ x # p /\ x # q
    BY NullAssumption DEF NodesOf
  <2>2. \A x \in NodesOf(j) : link'[x] = link[x]
    BY <2>1, FieldTypes DEF Between, Links
  <2> QED
    BY <1>1, <1>2, <2>2 DEF Untouched, Wrote
<1>6. ASSUME NEW m, NEW s, ChainOf(i, m, s) PROVE \E k : Inserts(i, m, s, k, n)
  <2>1. PICK k : Place(i, m, s, n, p, q, head, tail, k)
    BY <1>6
  <2>2. /\ m \in Nat /\ k \in 1..(m + 1) /\ k - 1 \in 0..m
        /\ \A l \in 1..m : s[l] \in Node /\ s[l] # n
        /\ \A j, l \in 1..m : s[j] = s[l] => j = l
        /\ s[0] = NULL /\ s[m + 1] = NULL
    BY <1>6, <2>1, ChainNodes DEF Strung, Place
  <2>3. \A l \in 1..m : /\ s[l] = q <=> l = k
                        /\ s[l] = p <=> l = k - 1
    BY <2>1, <2>2, NullAssumption DEF Place
  <2>4. \A l \in 1..m : /\ link'[s[l]].prev = IF l = k THEN n ELSE link[s[l]].prev
                        /\ link'[s[l]].next = IF l = k - 1 THEN n ELSE link[s[l]].next
    BY <2>2, <2>3 DEF Between
  <2>5. link'[n].prev = s[k - 1] /\ link'[n].next = s[k]
    BY <2>1 DEF Place, Between
  <2>6. defect'[i] = {} => list'[i].len = m + 1
    <3>1. m + 1 <= Cardinality(Node)
      BY <1>6, RoomForOne
    <3>2. defect[i] = {} => Plus(list[i].len, 1) = m + 1
      BY <1>6, <3>1, OneMore DEF ChainOf
    <3> QED
      BY <1>1, <3>2 DEF Wrote
  <2>7. Inserts(i, m, s, k, n)
    BY <1>1, <1>2, <2>1, <2>2, <2>4, <2>5, <2>6 DEF Inserts, Place, Wrote
  <2> QED
    BY <2>7
<1> QED
  BY <1>4, <1>5, <1>6 DEF PutIn

\* listLinkNodeHead puts the node in front, or makes it the only one.
LEMMA LinkHeadDoes ==
  ASSUME IInv, NEW i \in List, NEW n \in Node, listLinkNodeHead(i, n)
  PROVE  \/ Only(i, n, 1) /\ defect' = [defect EXCEPT ![i] = {}] /\ UNCHANGED up
         \/ PutIn(i, n) /\ Kept /\ UNCHANGED <<defect, up>>
         \/ Stray /\ SomeDefect
<1> DEFINE h == list[i].head
<1> HIDE DEF h
<1>1. CASE Only(i, n, 1) /\ defect' = [defect EXCEPT ![i] = {}] /\ UNCHANGED up
  BY <1>1
<1>2. CASE list[i].len # 0 /\ h \notin NodesOf(i) /\ Stray
  BY <1>2, HeadAndTail DEF SomeDefect, h
<1>3. ASSUME list[i].len # 0, h \in NodesOf(i),
             link' = [link EXCEPT ![n] = [prev |-> NULL, next |-> h], ![h].prev = n],
             list' = [list EXCEPT ![i].head = n, ![i].len = Plus(@, 1)],
             owner' = [owner EXCEPT ![n] = i],
             UNCHANGED <<iter, defect, owed, given, up>>
      PROVE  PutIn(i, n) /\ Kept /\ UNCHANGED <<defect, up>>
  <2> DEFINE lk == [link EXCEPT ![n] = [prev |-> NULL, next |-> h]]
             len == Plus(list[i].len, 1)
  <2>0. TypeOK /\ Fresh(n) /\ h \in Node /\ link \in [Node -> Links]
    BY <1>3, FieldTypes DEF IInv, listLinkNodeHead, NodesOf
  <2>1. \A j \in List : n \notin NodesOf(j)
    BY <2>0, FreshIsOut
  <2>2. len \in 0..LenMax /\ Wrote(i, n, list[i].tail, len)
    <3>1. len \in 0..LenMax
      BY <2>0, OneMore
    <3> HIDE DEF len
    <3>2. list' = [list EXCEPT ![i].head = n, ![i].len = len]
      BY <1>3 DEF len
    <3> QED
      BY <2>0, <3>1, <3>2, WroteHeadTailLen
  <2>3. /\ lk \in [Node -> Links]
        /\ \A x \in Node : /\ lk[x].prev = IF x = n THEN NULL ELSE link[x].prev
                           /\ lk[x].next = IF x = n THEN h ELSE link[x].next
    BY <2>0, WholeNode
  <2>4. link' = [lk EXCEPT ![h].prev = n]
    BY <1>3, Zenon
  <2> HIDE DEF lk
  <2>5. /\ link' \in [Node -> Links]
        /\ \A x \in Node : /\ link'[x].prev = IF x = h THEN n ELSE lk[x].prev
                           /\ link'[x].next = lk[x].next
    BY <2>0, <2>3, <2>4 DEF Links
  <2>6. Between(i, n, NULL, h, n, list[i].tail)
    <3>1. h # n
      BY <1>3, <2>1
    <3>2. \A x \in Node : /\ link'[x].prev = IF x = n THEN NULL ELSE IF x = h THEN n ELSE link[x].prev
                          /\ link'[x].next = IF x = n THEN h ELSE IF x = NULL THEN n ELSE link[x].next
      BY <2>3, <2>5, <3>1, NullAssumption
    <3>3. defect'[i] = defect[i]
      BY <1>3
    <3> QED
      BY <1>3, <2>2, <2>5, <3>2, <3>3 DEF Between
  <2>7. ASSUME NEW m, NEW s, ChainOf(i, m, s) PROVE Place(i, m, s, n, NULL, h, n, list[i].tail, 1)
    <3>1. m \in Nat /\ s[0] = NULL /\ h = s[1] /\ s[m + 1] = NULL /\ h # NULL
      BY <2>0, <2>7, ChainNodes, NullAssumption DEF Strung, h
    <3> QED
      BY <3>1 DEF Place
  <2>8. /\ defect' \in [List -> SUBSET {"short", "torn"}] /\ defect[i] \subseteq defect'[i]
        /\ \A j \in List : j # i => defect'[j] = defect[j]
    BY <1>3, <2>0 DEF TypeOK
  <2>9. PutIn(i, n)
    BY <1>3, <2>0, <2>1, <2>6, <2>7, <2>8, BetweenPutsIn DEF Kept
  <2> QED
    BY <1>3, <2>9 DEF Kept
<1> QED
  BY <1>1, <1>2, <1>3 DEF listLinkNodeHead, h

\* listLinkNodeTail puts the node behind, uncounted, or makes it the only one.
LEMMA LinkTailDoes ==
  ASSUME IInv, NEW i \in List, NEW n \in Node, listLinkNodeTail(i, n)
  PROVE  \/ Only(i, n, 0) /\ defect' = [defect EXCEPT ![i] = {"short"}] /\ UNCHANGED up
         \/ /\ PutIn(i, n) /\ ForgetIteration(i) /\ UNCHANGED up
            /\ defect' = [defect EXCEPT ![i] = @ \union {"short"}]
         \/ Stray /\ SomeDefect
<1> DEFINE t == list[i].tail
<1> HIDE DEF t
<1>1. CASE Only(i, n, 0) /\ defect' = [defect EXCEPT ![i] = {"short"}] /\ UNCHANGED up
  BY <1>1
<1>2. CASE list[i].len # 0 /\ t \notin NodesOf(i) /\ Stray
  BY <1>2, HeadAndTail DEF SomeDefect, t
<1>3. ASSUME list[i].len # 0, t \in NodesOf(i),
             link' = [link EXCEPT ![n] = [prev |-> t, next |-> NULL], ![t].next = n],
             list' = [list EXCEPT ![i].tail = n],
             owner' = [owner EXCEPT ![n] = i],
             defect' = [defect EXCEPT ![i] = @ \union {"short"}],
             ForgetIteration(i),
             UNCHANGED up
      PROVE  PutIn(i, n)
  <2> DEFINE lk == [link EXCEPT ![n] = [prev |-> t, next |-> NULL]]
  <2>0. TypeOK /\ Fresh(n) /\ t \in Node /\ link \in [Node -> Links] /\ list[i].len \in 0..LenMax
    BY <1>3, FieldTypes DEF IInv, listLinkNodeTail, NodesOf
  <2>1. \A j \in List : n \notin NodesOf(j)
    BY <2>0, FreshIsOut
  <2>2. Wrote(i, list[i].head, n, list[i].len)
    BY <1>3, <2>0, FieldTypes, WroteHeadTailLen
  <2>3. /\ lk \in [Node -> Links]
        /\ \A x \in Node : /\ lk[x].prev = IF x = n THEN t ELSE link[x].prev
                           /\ lk[x].next = IF x = n THEN NULL ELSE link[x].next
    BY <2>0, WholeNode
  <2>4. link' = [lk EXCEPT ![t].next = n]
    BY <1>3, Zenon
  <2> HIDE DEF lk
  <2>5. /\ link' \in [Node -> Links]
        /\ \A x \in Node : /\ link'[x].prev = lk[x].prev
                           /\ link'[x].next = IF x = t THEN n ELSE lk[x].next
    BY <2>0, <2>3, <2>4 DEF Links
  <2>6. /\ defect' \in [List -> SUBSET {"short", "torn"}] /\ defect'[i] = defect[i] \union {"short"}
        /\ \A j \in List : j # i => defect'[j] = defect[j]
    BY <1>3, <2>0 DEF TypeOK
  <2>7. Between(i, n, t, NULL, list[i].head, n)
    <3>1. t # n
      BY <1>3, <2>1
    <3>2. \A x \in Node : /\ link'[x].prev = IF x = n THEN t ELSE IF x = NULL THEN n ELSE link[x].prev
                          /\ link'[x].next = IF x = n THEN NULL ELSE IF x = t THEN n ELSE link[x].next
      BY <2>3, <2>5, <3>1, NullAssumption
    <3> QED
      BY <1>3, <2>0, <2>2, <2>5, <2>6, <3>2 DEF Between
  <2>8. ASSUME NEW m, NEW s, ChainOf(i, m, s)
        PROVE  Place(i, m, s, n, t, NULL, list[i].head, n, m + 1)
    <3>1. m \in Nat /\ s[0] = NULL /\ t = s[m] /\ s[m + 1] = NULL /\ t # NULL
      BY <2>0, <2>8, ChainNodes, NullAssumption DEF Strung, t
    <3> QED
      BY <3>1 DEF Place
  <2> QED
    BY <1>3, <2>0, <2>1, <2>6, <2>7, <2>8, BetweenPutsIn
<1> QED
  BY <1>1, <1>2, <1>3 DEF listLinkNodeTail, t

\* Writing one field of a node that may be NULL.
LEMMA PutField ==
  ASSUME NEW f \in [Node -> Links], NEW n \in Node \union {NULL}, NEW v \in Node \union {NULL}
  PROVE  /\ Put(f, n, "prev", v) \in [Node -> Links]
         /\ Put(f, n, "next", v) \in [Node -> Links]
         /\ \A x \in Node : /\ Put(f, n, "prev", v)[x].prev = IF x = n THEN v ELSE f[x].prev
                            /\ Put(f, n, "prev", v)[x].next = f[x].next
                            /\ Put(f, n, "next", v)[x].prev = f[x].prev
                            /\ Put(f, n, "next", v)[x].next = IF x = n THEN v ELSE f[x].next
<1>1. CASE n = NULL
  BY <1>1, NullAssumption DEF Put
<1>2. CASE n # NULL
  <2>1. n \in Node
    BY <1>2
  <2> QED
    BY <1>2, <2>1 DEF Put, Links
<1> QED
  BY <1>1, <1>2

\* The neighbours of a node of a list without defects are in the list, or NULL.
LEMMA Neighbours ==
  ASSUME IInv, NEW i \in List, defect[i] = {}, NEW n \in NodesOf(i)
  PROVE  MayBeNull(i, link[n].prev) /\ MayBeNull(i, link[n].next)
<1>1. PICK m, s : ChainOf(i, m, s)
  BY DEF IInv, ListInv
<1>2. PICK k \in 1..m : s[k] = n
  BY <1>1, ChainNodes DEF Strung
<1>3. m \in Nat /\ link[n].next = s[k + 1] /\ link[n].prev = s[k - 1]
  BY <1>1, <1>2, ChainNodes DEF Strung
<1>4. k - 1 \in 0..(m + 1) /\ k + 1 \in 0..(m + 1)
  BY <1>2, <1>3
<1>5. \A l \in 0..(m + 1) : s[l] = NULL \/ s[l] \in NodesOf(i)
  <2>1. \A l \in 0..(m + 1) : l \in 1..m \/ l = 0 \/ l = m + 1
    BY <1>3
  <2> QED
    BY <1>1, <2>1, ChainNodes DEF Strung
<1> QED
  BY <1>3, <1>4, <1>5 DEF MayBeNull

\* listInsertNode puts the node next to the one it is given.
LEMMA InsertDoes ==
  ASSUME IInv, NEW i \in List, NEW old \in Node, NEW n \in Node, NEW after \in BOOLEAN,
         listInsertNode(i, old, n, after)
  PROVE  \/ PutIn(i, n) /\ Kept /\ UNCHANGED <<defect, up>> /\ NodesOf(i) # {}
         \/ Stray /\ SomeDefect
<1> DEFINE p == IF after THEN old ELSE link[old].prev
           q == IF after THEN link[old].next ELSE old
<1>0. /\ TypeOK /\ owner[n] = "free" /\ old \in NodesOf(i)
      /\ p \in Node \union {NULL} /\ q \in Node \union {NULL} /\ link \in [Node -> Links]
  BY FieldTypes DEF IInv, listInsertNode, InsertBetween
<1>1. CASE ~(MayBeNull(i, p) /\ MayBeNull(i, q)) /\ Stray
  <2>1. defect[i] = {} => MayBeNull(i, p) /\ MayBeNull(i, q)
    BY <1>0, Neighbours DEF MayBeNull
  <2> QED
    BY <1>1, <2>1 DEF SomeDefect
<1>2. ASSUME MayBeNull(i, p), MayBeNull(i, q),
             link' = Put(Put([link EXCEPT ![n] = [prev |-> p, next |-> q]], p, "next", n), q, "prev", n),
             list' = [list EXCEPT
                 ![i].head = IF ~after /\ @ = old THEN n ELSE @,
                 ![i].tail = IF after /\ @ = old THEN n ELSE @,
                 ![i].len = Plus(@, 1)],
             owner' = [owner EXCEPT ![n] = i],
             UNCHANGED <<iter, defect, owed, given, up>>
      PROVE  PutIn(i, n)
  <2> DEFINE lk == [link EXCEPT ![n] = [prev |-> p, next |-> q]]
             l2 == Put(lk, p, "next", n)
             head == IF ~after /\ list[i].head = old THEN n ELSE list[i].head
             tail == IF after /\ list[i].tail = old THEN n ELSE list[i].tail
             len == Plus(list[i].len, 1)
  <2>1. \A j \in List : n \notin NodesOf(j)
    BY <1>0, NotInList
  <2>2. len \in 0..LenMax /\ Wrote(i, head, tail, len)
    <3>1. len \in 0..LenMax /\ head \in Node \union {NULL} /\ tail \in Node \union {NULL}
      BY <1>0, OneMore, FieldTypes
    <3>2. list' = [list EXCEPT ![i].head = head, ![i].tail = tail, ![i].len = len]
      BY <1>2, Zenon
    <3> HIDE DEF len, head, tail
    <3> QED
      BY <1>0, <3>1, <3>2, WroteHeadTailLen
  <2>3. /\ lk \in [Node -> Links]
        /\ \A x \in Node : /\ lk[x].prev = IF x = n THEN p ELSE link[x].prev
                           /\ lk[x].next = IF x = n THEN q ELSE link[x].next
    BY <1>0, WholeNode
  <2>4. link' = Put(l2, q, "prev", n)
    BY <1>2
  <2> HIDE DEF lk, p, q
  <2>5. /\ l2 \in [Node -> Links]
        /\ \A x \in Node : /\ l2[x].prev = lk[x].prev
                           /\ l2[x].next = IF x = p THEN n ELSE lk[x].next
    BY SMTT(30), <1>0, <2>3, PutField
  <2> HIDE DEF l2
  <2>6. /\ link' \in [Node -> Links]
        /\ \A x \in Node : /\ link'[x].prev = IF x = q THEN n ELSE l2[x].prev
                           /\ link'[x].next = l2[x].next
    <3>1. /\ Put(l2, q, "prev", n) \in [Node -> Links]
          /\ \A x \in Node : /\ Put(l2, q, "prev", n)[x].prev = IF x = q THEN n ELSE l2[x].prev
                             /\ Put(l2, q, "prev", n)[x].next = l2[x].next
      <4>1. n \in Node \union {NULL} /\ q \in Node \union {NULL}
        BY <1>0
      <4> QED
        BY <2>5, <4>1, NullAssumption DEF Put, Links
    <3> QED
      BY <2>4, <3>1, Zenon
  <2>7. Between(i, n, p, q, head, tail)
    <3>1. p # n /\ q # n
      BY <1>2, <2>1, NullAssumption DEF MayBeNull
    <3>2. \A x \in Node : /\ link'[x].prev = IF x = n THEN p ELSE IF x = q THEN n ELSE link[x].prev
                          /\ link'[x].next = IF x = n THEN q ELSE IF x = p THEN n ELSE link[x].next
      BY <2>3, <2>5, <2>6, <3>1
    <3> HIDE DEF head, tail, len
    <3>3. defect'[i] = {} => len = len /\ defect[i] = {}
      BY <1>2
    <3> QED
      BY <1>2, <2>2, <2>6, <3>2, <3>3 DEF Between, len
  <2>8. ASSUME NEW m, NEW s, ChainOf(i, m, s)
        PROVE  \E k : Place(i, m, s, n, p, q, head, tail, k)
    <3>1. PICK j \in 1..m : s[j] = old
      BY <1>0, <2>8, ChainNodes DEF Strung
    <3>2. /\ m \in Nat /\ link[old].next = s[j + 1] /\ link[old].prev = s[j - 1]
          /\ list[i].head = s[1] /\ list[i].tail = s[m]
          /\ \A a, b \in 1..m : s[a] = s[b] => a = b
      BY <2>8, <3>1, ChainNodes DEF Strung
    <3>3. (list[i].head = old <=> j = 1) /\ (list[i].tail = old <=> j = m)
      BY <3>1, <3>2
    <3>4. CASE after
      <4>1. Place(i, m, s, n, p, q, head, tail, j + 1)
        <5>1. j + 1 \in 1..(m + 1) /\ (j + 1) - 1 = j /\ j + 1 # 1 /\ (j + 1 = m + 1 <=> j = m)
          BY <3>1, <3>2
        <5> QED
          BY <3>1, <3>2, <3>3, <3>4, <5>1 DEF Place, p, q
      <4> QED
        BY <4>1
    <3>5. CASE ~after
      <4>1. Place(i, m, s, n, p, q, head, tail, j)
        <5>1. j \in 1..(m + 1) /\ j # m + 1
          BY <3>1, <3>2
        <5> QED
          BY <3>1, <3>2, <3>3, <3>5, <5>1 DEF Place, p, q
      <4> QED
        BY <4>1
    <3> QED
      BY <3>4, <3>5
  <2>9. /\ defect' \in [List -> SUBSET {"short", "torn"}] /\ defect[i] \subseteq defect'[i]
        /\ \A j \in List : j # i => defect'[j] = defect[j]
    BY <1>2, <1>0 DEF TypeOK
  <2> HIDE DEF head, tail, len
  <2> QED
    BY <1>0, <1>2, <2>1, <2>7, <2>8, <2>9, BetweenPutsIn DEF Kept, MayBeNull
<1> QED
  BY <1>0, <1>1, <1>2 DEF listInsertNode, InsertBetween, Kept

\* The last node of i is unlinked.
TornOff(i) ==
  /\ TypeOK' /\ Others(i) /\ ForgetIteration(i) /\ UNCHANGED up
  /\ defect' = [defect EXCEPT ![i] = @ \union {"torn"}]

\* Unlinking takes the node out, or tears the list when it is the last one.
LEMMA UnlinkDoes ==
  ASSUME IInv, NEW i \in List, NEW n \in Node, NEW to \in {"client", "free"}, Unlink(i, n, to)
  PROVE  \/ TakenOut(i, n) /\ UNCHANGED up
         \/ TornOff(i)
         \/ Stray /\ SomeDefect
<1> DEFINE p == link[n].prev
           q == link[n].next
           head == IF q = NULL THEN p ELSE IF p = NULL THEN q ELSE list[i].head
           lk == Put(link, p, "next", q)
           l2 == Put(lk, q, "prev", p)
           len == Less(list[i].len)
<1>0. /\ TypeOK /\ n \in NodesOf(i) /\ n # iter.next
      /\ p \in Node \union {NULL} /\ q \in Node \union {NULL} /\ link \in [Node -> Links]
      /\ list[i].len \in 0..LenMax /\ head \in Node \union {NULL} /\ list[i].tail \in Node \union {NULL}
  BY FieldTypes DEF IInv, Unlink
<1>1. CASE ~(MayBeNull(i, p) /\ MayBeNull(i, q)) /\ Stray
  BY <1>0, <1>1, Neighbours DEF SomeDefect
<1>2. ASSUME MayBeNull(i, p), MayBeNull(i, q),
             link' = [l2 EXCEPT ![n] = Alone],
             list' = [list EXCEPT ![i].head = head, ![i].len = Less(@)],
             owner' = [owner EXCEPT ![n] = to],
             IF q = NULL
             THEN defect' = [defect EXCEPT ![i] = @ \union {"torn"}] /\ ForgetIteration(i)
             ELSE UNCHANGED <<defect, iter>> /\ owed' = owed \ {n} /\ given' = given \ {n},
             UNCHANGED up
      PROVE  \/ TakenOut(i, n) /\ UNCHANGED up
             \/ TornOff(i)
  <2>1. Wrote(i, head, list[i].tail, len)
    <3>1. len \in 0..LenMax
      BY <1>0, Lengths
    <3>2. list' = [list EXCEPT ![i].head = head, ![i].len = len]
      BY <1>2, Zenon
    <3> HIDE DEF len, head
    <3> QED
      BY <1>0, <3>1, <3>2, WroteHeadTailLen
  <2> HIDE DEF p, q, head, len
  <2>2. /\ lk \in [Node -> Links]
        /\ \A x \in Node : /\ lk[x].prev = link[x].prev
                           /\ lk[x].next = IF x = p THEN q ELSE link[x].next
    BY <1>0, NullAssumption DEF Put, Links, lk
  <2> HIDE DEF lk
  <2>3. /\ l2 \in [Node -> Links]
        /\ \A x \in Node : /\ l2[x].prev = IF x = q THEN p ELSE lk[x].prev
                           /\ l2[x].next = lk[x].next
    BY <1>0, <2>2, NullAssumption DEF Put, Links
  <2> HIDE DEF l2
  <2>4. /\ link' \in [Node -> Links]
        /\ \A x \in Node : x # n => /\ link'[x].prev = IF x = q THEN p ELSE link[x].prev
                                    /\ link'[x].next = IF x = p THEN q ELSE link[x].next
    <3>1. /\ link' \in [Node -> Links]
          /\ \A x \in Node : x # n => link'[x] = l2[x]
      BY <1>2, <2>3 DEF Links, Alone
    <3> QED
      BY <2>2, <2>3, <3>1
  <2>5. /\ owner' \in [Node -> List \union {"client", "free", "lost"}]
        /\ \A j \in List : NodesOf(j)' = IF j = i THEN NodesOf(j) \ {n} ELSE NodesOf(j)
    <3>1. /\ owner' \in [Node -> List \union {"client", "free", "lost"}]
          /\ \A j \in List : NodesOf(j)' = IF j = to THEN NodesOf(j) \union {n} ELSE NodesOf(j) \ {n}
      BY <1>0, <1>2, NodeMoved
    <3>2. \A j \in List : j # to
      BY ListAssumption
    <3>3. \A j \in List : j # i => NodesOf(j) \ {n} = NodesOf(j)
      BY <1>0 DEF NodesOf
    <3> QED
      BY <3>1, <3>2, <3>3
  <2>6. /\ defect' \in [List -> SUBSET {"short", "torn"}]
        /\ \A j \in List : j # i => defect'[j] = defect[j]
        /\ q # NULL => defect' = defect
    <3>1. CASE q = NULL
      BY <1>0, <1>2, <3>1, SMTT(30) DEF TypeOK
    <3>2. CASE q # NULL
      BY <1>0, <1>2, <3>2 DEF TypeOK
    <3> QED
      BY <3>1, <3>2
  <2>7. /\ iter' \in [next : Node \union {NULL}, forward : BOOLEAN]
        /\ owed' \subseteq Node /\ given' \subseteq Node
    <3>1. CASE q = NULL
      BY <1>0, <1>2, <3>1, ForgetTypes
    <3>2. CASE q # NULL
      BY <1>0, <1>2, <3>2 DEF TypeOK
    <3> QED
      BY <3>1, <3>2
  <2>8. TypeOK'
    BY <1>0, <1>2, <2>1, <2>4, <2>5, <2>6, <2>7 DEF TypeOK, Wrote, Links, Lists
  <2>9. Others(i)
    <3> SUFFICES ASSUME NEW j \in List, j # i PROVE Untouched(j)
      BY DEF Others
    <3>1. \A x \in NodesOf(j) : x \in Node /\ x # n /\ x # p /\ x # q
      BY <1>0, <1>2, NullAssumption DEF NodesOf, MayBeNull
    <3>2. \A x \in NodesOf(j) : link'[x] = link[x]
      BY <1>0, <2>4, <3>1 DEF Links
    <3> QED
      BY <2>1, <2>5, <2>6, <3>2 DEF Untouched, Wrote
  <2>10. ASSUME q # NULL, NEW m, NEW s, ChainOf(i, m, s)
         PROVE  \E k : s[k] = n /\ Removes(i, m, s, k)
    <3>1. PICK k \in 1..m : s[k] = n
      BY <1>0, <2>10, ChainNodes DEF Strung
    <3>2. /\ m \in Nat /\ q = s[k + 1] /\ p = s[k - 1]
          /\ list[i].head = s[1] /\ list[i].tail = s[m]
          /\ \A a, b \in 1..m : s[a] = s[b] => a = b
          /\ s[0] = NULL /\ s[m + 1] = NULL /\ \A a \in 1..m : s[a] \in Node /\ s[a] # NULL
      BY <2>10, <3>1, ChainNodes, NullAssumption DEF Strung, p, q
    <3>3. k \in 1..(m - 1) /\ k - 1 \in 0..m
      BY <2>10, <3>1, <3>2
    <3>4. p = NULL <=> k = 1
      BY <3>1, <3>2, <3>3
    <3>5. list'[i].head = (IF k = 1 THEN s[2] ELSE list[i].head) /\ list'[i].tail = list[i].tail
      BY <2>1, <2>10, <3>2, <3>4, 1 + 1 = 2 DEF Wrote, head
    <3>6. ASSUME NEW a \in 1..m, a # k
          PROVE  /\ link'[s[a]].prev = IF a = k + 1 THEN s[k - 1] ELSE link[s[a]].prev
                 /\ link'[s[a]].next = IF a = k - 1 THEN s[k + 1] ELSE link[s[a]].next
      <4>1. (s[a] = q <=> a = k + 1) /\ (s[a] = p <=> a = k - 1) /\ s[a] # n
        BY <3>1, <3>2, <3>3, <3>6
      <4> QED
        BY <2>4, <3>2, <4>1
    <3>7. defect'[i] = {} => list'[i].len = m - 1
      <4>1. defect[i] = {} => list[i].len = m /\ m > 0
        BY <2>10, <3>1, <3>2 DEF ChainOf
      <4>2. list[i].len > 0 => len = list[i].len - 1
        BY <1>0, Lengths DEF len
      <4>3. list'[i].len = len /\ defect'[i] = defect[i]
        BY <2>1, <2>6, <2>10 DEF Wrote
      <4> QED
        BY <4>1, <4>2, <4>3
    <3>8. Removes(i, m, s, k)
      BY <2>5, <3>1, <3>3, <3>5, <3>6, <3>7 DEF Removes
    <3> QED
      BY <3>1, <3>8
  <2>11. CASE q = NULL
    BY <1>2, <2>8, <2>9, <2>11 DEF TornOff
  <2>12. CASE q # NULL
    BY <1>0, <1>2, <2>8, <2>9, <2>10, <2>12 DEF TakenOut
  <2> QED
    BY <2>11, <2>12
<1> QED
  BY <1>1, <1>2 DEF Unlink

\* A torn list is no longer part of the invariant.
LEMMA TornOffStep ==
  ASSUME IInv, NEW i \in List, TornOff(i)
  PROVE  IInv'
<1>1. ListInv(i)'
  BY DEF TornOff, ListInv, IInv, TypeOK
<1> QED
  BY <1>1, OneList DEF TornOff, Others

\* The chain of i is turned by one node, in one direction or the other.
Turned(i) ==
  /\ TypeOK' /\ Others(i) /\ ForgetIteration(i) /\ UNCHANGED <<defect, up>>
  /\ \/ \A m, s : ChainOf(i, m, s) => TailGoesFirst(i, m, s)
     \/ \A m, s : ChainOf(i, m, s) => HeadGoesLast(i, m, s)

\* Turning a chain preserves the invariant.
LEMMA TurnedStep ==
  ASSUME IInv, NEW i \in List, Turned(i)
  PROVE  IInv'
<1>1. ListInv(i)'
  <2> SUFFICES ASSUME "torn" \notin defect'[i]
               PROVE  \E m \in 0..Cardinality(Node) : \E s \in Chains(m) : ChainOf(i, m, s)'
    BY DEF ListInv
  <2>1. PICK m, s : ChainOf(i, m, s)
    BY DEF IInv, ListInv, Turned
  <2>2. ChainOf(i, m, TailFirst(m, s))' \/ ChainOf(i, m, HeadLast(m, s))'
    BY <2>1, ChainTailFirst, ChainHeadLast DEF Turned
  <2> QED
    BY <2>2 DEF ChainOf
<1> QED
  BY <1>1, OneList DEF Turned, Others

\* What a rotation has in common in both directions: it writes nodes of its list.
LEMMA TurnTypes ==
  ASSUME TypeOK, NEW i \in List, NEW head \in Node \union {NULL}, NEW tail \in Node \union {NULL},
         link' \in [Node -> Links], \A x \in Node : x \notin NodesOf(i) => link'[x] = link[x],
         list' = [list EXCEPT ![i].head = head, ![i].tail = tail],
         ForgetIteration(i), UNCHANGED <<owner, defect, up>>
  PROVE  TypeOK' /\ Others(i) /\ Wrote(i, head, tail, list[i].len) /\ NodesOf(i)' = NodesOf(i)
<1>1. Wrote(i, head, tail, list[i].len)
  BY FieldTypes, WroteHeadTailLen
<1>2. TypeOK'
  BY <1>1, ForgetTypes DEF TypeOK, Wrote, Links, Lists
<1>3. Others(i)
  BY <1>1 DEF Others, Untouched, Wrote, NodesOf
<1> QED
  BY <1>1, <1>2, <1>3 DEF NodesOf

\* listRotateTailToHead turns the chain.
LEMMA TailToHeadDoes ==
  ASSUME IInv, NEW i \in List, listRotateTailToHead(i)
  PROVE  Turned(i) \/ (Stray /\ SomeDefect)
<1> DEFINE h == list[i].head
           t == list[i].tail
           p == IF t \in NodesOf(i) THEN link[t].prev ELSE NULL
<1>1. CASE ~({h, t, p} \subseteq NodesOf(i)) /\ Stray
  <2> SUFFICES ASSUME defect[i] = {} PROVE FALSE
    BY <1>1 DEF SomeDefect
  <2>1. PICK m, s : ChainOf(i, m, s)
    BY DEF IInv, ListInv
  <2>2. list[i].len = m /\ m > 1
    BY <2>1 DEF ChainOf, listRotateTailToHead
  <2>3. m \in 1..m /\ 1 \in 1..m /\ m - 1 \in 1..m
    BY <2>1, <2>2, ChainNodes
  <2>4. h = s[1] /\ t = s[m] /\ link[s[m]].prev = s[m - 1]
    BY <2>1, <2>3, ChainNodes DEF Strung
  <2>5. h \in NodesOf(i) /\ t \in NodesOf(i) /\ s[m - 1] \in NodesOf(i)
    BY <2>1, <2>3, <2>4, ChainNodes
  <2> QED
    BY <1>1, <2>4, <2>5
<1>2. ASSUME {h, t, p} \subseteq NodesOf(i),
             link' = [link EXCEPT ![p].next = NULL, ![h].prev = t,
                                  ![t] = [prev |-> NULL, next |-> h]],
             list' = [list EXCEPT ![i].head = t, ![i].tail = p],
             ForgetIteration(i),
             UNCHANGED <<owner, defect, up>>
      PROVE  Turned(i)
  <2> DEFINE l1 == [link EXCEPT ![p].next = NULL]
             l2 == [l1 EXCEPT ![h].prev = t]
  <2>0. /\ TypeOK /\ link \in [Node -> Links] /\ h \in Node /\ t \in Node /\ p \in Node
        /\ p = link[t].prev /\ NULL \notin Node
    BY <1>2, FieldTypes, NullAssumption DEF IInv, NodesOf
  <2>1. link' = [l2 EXCEPT ![t] = [prev |-> NULL, next |-> h]]
    BY <1>2, Zenon
  <2> HIDE DEF h, t, p
  <2>2. /\ l1 \in [Node -> Links]
        /\ \A x \in Node : /\ l1[x].prev = link[x].prev
                           /\ l1[x].next = IF x = p THEN NULL ELSE link[x].next
    BY <2>0 DEF Links
  <2> HIDE DEF l1
  <2>3. /\ l2 \in [Node -> Links]
        /\ \A x \in Node : /\ l2[x].prev = IF x = h THEN t ELSE l1[x].prev
                           /\ l2[x].next = l1[x].next
    BY <2>0, <2>2 DEF Links
  <2> HIDE DEF l2
  <2>4. /\ link' \in [Node -> Links]
        /\ \A x \in Node : /\ link'[x].prev = IF x = t THEN NULL ELSE l2[x].prev
                           /\ link'[x].next = IF x = t THEN h ELSE l2[x].next
    BY <2>0, <2>1, <2>3 DEF Links
  <2>5. \A x \in Node :
          /\ link'[x].prev = IF x = t THEN NULL ELSE IF x = h THEN t ELSE link[x].prev
          /\ link'[x].next = IF x = t THEN h ELSE IF x = p THEN NULL ELSE link[x].next
    BY <2>2, <2>3, <2>4
  <2>6. \A x \in Node : x \notin NodesOf(i) => link'[x] = link[x]
    BY <1>2, <2>0, <2>4, <2>5 DEF Links
  <2>7. TypeOK' /\ Others(i) /\ Wrote(i, t, p, list[i].len) /\ NodesOf(i)' = NodesOf(i)
    BY <1>2, <2>0, <2>4, <2>6, TurnTypes
  <2>8. ASSUME NEW m, NEW s, ChainOf(i, m, s) PROVE TailGoesFirst(i, m, s)
    <3>1. /\ m \in Nat /\ h = s[1] /\ t = s[m]
          /\ \A a, b \in 1..m : s[a] = s[b] => a = b
          /\ s[0] = NULL /\ s[m + 1] = NULL /\ \A a \in 1..m : s[a] \in Node /\ s[a] # NULL
      BY <2>8, ChainNodes, NullAssumption DEF Strung, h, t
    <3>2. m \in 1..m
      BY <2>0, <3>1
    <3>3. p = s[m - 1]
      BY <2>0, <2>8, <3>1, <3>2, ChainNodes DEF Strung
    <3>4. m > 1 /\ m - 1 \in 1..m /\ 1 \in 1..m
      BY <2>0, <3>1, <3>2, <3>3
    <3>5. \A a \in 1..m : (s[a] = h <=> a = 1) /\ (s[a] = t <=> a = m) /\ (s[a] = p <=> a = m - 1)
      BY <3>1, <3>2, <3>3, <3>4
    <3>6. \A a \in 1..m :
            /\ link'[s[a]].next = IF a = m - 1 THEN NULL ELSE IF a = m THEN s[1] ELSE link[s[a]].next
            /\ link'[s[a]].prev = IF a = 1 THEN s[m] ELSE IF a = m THEN NULL ELSE link[s[a]].prev
      BY <2>5, <3>1, <3>4, <3>5
    <3>7. /\ NodesOf(i)' = NodesOf(i) /\ defect'[i] = defect[i] /\ list'[i].len = list[i].len
          /\ list'[i].head = s[m] /\ list'[i].tail = s[m - 1]
      BY <1>2, <2>7, <3>1, <3>3 DEF Wrote
    <3> QED
      BY <3>4, <3>6, <3>7 DEF TailGoesFirst
  <2> QED
    BY <1>2, <2>7, <2>8 DEF Turned
<1> QED
  BY <1>1, <1>2 DEF listRotateTailToHead

\* listRotateHeadToTail turns the chain the other way.
LEMMA HeadToTailDoes ==
  ASSUME IInv, NEW i \in List, listRotateHeadToTail(i)
  PROVE  Turned(i) \/ (Stray /\ SomeDefect)
<1> DEFINE h == list[i].head
           t == list[i].tail
           q == IF h \in NodesOf(i) THEN link[h].next ELSE NULL
<1>1. CASE ~({h, t, q} \subseteq NodesOf(i)) /\ Stray
  <2> SUFFICES ASSUME defect[i] = {} PROVE FALSE
    BY <1>1 DEF SomeDefect
  <2>1. PICK m, s : ChainOf(i, m, s)
    BY DEF IInv, ListInv
  <2>2. list[i].len = m /\ m > 1
    BY <2>1 DEF ChainOf, listRotateHeadToTail
  <2>3. m \in 1..m /\ 1 \in 1..m /\ 2 \in 1..m
    BY <2>1, <2>2, ChainNodes
  <2>4. h = s[1] /\ t = s[m] /\ link[s[1]].next = s[2]
    BY <2>1, <2>3, ChainNodes, 1 + 1 = 2 DEF Strung
  <2>5. h \in NodesOf(i) /\ t \in NodesOf(i) /\ s[2] \in NodesOf(i)
    BY <2>1, <2>3, <2>4, ChainNodes
  <2> QED
    BY <1>1, <2>4, <2>5
<1>2. ASSUME {h, t, q} \subseteq NodesOf(i),
             link' = [link EXCEPT ![q].prev = NULL, ![t].next = h,
                                  ![h] = [prev |-> t, next |-> NULL]],
             list' = [list EXCEPT ![i].head = q, ![i].tail = h],
             ForgetIteration(i),
             UNCHANGED <<owner, defect, up>>
      PROVE  Turned(i)
  <2> DEFINE l1 == [link EXCEPT ![q].prev = NULL]
             l2 == [l1 EXCEPT ![t].next = h]
  <2>0. /\ TypeOK /\ link \in [Node -> Links] /\ h \in Node /\ t \in Node /\ q \in Node
        /\ q = link[h].next /\ NULL \notin Node
    BY <1>2, FieldTypes, NullAssumption DEF IInv, NodesOf
  <2>1. link' = [l2 EXCEPT ![h] = [prev |-> t, next |-> NULL]]
    BY <1>2, Zenon
  <2> HIDE DEF h, t, q
  <2>2. /\ l1 \in [Node -> Links]
        /\ \A x \in Node : /\ l1[x].next = link[x].next
                           /\ l1[x].prev = IF x = q THEN NULL ELSE link[x].prev
    BY <2>0 DEF Links
  <2> HIDE DEF l1
  <2>3. /\ l2 \in [Node -> Links]
        /\ \A x \in Node : /\ l2[x].next = IF x = t THEN h ELSE l1[x].next
                           /\ l2[x].prev = l1[x].prev
    BY <2>0, <2>2 DEF Links
  <2> HIDE DEF l2
  <2>4. /\ link' \in [Node -> Links]
        /\ \A x \in Node : /\ link'[x].next = IF x = h THEN NULL ELSE l2[x].next
                           /\ link'[x].prev = IF x = h THEN t ELSE l2[x].prev
    BY <2>0, <2>1, <2>3 DEF Links
  <2>5. \A x \in Node :
          /\ link'[x].next = IF x = h THEN NULL ELSE IF x = t THEN h ELSE link[x].next
          /\ link'[x].prev = IF x = h THEN t ELSE IF x = q THEN NULL ELSE link[x].prev
    BY <2>2, <2>3, <2>4
  <2>6. \A x \in Node : x \notin NodesOf(i) => link'[x] = link[x]
    <3> SUFFICES ASSUME NEW x \in Node, x \notin NodesOf(i) PROVE link'[x] = link[x]
      OBVIOUS
    <3>1. x # h /\ x # t /\ x # q
      BY <1>2
    <3>2. link'[x].next = link[x].next /\ link'[x].prev = link[x].prev
      BY <2>5, <3>1
    <3>3. link'[x] \in Links /\ link[x] \in Links
      BY <2>0, <2>4
    <3> QED
      BY <3>2, <3>3 DEF Links
  <2>7. TypeOK' /\ Others(i) /\ Wrote(i, q, h, list[i].len) /\ NodesOf(i)' = NodesOf(i)
    BY <1>2, <2>0, <2>4, <2>6, TurnTypes
  <2>8. ASSUME NEW m, NEW s, ChainOf(i, m, s) PROVE HeadGoesLast(i, m, s)
    <3>1. /\ m \in Nat /\ h = s[1] /\ t = s[m]
          /\ \A a, b \in 1..m : s[a] = s[b] => a = b
          /\ s[0] = NULL /\ s[m + 1] = NULL /\ \A a \in 1..m : s[a] \in Node /\ s[a] # NULL
      BY <2>8, ChainNodes, NullAssumption DEF Strung, h, t
    <3>2. 1 \in 1..m
      BY <2>0, <3>1
    <3>3. q = s[2]
      BY <2>0, <2>8, <3>1, <3>2, ChainNodes, 1 + 1 = 2 DEF Strung
    <3>4. m > 1 /\ 2 \in 1..m /\ m \in 1..m
      BY <2>0, <3>1, <3>2, <3>3
    <3>5. \A a \in 1..m : (s[a] = h <=> a = 1) /\ (s[a] = t <=> a = m) /\ (s[a] = q <=> a = 2)
      BY <3>1, <3>2, <3>3, <3>4
    <3>6. \A a \in 1..m :
            /\ link'[s[a]].next = IF a = m THEN s[1] ELSE IF a = 1 THEN NULL ELSE link[s[a]].next
            /\ link'[s[a]].prev = IF a = 2 THEN NULL ELSE IF a = 1 THEN s[m] ELSE link[s[a]].prev
      BY <2>5, <3>1, <3>4, <3>5
    <3>7. /\ NodesOf(i)' = NodesOf(i) /\ defect'[i] = defect[i] /\ list'[i].len = list[i].len
          /\ list'[i].head = s[2] /\ list'[i].tail = s[1]
      BY <1>2, <2>7, <3>1, <3>3 DEF Wrote
    <3> QED
      BY <3>4, <3>6, <3>7 DEF HeadGoesLast
  <2> QED
    BY <1>2, <2>7, <2>8 DEF Turned
<1> QED
  BY <1>1, <1>2 DEF listRotateHeadToTail

\* The chain of o is put after that of l, and o has none.
JoinedTo(l, o) ==
  /\ TypeOK' /\ UNCHANGED up /\ l # o
  /\ \A j \in List : j \notin {l, o} => Untouched(j)
  /\ defect'[l] = defect[l] \union defect[o] /\ defect'[o] = {}
  /\ \E s \in Chains(0) : ChainOf(o, 0, s)'
  /\ IF defect'[l] # {} THEN ForgetIteration(IF Iterating(l) THEN l ELSE o) ELSE Kept
  /\ \A m, s, p, t : ChainOf(l, m, s) /\ ChainOf(o, p, t) => Joins(l, m, s, o, p, t)

\* An empty chain, in the next state.
LEMMA ChainOfNoneNext ==
  ASSUME NEW i, NodesOf(i)' = {}, list'[i].head = NULL, list'[i].tail = NULL, list'[i].len = 0
  PROVE  \E s \in Chains(0) : ChainOf(i, 0, s)'
<1> DEFINE t == [k \in 0..1 |-> NULL]
<1>1. t \in Chains(0) /\ t[0] = NULL /\ t[1] = NULL
  BY DEF Chains
<1> HIDE DEF t
<1>2. Strung(i, 0, t)'
  BY <1>1 DEF Strung
<1> QED
  BY <1>1, <1>2, Lengths DEF ChainOf

\* An iteration through l goes on as it was, one through o is a part of one through l.
LEMMA IterationJoined ==
  ASSUME NEW l, NEW m, NEW s, ChainOf(l, m, s), NEW o, NEW p, NEW t, ChainOf(o, p, t), l # o,
         Joins(l, m, s, o, p, t), Kept
  PROVE  /\ \A k \in 1..m : IterAt(l, m, s, k) =>
              \E j \in 1..(m + p) : IterAt(l, m + p, Joined(m, s, p, t), j)'
         /\ \A k \in 1..p : IterAt(o, p, t, k) =>
              \E j \in 1..(m + p) : IterAt(l, m + p, Joined(m, s, p, t), j)'
<1> DEFINE u == Joined(m, s, p, t)
<1>1. /\ m \in Nat /\ p \in Nat
      /\ \A a \in 1..m : s[a] \in NodesOf(l) /\ s[a] \notin NodesOf(o)
      /\ \A a \in 1..p : t[a] \in NodesOf(o) /\ t[a] \notin NodesOf(l)
  BY ChainNodes DEF NodesOf
<1>2. \A j \in 1..(m + p) : u[j] = IF j <= m THEN s[j] ELSE t[j - m]
  BY <1>1 DEF Joined
<1> HIDE DEF u
<1>3. ASSUME NEW k \in 1..m, IterAt(l, m, s, k) PROVE k \in 1..(m + p) /\ IterAt(l, m + p, u, k)'
  <2>1. iter'.next = u[k] /\ k \in 1..(m + p)
    BY <1>1, <1>2, <1>3 DEF IterAt, Kept
  <2>2. ASSUME NEW j \in 1..(m + p)
        PROVE  (u[j] \in owed => Ahead(j, k)) /\ (u[j] \in given => ~Ahead(j, k))
    <3>1. CASE j <= m
      BY <1>1, <1>2, <1>3, <3>1 DEF IterAt
    <3>2. CASE j > m
      <4>1. u[j] = t[j - m] /\ j - m \in 1..p
        BY <1>1, <1>2, <3>2
      <4>2. u[j] \notin owed /\ u[j] \notin given
        BY <1>1, <1>3, <4>1 DEF IterAt
      <4> QED
        BY <4>2
    <3> QED
      BY <1>1, <3>1, <3>2
  <2> QED
    BY <1>3, <2>1, <2>2 DEF IterAt, Kept, Joins, Ahead
<1>4. ASSUME NEW k \in 1..p, IterAt(o, p, t, k)
      PROVE  k + m \in 1..(m + p) /\ IterAt(l, m + p, u, k + m)'
  <2>1. iter'.next = u[k + m] /\ k + m \in 1..(m + p)
    BY <1>1, <1>2, <1>4 DEF IterAt, Kept
  <2>2. ASSUME NEW j \in 1..(m + p)
        PROVE  (u[j] \in owed => Ahead(j, k + m)) /\ (u[j] \in given => ~Ahead(j, k + m))
    <3>1. CASE j <= m
      BY <1>1, <1>2, <1>4, <3>1 DEF IterAt
    <3>2. CASE j > m
      <4>1. u[j] = t[j - m] /\ j - m \in 1..p
        BY <1>1, <1>2, <3>2
      <4>2. (t[j - m] \in owed => Ahead(j - m, k)) /\ (t[j - m] \in given => ~Ahead(j - m, k))
        BY <1>4, <4>1 DEF IterAt
      <4>3. Ahead(j - m, k) <=> Ahead(j, k + m)
        BY <1>1 DEF Ahead
      <4> QED
        BY <4>1, <4>2, <4>3
    <3> QED
      BY <1>1, <3>1, <3>2
  <2> QED
    BY <1>4, <2>1, <2>2 DEF IterAt, Kept, Joins, Ahead
<1> QED
  BY <1>3, <1>4 DEF u

\* Joining two chains preserves the invariant, the iterator's part of it included.
LEMMA JoinedStep ==
  ASSUME IInv, NEW l \in List, NEW o \in List, JoinedTo(l, o)
  PROVE  IInv'
<1>1. ListInv(l)'
  <2> SUFFICES ASSUME "torn" \notin defect'[l]
               PROVE  \E m \in 0..Cardinality(Node) : \E s \in Chains(m) : ChainOf(l, m, s)'
    BY DEF ListInv
  <2>1. "torn" \notin defect[l] /\ "torn" \notin defect[o]
    BY DEF JoinedTo
  <2>2. PICK m, s : ChainOf(l, m, s)
    BY <2>1 DEF IInv, ListInv
  <2>3. PICK p, t : ChainOf(o, p, t)
    BY <2>1 DEF IInv, ListInv
  <2>4. ChainOf(l, m + p, Joined(m, s, p, t))'
    BY <2>2, <2>3, ChainJoined DEF JoinedTo
  <2> QED
    BY <2>4 DEF ChainOf
<1>2. ListInv(o)'
  BY Lengths DEF JoinedTo, ListInv
<1>3. ASSUME NEW j \in List, j \notin {l, o} PROVE ListInv(j)' /\ Untouched(j)
  BY <1>3, ListStays DEF IInv, JoinedTo
<1>4. IterInv'
  <2>1. CASE iter'.next = NULL /\ owed' = {}
    BY <2>1 DEF IterInv
  <2>2. CASE Kept
    <3>1. CASE iter.next = NULL
      BY <2>2, <3>1 DEF IInv, IterInv, Kept
    <3>2. CASE iter.next # NULL
      <4>1. PICK j \in List : IterIn(j)
        BY <3>2 DEF IInv, IterInv
      <4>2. CASE j \notin {l, o}
        BY <1>3, <2>2, <3>2, <4>1, <4>2, IterationStays DEF IterInv, Kept
      <4>3. CASE j \in {l, o}
        <5>1. defect'[l] = {}
          BY <2>2, <4>1, <4>3, IteratorInOneList DEF JoinedTo, ForgetIteration, Iterating, Kept, NoIterator
        <5>2. defect[l] = {} /\ defect[o] = {}
          BY <5>1 DEF JoinedTo
        <5>3. \E m, s, k : k \in 1..m /\ ChainOf(j, m, s) /\ IterAt(j, m, s, k)
          BY <4>1 DEF IterIn
        <5>4. \E m, s, p, t : /\ ChainOf(l, m, s) /\ ChainOf(o, p, t)
                              /\ \/ \E k \in 1..m : IterAt(l, m, s, k)
                                 \/ \E k \in 1..p : IterAt(o, p, t, k)
          <6>1. \E m, s : ChainOf(l, m, s)
            BY <5>2 DEF IInv, ListInv
          <6>2. \E p, t : ChainOf(o, p, t)
            BY <5>2 DEF IInv, ListInv
          <6> QED
            BY <4>3, <5>3, <6>1, <6>2
        <5>5. PICK m, s, p, t : /\ ChainOf(l, m, s) /\ ChainOf(o, p, t)
                                /\ \/ \E k \in 1..m : IterAt(l, m, s, k)
                                   \/ \E k \in 1..p : IterAt(o, p, t, k)
          BY <5>4
        <5>6. Joins(l, m, s, o, p, t)
          BY <5>5 DEF JoinedTo
        <5>7. ChainOf(l, m + p, Joined(m, s, p, t))'
          BY <5>5, <5>6, ChainJoined DEF JoinedTo
        <5>8. \E k \in 1..(m + p) : IterAt(l, m + p, Joined(m, s, p, t), k)'
          BY <2>2, <5>5, <5>6, IterationJoined DEF JoinedTo
        <5>9. IterIn(l)'
          BY <5>1, <5>7, <5>8 DEF IterIn, ChainOf
        <5> QED
          BY <2>2, <3>2, <5>9 DEF IterInv, Kept
      <4> QED
        BY <4>2, <4>3
    <3> QED
      BY <3>1, <3>2
  <2> QED
    BY <2>1, <2>2 DEF JoinedTo, ForgetIteration, NoIterator, Kept
<1> QED
  BY <1>1, <1>2, <1>3, <1>4 DEF IInv, JoinedTo

\* listJoin puts the nodes of o behind those of l.
LEMMA JoinDoes ==
  ASSUME IInv, NEW l \in List, NEW o \in List, listJoin(l, o)
  PROVE  JoinedTo(l, o) \/ (Stray /\ SomeDefect)
<1> DEFINE t == list[l].tail
           h == list[o].head
           safe == h \in NodesOf(o) /\ MayBeNull(l, t)
<1>0. /\ TypeOK /\ l # o /\ list[o].len # 0 /\ link \in [Node -> Links] /\ t \in Node \union {NULL}
      /\ NULL \notin Node
  BY FieldTypes, NullAssumption DEF IInv, listJoin
<1>1. CASE ~safe /\ Stray
  <2> SUFFICES ASSUME defect[l] = {}, defect[o] = {} PROVE FALSE
    BY <1>1 DEF SomeDefect
  <2>1. h \in NodesOf(o)
    BY <1>0, HeadAndTail
  <2>2. PICK m, s : ChainOf(l, m, s)
    BY DEF IInv, ListInv
  <2>3. m \in Nat /\ t = s[m] /\ s[0] = NULL
    BY <2>2, ChainNodes DEF Strung
  <2>4. m = 0 \/ m \in 1..m
    BY <2>3
  <2>5. MayBeNull(l, t)
    BY <2>2, <2>3, <2>4, ChainNodes DEF MayBeNull
  <2> QED
    BY <1>1, <2>1, <2>5
<1>2. ASSUME safe,
             link' = Put([link EXCEPT ![h].prev = t], t, "next", h),
             list' = [list EXCEPT
                 ![l].head = IF t = NULL THEN h ELSE @,
                 ![l].tail = list[o].tail,
                 ![l].len = Plus(@, list[o].len),
                 ![o] = EmptyList(@.free)],
             owner' = [n \in Node |-> IF owner[n] = o THEN l ELSE owner[n]],
             defect' = [defect EXCEPT ![l] = @ \union defect[o], ![o] = {}],
             IF defect'[l] # {}
               THEN ForgetIteration(IF Iterating(l) THEN l ELSE o)
               ELSE UNCHANGED <<iter, owed, given>>,
             UNCHANGED up
      PROVE  JoinedTo(l, o)
  <2> DEFINE head == IF t = NULL THEN h ELSE list[l].head
             tail == list[o].tail
             len == Plus(list[l].len, list[o].len)
             l1 == [list EXCEPT ![l].head = head]
             l2 == [l1 EXCEPT ![l].tail = tail]
             l3 == [l2 EXCEPT ![l].len = len]
             lk == [link EXCEPT ![h].prev = t]
  <2>1. h \in Node /\ h \in NodesOf(o) /\ (t = NULL \/ t \in NodesOf(l))
    BY <1>2 DEF NodesOf, MayBeNull
  <2>2. /\ list' \in [List -> Lists]
        /\ list'[l] = [head |-> head, tail |-> tail, len |-> len, free |-> list[l].free]
        /\ list'[o] = EmptyList(list[o].free)
        /\ \A j \in List : j \notin {l, o} => list'[j] = list[j]
    <3>1. list \in [List -> Lists] /\ list[l] \in Lists /\ list[o] \in Lists
      BY <1>0 DEF TypeOK, Lists
    <3>2. /\ head \in Node \union {NULL} /\ tail \in Node \union {NULL} /\ len \in 0..LenMax
      BY <1>0, <2>1, FieldTypes, Lengths
    <3>3. list' = [l3 EXCEPT ![o] = EmptyList(list[o].free)]
      BY <1>2, Zenon
    <3> HIDE DEF head, tail, len
    <3>4. /\ l1 \in [List -> Lists] /\ l1[l] = [list[l] EXCEPT !.head = head]
          /\ \A j \in List : j # l => l1[j] = list[j]
      BY <3>1, <3>2, FieldOfList
    <3> HIDE DEF l1
    <3>5. /\ l2 \in [List -> Lists] /\ l2[l] = [l1[l] EXCEPT !.tail = tail]
          /\ \A j \in List : j # l => l2[j] = list[j]
      BY <3>2, <3>4, FieldOfList
    <3> HIDE DEF l2
    <3>6. /\ l3 \in [List -> Lists] /\ l3[l] = [l2[l] EXCEPT !.len = len]
          /\ \A j \in List : j # l => l3[j] = list[j]
      BY ZenonT(60), <3>2, <3>5, FieldOfList
    <3> HIDE DEF l3
    <3>7. l3[l] = [head |-> head, tail |-> tail, len |-> len, free |-> list[l].free]
      <4>1. l2[l] = [head |-> head, tail |-> tail, len |-> list[l].len, free |-> list[l].free]
        BY <3>1, <3>4, <3>5 DEF Lists
      <4> QED
        BY <3>6, <4>1
    <3>8. EmptyList(list[o].free) \in Lists
      BY <3>1, Lengths DEF EmptyList, Lists
    <3> QED
      BY <1>0, <3>3, <3>6, <3>7, <3>8
  <2>3. /\ lk \in [Node -> Links]
        /\ \A x \in Node : /\ lk[x].prev = IF x = h THEN t ELSE link[x].prev
                           /\ lk[x].next = link[x].next
    <3> HIDE DEF h, t
    <3> QED
      BY <1>0, <2>1 DEF Links
  <2>4. link' = Put(lk, t, "next", h)
    BY <1>2
  <2> HIDE DEF h, t, lk, head, tail, len
  <2>5. /\ link' \in [Node -> Links]
        /\ \A x \in Node : /\ link'[x].prev = IF x = h THEN t ELSE link[x].prev
                           /\ link'[x].next = IF x = t THEN h ELSE link[x].next
    <3>1. /\ link' \in [Node -> Links]
          /\ \A x \in Node : /\ link'[x].prev = lk[x].prev
                             /\ link'[x].next = IF x = t THEN h ELSE lk[x].next
      BY <1>0, <2>1, <2>3, <2>4 DEF Put, Links
    <3> QED
      BY <2>3, <3>1
  <2>6. /\ owner' \in [Node -> List \union {"client", "free", "lost"}]
        /\ NodesOf(l)' = NodesOf(l) \union NodesOf(o) /\ NodesOf(o)' = {}
        /\ \A j \in List : j \notin {l, o} => NodesOf(j)' = NodesOf(j)
    <3>1. owner \in [Node -> List \union {"client", "free", "lost"}]
      BY <1>0 DEF TypeOK
    <3>2. \A n \in Node : owner'[n] = IF owner[n] = o THEN l ELSE owner[n]
      BY <1>2
    <3> QED
      BY <1>0, <1>2, <3>1, <3>2 DEF NodesOf
  <2>7. /\ defect' \in [List -> SUBSET {"short", "torn"}]
        /\ defect'[l] = defect[l] \union defect[o] /\ defect'[o] = {}
        /\ \A j \in List : j \notin {l, o} => defect'[j] = defect[j]
    <3> DEFINE d == [defect EXCEPT ![l] = defect[l] \union defect[o]]
    <3>1. defect \in [List -> SUBSET {"short", "torn"}]
      BY <1>0 DEF TypeOK
    <3>2. defect' = [d EXCEPT ![o] = {}]
      BY <1>2, Zenon
    <3> QED
      BY <1>0, <3>1, <3>2
  <2>8. /\ iter' \in [next : Node \union {NULL}, forward : BOOLEAN]
        /\ owed' \subseteq Node /\ given' \subseteq Node
    <3>1. CASE defect'[l] = {}
      BY <1>0, <1>2, <3>1 DEF TypeOK
    <3>2. CASE defect'[l] # {}
      BY <1>0, <1>2, <3>2, ForgetTypes
    <3> QED
      BY <3>1, <3>2
  <2>9. TypeOK'
    BY <1>0, <1>2, <2>2, <2>5, <2>6, <2>7, <2>8 DEF TypeOK, Links, Lists
  <2>10. ASSUME NEW j \in List, j \notin {l, o} PROVE Untouched(j)
    <3>1. \A x \in NodesOf(j) : x \in Node /\ x # h /\ x # t
      BY <1>0, <2>1, <2>10 DEF NodesOf
    <3>2. \A x \in NodesOf(j) : link'[x] = link[x]
      BY <1>0, <2>5, <3>1 DEF Links
    <3> QED
      BY <2>2, <2>6, <2>7, <2>10, <3>2 DEF Untouched
  <2>11. \E s \in Chains(0) : ChainOf(o, 0, s)'
    <3>1. list'[o].head = NULL /\ list'[o].tail = NULL /\ list'[o].len = 0
      BY <2>2 DEF EmptyList
    <3> QED
      BY <2>6, <3>1, ChainOfNoneNext
  <2>12. ASSUME NEW m, NEW s, ChainOf(l, m, s), NEW p, NEW u, ChainOf(o, p, u)
         PROVE  Joins(l, m, s, o, p, u)
    <3>1. /\ m \in Nat /\ t = s[m] /\ s[0] = NULL /\ s[m + 1] = NULL
          /\ \A a, b \in 1..m : s[a] = s[b] => a = b
          /\ \A a \in 1..m : s[a] \in Node /\ s[a] \in NodesOf(l)
      BY <2>12, ChainNodes DEF Strung, t
    <3>2. /\ p \in Nat /\ h = u[1] /\ tail = u[p] /\ u[0] = NULL /\ u[p + 1] = NULL
          /\ \A a, b \in 1..p : u[a] = u[b] => a = b
          /\ \A a \in 1..p : u[a] \in Node /\ u[a] \in NodesOf(o)
      BY <2>12, ChainNodes DEF Strung, h, tail
    <3>3. p > 0
      BY <1>0, <2>1, <3>2
    <3>4. t = NULL <=> m = 0
      <4>1. m # 0 => m \in 1..m
        BY <3>1
      <4> QED
        BY <1>0, <3>1, <4>1
    <3>5. list'[l].head = (IF m = 0 THEN u[1] ELSE list[l].head) /\ list'[l].tail = list[o].tail
      BY <2>2, <3>2, <3>4 DEF head, tail
    <3>6. ASSUME NEW k \in 1..m
          PROVE  /\ link'[s[k]].prev = link[s[k]].prev
                 /\ link'[s[k]].next = IF k = m THEN u[1] ELSE link[s[k]].next
      <4>1. m \in 1..m
        BY <3>1
      <4>2. (s[k] = t <=> k = m) /\ s[k] # h
        <5>1. s[k] # h
          BY <1>0, <2>1, <3>1 DEF NodesOf
        <5> QED
          BY <3>1, <4>1, <5>1
      <4> QED
        BY <2>5, <3>1, <3>2, <4>2
    <3>7. ASSUME NEW k \in 1..p
          PROVE  /\ link'[u[k]].prev = IF k = 1 THEN s[m] ELSE link[u[k]].prev
                 /\ link'[u[k]].next = link[u[k]].next
      <4>1. 1 \in 1..p
        BY <3>2, <3>3
      <4>2. (u[k] = h <=> k = 1) /\ u[k] # t
        <5>1. u[k] # t
          BY <1>0, <2>1, <3>2 DEF NodesOf
        <5> QED
          BY <3>2, <4>1, <5>1
      <4> QED
        BY <2>5, <3>1, <3>2, <4>2
    <3>8. defect'[l] = {} => list'[l].len = m + p
      <4>1. defect'[l] = {} => list[l].len = m /\ list[o].len = p
        BY <2>7, <2>12 DEF ChainOf
      <4>2. m + p <= LenMax /\ LenMax \in Nat
        BY <1>0, <2>12, <3>1, <3>2, RoomForBoth, Lengths
      <4>3. m \in 0..LenMax /\ p \in 0..LenMax
        BY <3>1, <3>2, <4>2
      <4>4. Plus(m, p) = m + p
        BY <4>2, <4>3, Sums
      <4> QED
        BY <2>2, <4>1, <4>4 DEF len
    <3> QED
      BY <2>6, <3>3, <3>5, <3>6, <3>7, <3>8 DEF Joins
  <2> QED
    BY <1>0, <1>2, <2>7, <2>9, <2>10, <2>11, <2>12 DEF JoinedTo, Kept
<1> QED
  BY <1>1, <1>2 DEF listJoin

\* What Chain and Walk read of a chain.
LEMMA ChainRead ==
  ASSUME NEW i, NEW m, NEW s, ChainOf(i, m, s)
  PROVE  /\ Chain(i) = [k \in 1..m |-> s[k]]
         /\ Walk(list[i].tail, "prev") = [k \in 1..m |-> s[m + 1 - k]]
<1> DEFINE t == [k \in 0..(m + 1) |-> s[m + 1 - k]]
<1>1. /\ m \in Nat /\ m \in 0..Cardinality(Node) /\ s[0] = NULL /\ s[m + 1] = NULL
      /\ list[i].head = s[1] /\ list[i].tail = s[m]
      /\ \A k \in 1..m : s[k] \in Node /\ link[s[k]].next = s[k + 1] /\ link[s[k]].prev = s[k - 1]
  BY ChainNodes DEF Strung, ChainOf
<1>2. Follows("next", m, s)
  BY <1>1 DEF Follows
<1>3. Walk(list[i].head, "next") = [k \in 1..m |-> s[k]]
  BY <1>1, <1>2, WalkFollows
<1>4. \A k \in 0..(m + 1) : t[k] = s[m + 1 - k]
  OBVIOUS
<1> HIDE DEF t
<1>5. Follows("prev", m, t)
  <2>1. t[m + 1] = NULL
    BY <1>1, <1>4
  <2>2. ASSUME NEW k \in 1..m PROVE t[k] \in Node /\ link[t[k]].prev = t[k + 1]
    <3>1. PICK j \in 1..m : j = m + 1 - k
      BY <1>1
    <3>2. t[k] = s[j] /\ t[k + 1] = s[j - 1]
      BY <1>1, <1>4, <3>1
    <3> QED
      BY <1>1, <3>1, <3>2
  <2> QED
    BY <2>1, <2>2 DEF Follows
<1>6. t[1] = s[m]
  BY <1>1, <1>4
<1>7. Walk(t[1], "prev") = [k \in 1..m |-> t[k]]
  BY <1>1, <1>5, WalkFollows
<1>8. [k \in 1..m |-> t[k]] = [k \in 1..m |-> s[m + 1 - k]]
  BY <1>1, <1>4
<1> QED
  BY <1>1, <1>3, <1>6, <1>7, <1>8 DEF Chain

\* The nodes of a chain, counted.
LEMMA ChainCounts ==
  ASSUME NEW i, NEW m, NEW s, ChainOf(i, m, s)
  PROVE  Cardinality({s[k] : k \in 1..m}) = m /\ {s[k] : k \in 1..m} = NodesOf(i)
<1> DEFINE f == [k \in 1..m |-> s[k]]
           S == {s[k] : k \in 1..m}
<1>1. m \in Nat /\ \A j, k \in 1..m : s[j] = s[k] => j = k
  BY ChainNodes DEF Strung
<1>2. f \in Bijection(1..m, S)
  BY <1>1 DEF Bijection, Injection, Surjection, IsInjective
<1>3. IsFiniteSet(1..m) /\ Cardinality(1..m) = m
  BY <1>1, FS_Interval
<1>4. ExistsBijection(1..m, S)
  BY <1>2 DEF ExistsBijection
<1>5. Cardinality(S) = m
  BY <1>3, <1>4, FS_Bijection
<1> QED
  BY <1>5, ChainNodes DEF Strung

\* The list is made empty.
Cleared(i) ==
  /\ TypeOK' /\ Others(i) /\ Kept /\ UNCHANGED up /\ ~Iterating(i) /\ defect'[i] = {}
  /\ \E s \in Chains(0) : ChainOf(i, 0, s)'

\* Emptying a list preserves the invariant.
LEMMA ClearedStep ==
  ASSUME IInv, NEW i \in List, Cleared(i)
  PROVE  IInv'
<1>1. ListInv(i)'
  BY Lengths DEF Cleared, ListInv
<1>2. ~IterIn(i)
  BY IteratorInOneList DEF Cleared, Iterating
<1> QED
  BY <1>1, <1>2, OneList DEF Cleared, Others, Kept

\* A list that is emptied is left without nodes, the others with theirs.
LEMMA EmptiedClears ==
  ASSUME TypeOK, NEW i \in List, NEW freed \in SUBSET NodesOf(i), Emptied(i, freed), ~Iterating(i)
  PROVE  Cleared(i)
<1>1. /\ list' \in [List -> Lists] /\ list'[i] = EmptyList(list[i].free)
      /\ \A j \in List : j # i => list'[j] = list[j]
  <2>1. list \in [List -> Lists]
    BY DEF TypeOK, Lists
  <2>2. list[i].free \in BOOLEAN
    BY FieldTypes
  <2>3. 0 \in 0..LenMax
    BY Lengths
  <2>4. EmptyList(list[i].free) \in Lists
    BY <2>2, <2>3 DEF Lists, EmptyList
  <2> QED
    BY <2>1, <2>4 DEF Emptied
<1>2. link' \in [Node -> Links] /\ \A n \in Node : owner[n] # i => link'[n] = link[n]
  BY DEF TypeOK, Emptied, Alone, Links, NodesOf
<1>3. /\ owner' \in [Node -> List \union {"client", "free", "lost"}]
      /\ NodesOf(i)' = {} /\ \A j \in List : j # i => NodesOf(j)' = NodesOf(j)
  <2>1. owner' = [n \in Node |-> IF n \in freed THEN "free"
                                 ELSE IF owner[n] = i THEN "lost" ELSE owner[n]]
    BY DEF Emptied
  <2>2. owner' \in [Node -> List \union {"client", "free", "lost"}]
    BY <2>1 DEF TypeOK
  <2>3. NodesOf(i)' = {}
    BY <2>1, ListAssumption DEF NodesOf
  <2>4. ASSUME NEW j \in List, j # i PROVE NodesOf(j)' = NodesOf(j)
    BY <2>1, <2>4, ListAssumption DEF NodesOf
  <2> QED
    BY <2>2, <2>3, <2>4
<1>4. /\ defect' \in [List -> SUBSET {"short", "torn"}] /\ defect'[i] = {}
      /\ \A j \in List : j # i => defect'[j] = defect[j]
  BY DEF TypeOK, Emptied
<1>5. TypeOK'
  BY <1>1, <1>2, <1>3, <1>4 DEF TypeOK, Emptied, Links, Lists
<1>6. Others(i)
  BY <1>1, <1>2, <1>3, <1>4 DEF Others, Untouched, NodesOf
<1>7. \E s \in Chains(0) : ChainOf(i, 0, s)'
  <2>1. list'[i].head = NULL /\ list'[i].tail = NULL /\ list'[i].len = 0
    BY <1>1 DEF EmptyList
  <2> QED
    BY <1>3, <2>1, ChainOfNoneNext
<1> QED
  BY <1>4, <1>5, <1>6, <1>7 DEF Cleared, Kept, Emptied

\* listEmpty frees exactly the nodes of a list without a defect.
LEMMA EmptyDoes ==
  ASSUME IInv, NEW i \in List, listEmpty(i)
  PROVE  Cleared(i) \/ (Stray /\ SomeDefect)
<1> DEFINE counted == {k \in DOMAIN Chain(i) : k <= list[i].len}
           freed == {Chain(i)[k] : k \in counted}
           sound == Cardinality(freed) = list[i].len /\ freed \subseteq NodesOf(i)
<1>1. TypeOK /\ ~Iterating(i)
  BY DEF IInv, listEmpty
<1>2. CASE list[i].free /\ sound /\ Emptied(i, freed)
  BY <1>1, <1>2, EmptiedClears
<1>3. CASE list[i].free /\ ~sound /\ Stray
  <2> SUFFICES ASSUME defect[i] = {} PROVE sound
    BY <1>3 DEF SomeDefect
  <2>1. PICK m, s : ChainOf(i, m, s)
    BY DEF IInv, ListInv
  <2>2. list[i].len = m
    BY <2>1 DEF ChainOf
  <2>3. /\ Chain(i) = [k \in 1..m |-> s[k]]
        /\ Walk(list[i].tail, "prev") = [k \in 1..m |-> s[m + 1 - k]]
    BY <2>1, ChainRead
  <2>4. m \in Nat
    BY <2>1, ChainNodes
  <2>5. counted = 1..m
    BY <2>2, <2>3, <2>4
  <2>6. freed = {s[k] : k \in 1..m}
    BY <2>3, <2>5
  <2> QED
    BY <2>1, <2>2, <2>6, ChainCounts
<1>4. CASE ~list[i].free /\ Emptied(i, {})
  <2>1. {} \in SUBSET NodesOf(i)
    OBVIOUS
  <2> QED
    BY <1>1, <1>4, <2>1, EmptiedClears
<1>5. CASE ~list[i].free /\ list[i].len # 0 /\ list[i].head \notin NodesOf(i) /\ Stray
  BY <1>5, HeadAndTail DEF SomeDefect
<1> QED
  BY <1>2, <1>3, <1>4, <1>5 DEF listEmpty

\* A copy, of which only the last node is in list j; or no copy.
Copied(j) ==
  /\ TypeOK' /\ Others(j) /\ Kept /\ UNCHANGED up /\ NodesOf(j) = {}
  /\ Untouched(j) \/ (defect'[j] = {"short"} /\ ListInv(j)')

\* A copy preserves the invariant.
LEMMA CopiedStep ==
  ASSUME IInv, NEW j \in List, Copied(j)
  PROVE  IInv'
<1>1. ListInv(j)'
  BY ListStays DEF Copied, IInv
<1>2. ~IterIn(j)
  BY IteratorInOneList DEF Copied
<1> QED
  BY <1>1, <1>2, OneList DEF Copied, Others, Kept

\* listDup leaves one node in the copy, or none, and touches no other list.
LEMMA DupDoes ==
  ASSUME IInv, NEW i \in List, NEW j \in List, listDup(i, j)
  PROVE  Copied(j)
<1> DEFINE Lose(nodes, kept) == [n \in Node |-> IF n \in nodes THEN kept[n] ELSE owner[n]]
<1>0. TypeOK /\ NodesOf(j) = {} /\ Kept /\ UNCHANGED up
  BY DEF IInv, listDup, Kept
<1>1. ASSUME NEW nodes \in SUBSET {n \in Node : owner[n] = "free"}, NEW last \in nodes,
             owner' = Lose(nodes, [n \in nodes |-> IF n = last THEN j ELSE "lost"]),
             link' = [link EXCEPT ![last] = Alone],
             list' = [list EXCEPT ![j] = [head |-> last, tail |-> last, len |-> 0, free |-> list[i].free]],
             defect' = [defect EXCEPT ![j] = {"short"}]
      PROVE  Copied(j)
  <2>1. last \in Node /\ \A n \in nodes : n \in Node /\ \A k \in List : n \notin NodesOf(k)
    BY NotInList
  <2>2. /\ owner' \in [Node -> List \union {"client", "free", "lost"}]
        /\ NodesOf(j)' = {last} /\ \A k \in List : k # j => NodesOf(k)' = NodesOf(k)
    <3>1. owner' = [n \in Node |-> IF n \in nodes THEN IF n = last THEN j ELSE "lost" ELSE owner[n]]
      BY <1>1
    <3>2. owner' \in [Node -> List \union {"client", "free", "lost"}]
      BY <1>0, <3>1 DEF TypeOK
    <3>3. NodesOf(j)' = {last}
      BY <1>0, <2>1, <3>1, ListAssumption DEF NodesOf
    <3>4. ASSUME NEW k \in List, k # j PROVE NodesOf(k)' = NodesOf(k)
      BY <2>1, <3>1, <3>4, ListAssumption DEF NodesOf
    <3> QED
      BY <3>2, <3>3, <3>4
  <2>3. /\ link' \in [Node -> Links] /\ link'[last] = Alone
        /\ \A n \in Node : n # last => link'[n] = link[n]
    BY <1>0, <1>1, <2>1 DEF TypeOK, Links, Alone
  <2>4. /\ list' \in [List -> Lists]
        /\ list'[j].head = last /\ list'[j].tail = last
        /\ \A k \in List : k # j => list'[k] = list[k]
    <3>1. list \in [List -> Lists]
      BY <1>0 DEF TypeOK, Lists
    <3>2. list[i].free \in BOOLEAN
      BY <1>0, FieldTypes
    <3>3. 0 \in 0..LenMax
      BY Lengths
    <3>4. [head |-> last, tail |-> last, len |-> 0, free |-> list[i].free] \in Lists
      BY <2>1, <3>2, <3>3 DEF Lists
    <3> QED
      BY <1>1, <3>1, <3>4
  <2>5. /\ defect' \in [List -> SUBSET {"short", "torn"}] /\ defect'[j] = {"short"}
        /\ \A k \in List : k # j => defect'[k] = defect[k]
    BY <1>0, <1>1 DEF TypeOK
  <2>6. TypeOK'
    BY <1>0, <2>2, <2>3, <2>4, <2>5 DEF TypeOK, Links, Lists, Kept
  <2>7. Others(j)
    BY <2>1, <2>2, <2>3, <2>4, <2>5 DEF Others, Untouched, NodesOf
  <2>8. ListInv(j)'
    <3>1. defect'[j] = {} => list'[j].len = 1
      BY <2>5
    <3> QED
      BY <2>1, <2>2, <2>3, <2>4, <3>1, ChainOfOne
  <2> QED
    BY <1>0, <2>5, <2>6, <2>7, <2>8 DEF Copied
<1>2. ASSUME NEW nodes \in SUBSET {n \in Node : owner[n] = "free"},
             owner' = Lose(nodes, [n \in nodes |-> "lost"]), UNCHANGED <<link, list, defect>>
      PROVE  Copied(j)
  <2>1. \A n \in nodes : n \in Node /\ \A k \in List : n \notin NodesOf(k)
    BY NotInList
  <2>2. owner' = [n \in Node |-> IF n \in nodes THEN "lost" ELSE owner[n]]
    BY <1>2
  <2>3. owner' \in [Node -> List \union {"client", "free", "lost"}]
    BY <1>0, <2>2 DEF TypeOK
  <2>4. \A k \in List : NodesOf(k)' = NodesOf(k)
    BY <2>1, <2>2, ListAssumption DEF NodesOf
  <2> QED
    BY <1>0, <1>2, <2>3, <2>4 DEF Copied, TypeOK, Kept, Others, Untouched
<1> QED
  BY <1>1, <1>2 DEF listDup

-----------------------------------------------------------------------------
(* The nodes of the client, and reading.                                   *)

\* A step on nodes that no list has.
LEMMA NoListStep ==
  ASSUME IInv, TypeOK', \A i \in List : Untouched(i), Kept
  PROVE  IInv'
<1>1. \A i \in List : ListInv(i)'
  BY ListStays DEF IInv
<1>2. IterInv'
  <2>1. CASE iter.next = NULL
    BY <2>1 DEF IInv, IterInv, Kept
  <2>2. CASE iter.next # NULL
    <3>1. PICK i \in List : IterIn(i)
      BY <2>2 DEF IInv, IterInv
    <3>2. IterIn(i)'
      BY <3>1, IterationStays DEF Kept
    <3> QED
      BY <2>2, <3>2 DEF IterInv, Kept
  <2> QED
    BY <2>1, <2>2
<1> QED
  BY <1>1, <1>2 DEF IInv

\* A new node of the client is in no list.
LEMMA InitNodeStep ==
  ASSUME IInv, NEW n \in Node, listInitNode(n)
  PROVE  IInv'
<1>1. TypeOK /\ \A i \in List : n \notin NodesOf(i)
  BY NotInList DEF IInv, listInitNode
<1>2. owner' \in [Node -> List \union {"client", "free", "lost"}]
      /\ \A i \in List : NodesOf(i)' = NodesOf(i)
  <2>1. owner' = [owner EXCEPT ![n] = "client"] /\ "client" \notin List
    BY ListAssumption DEF listInitNode
  <2>2. /\ owner' \in [Node -> List \union {"client", "free", "lost"}]
        /\ \A i \in List : NodesOf(i)' = NodesOf(i) \ {n}
    BY <1>1, <2>1, NodeMoved
  <2> QED
    BY <1>1, <2>2
<1>3. link' \in [Node -> Links] /\ \A m \in Node : m # n => link'[m] = link[m]
  BY <1>1 DEF listInitNode, TypeOK, Links, Alone
<1>4. TypeOK' /\ Kept
  BY <1>1, <1>2, <1>3 DEF listInitNode, TypeOK, Links, Kept
<1>5. \A i \in List : Untouched(i)
  BY <1>1, <1>2, <1>3 DEF listInitNode, Untouched, NodesOf
<1> QED
  BY <1>4, <1>5, NoListStep

\* Freeing a node of the client changes no list.
LEMMA FreeNodeStep ==
  ASSUME IInv, NEW n \in Node, FreeNode(n)
  PROVE  IInv'
<1>1. TypeOK /\ \A i \in List : n \notin NodesOf(i)
  BY NotInList DEF IInv, FreeNode
<1>2. owner' \in [Node -> List \union {"client", "free", "lost"}]
      /\ \A i \in List : NodesOf(i)' = NodesOf(i)
  <2>1. owner' = [owner EXCEPT ![n] = "free"] /\ "free" \notin List
    BY ListAssumption DEF FreeNode
  <2>2. /\ owner' \in [Node -> List \union {"client", "free", "lost"}]
        /\ \A i \in List : NodesOf(i)' = NodesOf(i) \ {n}
    BY <1>1, <2>1, NodeMoved
  <2> QED
    BY <1>1, <2>2
<1>3. TypeOK' /\ Kept
  BY <1>1, <1>2 DEF FreeNode, TypeOK, Kept
<1>4. \A i \in List : Untouched(i)
  BY <1>2 DEF FreeNode, Untouched, NodesOf
<1> QED
  BY <1>3, <1>4, NoListStep

\* What a step that only reads the lists leaves of the invariant to show.
Reads == UNCHANGED <<link, list, owner, defect, up>>

\* A step that only reads the lists has the iterator's part left to show.
LEMMA ReadsStep ==
  ASSUME IInv, Reads, iter' \in [next : Node \union {NULL}, forward : BOOLEAN],
         owed' \subseteq Node, given' \subseteq Node, IterInv'
  PROVE  IInv'
<1>1. TypeOK'
  BY DEF IInv, TypeOK, Reads
<1>2. \A i \in List : ListInv(i)'
  BY ListStays DEF IInv, Untouched, Reads, NodesOf
<1> QED
  BY <1>1, <1>2 DEF IInv

\* Reading keeps every chain.
LEMMA ReadsKeepsChains ==
  ASSUME Reads, NEW i, NEW m, NEW s, ChainOf(i, m, s)
  PROVE  ChainOf(i, m, s)'
BY ChainStays DEF Untouched, Reads, NodesOf

\* A new iterator is at one end of its chain and owes all of it.
LEMMA GetIteratorStep ==
  ASSUME IInv, NEW i \in List, NEW forward \in BOOLEAN, listGetIterator(i, forward)
  PROVE  IInv'
<1> DEFINE next == IF forward THEN list[i].head ELSE list[i].tail
<1>1. /\ TypeOK /\ Reads /\ defect[i] = {} /\ iter' = [next |-> next, forward |-> forward]
      /\ owed' = NodesOf(i) /\ given' = {}
  BY DEF IInv, listGetIterator, StartAt, Reads
<1>2. next \in Node \union {NULL} /\ iter'.next = next /\ iter'.forward = forward
  BY <1>1, FieldTypes
<1>3. PICK m, s : m \in 0..Cardinality(Node) /\ s \in Chains(m) /\ ChainOf(i, m, s)
  BY <1>1 DEF IInv, ListInv
<1>4. /\ m \in Nat /\ \A k \in 1..m : s[k] \in NodesOf(i)
      /\ next = IF forward THEN s[1] ELSE s[m]
      /\ s[0] = NULL /\ s[m + 1] = NULL
      /\ \A n \in NodesOf(i) : \E k \in 1..m : s[k] = n
  BY <1>3, ChainNodes DEF Strung
<1> HIDE DEF next
<1>5. IterInv'
  <2>1. CASE m = 0
    <3>1. next = NULL /\ NodesOf(i) = {}
      BY <1>4, <2>1
    <3> QED
      BY <1>1, <1>2, <3>1 DEF IterInv
  <2>2. CASE m # 0
    <3> DEFINE k == IF forward THEN 1 ELSE m
    <3>1. k \in 1..m /\ next = s[k] /\ \A j \in 1..m : IF forward THEN j >= k ELSE j <= k
      BY <1>4, <2>2
    <3> HIDE DEF k
    <3>2. IterAt(i, m, s, k)'
      BY <1>1, <1>2, <3>1 DEF IterAt, Ahead, Reads, NodesOf
    <3>3. ChainOf(i, m, s)' /\ defect'[i] = {}
      BY <1>1, <1>3, ReadsKeepsChains DEF Reads
    <3>4. IterIn(i)'
      BY <1>3, <3>1, <3>2, <3>3 DEF IterIn
    <3>5. iter'.next # NULL
      BY <1>2, <1>4, <3>1, NullAssumption DEF NodesOf
    <3> QED
      BY <3>4, <3>5 DEF IterInv
  <2> QED
    BY <2>1, <2>2
<1>6. owed' \subseteq Node
  BY <1>1 DEF NodesOf
<1> QED
  BY <1>1, <1>2, <1>5, <1>6, ReadsStep

\* Where the iterator goes: to the next node of its chain, one that is still
\* owed if there is any.
LEMMA NextStep ==
  ASSUME IInv, listNext
  PROVE  IInv'
<1> DEFINE n == iter.next
           next == IF iter.forward THEN link[n].next ELSE link[n].prev
<1>1. /\ TypeOK /\ Reads /\ n # NULL /\ iter' = [iter EXCEPT !.next = next]
      /\ owed' = owed \ {n} /\ given' = IF next = NULL THEN {} ELSE given \union {n}
  BY DEF IInv, listNext, Reads
<1>2. PICK i \in List : IterIn(i)
  BY <1>1 DEF IInv, IterInv
<1>3. PICK m, s, k : /\ m \in 0..Cardinality(Node) /\ s \in Chains(m) /\ k \in 1..m
                     /\ ChainOf(i, m, s) /\ IterAt(i, m, s, k)
  BY <1>2 DEF IterIn
<1>4. /\ m \in Nat /\ n = s[k] /\ s[0] = NULL /\ s[m + 1] = NULL
      /\ \A j \in 1..m : s[j] \in NodesOf(i) /\ s[j] \in Node /\ s[j] # NULL
      /\ \A a, b \in 1..m : s[a] = s[b] => a = b
      /\ \A x \in NodesOf(i) : \E j \in 1..m : s[j] = x
      /\ link[n].next = s[k + 1] /\ link[n].prev = s[k - 1]
  BY <1>3, ChainNodes, NullAssumption DEF Strung, IterAt
<1>0. PICK l : l = IF iter.forward THEN k + 1 ELSE k - 1
  OBVIOUS
<1>5. next = s[l] /\ l \in 0..(m + 1)
  BY <1>0, <1>3, <1>4
<1>6. next \in Node \union {NULL} /\ n \in Node
  BY <1>3, <1>4, <1>5 DEF Chains
<1> HIDE DEF next, n
<1>7. iter'.next = next /\ iter'.forward = iter.forward
      /\ iter' \in [next : Node \union {NULL}, forward : BOOLEAN]
  BY <1>1, <1>6 DEF TypeOK
<1>8. /\ owed \subseteq NodesOf(i) /\ given \subseteq NodesOf(i)
      /\ \A j \in 1..m : (s[j] \in owed => Ahead(j, k)) /\ (s[j] \in given => ~Ahead(j, k))
  BY <1>3 DEF IterAt
<1>9. CASE l \in 1..m
  <2>1. next # NULL /\ given' = given \union {n}
    BY <1>1, <1>4, <1>5, <1>9
  <2>2. ASSUME NEW j \in 1..m
        PROVE  (s[j] \in owed' => Ahead(j, l)') /\ (s[j] \in given' => ~Ahead(j, l)')
    <3>1. (s[j] \in owed => Ahead(j, k)) /\ (s[j] \in given => ~Ahead(j, k)) /\ (s[j] = n <=> j = k)
      BY <1>3, <1>4, <1>8
    <3>2. CASE iter.forward
      BY <1>0, <1>1, <1>3, <1>4, <1>7, <2>1, <3>1, <3>2 DEF Ahead
    <3>3. CASE ~iter.forward
      BY <1>0, <1>1, <1>3, <1>4, <1>7, <2>1, <3>1, <3>3 DEF Ahead
    <3> QED
      BY <3>2, <3>3
  <2>3. owed' \subseteq NodesOf(i)' /\ given' \subseteq NodesOf(i)'
    BY <1>1, <1>3, <1>4, <1>8, <2>1 DEF Reads, NodesOf
  <2>4. IterAt(i, m, s, l)'
    BY <1>5, <1>7, <2>2, <2>3 DEF IterAt
  <2>5. ChainOf(i, m, s)' /\ defect'[i] = {}
    BY <1>1, <1>2, <1>3, ReadsKeepsChains DEF Reads, IterIn
  <2>6. IterIn(i)'
    BY <1>3, <1>9, <2>4, <2>5 DEF IterIn
  <2>7. IterInv'
    BY <1>7, <2>1, <2>6 DEF IterInv
  <2>8. owed' \subseteq Node /\ given' \subseteq Node
    BY <2>3 DEF NodesOf
  <2> QED
    BY <1>1, <1>7, <2>7, <2>8, ReadsStep
<1>10. CASE l \notin 1..m
  <2>1. l \in {0, m + 1} /\ next = NULL
    BY <1>4, <1>5, <1>10
  <2>2. owed' = {}
    <3> SUFFICES ASSUME NEW x \in owed, x # n PROVE FALSE
      BY <1>1
    <3>1. PICK j \in 1..m : s[j] = x
      BY <1>4, <1>8
    <3>2. Ahead(j, k) /\ j # k
      BY <1>4, <1>8, <3>1
    <3>3. CASE iter.forward
      <4>1. k = m
        BY <1>0, <1>3, <1>4, <2>1, <3>3
      <4> QED
        BY <1>4, <3>2, <3>3, <4>1 DEF Ahead
    <3>4. CASE ~iter.forward
      <4>1. k = 1
        BY <1>0, <1>3, <1>4, <2>1, <3>4
      <4> QED
        BY <1>4, <3>2, <3>4, <4>1 DEF Ahead
    <3> QED
      BY <3>3, <3>4
  <2>3. IterInv'
    BY <1>7, <2>1, <2>2 DEF IterInv
  <2> QED
    BY <1>1, <1>7, <2>1, <2>2, <2>3, ReadsStep
<1> QED
  BY <1>9, <1>10

-----------------------------------------------------------------------------
(* The invariant.                                                          *)

\* The invariant holds at first: every list has the empty chain.
LEMMA InitIInv == Init => IInv
<1> SUFFICES ASSUME Init PROVE IInv
  OBVIOUS
<1>1. \A i \in List : /\ list[i].head = NULL /\ list[i].tail = NULL /\ list[i].len = 0
                      /\ list[i] \in Lists
  <2> SUFFICES ASSUME NEW i \in List
               PROVE  /\ list[i].head = NULL /\ list[i].tail = NULL /\ list[i].len = 0
                      /\ list[i] \in Lists
    OBVIOUS
  <2>1. PICK free \in BOOLEAN : list[i] = [head |-> NULL, tail |-> NULL, len |-> 0, free |-> free]
    BY DEF Init, EmptyList
  <2>2. 0 \in 0..LenMax
    BY Lengths
  <2> QED
    BY <2>1, <2>2 DEF Lists
<1>2. list \in [List -> Lists]
  BY <1>1 DEF Init
<1>3. \A i \in List : NodesOf(i) = {}
  BY ListAssumption DEF Init, NodesOf
<1>4. \A i \in List : ListInv(i)
  <2> SUFFICES ASSUME NEW i \in List PROVE ListInv(i)
    OBVIOUS
  <2>1. \E s \in Chains(0) : ChainOf(i, 0, s)
    BY <1>1, <1>3, ChainOfNone
  <2> QED
    BY <2>1, Lengths DEF ListInv
<1>5. TypeOK
  BY <1>2 DEF Init, TypeOK, Lists, Alone, NoIterator
<1>6. IterInv
  BY DEF Init, IterInv, NoIterator
<1> QED
  BY <1>4, <1>5, <1>6 DEF IInv

\* Every operation on a list preserves the invariant.
LEMMA ListStepIInv ==
  ASSUME IInv, NEW i \in List, ListStep(i)
  PROVE  IInv'
<1>1. ASSUME NEW n \in Node, listLinkNodeHead(i, n) PROVE IInv'
  <2>1. CASE Only(i, n, 1) /\ defect' = [defect EXCEPT ![i] = {}] /\ UNCHANGED up
    <3>1. Fresh(n) /\ 1 \in 0..LenMax /\ {} \in SUBSET {"short"}
      BY <1>1, OneIsALength DEF listLinkNodeHead
    <3> QED
      BY <2>1, <3>1, OnlyStep
  <2> QED
    BY <1>1, <2>1, LinkHeadDoes, PutInStep, StrayStep DEF Kept
<1>2. ASSUME NEW n \in Node, listLinkNodeTail(i, n) PROVE IInv'
  <2>1. CASE Only(i, n, 0) /\ defect' = [defect EXCEPT ![i] = {"short"}] /\ UNCHANGED up
    <3>1. Fresh(n) /\ 0 \in 0..LenMax /\ {"short"} \in SUBSET {"short"} /\ {"short"} # {}
      BY <1>2, Lengths DEF listLinkNodeTail
    <3> QED
      BY <2>1, <3>1, OnlyStep
  <2> QED
    BY <1>2, <2>1, LinkTailDoes, PutInStep, StrayStep
<1>3. ASSUME NEW n \in Node, NEW to \in {"client", "free"}, Unlink(i, n, to) PROVE IInv'
  BY <1>3, UnlinkDoes, TakenOutStep, TornOffStep, StrayStep
<1>4. ASSUME NEW old \in Node, NEW n \in Node, NEW after \in BOOLEAN, listInsertNode(i, old, n, after)
      PROVE  IInv'
  BY <1>4, InsertDoes, PutInStep, StrayStep DEF Kept
<1>5. ASSUME listEmpty(i) PROVE IInv'
  BY <1>5, EmptyDoes, ClearedStep, StrayStep
<1>6. ASSUME listRotateTailToHead(i) PROVE IInv'
  BY <1>6, TailToHeadDoes, TurnedStep, StrayStep
<1>7. ASSUME listRotateHeadToTail(i) PROVE IInv'
  BY <1>7, HeadToTailDoes, TurnedStep, StrayStep
<1>8. ASSUME NEW j \in List, listJoin(i, j) PROVE IInv'
  BY <1>8, JoinDoes, JoinedStep, StrayStep
<1>9. ASSUME NEW j \in List, listDup(i, j) PROVE IInv'
  BY <1>9, DupDoes, CopiedStep
<1>10. ASSUME NEW forward \in BOOLEAN, listGetIterator(i, forward) PROVE IInv'
  BY <1>10, GetIteratorStep
<1> QED
  BY <1>1, <1>2, <1>3, <1>4, <1>5, <1>6, <1>7, <1>8, <1>9, <1>10
  DEF ListStep, listUnlinkNode, listDelNode

\* So does a step that changes nothing.
LEMMA StutterIInv == IInv /\ UNCHANGED vars => IInv'
<1> SUFFICES ASSUME IInv, UNCHANGED vars PROVE IInv'
  OBVIOUS
<1>1. TypeOK'
  BY DEF IInv, TypeOK, vars
<1>2. \A i \in List : Untouched(i)
  BY DEF Untouched, vars, NodesOf
<1> QED
  BY <1>1, <1>2, NoListStep DEF vars, Kept

\* Every list that is not torn keeps its chain, and the iterator its place in
\* one of them, whatever operation the client calls next.
THEOREM Invariant == Spec => []IInv
<1>1. IInv /\ [Next]_vars => IInv'
  <2> SUFFICES ASSUME IInv, [Next]_vars PROVE IInv'
    OBVIOUS
  <2>1. CASE \E i \in List : ListStep(i)
    BY <2>1, ListStepIInv
  <2>2. CASE \E n \in Node : listInitNode(n)
    BY <2>2, InitNodeStep
  <2>3. CASE \E n \in Node : FreeNode(n)
    BY <2>3, FreeNodeStep
  <2>4. CASE listNext
    BY <2>4, NextStep
  <2>5. CASE UNCHANGED vars
    BY <2>5, StutterIInv
  <2> QED
    BY <2>1, <2>2, <2>3, <2>4, <2>5 DEF Next
<1> QED
  BY InitIInv, <1>1, PTL DEF Spec

\* The types hold of every run: in particular len stays an unsigned long.
THEOREM TypeCorrect == Spec => []TypeOK
<1>1. IInv => TypeOK
  BY DEF IInv
<1> QED
  BY Invariant, <1>1, PTL

\* Whatever is added, inserted, removed, rotated, joined and copied, the next
\* fields from head and the prev fields from tail meet the nodes of a list in
\* opposite orders, as long as its last node was never unlinked.
THEOREM ListsLinked == Spec => []Linked
<1>1. IInv => Linked
  <2> SUFFICES ASSUME IInv, NEW i \in List, "torn" \notin defect[i]
               PROVE  /\ ToSet(Chain(i)) = NodesOf(i)
                      /\ Walk(list[i].tail, "prev") = Reverse(Chain(i))
    BY DEF Linked, IInv
  <2>1. PICK m, s : ChainOf(i, m, s)
    BY DEF IInv, ListInv
  <2>2. /\ Chain(i) = [k \in 1..m |-> s[k]]
        /\ Walk(list[i].tail, "prev") = [k \in 1..m |-> s[m + 1 - k]]
    BY <2>1, ChainRead
  <2>3. m \in Nat
    BY <2>1, ChainNodes
  <2>4. ToSet(Chain(i)) = {s[k] : k \in 1..m}
    BY <2>2 DEF ToSet
  <2>5. {s[k] : k \in 1..m} = NodesOf(i)
    BY <2>1, ChainCounts
  <2>6. Len(Chain(i)) = m
    BY <2>2, <2>3
  <2>7. Reverse(Chain(i)) = [k \in 1..m |-> Chain(i)[m - k + 1]]
    BY <2>6 DEF Reverse
  <2>8. \A k \in 1..m : Chain(i)[m - k + 1] = s[m + 1 - k]
    BY <2>2, <2>3
  <2> QED
    BY <2>2, <2>4, <2>5, <2>7, <2>8
<1> QED
  BY Invariant, <1>1, PTL

\* len is the number of nodes of every list without a defect.
THEOREM LengthsRight == Spec => []Counted
<1>1. IInv => Counted
  <2> SUFFICES ASSUME IInv, NEW i \in List, defect[i] = {}
               PROVE  list[i].len = Len(Chain(i))
    BY DEF Counted
  <2>1. PICK m, s : ChainOf(i, m, s)
    BY DEF IInv, ListInv
  <2>2. Chain(i) = [k \in 1..m |-> s[k]]
        /\ Walk(list[i].tail, "prev") = [k \in 1..m |-> s[m + 1 - k]]
    BY <2>1, ChainRead
  <2>3. m \in Nat /\ list[i].len = m
    BY <2>1, ChainNodes DEF ChainOf
  <2> QED
    BY <2>2, <2>3
<1> QED
  BY Invariant, <1>1, PTL

\* An iterator returns every node it has to and none of them twice, in either
\* direction, through any additions, joins and deletions, as long as the last
\* node of its list stays where it is (ForgetIteration).
THEOREM IterationsExact == Spec => []IterExact
<1>1. IInv => IterExact
  <2> SUFFICES ASSUME IInv PROVE IterExact
    OBVIOUS
  <2>1. CASE iter.next = NULL
    <3>1. iter.next \notin given
      BY <2>1, NullAssumption DEF IInv, TypeOK
    <3> QED
      BY <2>1, <3>1 DEF IInv, IterInv, IterExact
  <2>2. CASE iter.next # NULL
    <3>1. PICK i \in List : IterIn(i)
      BY <2>2 DEF IInv, IterInv
    <3>2. PICK m, s, k : /\ m \in 0..Cardinality(Node) /\ k \in 1..m
                         /\ ChainOf(i, m, s) /\ IterAt(i, m, s, k)
      BY <3>1 DEF IterIn
    <3>3. Ahead(k, k)
      BY <3>2, Lengths DEF Ahead
    <3>4. iter.next \notin given
      BY <3>2, <3>3 DEF IterAt
    <3> QED
      BY <2>2, <3>4 DEF IterExact
  <2> QED
    BY <2>1, <2>2
<1> QED
  BY Invariant, <1>1, PTL

\* listIndex finds each node of a list without a defect at its index, from
\* the head and from the tail, and nothing at any other index.
THEOREM IndexesRight == Spec => []IndexRight
<1>1. IInv => IndexRight
  <2> SUFFICES ASSUME IInv, NEW i \in List, defect[i] = {},
                      NEW index \in (-Len(Chain(i)) - 1)..Len(Chain(i))
               PROVE  listIndex(i, index) =
                        IF index \in 0..(Len(Chain(i)) - 1) THEN Chain(i)[index + 1]
                        ELSE IF index \in (-Len(Chain(i)))..(-1) THEN Chain(i)[Len(Chain(i)) + index + 1]
                        ELSE NULL
    BY DEF IndexRight
  <2>1. PICK m, s : ChainOf(i, m, s)
    BY DEF IInv, ListInv
  <2>2. /\ Chain(i) = [k \in 1..m |-> s[k]]
        /\ Walk(list[i].tail, "prev") = [k \in 1..m |-> s[m + 1 - k]]
    BY <2>1, ChainRead
  <2>3. /\ m \in Nat /\ list[i].head = s[1] /\ list[i].tail = s[m]
        /\ s[0] = NULL /\ s[m + 1] = NULL
        /\ \A k \in 1..m : s[k] \in Node /\ link[s[k]].next = s[k + 1] /\ link[s[k]].prev = s[k - 1]
    BY <2>1, ChainNodes DEF Strung
  <2>4. Len(Chain(i)) = m /\ \A k \in 1..m : Chain(i)[k] = s[k]
    BY <2>2, <2>3
  <2>5. index \in Int
    BY <2>3, <2>4
  <2>6. CASE index >= 0
    <3>1. Follows("next", m, s)
      BY <2>3 DEF Follows
    <3>2. index \in Nat /\ ~(index < 0)
      BY <2>5, <2>6
    <3>3. listIndex(i, index) = Nth(i, index, index)
      BY <3>2 DEF listIndex
    <3>4. Nth(i, index, index) = IF index < m THEN s[index + 1] ELSE NULL
      BY <2>3, <2>5, <3>1, <3>2, NthFollows
    <3> QED
      BY <2>3, <2>4, <3>2, <3>3, <3>4
  <2>7. CASE index < 0
    <3> DEFINE t == [k \in 0..(m + 1) |-> s[m + 1 - k]]
               steps == (-index) - 1
    <3>1. \A k \in 0..(m + 1) : t[k] = s[m + 1 - k]
      OBVIOUS
    <3> HIDE DEF t
    <3>2. Follows("prev", m, t)
      <4>1. t[m + 1] = NULL
        BY <2>3, <3>1
      <4>2. ASSUME NEW k \in 1..m PROVE t[k] \in Node /\ link[t[k]].prev = t[k + 1]
        <5>1. PICK j \in 1..m : j = m + 1 - k
          BY <2>3
        <5>2. t[k] = s[j] /\ t[k + 1] = s[j - 1]
          BY <2>3, <3>1, <5>1
        <5> QED
          BY <2>3, <5>1, <5>2
      <4> QED
        BY <4>1, <4>2 DEF Follows
    <3>3. t[1] = list[i].tail /\ steps \in Nat
      BY <2>3, <2>5, <2>7, <3>1
    <3>4. listIndex(i, index) = Nth(i, index, steps)
      BY <2>7 DEF listIndex
    <3>5. Nth(i, index, steps) = IF steps < m THEN t[steps + 1] ELSE NULL
      <4> HIDE DEF steps
      <4> QED
        BY <2>3, <2>5, <2>7, <3>2, <3>3, NthFollows
    <3>6. steps < m => t[steps + 1] = s[m + index + 1]
      BY <2>3, <2>5, <2>7, <3>1, SMTT(30)
    <3> QED
      BY <2>3, <2>4, <2>5, <2>7, <3>4, <3>5, <3>6
  <2> QED
    BY <2>5, <2>6, <2>7
<1> QED
  BY Invariant, <1>1, PTL

-----------------------------------------------------------------------------
(* Sequences given by a function on the numbers.                           *)

\* The first m elements of a chain, as a sequence.
First(m, s) == [k \in 1..m |-> s[k]]

\* That is a sequence of m elements.
LEMMA FirstIsSeq ==
  ASSUME NEW m \in Nat, NEW s
  PROVE  /\ First(m, s) \in Seq({s[k] : k \in 1..m}) /\ Len(First(m, s)) = m
         /\ \A k \in 1..m : First(m, s)[k] = s[k]
BY DEF First

\* A sequence is what its length and its elements say.
LEMMA IsFirst ==
  ASSUME NEW m \in Nat, NEW s, NEW S, NEW q, q \in Seq(S), Len(q) = m, \A k \in 1..m : q[k] = s[k]
  PROVE  q = First(m, s)
BY DEF First

\* A part of a sequence, and one after another, in terms of their elements.
LEMMA PartOf ==
  ASSUME NEW S, NEW m \in Nat, NEW q, q \in Seq(S), Len(q) = m, NEW a \in Int, NEW b \in Int,
         a \in 1..(m + 1), b \in 0..m, a <= b + 1
  PROVE  /\ SubSeq(q, a, b) \in Seq(S) /\ Len(SubSeq(q, a, b)) = b + 1 - a
         /\ \A k \in 1..(b + 1 - a) : SubSeq(q, a, b)[k] = q[a + k - 1]
<1>1. \A k \in a..b : q[k] \in S
  OBVIOUS
<1>2. SubSeq(q, a, b) \in Seq(S) /\ Len(SubSeq(q, a, b)) = (IF a <= b THEN b - a + 1 ELSE 0)
      /\ \A k \in 1..(b - a + 1) : SubSeq(q, a, b)[k] = q[a + k - 1]
  BY <1>1, SubSeqProperties
<1> QED
  BY <1>2

\* Two sequences, one after the other, element by element.
LEMMA OneAfterOther ==
  ASSUME NEW S, NEW a, NEW b, a \in Seq(S), b \in Seq(S)
  PROVE  /\ a \o b \in Seq(S) /\ Len(a \o b) = Len(a) + Len(b)
         /\ \A k \in 1..(Len(a) + Len(b)) : (a \o b)[k] = IF k <= Len(a) THEN a[k] ELSE b[k - Len(a)]
BY ConcatProperties

\* Two functions read one after the other are one function read.
LEMMA FirstThenFirst ==
  ASSUME NEW m \in Nat, NEW s, NEW p \in Nat, NEW t, NEW len \in Nat, NEW u, len = m + p,
         \A k \in 1..m : u[k] = s[k], \A k \in 1..p : u[m + k] = t[k]
  PROVE  First(m, s) \o First(p, t) = First(len, u)
<1> DEFINE S == {s[k] : k \in 1..m} \union {t[k] : k \in 1..p}
           a == First(m, s)
           b == First(p, t)
<1>0. (\A k \in 1..m : s[k] \in S) /\ (\A k \in 1..p : t[k] \in S)
  OBVIOUS
<1> HIDE DEF S
<1>1. /\ Len(a) = m /\ \A k \in 1..m : a[k] = s[k]
      /\ Len(b) = p /\ \A k \in 1..p : b[k] = t[k]
  BY FirstIsSeq
<1>2. a \in Seq(S) /\ b \in Seq(S)
  BY <1>0 DEF First
<1> HIDE DEF a, b
<1>3. PICK c : c = a \o b
  OBVIOUS
<1>4. /\ c \in Seq(S) /\ Len(c) = len
      /\ \A k \in 1..len : c[k] = IF k <= m THEN a[k] ELSE b[k - m]
  <2>1. a \o b \in Seq(S) /\ Len(a \o b) = Len(a) + Len(b)
        /\ \A k \in 1..(Len(a) + Len(b)) : (a \o b)[k] = IF k <= Len(a) THEN a[k] ELSE b[k - Len(a)]
    BY <1>2, ConcatProperties
  <2> QED
    BY <2>1, <1>1, <1>3
<1>5. \A k \in 1..len : c[k] = u[k]
  <2> SUFFICES ASSUME NEW k \in 1..len PROVE c[k] = u[k]
    OBVIOUS
  <2>1. CASE k <= m
    BY <1>1, <1>4, <2>1
  <2>2. CASE ~(k <= m)
    <3>1. PICK j \in 1..p : k = m + j
      BY <2>2, k - m \in 1..p
    <3>2. k - m = j
      BY <3>1
    <3>3. c[k] = b[j]
      BY <1>4, <2>2, <3>2
    <3>4. b[j] = t[j]
      BY <1>1, <3>1
    <3>5. u[k] = t[j]
      BY <3>1
    <3> QED
      BY <3>3, <3>4, <3>5
  <2> QED
    BY <2>1, <2>2
<1>6. c = First(len, u)
  BY <1>4, <1>5, IsFirst, SMTT(60)
<1> QED
  BY <1>3, <1>6 DEF a, b

\* A function read at 1 alone.
LEMMA FirstOne ==
  ASSUME NEW n, NEW s, s[1] = n
  PROVE  First(1, s) = <<n>>
BY DEF First

\* An element put in at p.
LEMMA InsertIntoFirst ==
  ASSUME NEW m \in Nat, NEW s, NEW p \in 1..(m + 1), NEW n, NEW u,
         \A k \in 1..(m + 1) : u[k] = IF k < p THEN s[k] ELSE IF k = p THEN n ELSE s[k - 1]
  PROVE  InsertAt(First(m, s), p, n) = First(m + 1, u)
<1> DEFINE q == First(m, s)
           S == {s[k] : k \in 1..m} \union {n}
<1>1. q \in Seq(S) /\ Len(q) = m /\ \A k \in 1..m : q[k] = s[k]
  BY DEF First
<1>2. <<n>> \in Seq(S) /\ Len(<<n>>) = 1 /\ <<n>>[1] = n
  OBVIOUS
<1> HIDE DEF q, S
<1>3. PICK a, b, c, d : /\ a = SubSeq(q, 1, p - 1) /\ b = SubSeq(q, p, m)
                        /\ c = a \o <<n>> /\ d = c \o b
  OBVIOUS
<1>4. a \in Seq(S) /\ Len(a) = p - 1 /\ \A k \in 1..(p - 1) : a[k] = s[k]
  BY <1>1, <1>3, PartOf
<1>5. b \in Seq(S) /\ Len(b) = m + 1 - p /\ \A k \in 1..(m + 1 - p) : b[k] = s[p + k - 1]
  BY SMTT(30), <1>1, <1>3, PartOf
<1>6. c \in Seq(S) /\ Len(c) = p /\ \A k \in 1..p : c[k] = IF k < p THEN s[k] ELSE n
  <2>1. c \in Seq(S) /\ Len(c) = p
        /\ \A k \in 1..p : c[k] = IF k <= p - 1 THEN a[k] ELSE <<n>>[k - (p - 1)]
    BY <1>2, <1>3, <1>4, OneAfterOther
  <2>2. p - (p - 1) = 1
    OBVIOUS
  <2> QED
    BY <1>2, <1>4, <2>1, <2>2
<1>7. d \in Seq(S) /\ Len(d) = m + 1
      /\ \A k \in 1..(m + 1) : d[k] = IF k <= p THEN c[k] ELSE b[k - p]
  BY <1>3, <1>5, <1>6, OneAfterOther
<1>8. \A k \in 1..(m + 1) : d[k] = u[k]
  <2> SUFFICES ASSUME NEW k \in 1..(m + 1) PROVE d[k] = u[k]
    OBVIOUS
  <2>1. CASE k <= p
    <3>1. d[k] = c[k]
      BY <1>7, <2>1
    <3>2. k \in 1..p /\ (k < p \/ k = p)
      BY <2>1
    <3>3. c[k] = IF k < p THEN s[k] ELSE n
      BY <1>6, <3>2
    <3>4. u[k] = IF k < p THEN s[k] ELSE IF k = p THEN n ELSE s[k - 1]
      OBVIOUS
    <3> QED
      BY <3>1, <3>2, <3>3, <3>4, Zenon
  <2>2. CASE ~(k <= p)
    <3>1. PICK j \in 1..(m + 1 - p) : k = p + j
      BY <2>2, k - p \in 1..(m + 1 - p)
    <3>2. k - p = j /\ k - 1 = p + j - 1
      BY <3>1
    <3>3. d[k] = b[j] /\ b[j] = s[p + j - 1]
      BY <1>5, <1>7, <2>2, <3>2
    <3>4. u[k] = IF k < p THEN s[k] ELSE IF k = p THEN n ELSE s[k - 1]
      OBVIOUS
    <3>5. ~(k < p) /\ k # p
      BY <2>2
    <3> QED
      BY <3>2, <3>3, <3>4, <3>5, Zenon
  <2> QED
    BY <2>1, <2>2
<1>9. d = First(m + 1, u)
  <2>1. m + 1 \in Nat
    OBVIOUS
  <2> QED
    BY <1>7, <1>8, <2>1, IsFirst
<1> QED
  BY <1>1, <1>3, <1>9 DEF InsertAt, q

\* The element at p taken out.
LEMMA RemoveFromFirst ==
  ASSUME NEW m \in Nat, NEW s, NEW p \in 1..m, NEW u,
         \A k \in 1..(m - 1) : u[k] = IF k < p THEN s[k] ELSE s[k + 1]
  PROVE  RemoveAt(First(m, s), p) = First(m - 1, u)
<1> DEFINE q == First(m, s)
           S == {s[k] : k \in 1..m}
<1>1. q \in Seq(S) /\ Len(q) = m /\ \A k \in 1..m : q[k] = s[k]
  BY DEF First
<1> HIDE DEF q, S
<1>2. PICK a, b, d : a = SubSeq(q, 1, p - 1) /\ b = SubSeq(q, p + 1, m) /\ d = a \o b
  OBVIOUS
<1>3. a \in Seq(S) /\ Len(a) = p - 1 /\ \A k \in 1..(p - 1) : a[k] = s[k]
  BY <1>1, <1>2, PartOf
<1>4. b \in Seq(S) /\ Len(b) = m - p /\ \A k \in 1..(m - p) : b[k] = s[p + k]
  <2>1. PICK c : c = p + 1
    OBVIOUS
  <2>2. c \in Int /\ c \in 1..(m + 1) /\ m \in 0..m /\ c <= m + 1
    BY <2>1
  <2>3. b \in Seq(S) /\ Len(b) = m + 1 - c /\ \A k \in 1..(m + 1 - c) : b[k] = q[c + k - 1]
    <3>1. b = SubSeq(q, c, m)
      BY <1>2, <2>1
    <3> QED
      BY <1>1, <2>2, <3>1, PartOf, SMTT(60)
  <2>4. m + 1 - c = m - p /\ \A k \in 1..(m - p) : c + k - 1 = p + k /\ p + k \in 1..m
    BY <2>1
  <2> QED
    BY <1>1, <2>3, <2>4
<1>5. d \in Seq(S) /\ Len(d) = m - 1
      /\ \A k \in 1..(m - 1) : d[k] = IF k <= p - 1 THEN a[k] ELSE b[k - (p - 1)]
  BY SMTT(30), <1>2, <1>3, <1>4, OneAfterOther
<1>6. \A k \in 1..(m - 1) : d[k] = u[k]
  <2> SUFFICES ASSUME NEW k \in 1..(m - 1) PROVE d[k] = u[k]
    OBVIOUS
  <2>1. CASE k < p
    BY <1>3, <1>5, <2>1
  <2>2. CASE ~(k < p)
    <3>1. PICK j \in 1..(m - p) : k = p - 1 + j
      BY <2>2, k - p + 1 \in 1..(m - p)
    <3>2. k - (p - 1) = j /\ k + 1 = p + j /\ ~(k <= p - 1)
      BY <2>2, <3>1
    <3>3. d[k] = b[j] /\ b[j] = s[p + j]
      BY <1>4, <1>5, <3>2
    <3> QED
      BY <2>2, <3>2, <3>3
  <2> QED
    BY <2>1, <2>2
<1>7. d = First(m - 1, u)
  <2>1. m - 1 \in Nat
    OBVIOUS
  <2> QED
    BY <1>5, <1>6, <2>1, IsFirst
<1> QED
  BY <1>1, <1>2, <1>7 DEF RemoveAt, q

\* The last element before the others, and the first one after them.
LEMMA LastBeforeFirst ==
  ASSUME NEW m \in Nat, m > 0, NEW s, NEW u, u[1] = s[m], \A k \in 2..m : u[k] = s[k - 1]
  PROVE  <<Last(First(m, s))>> \o Front(First(m, s)) = First(m, u)
<1> DEFINE q == First(m, s)
           S == {s[k] : k \in 1..m}
<1>1. q \in Seq(S) /\ Len(q) = m /\ (\A k \in 1..m : q[k] = s[k]) /\ m \in 1..m /\ s[m] \in S
  BY DEF First
<1> HIDE DEF q, S
<1>2. PICK a, b, d : a = <<s[m]>> /\ b = SubSeq(q, 1, m - 1) /\ d = a \o b
  OBVIOUS
<1>3. a \in Seq(S) /\ Len(a) = 1 /\ a[1] = s[m]
  BY <1>1, <1>2
<1>4. b \in Seq(S) /\ Len(b) = m - 1 /\ \A k \in 1..(m - 1) : b[k] = s[k]
  <2>1. PICK c : c = m - 1
    OBVIOUS
  <2>2. c \in Int /\ c \in 0..m /\ 1 \in 1..(m + 1) /\ 1 <= c + 1
    BY <2>1
  <2>3. b \in Seq(S) /\ Len(b) = c + 1 - 1 /\ \A k \in 1..(c + 1 - 1) : b[k] = q[1 + k - 1]
    BY <1>1, <1>2, <2>1, <2>2, PartOf
  <2>4. c + 1 - 1 = m - 1 /\ \A k \in 1..(m - 1) : 1 + k - 1 = k /\ k \in 1..m
    BY <2>1
  <2> QED
    BY <1>1, <2>3, <2>4
<1>5. d \in Seq(S) /\ Len(d) = m /\ \A k \in 1..m : d[k] = IF k <= 1 THEN a[k] ELSE b[k - 1]
  BY <1>2, <1>3, <1>4, OneAfterOther
<1>6. \A k \in 1..m : d[k] = u[k]
  <2> SUFFICES ASSUME NEW k \in 1..m PROVE d[k] = u[k]
    OBVIOUS
  <2>1. CASE k = 1
    BY <1>3, <1>5, <2>1
  <2>2. CASE k # 1
    <3>1. ~(k <= 1) /\ k - 1 \in 1..(m - 1) /\ k \in 2..m
      BY <2>2
    <3>2. d[k] = b[k - 1] /\ b[k - 1] = s[k - 1]
      BY <1>4, <1>5, <3>1
    <3> QED
      BY <3>1, <3>2
  <2> QED
    BY <2>1, <2>2
<1>7. d = First(m, u)
  BY <1>5, <1>6, IsFirst
<1> QED
  BY <1>1, <1>2, <1>7 DEF Last, Front, q

\* The first element behind the others.
LEMMA FirstAfterRest ==
  ASSUME NEW m \in Nat, m > 0, NEW s, NEW u, u[m] = s[1], \A k \in 1..(m - 1) : u[k] = s[k + 1]
  PROVE  Tail(First(m, s)) \o <<Head(First(m, s))>> = First(m, u)
<1> DEFINE q == First(m, s)
           S == {s[k] : k \in 1..m}
<1>1. q \in Seq(S) /\ Len(q) = m /\ (\A k \in 1..m : q[k] = s[k]) /\ 1 \in 1..m /\ s[1] \in S
  BY SMTT(30) DEF First
<1> HIDE DEF q, S
<1>2. PICK a, b, d : a = Tail(q) /\ b = <<s[1]>> /\ d = a \o b
  OBVIOUS
<1>3. b \in Seq(S) /\ Len(b) = 1 /\ b[1] = s[1]
  BY <1>1, <1>2
<1>4. Head(q) = s[1] /\ a \in Seq(S) /\ Len(a) = m - 1 /\ \A k \in 1..(m - 1) : a[k] = s[k + 1]
  <2>1. q # << >>
    BY <1>1
  <2>2. /\ Head(q) = q[1] /\ a \in Seq(S) /\ Len(a) = Len(q) - 1
        /\ \A k \in 1..(Len(q) - 1) : a[k] = q[k + 1]
    BY <1>1, <1>2, <2>1, HeadTailProperties
  <2>3. \A k \in 1..(m - 1) : k + 1 \in 1..m
    OBVIOUS
  <2> QED
    BY <1>1, <2>2, <2>3
<1>5. d \in Seq(S) /\ Len(d) = m /\ \A k \in 1..m : d[k] = IF k <= m - 1 THEN a[k] ELSE b[k - (m - 1)]
  BY <1>2, <1>3, <1>4, OneAfterOther
<1>6. \A k \in 1..m : d[k] = u[k]
  <2> SUFFICES ASSUME NEW k \in 1..m PROVE d[k] = u[k]
    OBVIOUS
  <2>1. CASE k = m
    <3>1. ~(k <= m - 1) /\ k - (m - 1) = 1
      BY <2>1
    <3> QED
      BY <1>3, <1>5, <2>1, <3>1
  <2>2. CASE k # m
    <3>1. k <= m - 1 /\ k \in 1..(m - 1)
      BY <2>2
    <3> QED
      BY <1>4, <1>5, <3>1
  <2> QED
    BY <2>1, <2>2
<1>7. d = First(m, u)
  BY <1>5, <1>6, IsFirst
<1> QED
  BY <1>1, <1>2, <1>4, <1>7 DEF q

-----------------------------------------------------------------------------
(* The sequences of the lists.                                             *)

\* Chain reads the chain of a list, as a sequence.
LEMMA ChainFirst ==
  ASSUME NEW i, NEW m, NEW s
  PROVE  ChainOf(i, m, s) => Chain(i) = First(m, s)
<1> SUFFICES ASSUME ChainOf(i, m, s) PROVE Chain(i) = First(m, s)
  OBVIOUS
<1>1. /\ Chain(i) = [k \in 1..m |-> s[k]]
      /\ Walk(list[i].tail, "prev") = [k \in 1..m |-> s[m + 1 - k]]
  BY ChainRead
<1> QED
  BY <1>1 DEF First

\* And so it does in the next state.
LEMMA ChainFirstNext ==
  ASSUME NEW i, NEW m, NEW s
  PROVE  ChainOf(i, m, s)' => Chain(i)' = First(m, s)
<1>1. ChainOf(i, m, s) => Chain(i) = First(m, s)
  BY ChainFirst
<1>2. (ChainOf(i, m, s) => Chain(i) = First(m, s))'
  BY <1>1, PTL
<1> QED
  BY <1>2

\* The sequence that a list stands for.
Abs(i) == IF defect[i] = {} THEN Chain(i) ELSE <<NULL>>

\* The sequence of a list is read off its chain, or Broken.
LEMMA AbsOfChain ==
  ASSUME NEW i
  PROVE  /\ \A m, s : ChainOf(i, m, s) /\ defect[i] = {} => Abs(i) = First(m, s)
         /\ \A m, s : ChainOf(i, m, s)' /\ defect'[i] = {} => Abs(i)' = First(m, s)
         /\ defect[i] # {} => Abs(i) = <<NULL>>
         /\ defect'[i] # {} => Abs(i)' = <<NULL>>
<1>1. ASSUME NEW m, NEW s, ChainOf(i, m, s), defect[i] = {} PROVE Abs(i) = First(m, s)
  BY <1>1, ChainFirst DEF Abs
<1>2. ASSUME NEW m, NEW s, ChainOf(i, m, s)', defect'[i] = {} PROVE Abs(i)' = First(m, s)
  BY <1>2, ChainFirstNext DEF Abs
<1>3. defect[i] # {} => Abs(i) = <<NULL>>
  BY DEF Abs
<1>4. defect'[i] # {} => Abs(i)' = <<NULL>>
  BY DEF Abs
<1> QED
  BY <1>1, <1>2, <1>3, <1>4

\* A list that is not touched keeps its sequence.
LEMMA AbsStays ==
  ASSUME IInv, NEW i \in List, Untouched(i)
  PROVE  Abs(i)' = Abs(i)
<1>1. CASE defect[i] = {}
  <2>1. PICK m, s : ChainOf(i, m, s)
    BY <1>1 DEF IInv, ListInv
  <2>2. ChainOf(i, m, s)'
    BY <2>1, ChainStays
  <2>3. defect'[i] = {}
    BY <1>1 DEF Untouched
  <2> QED
    BY <1>1, <2>1, <2>2, <2>3, AbsOfChain
<1>2. CASE defect[i] # {}
  <2>1. defect'[i] # {}
    BY <1>2 DEF Untouched
  <2> QED
    BY <1>2, <2>1, AbsOfChain
<1> QED
  BY <1>1, <1>2

\* The sequences of lists without a defect are not Broken.
LEMMA AbsWhole ==
  ASSUME IInv, NEW i \in List
  PROVE  Sequences_!Whole(i) <=> defect[i] = {}
<1>1. Sequences_!Whole(i) <=> Abs(i) # <<NULL>>
  BY DEF Sequences_!Whole, Abs
<1>2. CASE defect[i] = {}
  <2>1. PICK m, s : ChainOf(i, m, s)
    BY <1>2 DEF IInv, ListInv
  <2>2. Abs(i) = First(m, s) /\ m \in Nat /\ \A k \in 1..m : s[k] # NULL
    BY <1>2, <2>1, AbsOfChain, ChainNodes, NullAssumption
  <2>3. ASSUME First(m, s) = <<NULL>> PROVE FALSE
    <3>1. Len(First(m, s)) = m /\ \A k \in 1..m : First(m, s)[k] = s[k]
      BY <2>2, FirstIsSeq
    <3>2. m = 1 /\ First(m, s)[1] = NULL
      BY <2>3, <3>1
    <3> QED
      BY <2>2, <3>1, <3>2
  <2> QED
    BY <1>1, <1>2, <2>2, <2>3
<1>3. CASE defect[i] # {}
  BY <1>1, <1>3, AbsOfChain
<1> QED
  BY <1>2, <1>3

\* If one sequence changes, ListSeq says so with Becomes.
LEMMA AbsBecomes ==
  ASSUME NEW i \in List, NEW q, Abs(i)' = q, \A j \in List : j # i => Abs(j)' = Abs(j)
  PROVE  Sequences_!Becomes(i, q)
<1>1. [j \in List |-> Abs(j)]' = [[j \in List |-> Abs(j)] EXCEPT ![i] = q]
  OBVIOUS
<1> QED
  BY <1>1 DEF Sequences_!Becomes, Abs

\* What the sequences of the lists do in a step of a list: a step of ListSeq, or nothing.
AbsNext == [Sequences_!Next]_<<[i \in List |-> Abs(i)], up>>

\* If none changes, the step is a stutter.
LEMMA NothingBecomes ==
  ASSUME \A i \in List : Abs(i)' = Abs(i), UNCHANGED up
  PROVE  AbsNext
BY DEF AbsNext

\* The steps of ListSeq, each by what it makes of the sequence of its list.
LEMMA OneBecomes ==
  ASSUME IInv, up, UNCHANGED up, NEW i \in List, \A j \in List : j # i => Abs(j)' = Abs(j)
  PROVE  /\ Abs(i)' = << >> => AbsNext
         /\ Abs(i)' = <<NULL>> => AbsNext
         /\ \A n \in Node : defect[i] = {} /\ Abs(i)' = <<n>> \o Abs(i) => AbsNext
         /\ \A n \in Node : defect[i] # {} /\ Abs(i)' = <<n>> => AbsNext
         /\ \A n \in Node, p \in 1..Len(Abs(i)) :
              defect[i] = {} /\ Abs(i)' \in {InsertAt(Abs(i), p, n), InsertAt(Abs(i), p + 1, n)} => AbsNext
         /\ \A p \in 1..(Len(Abs(i)) - 1) : defect[i] = {} /\ Abs(i)' = RemoveAt(Abs(i), p) => AbsNext
         /\ defect[i] = {} /\ Abs(i) # << >> /\ Abs(i)' = <<Last(Abs(i))>> \o Front(Abs(i)) => AbsNext
         /\ defect[i] = {} /\ Abs(i) # << >> /\ Abs(i)' = Tail(Abs(i)) \o <<Head(Abs(i))>> => AbsNext
<1>0. PICK q, r : q = Abs(i) /\ r = Abs(i)'
  OBVIOUS
<1> DEFINE qs == [j \in List |-> Abs(j)]
<1>1. qs[i] = q /\ qs' = [qs EXCEPT ![i] = r]
  BY <1>0
<1>2. Sequences_!Whole(i) <=> defect[i] = {}
  BY AbsWhole
<1>3. /\ Sequences_!Empty(i) \/ Sequences_!Break(i) => AbsNext
      /\ (\E n \in Node : Sequences_!PushHead(i, n) \/ Sequences_!Mend(i, n)) => AbsNext
      /\ (\E n \in Node, after \in BOOLEAN : Sequences_!Insert(i, n, after)) => AbsNext
      /\ Sequences_!Delete(i) \/ Sequences_!TailToHead(i) \/ Sequences_!HeadToTail(i) => AbsNext
  BY DEF AbsNext, Sequences_!Next
<1>5. ASSUME r = << >> PROVE AbsNext
  <2>1. qs' = [qs EXCEPT ![i] = << >>]
    BY <1>1, <1>5
  <2> QED
    BY <1>3, <2>1 DEF Sequences_!Empty, Sequences_!Becomes, Abs
<1>6. ASSUME r = <<NULL>> PROVE AbsNext
  <2>1. qs' = [qs EXCEPT ![i] = <<NULL>>]
    BY <1>1, <1>6
  <2> QED
    BY <1>3, <2>1 DEF Sequences_!Break, Sequences_!Becomes, Abs
<1>7. ASSUME NEW n \in Node, defect[i] = {}, r = <<n>> \o q PROVE AbsNext
  <2>1. qs' = [qs EXCEPT ![i] = <<n>> \o qs[i]]
    BY <1>1, <1>7
  <2>2. Sequences_!PushHead(i, n)
    BY <1>2, <1>7, <2>1 DEF Sequences_!PushHead, Sequences_!Becomes, Abs
  <2> QED
    BY <1>3, <2>2
<1>8. ASSUME NEW n \in Node, defect[i] # {}, r = <<n>> PROVE AbsNext
  <2>1. qs' = [qs EXCEPT ![i] = <<n>>]
    BY <1>1, <1>8
  <2>2. Sequences_!Mend(i, n)
    BY <1>2, <1>8, <2>1 DEF Sequences_!Mend, Sequences_!Becomes, Abs
  <2> QED
    BY <1>3, <2>2
<1>9. ASSUME NEW n \in Node, NEW p \in 1..Len(q), defect[i] = {},
             r \in {InsertAt(q, p, n), InsertAt(q, p + 1, n)}
      PROVE  AbsNext
  <2>0. p \in 1..Len(qs[i])
    BY <1>1
  <2>1. CASE r = InsertAt(q, p, n)
    <3>1. qs' = [qs EXCEPT ![i] = InsertAt(qs[i], p, n)]
      BY <1>1, <2>1
    <3>2. Sequences_!Insert(i, n, FALSE)
      BY <1>2, <1>9, <2>0, <3>1 DEF Sequences_!Insert, Sequences_!InsertAt, InsertAt, Sequences_!Becomes, Abs
    <3> QED
      BY <1>3, <3>2
  <2>2. CASE r = InsertAt(q, p + 1, n)
    <3>1. qs' = [qs EXCEPT ![i] = InsertAt(qs[i], p + 1, n)]
      BY <1>1, <2>2
    <3>2. Sequences_!Insert(i, n, TRUE)
      BY <1>2, <1>9, <2>0, <3>1 DEF Sequences_!Insert, Sequences_!InsertAt, InsertAt, Sequences_!Becomes, Abs
    <3> QED
      BY <1>3, <3>2
  <2> QED
    BY <1>9, <2>1, <2>2
<1>10. ASSUME NEW p \in 1..(Len(q) - 1), defect[i] = {}, r = RemoveAt(q, p) PROVE AbsNext
  <2>1. qs' = [qs EXCEPT ![i] = RemoveAt(qs[i], p)] /\ p \in 1..(Len(qs[i]) - 1)
    BY <1>1, <1>10
  <2>2. Sequences_!Delete(i)
    BY <1>2, <1>10, <2>1 DEF Sequences_!Delete, Sequences_!RemoveAt, RemoveAt, Sequences_!Becomes, Abs
  <2> QED
    BY <1>3, <2>2
<1>11. ASSUME defect[i] = {}, q # << >>, r = <<Last(q)>> \o Front(q) PROVE AbsNext
  <2>1. qs' = [qs EXCEPT ![i] = <<Last(qs[i])>> \o Front(qs[i])] /\ qs[i] # << >>
    BY <1>1, <1>11
  <2>2. Sequences_!TailToHead(i)
    BY <1>2, <1>11, <2>1 DEF Sequences_!TailToHead, Sequences_!Last, Sequences_!Front, Last, Front, Sequences_!Becomes, Abs
  <2> QED
    BY <1>3, <2>2
<1>12. ASSUME defect[i] = {}, q # << >>, r = Tail(q) \o <<Head(q)>> PROVE AbsNext
  <2>1. qs' = [qs EXCEPT ![i] = Tail(qs[i]) \o <<Head(qs[i])>>] /\ qs[i] # << >>
    BY <1>1, <1>12
  <2>2. Sequences_!HeadToTail(i)
    BY <1>2, <1>12, <2>1 DEF Sequences_!HeadToTail, Sequences_!Becomes, Abs
  <2> QED
    BY <1>3, <2>2
<1> QED
  BY <1>0, <1>5, <1>6, <1>7, <1>8, <1>9, <1>10, <1>11, <1>12

\* An Only step leaves one node in its list.
LEMMA OnlyRefines ==
  ASSUME IInv, up, NEW i \in List, NEW n \in Node, NEW len \in 0..LenMax, Only(i, n, len), Fresh(n),
         NEW d \in SUBSET {"short"}, defect' = [defect EXCEPT ![i] = d], d = {} => len = 1, UNCHANGED up
  PROVE  AbsNext
<1>1. /\ TypeOK /\ defect' \in [List -> SUBSET {"short", "torn"}]
      /\ defect'[i] = d /\ \A j \in List : j # i => defect'[j] = defect[j]
  BY DEF IInv, TypeOK
<1>2. Others(i) /\ ListInv(i)'
  BY <1>1, OnlyDoes
<1>3. \A j \in List : j # i => Abs(j)' = Abs(j)
  BY <1>2, AbsStays DEF Others
<1>4. CASE d # {}
  <2>1. Abs(i)' = <<NULL>>
    BY <1>1, <1>4, AbsOfChain
  <2> QED
    BY <1>3, <2>1, OneBecomes
<1>5. CASE d = {}
  <2>0. PICK m \in 0..Cardinality(Node) : \E s \in Chains(m) : ChainOf(i, m, s)'
    BY <1>1, <1>2, <1>5 DEF ListInv
  <2>1. PICK s : m \in Nat /\ ChainOf(i, m, s)'
    BY <2>0, Lengths
  <2>2. \A k \in 1..m : s[k] = n
    BY <2>1, ListAssumption DEF ChainOf, Strung, NodesOf, Only, Fresh
  <2>3. m = 1
    <3>1. n \in NodesOf(i)'
      BY DEF Only, NodesOf
    <3>2. \E k \in 1..m : s[k] = n
      BY <2>1, <3>1 DEF ChainOf, Strung
    <3>3. \A j, k \in 1..m : j = k
      BY <2>1, <2>2 DEF ChainOf, Strung
    <3>4. 1 \in 1..m /\ m \in 1..m
      BY <2>1, <3>2
    <3> QED
      BY <3>3, <3>4
  <2>4. Abs(i)' = <<n>>
    <3>1. Abs(i)' = First(m, s)
      BY <1>1, <1>5, <2>1, AbsOfChain
    <3>2. s[1] = n
      BY <2>2, <2>3
    <3> QED
      BY <2>3, <3>1, <3>2, FirstOne
  <2>5. CASE defect[i] = {}
    <3>1. PICK p, t : ChainOf(i, p, t)
      BY <2>5 DEF IInv, ListInv
    <3>2. p = 0
      BY <2>5, <3>1 DEF ChainOf, Only
    <3>3. Abs(i) = << >>
      <4>1. Abs(i) = First(0, t)
        BY <2>5, <3>1, <3>2, AbsOfChain
      <4> QED
        BY <4>1 DEF First
    <3>4. Abs(i)' = <<n>> \o Abs(i)
      BY <2>4, <3>3
    <3> QED
      BY <1>3, <2>5, <3>4, OneBecomes
  <2>6. CASE defect[i] # {}
    BY <1>3, <2>4, <2>6, OneBecomes
  <2> QED
    BY <2>5, <2>6
<1> QED
  BY <1>4, <1>5

\* A node put into a chain is a node inserted, or pushed in front of nothing.
LEMMA PutInRefines ==
  ASSUME IInv, up, UNCHANGED up, NEW i \in List, NEW n \in Node, PutIn(i, n)
  PROVE  AbsNext
<1>1. \A j \in List : j # i => Abs(j)' = Abs(j)
  BY AbsStays DEF PutIn, Others
<1>2. CASE defect'[i] # {}
  <2>1. Abs(i)' = <<NULL>>
    BY <1>2, AbsOfChain
  <2> QED
    BY <1>1, <2>1, OneBecomes
<1>3. CASE defect'[i] = {}
  <2>1. defect[i] = {}
    BY <1>3 DEF PutIn
  <2>2. PICK m, s : ChainOf(i, m, s)
    BY <2>1 DEF IInv, ListInv
  <2>3. PICK p : Inserts(i, m, s, p, n)
    BY <2>2 DEF PutIn
  <2>4. ChainOf(i, m + 1, Inserted(m, s, p, n))'
    BY <2>2, <2>3, ChainInserted DEF PutIn
  <2>5. m \in Nat /\ p \in 1..(m + 1)
    BY <2>2, <2>3, ChainNodes DEF Inserts
  <2> DEFINE u == Inserted(m, s, p, n)
  <2>6. \A k \in 1..(m + 1) : u[k] = IF k < p THEN s[k] ELSE IF k = p THEN n ELSE s[k - 1]
    BY <2>5 DEF Inserted
  <2>7. Abs(i) = First(m, s) /\ Abs(i)' = First(m + 1, u)
    BY <1>3, <2>1, <2>2, <2>4, AbsOfChain
  <2> HIDE DEF u
  <2>8. Abs(i)' = InsertAt(Abs(i), p, n)
    BY <2>5, <2>6, <2>7, InsertIntoFirst
  <2>9. Len(Abs(i)) = m
    BY <2>5, <2>7, FirstIsSeq
  <2>10. CASE p \in 1..m
    BY <1>1, <2>1, <2>8, <2>9, <2>10, OneBecomes
  <2>11. CASE p = m + 1 /\ m > 0
    <3>1. m \in 1..m
      BY <2>5, <2>11
    <3> QED
      BY <1>1, <2>1, <2>8, <2>9, <2>11, <3>1, OneBecomes
  <2>12. CASE p = 1 /\ m = 0
    <3>1. Abs(i) = << >>
      BY <2>7, <2>12 DEF First
    <3>2. Abs(i)' = <<n>>
      BY <2>6, <2>7, <2>12, FirstOne
    <3>3. Abs(i)' = <<n>> \o Abs(i)
      BY <3>1, <3>2
    <3> QED
      BY <1>1, <2>1, <3>3, OneBecomes
  <2> QED
    BY <2>5, <2>10, <2>11, <2>12
<1> QED
  BY <1>2, <1>3

\* A node taken out of a chain is an element deleted that is not the last.
LEMMA TakenOutRefines ==
  ASSUME IInv, up, UNCHANGED up, NEW i \in List, NEW n, TakenOut(i, n)
  PROVE  AbsNext
<1>1. \A j \in List : j # i => Abs(j)' = Abs(j)
  BY AbsStays DEF TakenOut, Others
<1>2. CASE defect[i] # {}
  <2>1. Abs(i)' = <<NULL>>
    BY <1>2, AbsOfChain DEF TakenOut
  <2> QED
    BY <1>1, <2>1, OneBecomes
<1>3. CASE defect[i] = {}
  <2>1. PICK m, s : ChainOf(i, m, s)
    BY <1>3 DEF IInv, ListInv
  <2>2. PICK p : Removes(i, m, s, p)
    BY <2>1 DEF TakenOut
  <2>3. ChainOf(i, m - 1, Removed(m, s, p))'
    BY <2>1, <2>2, ChainRemoved
  <2>4. m \in Nat /\ p \in 1..(m - 1) /\ p \in 1..m
    BY <2>1, <2>2, ChainNodes DEF Removes
  <2> DEFINE u == Removed(m, s, p)
  <2>5. \A k \in 1..(m - 1) : u[k] = IF k < p THEN s[k] ELSE s[k + 1]
    BY <2>4 DEF Removed
  <2>6. Abs(i) = First(m, s) /\ Abs(i)' = First(m - 1, u)
    BY <1>3, <2>1, <2>3, AbsOfChain DEF TakenOut
  <2> HIDE DEF u
  <2>7. Abs(i)' = RemoveAt(Abs(i), p)
    BY <2>4, <2>5, <2>6, RemoveFromFirst
  <2>8. Len(Abs(i)) = m
    BY <2>4, <2>6, FirstIsSeq
  <2> QED
    BY <1>1, <1>3, <2>4, <2>7, <2>8, OneBecomes
<1> QED
  BY <1>2, <1>3

\* Breaking a list, or emptying it.
LEMMA BreakRefines ==
  ASSUME IInv, up, UNCHANGED up, NEW i \in List, Others(i),
         defect'[i] # {} \/ (defect'[i] = {} /\ \E s : ChainOf(i, 0, s)')
  PROVE  AbsNext
<1>1. \A j \in List : j # i => Abs(j)' = Abs(j)
  BY AbsStays DEF Others
<1>2. CASE defect'[i] # {}
  <2>1. Abs(i)' = <<NULL>>
    BY <1>2, AbsOfChain
  <2> QED
    BY <1>1, <2>1, OneBecomes
<1>3. CASE defect'[i] = {} /\ \E s : ChainOf(i, 0, s)'
  <2>1. PICK s : Abs(i)' = First(0, s)
    BY <1>3, AbsOfChain
  <2>2. Abs(i)' = << >>
    BY <2>1 DEF First
  <2> QED
    BY <1>1, <2>2, OneBecomes
<1> QED
  BY <1>2, <1>3

\* A chain that is turned is a sequence that is rotated.
LEMMA TurnedRefines ==
  ASSUME IInv, up, NEW i \in List, Turned(i)
  PROVE  AbsNext
<1>1. \A j \in List : j # i => Abs(j)' = Abs(j)
  BY AbsStays DEF Turned, Others
<1>2. CASE defect[i] # {}
  <2>1. Abs(i)' = <<NULL>>
    BY <1>2, AbsOfChain DEF Turned
  <2> QED
    BY <1>1, <2>1, OneBecomes DEF Turned
<1>3. CASE defect[i] = {}
  <2>1. PICK m, s : ChainOf(i, m, s)
    BY <1>3 DEF IInv, ListInv
  <2>2. m \in Nat /\ Abs(i) = First(m, s) /\ defect'[i] = {} /\ UNCHANGED up
    BY <1>3, <2>1, AbsOfChain, ChainNodes DEF Turned
  <2>3. CASE TailGoesFirst(i, m, s)
    <3> DEFINE u == TailFirst(m, s)
    <3>1. Abs(i)' = First(m, u)
      BY <2>1, <2>2, <2>3, ChainTailFirst, AbsOfChain
    <3>2. m > 1
      BY <2>3 DEF TailGoesFirst
    <3>3. u[1] = s[m] /\ \A k \in 2..m : u[k] = s[k - 1]
      BY <2>2, <3>2 DEF TailFirst
    <3> HIDE DEF u
    <3>4. Abs(i)' = <<Last(Abs(i))>> \o Front(Abs(i))
      BY <2>2, <3>1, <3>2, <3>3, LastBeforeFirst
    <3>5. Abs(i) # << >>
      <4>1. Len(Abs(i)) = m
        BY <2>2, FirstIsSeq
      <4> QED
        BY <3>2, <4>1
    <3> QED
      BY <1>1, <1>3, <2>2, <3>4, <3>5, OneBecomes
  <2>4. CASE HeadGoesLast(i, m, s)
    <3> DEFINE u == HeadLast(m, s)
    <3>1. Abs(i)' = First(m, u)
      BY <2>1, <2>2, <2>4, ChainHeadLast, AbsOfChain
    <3>2. m > 1
      BY <2>4 DEF HeadGoesLast
    <3>3. u[m] = s[1] /\ \A k \in 1..(m - 1) : u[k] = s[k + 1]
      BY <2>2, <3>2 DEF HeadLast
    <3> HIDE DEF u
    <3>4. Abs(i)' = Tail(Abs(i)) \o <<Head(Abs(i))>>
      BY <2>2, <3>1, <3>2, <3>3, FirstAfterRest
    <3>5. Abs(i) # << >>
      <4>1. Len(Abs(i)) = m
        BY <2>2, FirstIsSeq
      <4> QED
        BY <3>2, <4>1
    <3> QED
      BY <1>1, <1>3, <2>2, <3>4, <3>5, OneBecomes
  <2> QED
    BY <2>1, <2>3, <2>4 DEF Turned
<1> QED
  BY <1>2, <1>3

\* Two chains joined are two sequences joined, or a broken one.
LEMMA JoinedRefines ==
  ASSUME IInv, up, NEW l \in List, NEW o \in List, JoinedTo(l, o)
  PROVE  AbsNext
<1> DEFINE qs == [j \in List |-> Abs(j)]
<1>1. \A j \in List : j \notin {l, o} => Abs(j)' = Abs(j)
  BY AbsStays DEF JoinedTo
<1>2. Abs(o)' = << >> /\ l # o /\ UNCHANGED up
  <2>1. PICK s : ChainOf(o, 0, s)' /\ defect'[o] = {}
    BY DEF JoinedTo
  <2>2. Abs(o)' = First(0, s)
    BY <2>1, AbsOfChain
  <2> QED
    BY <2>2 DEF First, JoinedTo
<1>3. /\ Sequences_!Whole(l) <=> defect[l] = {}
      /\ Sequences_!Whole(o) <=> defect[o] = {}
  BY AbsWhole
<1>4. Sequences_!Join(l, o) \/ Sequences_!JoinBroken(l, o) => AbsNext
  BY <1>2 DEF AbsNext, Sequences_!Next
<1>5. CASE defect'[l] # {}
  <2>1. Abs(l)' = <<NULL>> /\ ~(defect[l] = {} /\ defect[o] = {})
    BY <1>5, AbsOfChain DEF JoinedTo
  <2>2. qs' = [qs EXCEPT ![l] = <<NULL>>, ![o] = << >>]
    BY <1>1, <1>2, <2>1
  <2>3. Sequences_!JoinBroken(l, o)
    BY <1>3, <2>1, <2>2 DEF Sequences_!JoinBroken, Abs
  <2> QED
    BY <1>4, <2>3
<1>6. CASE defect'[l] = {}
  <2>1. defect[l] = {} /\ defect[o] = {}
    BY <1>6 DEF JoinedTo
  <2>2. PICK m, s : ChainOf(l, m, s)
    BY <2>1 DEF IInv, ListInv
  <2>3. PICK p, t : ChainOf(o, p, t)
    BY <2>1 DEF IInv, ListInv
  <2>4. ChainOf(l, m + p, Joined(m, s, p, t))'
    BY <1>2, <2>2, <2>3, ChainJoined DEF JoinedTo
  <2>5. m \in Nat /\ p \in Nat /\ m + p \in Nat
    BY <2>2, <2>3, ChainNodes
  <2> DEFINE u == Joined(m, s, p, t)
  <2>6. (\A k \in 1..m : u[k] = s[k]) /\ \A k \in 1..p : u[m + k] = t[k]
    BY <2>5 DEF Joined
  <2>7. Abs(l) = First(m, s) /\ Abs(o) = First(p, t) /\ Abs(l)' = First(m + p, u)
    BY <1>6, <2>1, <2>2, <2>3, <2>4, AbsOfChain
  <2> HIDE DEF u
  <2>8. First(m, s) \o First(p, t) = First(m + p, u)
    <3>1. PICK len \in Nat : len = m + p
      BY <2>5
    <3>2. m \in Nat /\ p \in Nat
      BY <2>5
    <3>3. \A k \in 1..m : u[k] = s[k]
      BY <2>6
    <3>4. \A k \in 1..p : u[m + k] = t[k]
      BY <2>6
    <3>5. First(m, s) \o First(p, t) = First(len, u)
      BY <3>1, <3>2, <3>3, <3>4, FirstThenFirst, SMTT(60)
    <3> QED
      BY <3>1, <3>5
  <2>9. qs' = [qs EXCEPT ![l] = qs[l] \o qs[o], ![o] = << >>]
    BY <1>1, <1>2, <2>7, <2>8
  <2>10. Sequences_!Join(l, o)
    BY <1>3, <2>1, <2>9 DEF Sequences_!Join, Abs
  <2> QED
    BY <1>4, <2>10
<1> QED
  BY <1>5, <1>6

\* The process strays only while some list has a defect.
LEMMA StrayRefines ==
  ASSUME IInv, up, Stray, SomeDefect
  PROVE  AbsNext
<1>1. PICK i \in List : defect[i] # {}
  BY DEF SomeDefect
<1>2. ~Sequences_!Whole(i)
  BY <1>1, AbsWhole
<1>3. \A j \in List : Abs(j)' = Abs(j)
  BY AbsStays DEF Stray, Untouched, NodesOf
<1>4. Sequences_!Stop
  BY <1>2, <1>3 DEF Sequences_!Stop, Stray, Abs
<1> QED
  BY <1>4 DEF AbsNext, Sequences_!Next

\* A step that touches no list is a stutter.
LEMMA ReadsRefines ==
  ASSUME IInv, \A i \in List : Untouched(i), UNCHANGED up
  PROVE  AbsNext
<1>1. \A i \in List : Abs(i)' = Abs(i)
  BY AbsStays
<1> QED
  BY <1>1, NothingBecomes

\* Every operation on a list is a step of ListSeq, or a stutter.
LEMMA ListStepRefines ==
  ASSUME IInv, NEW i \in List, ListStep(i)
  PROVE  AbsNext
<1>0. up
  BY ZenonT(60) DEF ListStep, listLinkNodeHead, listLinkNodeTail, listUnlinkNode, listDelNode, Unlink,
         listInsertNode, InsertBetween, listEmpty, listRotateTailToHead, listRotateHeadToTail,
         listJoin, listDup, listGetIterator, StartAt
<1>1. ASSUME NEW n \in Node, listLinkNodeHead(i, n) PROVE AbsNext
  <2>1. CASE Only(i, n, 1) /\ defect' = [defect EXCEPT ![i] = {}] /\ UNCHANGED up
    <3>1. Fresh(n) /\ 1 \in 0..LenMax /\ {} \in SUBSET {"short"}
      BY <1>1, OneIsALength DEF listLinkNodeHead
    <3> QED
      BY <1>0, <2>1, <3>1, OnlyRefines
  <2> QED
    BY <1>0, <1>1, <2>1, LinkHeadDoes, PutInRefines, StrayRefines
<1>2. ASSUME NEW n \in Node, listLinkNodeTail(i, n) PROVE AbsNext
  <2>1. CASE Only(i, n, 0) /\ defect' = [defect EXCEPT ![i] = {"short"}] /\ UNCHANGED up
    <3>1. Fresh(n) /\ 0 \in 0..LenMax /\ {"short"} \in SUBSET {"short"} /\ {"short"} # {}
      BY <1>2, Lengths DEF listLinkNodeTail
    <3> QED
      BY <1>0, <2>1, <3>1, OnlyRefines
  <2> QED
    BY <1>0, <1>2, <2>1, LinkTailDoes, PutInRefines, StrayRefines
<1>3. ASSUME NEW n \in Node, NEW to \in {"client", "free"}, Unlink(i, n, to) PROVE AbsNext
  <2>1. CASE TornOff(i)
    <3>1. defect'[i] # {} /\ Others(i) /\ UNCHANGED up
      BY <2>1 DEF TornOff, IInv, TypeOK
    <3> QED
      BY <1>0, <3>1, BreakRefines
  <2> QED
    BY <1>0, <1>3, <2>1, UnlinkDoes, TakenOutRefines, StrayRefines
<1>4. ASSUME NEW old \in Node, NEW n \in Node, NEW after \in BOOLEAN, listInsertNode(i, old, n, after)
      PROVE  AbsNext
  BY <1>0, <1>4, InsertDoes, PutInRefines, StrayRefines
<1>5. ASSUME listEmpty(i) PROVE AbsNext
  <2>1. CASE Cleared(i)
    <3>1. Others(i) /\ UNCHANGED up /\ defect'[i] = {} /\ \E s : ChainOf(i, 0, s)'
      BY <2>1 DEF Cleared
    <3> QED
      BY <1>0, <3>1, BreakRefines
  <2> QED
    BY <1>0, <1>5, <2>1, EmptyDoes, StrayRefines
<1>6. ASSUME listRotateTailToHead(i) PROVE AbsNext
  BY <1>0, <1>6, TailToHeadDoes, TurnedRefines, StrayRefines
<1>7. ASSUME listRotateHeadToTail(i) PROVE AbsNext
  BY <1>0, <1>7, HeadToTailDoes, TurnedRefines, StrayRefines
<1>8. ASSUME NEW j \in List, listJoin(i, j) PROVE AbsNext
  BY <1>0, <1>8, JoinDoes, JoinedRefines, StrayRefines
<1>9. ASSUME NEW j \in List, listDup(i, j) PROVE AbsNext
  <2>1. Copied(j)
    BY <1>9, DupDoes
  <2>2. CASE Untouched(j)
    <3>1. (\A k \in List : Untouched(k)) /\ UNCHANGED up
      BY <2>1, <2>2 DEF Copied, Others
    <3> QED
      BY <3>1, ReadsRefines
  <2>3. CASE defect'[j] = {"short"}
    <3>1. Others(j) /\ UNCHANGED up /\ defect'[j] # {}
      BY <2>1, <2>3 DEF Copied
    <3> QED
      BY <1>0, <3>1, BreakRefines
  <2> QED
    BY <2>1, <2>2, <2>3 DEF Copied
<1>10. ASSUME NEW forward \in BOOLEAN, listGetIterator(i, forward) PROVE AbsNext
  <2>1. (\A k \in List : Untouched(k)) /\ UNCHANGED up
    BY <1>10 DEF listGetIterator, StartAt, Untouched, NodesOf
  <2> QED
    BY <2>1, ReadsRefines
<1> QED
  BY <1>1, <1>2, <1>3, <1>4, <1>5, <1>6, <1>7, <1>8, <1>9, <1>10
  DEF ListStep, listUnlinkNode, listDelNode

\* Every other step is a stutter.
LEMMA OtherStepsRefine ==
  ASSUME IInv, \/ \E n \in Node : listInitNode(n) \/ FreeNode(n)
               \/ listNext \/ UNCHANGED vars
  PROVE  AbsNext
<1>1. ASSUME NEW n \in Node, listInitNode(n) PROVE AbsNext
  <2>1. \A i \in List : n \notin NodesOf(i)
    BY <1>1, NotInList DEF listInitNode
  <2>2. owner' = [owner EXCEPT ![n] = "client"] /\ "client" \notin List
    BY <1>1, ListAssumption DEF listInitNode
  <2>3. \A i \in List : NodesOf(i)' = NodesOf(i) \ {n}
    <3>1. TypeOK /\ "client" \in List \union {"client", "free", "lost"}
      BY DEF IInv
    <3>2. \A i \in List : NodesOf(i)' = IF i = "client" THEN NodesOf(i) \union {n} ELSE NodesOf(i) \ {n}
      BY <2>2, <3>1, NodeMoved, ZenonT(60)
    <3> QED
      BY <2>2, <3>2
  <2>4. \A m \in Node : m # n => link'[m] = link[m]
    BY <1>1 DEF listInitNode, IInv, TypeOK
  <2>5. \A i \in List : Untouched(i)
    BY <1>1, <2>1, <2>3, <2>4 DEF listInitNode, Untouched, NodesOf
  <2> QED
    BY <1>1, <2>5, ReadsRefines DEF listInitNode
<1>2. ASSUME NEW n \in Node, FreeNode(n) PROVE AbsNext
  <2>1. \A i \in List : n \notin NodesOf(i)
    BY <1>2, NotInList DEF FreeNode
  <2>2. owner' = [owner EXCEPT ![n] = "free"] /\ "free" \notin List
    BY <1>2, ListAssumption DEF FreeNode
  <2>3. \A i \in List : NodesOf(i)' = NodesOf(i) \ {n}
    <3>1. TypeOK /\ "free" \in List \union {"client", "free", "lost"}
      BY DEF IInv
    <3>2. \A i \in List : NodesOf(i)' = IF i = "free" THEN NodesOf(i) \union {n} ELSE NodesOf(i) \ {n}
      BY <2>2, <3>1, NodeMoved, ZenonT(60)
    <3> QED
      BY <2>2, <3>2
  <2>4. \A i \in List : Untouched(i)
    BY <1>2, <2>1, <2>3 DEF FreeNode, Untouched
  <2> QED
    BY <1>2, <2>4, ReadsRefines DEF FreeNode
<1>3. ASSUME listNext PROVE AbsNext
  <2>1. \A i \in List : Untouched(i)
    BY <1>3 DEF listNext, Untouched, NodesOf
  <2> QED
    BY <1>3, <2>1, ReadsRefines DEF listNext
<1>4. ASSUME UNCHANGED vars PROVE AbsNext
  <2>1. \A i \in List : Untouched(i)
    BY <1>4 DEF vars, Untouched, NodesOf
  <2> QED
    BY <1>4, <2>1, ReadsRefines DEF vars
<1> QED
  BY <1>1, <1>2, <1>3, <1>4

\* The lists that no defect has reached are sequences: each handler does to its
\* list what some step of ListSeq does to a sequence, and the process strays from
\* its lists only when one of them has a defect.
THEOREM ListsAreSequences == Spec => ImplementsSequences
<1>1. Init => Sequences_!Init
  <2> SUFFICES ASSUME Init PROVE Sequences_!Init
    OBVIOUS
  <2>1. IInv
    BY InitIInv
  <2>2. ASSUME NEW i \in List PROVE Abs(i) = << >>
    <3>1. defect[i] = {} /\ list[i].len = 0
      BY DEF Init, EmptyList
    <3>2. PICK m, s : ChainOf(i, m, s)
      BY <2>1, <3>1 DEF IInv, ListInv
    <3>3. Abs(i) = First(0, s)
      BY <3>1, <3>2, AbsOfChain DEF ChainOf
    <3> QED
      BY <3>3 DEF First
  <2>3. [i \in List |-> Abs(i)] = [i \in List |-> << >>]
    BY <2>2
  <2> QED
    BY <2>3 DEF Init, Sequences_!Init, Abs
<1>2. IInv /\ [Next]_vars => [Sequences_!Next]_<<[i \in List |-> IF defect[i] = {} THEN Chain(i) ELSE <<NULL>>], up>>
  <2> SUFFICES ASSUME IInv, [Next]_vars PROVE AbsNext
    BY DEF AbsNext, Abs
  <2> QED
    BY ListStepRefines, OtherStepsRefine DEF Next
<1> QED
  BY <1>1, <1>2, Invariant, PTL DEF Spec, ImplementsSequences, Sequences_!Spec
=============================================================================
