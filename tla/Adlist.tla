------------------------------- MODULE Adlist -------------------------------
(***************************************************************************)
(* The doubly linked lists of adlist.c, on a heap of nodes.                *)
(*                                                                         *)
(* A node is the nodes before and after it, a list its head, tail and len. *)
(* The client holds nodes by address, allocates and frees them, and goes   *)
(* through a list with one iterator, with the discipline the code leaves   *)
(* to it: it neither takes away the node the iterator is to return next    *)
(* nor empties a list it is iterating.                                     *)
(*                                                                         *)
(* up becomes FALSE when the code reads or writes through NULL or through  *)
(* a node that is not in the list it works on (freed, or taken away): what *)
(* happens next is undefined, and not followed.                            *)
(*                                                                         *)
(* Two operations leave a list that is not what they were asked for, and   *)
(* the history variable defect says which lists: "short" after a node was  *)
(* appended at the tail, which does not count it; "torn" after the last    *)
(* node was unlinked, which leaves tail pointing to it.                    *)
(***************************************************************************)
EXTENDS Integers, FiniteSets, SequencesExt

CONSTANTS
  List,    \* the lists of the program
  Node,    \* the addresses of nodes
  NULL,    \* the pointer to nothing
  LenMax   \* the largest unsigned long

ASSUME NullAssumption == NULL \notin Node
ASSUME ListAssumption == List \intersect {"client", "free", "lost"} = {}

\* A node takes more than a byte of the memory that an unsigned long addresses.
ASSUME LenAssumption == IsFiniteSet(Node) /\ LenMax \in Nat /\ Cardinality(Node) <= LenMax

VARIABLES
  link,    \* the nodes: what is before and after each
  list,    \* the lists: head, tail, len and whether they have a free callback
  owner,   \* where a node is: in a list, in the client's hands ("client"),
           \* not allocated ("free"), allocated but out of reach ("lost")
  iter,    \* the iterator: the node it returns next, and its direction
  defect,  \* history: the defects of each list
  owed,    \* history: the nodes the iterator has still to return
  given,   \* history: the nodes the iterator has returned
  up       \* FALSE once the process has strayed from its lists

vars == <<link, list, owner, iter, defect, owed, given, up>>

Alone == [prev |-> NULL, next |-> NULL]

EmptyList(free) == [head |-> NULL, tail |-> NULL, len |-> 0, free |-> free]

NoIterator == [next |-> NULL, forward |-> TRUE]

NodesOf(i) == {n \in Node : owner[n] = i}

MayBeNull(i, n) == n = NULL \/ n \in NodesOf(i)

\* len + k and len - 1 of an unsigned long.
Plus(len, k) == (len + k) % (LenMax + 1)

Less(len) == Plus(len, LenMax)

\* Writing a field of a node, if there is one.
Put(nodes, n, field, value) ==
  IF n = NULL THEN nodes ELSE [nodes EXCEPT ![n][field] = value]

\* The nodes from n on, following a field up to NULL: none if it never gets there.
Walk(n, field) ==
  LET at[k \in 0..Cardinality(Node)] ==
        IF k = 0 THEN n ELSE IF at[k - 1] = NULL THEN NULL ELSE link[at[k - 1]][field]
      ends == {k \in DOMAIN at : at[k] = NULL}
  IN  IF ends = {} THEN << >> ELSE [k \in 1..Min(ends) |-> at[k - 1]]

Chain(i) == Walk(list[i].head, "next")

Init ==
  /\ link = [n \in Node |-> Alone]
  /\ list \in [List -> {EmptyList(free) : free \in BOOLEAN}]
  /\ owner = [n \in Node |-> "free"]
  /\ iter = NoIterator
  /\ defect = [i \in List |-> {}]
  /\ owed = {} /\ given = {}
  /\ up = TRUE

Stray ==
  /\ up' = FALSE
  /\ UNCHANGED <<link, list, owner, iter, defect, owed, given>>

Iterating(i) == iter.next \in NodesOf(i)

\* An iteration is followed until its list gets a node at the tail, loses its
\* last one, counts none while it has some and gets one, is rotated, or is joined
\* to a list when either has a defect.
ForgetIteration(i) ==
  IF Iterating(i) THEN iter' = NoIterator /\ owed' = {} /\ given' = {}
                  ELSE UNCHANGED <<iter, owed, given>>

-----------------------------------------------------------------------------
(* Adding nodes: listAddNodeHead, listAddNodeTail and listInsertNode take  *)
(* a node from the allocator, the first two also link one the client has   *)
(* (listLinkNodeHead, listLinkNodeTail).                                   *)

Fresh(n) == owner[n] \in {"free", "client"}

\* A list that counts no nodes becomes the list of the new one; nodes it had
\* all the same, uncounted, are lost.
Only(i, n, len) ==
  /\ list[i].len = 0
  /\ link' = [m \in Node |-> IF m = n \/ owner[m] = i THEN Alone ELSE link[m]]
  /\ list' = [list EXCEPT ![i].head = n, ![i].tail = n, ![i].len = len]
  /\ owner' = [m \in Node |-> IF m = n THEN i ELSE IF owner[m] = i THEN "lost" ELSE owner[m]]
  /\ ForgetIteration(i)

listLinkNodeHead(i, n) ==
  /\ up /\ Fresh(n)
  /\ LET h == list[i].head
     IN  \/ Only(i, n, 1) /\ defect' = [defect EXCEPT ![i] = {}] /\ UNCHANGED up
         \/ /\ list[i].len # 0 /\ h \in NodesOf(i)
            /\ link' = [link EXCEPT ![n] = [prev |-> NULL, next |-> h], ![h].prev = n]
            /\ list' = [list EXCEPT ![i].head = n, ![i].len = Plus(@, 1)]
            /\ owner' = [owner EXCEPT ![n] = i]
            /\ UNCHANGED <<iter, defect, owed, given, up>>
         \/ list[i].len # 0 /\ h \notin NodesOf(i) /\ Stray

\* The code never counts a node appended here.
listLinkNodeTail(i, n) ==
  /\ up /\ Fresh(n)
  /\ LET t == list[i].tail
     IN  \/ Only(i, n, 0) /\ defect' = [defect EXCEPT ![i] = {"short"}] /\ UNCHANGED up
         \/ /\ list[i].len # 0 /\ t \in NodesOf(i)
            /\ link' = [link EXCEPT ![n] = [prev |-> t, next |-> NULL], ![t].next = n]
            /\ list' = [list EXCEPT ![i].tail = n]
            /\ owner' = [owner EXCEPT ![n] = i]
            /\ defect' = [defect EXCEPT ![i] = @ \union {"short"}]
            /\ ForgetIteration(i)
            /\ UNCHANGED up
         \/ list[i].len # 0 /\ t \notin NodesOf(i) /\ Stray

\* A new node n between old and the node after or before it.  back and counts are
\* TRUE in the code: the node after n is linked back to it, and n is counted.
InsertBetween(i, old, n, after, back, counts) ==
  LET p == IF after THEN old ELSE link[old].prev
      q == IF after THEN link[old].next ELSE old
  IN  /\ up /\ owner[n] = "free" /\ old \in NodesOf(i)
      /\ \/ /\ MayBeNull(i, p) /\ MayBeNull(i, q)
            /\ LET linked == Put([link EXCEPT ![n] = [prev |-> p, next |-> q]], p, "next", n)
               IN  link' = IF back THEN Put(linked, q, "prev", n) ELSE linked
            /\ list' = [list EXCEPT
                 ![i].head = IF ~after /\ @ = old THEN n ELSE @,
                 ![i].tail = IF after /\ @ = old THEN n ELSE @,
                 ![i].len = IF counts THEN Plus(@, 1) ELSE @]
            /\ owner' = [owner EXCEPT ![n] = i]
            /\ UNCHANGED <<iter, defect, owed, given, up>>
         \/ ~(MayBeNull(i, p) /\ MayBeNull(i, q)) /\ Stray

\* Mutants: the node after the new one keeps its prev; the node is not counted.
listInsertNode_NoBack(i, old, n, after) == InsertBetween(i, old, n, after, FALSE, TRUE)
listInsertNode_NoCount(i, old, n, after) == InsertBetween(i, old, n, after, TRUE, FALSE)

listInsertNode(i, old, n, after) == InsertBetween(i, old, n, after, TRUE, TRUE)

\* A node of the client's own.
listInitNode(n) ==
  /\ up /\ owner[n] = "free"
  /\ link' = [link EXCEPT ![n] = Alone]
  /\ owner' = [owner EXCEPT ![n] = "client"]
  /\ UNCHANGED <<list, iter, defect, owed, given, up>>

-----------------------------------------------------------------------------
(* Taking nodes away.                                                      *)

\* Unlinking n, which goes to the client or back to the allocator.  A node
\* without a next one moves head, not tail, to the one before it.
Unlink(i, n, to) ==
  LET p == link[n].prev
      q == link[n].next
      head == IF q = NULL THEN p ELSE IF p = NULL THEN q ELSE list[i].head
  IN  /\ up /\ n \in NodesOf(i) /\ n # iter.next
      /\ \/ /\ MayBeNull(i, p) /\ MayBeNull(i, q)
            /\ link' = [Put(Put(link, p, "next", q), q, "prev", p) EXCEPT ![n] = Alone]
            /\ list' = [list EXCEPT ![i].head = head, ![i].len = Less(@)]
            /\ owner' = [owner EXCEPT ![n] = to]
            /\ IF q = NULL
               THEN defect' = [defect EXCEPT ![i] = @ \union {"torn"}] /\ ForgetIteration(i)
               ELSE UNCHANGED <<defect, iter>> /\ owed' = owed \ {n} /\ given' = given \ {n}
            /\ UNCHANGED up
         \/ ~(MayBeNull(i, p) /\ MayBeNull(i, q)) /\ Stray

listUnlinkNode(i, n) == Unlink(i, n, "client")

listDelNode(i, n) == Unlink(i, n, "free")

\* The client frees a node it has.
FreeNode(n) ==
  /\ up /\ owner[n] = "client"
  /\ owner' = [owner EXCEPT ![n] = "free"]
  /\ UNCHANGED <<link, list, iter, defect, owed, given, up>>

\* Walks len nodes, and frees them only when there is a free callback; without
\* one it reads the head alone, and a compiler may leave that read out.
Emptied(i, freed) ==
  /\ list' = [list EXCEPT ![i] = EmptyList(@.free)]
  /\ owner' = [n \in Node |-> IF n \in freed THEN "free"
                              ELSE IF owner[n] = i THEN "lost" ELSE owner[n]]
  /\ link' = [n \in Node |-> IF n \in freed \/ owner[n] = i THEN Alone ELSE link[n]]
  /\ defect' = [defect EXCEPT ![i] = {}]
  /\ UNCHANGED <<iter, owed, given, up>>

listEmpty(i) ==
  LET counted == {k \in DOMAIN Chain(i) : k <= list[i].len}
      freed == {Chain(i)[k] : k \in counted}
      sound == Cardinality(freed) = list[i].len /\ freed \subseteq NodesOf(i)
  IN  /\ up /\ ~Iterating(i)
      /\ \/ list[i].free /\ sound /\ Emptied(i, freed)
         \/ list[i].free /\ ~sound /\ Stray
         \/ ~list[i].free /\ Emptied(i, {})
         \/ ~list[i].free /\ list[i].len # 0 /\ list[i].head \notin NodesOf(i) /\ Stray

-----------------------------------------------------------------------------
(* Moving nodes.                                                           *)

listRotateTailToHead(i) ==
  LET h == list[i].head
      t == list[i].tail
      p == IF t \in NodesOf(i) THEN link[t].prev ELSE NULL
  IN  /\ up /\ list[i].len > 1
      /\ \/ /\ {h, t, p} \subseteq NodesOf(i)
            /\ link' = [link EXCEPT ![p].next = NULL, ![h].prev = t,
                                    ![t] = [prev |-> NULL, next |-> h]]
            /\ list' = [list EXCEPT ![i].head = t, ![i].tail = p]
            /\ ForgetIteration(i)
            /\ UNCHANGED <<owner, defect, up>>
         \/ ~({h, t, p} \subseteq NodesOf(i)) /\ Stray

listRotateHeadToTail(i) ==
  LET h == list[i].head
      t == list[i].tail
      q == IF h \in NodesOf(i) THEN link[h].next ELSE NULL
  IN  /\ up /\ list[i].len > 1
      /\ \/ /\ {h, t, q} \subseteq NodesOf(i)
            /\ link' = [link EXCEPT ![q].prev = NULL, ![t].next = h,
                                    ![h] = [prev |-> t, next |-> NULL]]
            /\ list' = [list EXCEPT ![i].head = q, ![i].tail = h]
            /\ ForgetIteration(i)
            /\ UNCHANGED <<owner, defect, up>>
         \/ ~({h, t, q} \subseteq NodesOf(i)) /\ Stray

\* The nodes of o at the end of l.
listJoin(l, o) ==
  LET t == list[l].tail
      h == list[o].head
      safe == h \in NodesOf(o) /\ MayBeNull(l, t)
  IN  /\ up /\ l # o /\ list[o].len # 0
      /\ \/ /\ safe
            /\ link' = Put([link EXCEPT ![h].prev = t], t, "next", h)
            /\ list' = [list EXCEPT
                 ![l].head = IF t = NULL THEN h ELSE @,
                 ![l].tail = list[o].tail,
                 ![l].len = Plus(@, list[o].len),
                 ![o] = EmptyList(@.free)]
            /\ owner' = [n \in Node |-> IF owner[n] = o THEN l ELSE owner[n]]
            /\ defect' = [defect EXCEPT ![l] = @ \union defect[o], ![o] = {}]
            /\ IF defect'[l] # {}
               THEN ForgetIteration(IF Iterating(l) THEN l ELSE o)
               ELSE UNCHANGED <<iter, owed, given>>
            /\ UNCHANGED up
         \/ ~safe /\ Stray

\* A copy of i in the new list j: made by appending at the tail, so that only
\* the last node is in it.  A dup callback that fails releases the copy, and
\* with it none of its nodes, as they are not counted.
listDup(i, j) ==
  /\ up /\ i # j /\ NodesOf(j) = {} /\ list[j] = EmptyList(list[j].free)
  /\ \E nodes \in SUBSET {n \in Node : owner[n] = "free"} :
       LET Lose(kept) == [n \in Node |-> IF n \in nodes THEN kept[n] ELSE owner[n]]
       IN  \/ /\ Cardinality(nodes) = Len(Chain(i)) /\ nodes # {}
              /\ \E last \in nodes :
                   /\ owner' = Lose([n \in nodes |-> IF n = last THEN j ELSE "lost"])
                   /\ link' = [link EXCEPT ![last] = Alone]
                   /\ list' = [list EXCEPT ![j] = [head |-> last, tail |-> last, len |-> 0,
                                                  free |-> list[i].free]]
              /\ defect' = [defect EXCEPT ![j] = {"short"}]
           \/ /\ Cardinality(nodes) < Len(Chain(i))
              /\ owner' = Lose([n \in nodes |-> "lost"])
              /\ UNCHANGED <<link, list, defect>>
  /\ UNCHANGED <<iter, owed, given, up>>

-----------------------------------------------------------------------------
(* Reading.                                                                *)

StartAt(i, forward, next) ==
  /\ up /\ defect[i] = {}
  /\ iter' = [next |-> next, forward |-> forward]
  /\ owed' = NodesOf(i) /\ given' = {}
  /\ UNCHANGED <<link, list, owner, defect, up>>

\* Mutant: an iteration from the tail starts at the head.
listGetIterator_HeadOnly(i, forward) == StartAt(i, forward, list[i].head)

\* listGetIterator, listRewind and listRewindTail.
listGetIterator(i, forward) ==
  StartAt(i, forward, IF forward THEN list[i].head ELSE list[i].tail)

\* The successor is read before the node is given, so that the client may
\* delete the node.
listNext ==
  LET n == iter.next
      next == IF iter.forward THEN link[n].next ELSE link[n].prev
  IN  /\ up /\ n # NULL
      /\ iter' = [iter EXCEPT !.next = next]
      /\ owed' = owed \ {n}
      /\ given' = IF next = NULL THEN {} ELSE given \union {n}
      /\ UNCHANGED <<link, list, owner, defect, up>>

\* The node at an index, counted from the tail when it is negative.
Nth(i, index, steps) ==
  LET from == IF index < 0 THEN list[i].tail ELSE list[i].head
      field == IF index < 0 THEN "prev" ELSE "next"
      at[k \in 0..steps] ==
        IF k = 0 THEN from ELSE IF at[k - 1] = NULL THEN NULL ELSE link[at[k - 1]][field]
  IN  at[steps]

\* Mutant: -1 is the node before the last one.
listIndex_NotLessOne(i, index) == Nth(i, index, IF index < 0 THEN -index ELSE index)

listIndex(i, index) == Nth(i, index, IF index < 0 THEN (-index) - 1 ELSE index)

-----------------------------------------------------------------------------
\* Something is done to list i.
ListStep(i) ==
  \/ \E n \in Node : \/ listLinkNodeHead(i, n) \/ listLinkNodeTail(i, n)
                     \/ listUnlinkNode(i, n) \/ listDelNode(i, n)
  \/ \E old, n \in Node, after \in BOOLEAN : listInsertNode(i, old, n, after)
  \/ listEmpty(i)
  \/ listRotateTailToHead(i)
  \/ listRotateHeadToTail(i)
  \/ \E j \in List : listJoin(i, j)
  \/ \E j \in List : listDup(i, j)
  \/ \E forward \in BOOLEAN : listGetIterator(i, forward)

Next ==
  \/ \E i \in List : ListStep(i)
  \/ \E n \in Node : listInitNode(n)
  \/ \E n \in Node : FreeNode(n)
  \/ listNext

Spec == Init /\ [][Next]_vars

-----------------------------------------------------------------------------
(* Properties.                                                             *)

\* The types: len is an unsigned long even when it wraps around.
TypeOK ==
  /\ link \in [Node -> [prev : Node \union {NULL}, next : Node \union {NULL}]]
  /\ list \in [List -> [head : Node \union {NULL}, tail : Node \union {NULL},
                        len : 0..LenMax, free : BOOLEAN]]
  /\ owner \in [Node -> List \union {"client", "free", "lost"}]
  /\ iter \in [next : Node \union {NULL}, forward : BOOLEAN]
  /\ defect \in [List -> SUBSET {"short", "torn"}]
  /\ owed \subseteq Node /\ given \subseteq Node /\ up \in BOOLEAN

\* A list whose last node was never unlinked is well linked: from head the next
\* fields, and from tail the prev fields, meet the same nodes in opposite
\* orders, and those are the nodes put in the list and not taken away.
Linked ==
  /\ TypeOK
  /\ \A i \in List : "torn" \notin defect[i] =>
       /\ ToSet(Chain(i)) = NodesOf(i)
       /\ Walk(list[i].tail, "prev") = Reverse(Chain(i))

\* A list without defects counts its nodes: len, which listEmpty, the rotations
\* and listJoin go by, is the length of the chain.
Counted == \A i \in List : defect[i] = {} => list[i].len = Len(Chain(i))

\* An iteration in either direction returns each node that was in the list when
\* it began and was not deleted meanwhile, and none of them twice, through any
\* additions at the head or next to a node, deletions and joins between two calls
\* of listNext.  What moves the last node ends the claim (ForgetIteration).
IterExact == (iter.next = NULL => owed = {}) /\ iter.next \notin given

\* listIndex finds the node at each index from either end, and NULL beyond them.
IndexRight ==
  \A i \in List : defect[i] = {} =>
    LET s == Chain(i)
        m == Len(s)
    IN  \A index \in (-m - 1)..m :
          listIndex(i, index) = IF index \in 0..(m - 1) THEN s[index + 1]
                                ELSE IF index \in (-m)..(-1) THEN s[m + index + 1]
                                ELSE NULL

\* Each list operation does to a list without a defect what some operation of
\* sequences does, and the process does not stray from its lists as long as no
\* list has a defect.  Which operation a step is, and its arguments, are not told.
Sequences_ == INSTANCE ListSeq WITH
          Broken <- <<NULL>>,
          seq <- [i \in List |-> IF defect[i] = {} THEN Chain(i) ELSE <<NULL>>]

ImplementsSequences == Sequences_!Spec
=============================================================================
