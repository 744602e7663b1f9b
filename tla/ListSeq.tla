------------------------------- MODULE ListSeq -------------------------------
(***************************************************************************)
(* What adlist.c promises of its lists: each is a sequence of nodes.       *)
(*                                                                         *)
(* Two operations of the code do not keep the promise, so a list may also  *)
(* be Broken: appending at the tail does not count the node, and unlinking *)
(* the last node leaves the tail pointing to it.  Nothing is promised of a *)
(* broken list, except that emptying it, or adding a node to it when it    *)
(* counts no nodes, may mend it.                                           *)
(*                                                                         *)
(* A step does not say which operation it is of: any call may take any of  *)
(* them, and what is promised is that the lists change in these ways only. *)
(***************************************************************************)
EXTENDS SequencesExt

CONSTANTS List, Node, Broken

VARIABLES seq, up

Whole(i) == seq[i] # Broken

Init ==
  /\ seq = [i \in List |-> << >>]
  /\ up = TRUE

-----------------------------------------------------------------------------

Becomes(i, s) == seq' = [seq EXCEPT ![i] = s]

PushHead(i, n) == Whole(i) /\ Becomes(i, <<n>> \o seq[i])

\* A new node next to a node of the sequence.
Insert(i, n, after) ==
  /\ Whole(i)
  /\ \E p \in 1..Len(seq[i]) : Becomes(i, InsertAt(seq[i], IF after THEN p + 1 ELSE p, n))

\* Any node but the last one.
Delete(i) == Whole(i) /\ \E p \in 1..(Len(seq[i]) - 1) : Becomes(i, RemoveAt(seq[i], p))

TailToHead(i) == Whole(i) /\ seq[i] # << >> /\ Becomes(i, <<Last(seq[i])>> \o Front(seq[i]))

HeadToTail(i) == Whole(i) /\ seq[i] # << >> /\ Becomes(i, Tail(seq[i]) \o <<Head(seq[i])>>)

Join(l, o) ==
  /\ Whole(l) /\ Whole(o)
  /\ seq' = [seq EXCEPT ![l] = seq[l] \o seq[o], ![o] = << >>]

Empty(i) == Becomes(i, << >>)

\* The operations that do not keep the promise, and those on a broken list.
Break(i) == Becomes(i, Broken)

Mend(i, n) == ~Whole(i) /\ Becomes(i, <<n>>)

JoinBroken(l, o) == ~(Whole(l) /\ Whole(o)) /\ seq' = [seq EXCEPT ![l] = Broken, ![o] = << >>]

\* The process stops: only because of a broken list.
Stop == (\E i \in List : ~Whole(i)) /\ up' = FALSE /\ UNCHANGED seq

Next ==
  /\ up
  /\ \/ /\ UNCHANGED up
        /\ \/ \E i \in List, n \in Node :
                PushHead(i, n) \/ Mend(i, n) \/ \E after \in BOOLEAN : Insert(i, n, after)
           \/ \E i \in List : TailToHead(i) \/ HeadToTail(i) \/ Empty(i) \/ Break(i) \/ Delete(i)
           \/ \E l, o \in List : l # o /\ (Join(l, o) \/ JoinBroken(l, o))
     \/ Stop

Spec == Init /\ [][Next]_<<seq, up>>
=============================================================================
