---------------------------- MODULE StringMatch ----------------------------
(***************************************************************************)
(* The glob patterns of util.c: stringmatchlen and the recursion under it. *)
(*                                                                         *)
(* A character is its code and a text the sequence of them; the NUL that   *)
(* stringmatch has behind a pattern is the end of the sequence.            *)
(***************************************************************************)
EXTENDS Chars, Sequences

Folded(c, nocase) == IF nocase THEN tolower(c) ELSE c

Behind(p, i) == SubSeq(p, i, Len(p))

RECURSIVE StarsSkipped(_)
StarsSkipped(p) == IF p # << >> /\ Head(p) = Star THEN StarsSkipped(Tail(p)) ELSE p

\* Mutant: the ends of a range are taken as they are written.
InRange_Unswapped(c, from, to, nocase) == Folded(c, nocase) \in Folded(from, nocase)..Folded(to, nocase)

\* c is between the ends of a range, which are swapped before they are folded.
InRange(c, from, to, nocase) ==
  LET start == IF from > to THEN to ELSE from
      end   == IF from > to THEN from ELSE to
  IN  Folded(c, nocase) \in Folded(start, nocase)..Folded(end, nocase)

\* The loop over the members of a class, behind its bracket and its caret: does
\* one of them match c, and what follows the class.  An escaped member is never
\* folded; a class the pattern does not close ends with it.
RECURSIVE Class(_, _, _, _)
Class(p, c, nocase, match) ==
  IF Len(p) >= 2 /\ Head(p) = Backslash THEN Class(Behind(p, 3), c, nocase, match \/ p[2] = c)
  ELSE IF p = << >> \/ Head(p) = EndBracket THEN [match |-> match, rest |-> Behind(p, 2)]
  ELSE IF Len(p) >= 3 /\ p[2] = Minus
  THEN Class(Behind(p, 4), c, nocase, match \/ InRange(c, p[1], p[3], nocase))
  ELSE Class(Tail(p), c, nocase, match \/ Folded(p[1], nocase) = Folded(c, nocase))

\* One turn of the loop for anything but a star: does it take the character c,
\* and what follows it in the pattern.
Taken(p, c, nocase) ==
  LET not   == Len(p) >= 2 /\ p[2] = Caret
      class == Class(Behind(p, IF not THEN 3 ELSE 2), c, nocase, FALSE)
      quoted == Head(p) = Backslash /\ Len(p) >= 2
      literal == IF quoted THEN p[2] ELSE Head(p)
  IN  IF Head(p) = Question THEN [match |-> TRUE, rest |-> Tail(p)]
      ELSE IF Head(p) = Bracket THEN [class EXCEPT !.match = (@ # not)]
      ELSE [match |-> Folded(literal, nocase) = Folded(c, nocase),
            rest |-> Behind(p, IF quoted THEN 3 ELSE 2)]

\* stringmatchlen_impl: whether p matches s, and whether it has set
\* skipLongerMatches.  A star tries every rest of the string that is not empty
\* with what follows it; when all are used up a star before it need not go on,
\* for it would only offer shorter ones.
RECURSIVE Impl(_, _, _), FromStar(_, _, _)
FromStar(p, s, nocase) ==
  LET here == Impl(p, s, nocase)
  IN  IF s = << >> THEN [match |-> FALSE, skip |-> TRUE]
      ELSE IF here.match \/ here.skip THEN here
      ELSE FromStar(p, Tail(s), nocase)

Impl(p, s, nocase) ==
  LET piece == Taken(p, Head(s), nocase)
      behind == StarsSkipped(p)
  IN  IF p = << >> \/ s = << >> THEN [match |-> p = << >> /\ s = << >>, skip |-> FALSE]
      ELSE IF Head(p) = Star
      THEN IF behind = << >> THEN [match |-> TRUE, skip |-> FALSE] ELSE FromStar(behind, s, nocase)
      ELSE IF ~piece.match THEN [match |-> FALSE, skip |-> FALSE]
      ELSE IF Len(s) = 1 THEN [match |-> StarsSkipped(piece.rest) = << >>, skip |-> FALSE]
      ELSE Impl(piece.rest, Tail(s), nocase)

stringmatch(p, s, nocase) == Impl(p, s, nocase).match
=============================================================================
