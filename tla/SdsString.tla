------------------------------ MODULE SdsString ------------------------------
(***************************************************************************)
(* What a string of sds.c is to its client: a sequence of characters, NUL  *)
(* among them.  Positions count from 0, as in the code.  The string is     *)
(* lost, and nothing is promised, once an operation has gone astray.       *)
(*                                                                         *)
(* A step does not say which function it is of: any call may take any of   *)
(* them, and what is promised is that the text changes in these ways only. *)
(***************************************************************************)
EXTENDS Integers, SequencesExt

CONSTANTS
  NUL,       \* the character 0
  Text,      \* the texts a client starts with, appends and copies
  Format,    \* the formats it gives to sdscatfmt, with their arguments
  TrimSet,   \* the sets it trims
  Map,       \* the translations it gives to sdsmapchars
  Position,  \* the positions and lengths it gives to select from a text
  MaxLen     \* bound: the longest text

VARIABLES text, lost

\* The characters at positions from..to, as many of them as there are.
Window(from, to) == SubSeq(text, from + 1, IF to < Len(text) THEN to + 1 ELSE Len(text))

Become(t) == text' = t /\ lost' = FALSE

Init == text \in Text /\ lost = FALSE

Extend(t) == Become(text \o t)

\* The pieces of a format: a character, an argument, or a directive for which
\* the code promises nothing.
Formatted(pieces) ==
  /\ \A p \in DOMAIN pieces : pieces[p].kind \in {"char", "string"}
  /\ Extend(FlattenSeq([p \in DOMAIN pieces |-> pieces[p].text]))

\* A negative position counts from the end; one before the start selects nothing.
Select(start, end) ==
  LET from == IF start < 0 THEN Len(text) + start ELSE start
      to   == IF end < 0 THEN Len(text) + end ELSE end
  IN  Become(IF from < 0 THEN << >> ELSE Window(from, to))

Substring(start, len) == Become(Window(start, start + len - 1))

\* The characters of C, and NUL, go at both ends.
Trim(C) ==
  LET kept == {p \in DOMAIN text : text[p] \notin C \union {NUL}}
  IN  Become(IF kept = {} THEN << >>
             ELSE SubSeq(text, CHOOSE p \in kept : \A q \in kept : p <= q,
                               CHOOSE p \in kept : \A q \in kept : p >= q))

Truncate(len) == Become(Window(0, len - 1))

GrowZero(len) == Become([p \in 1..(IF len < Len(text) THEN Len(text) ELSE len) |->
                           IF p \in DOMAIN text THEN text[p] ELSE NUL])

\* The text ends at its first NUL.
UpToNul == Become(SubSeq(text, 1, (CHOOSE n \in 0..Len(text) :
                    /\ \A p \in 1..n : text[p] # NUL
                    /\ n = Len(text) \/ text[n + 1] = NUL)))

Translate(f) ==
  Become([p \in DOMAIN text |-> IF text[p] \in DOMAIN f THEN f[text[p]] ELSE text[p]])

Lose == lost' = TRUE

Next ==
  /\ ~lost
  /\ \/ \E t \in Text : Extend(t) \/ Become(t)
     \/ \E pieces \in Format : Formatted(pieces)
     \/ \E start, end \in Position : Select(start, end)
     \/ \E start, len \in Position \intersect Nat : Substring(start, len)
     \/ \E C \in TrimSet : Trim(C)
     \/ \E len \in 0..MaxLen : Truncate(len) \/ GrowZero(len)
     \/ UpToNul
     \/ \E f \in Map : Translate(f)
     \/ Lose

Spec == Init /\ [][Next]_<<text, lost>>
=============================================================================
