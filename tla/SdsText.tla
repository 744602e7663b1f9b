------------------------------ MODULE SdsText ------------------------------
(***************************************************************************)
(* The functions of sds.c that take a text apart and put texts together:   *)
(* splitting at a separator and joining, quoting and reading quoted        *)
(* arguments, and templates.                                               *)
(*                                                                         *)
(* A character is its code and a text the sequence of them.  What a        *)
(* function returns is a set: that of the one result, or the empty set for *)
(* NULL.  The lengths and rooms of the strings it builds are those of Sds. *)
(***************************************************************************)
EXTENDS Chars, SequencesExt

From(t, i) == SubSeq(t, i, Len(t))

-----------------------------------------------------------------------------
(* sdssplitlen and sdsjoin.                                                *)

\* The separator is at position i of t, counted from 0.
At(t, sep, i) == SubSeq(t, i + 1, i + Len(sep)) = sep

\* Mutant: the search goes on inside the separator it has found.
SplitFrom_Overlapping(t, sep, i) ==
  LET last == Len(t) - Len(sep)
      split[n \in 0..(Len(t) + Len(sep))] ==
        LET hits == {j \in n..last : At(t, sep, j)}
            hit  == CHOOSE j \in hits : \A h \in hits : j <= h
        IN  IF hits = {} THEN <<From(t, n + 1)>>
            ELSE <<SubSeq(t, n + 1, hit)>> \o split[hit + 1]
  IN  split[i]

\* The tokens from position i on: each ends where the next separator starts
\* that does not overlap the one before.
SplitFrom(t, sep, i) ==
  LET last == Len(t) - Len(sep)
      split[n \in 0..Len(t)] ==
        LET hits == {j \in n..last : At(t, sep, j)}
            hit  == CHOOSE j \in hits : \A h \in hits : j <= h
        IN  IF hits = {} THEN <<From(t, n + 1)>>
            ELSE <<SubSeq(t, n + 1, hit)>> \o split[hit + Len(sep)]
  IN  split[i]

\* The bound of the loop, len - (seplen - 1), is compared as a size_t: for a
\* text that is shorter than that it is a huge one, and the loop reads on behind
\* the text.
SplitsAstray(t, sep) == sep # << >> /\ t # << >> /\ Len(t) < Len(sep) - 1

sdssplitlen(t, sep) ==
  [astray |-> SplitsAstray(t, sep),
   tokens |-> IF sep = << >> \/ t = << >> \/ SplitsAstray(t, sep) THEN {} ELSE {SplitFrom(t, sep, 0)}]

\* sdsjoin and sdsjoinsds.
sdsjoin(tokens, sep) ==
  FoldLeftDomain(LAMBDA join, i : join \o tokens[i] \o (IF i = Len(tokens) THEN << >> ELSE sep), << >>, tokens)

-----------------------------------------------------------------------------
(* sdscatrepr, sdsneedsrepr and sdssplitargs.                              *)

\* The letters behind a backslash for \a, \b, \t, \n and \r.
EscapeLetter == [c \in {7, 8, 9, 10, 13} |-> CASE c = 7 -> 97 [] c = 8 -> 98 [] c = 9 -> 116 [] c = 10 -> 110 [] c = 13 -> 114]

HexDigit(n) == IF n < 10 THEN 48 + n ELSE 87 + n

\* hex_digit_to_int, for a character that is_hex_digit accepts.
HexValues == [c \in 48..57 \union 65..70 \union 97..102 |->
                IF c < 65 THEN c - 48 ELSE IF c < 97 THEN c - 55 ELSE c - 87]

\* Mutant: a quote is not escaped.
Repr_BareQuote(c) ==
  IF c = Backslash THEN <<Backslash, c>>
  ELSE IF c \in DOMAIN EscapeLetter \ {Newline} THEN <<Backslash, EscapeLetter[c]>>
  ELSE IF isprint(c) THEN <<c>>
  ELSE <<Backslash, LetterX, HexDigit(c \div 16), HexDigit(c % 16)>>

\* One character in sdscatrepr, which has no case for the newline.
Repr(c) ==
  IF c \in {Backslash, Quote} THEN <<Backslash, c>>
  ELSE IF c \in DOMAIN EscapeLetter \ {Newline} THEN <<Backslash, EscapeLetter[c]>>
  ELSE IF isprint(c) THEN <<c>>
  ELSE <<Backslash, LetterX, HexDigit(c \div 16), HexDigit(c % 16)>>

sdscatrepr(s, t) == s \o <<Quote>> \o FlattenSeq([i \in DOMAIN t |-> Repr(t[i])]) \o <<Quote>>

sdsneedsrepr(t) ==
  \E i \in DOMAIN t : t[i] \in {Backslash, Quote} \union DOMAIN EscapeLetter \/ ~isprint(t[i]) \/ isspace(t[i])

\* The character of the line at p, NUL behind its end.
Char(line, p) == IF p \in DOMAIN line THEN line[p] ELSE NUL

\* A closing quote must be followed by a space or the end of the line.
Closes(line, p) == Char(line, p + 1) = NUL \/ isspace(Char(line, p + 1))

\* The character a backslash and a letter stand for.
Unescaped(c) ==
  LET named == {e \in DOMAIN EscapeLetter : EscapeLetter[e] = c}
  IN  IF named = {} THEN c ELSE CHOOSE e \in named : TRUE

\* What one turn of the inner loop does at position p: the character it adds to
\* the argument, as a text, the position after it, the quote it is in then, and
\* whether the argument is complete or the line refused.
Turn(text, next, quote)  == [text |-> text, next |-> next, quote |-> quote, end |-> "no"]
Done(next)               == [text |-> << >>, next |-> next, quote |-> NUL, end |-> "done"]
Refused                  == [text |-> << >>, next |-> 0, quote |-> NUL, end |-> "refused"]

InQuotes(line, p) ==
  LET c == Char(line, p)
      hex == /\ Char(line, p + 1) = LetterX
             /\ {Char(line, p + 2), Char(line, p + 3)} \subseteq DOMAIN HexValues
  IN  IF c = Backslash /\ hex
      THEN Turn(<<16 * HexValues[line[p + 2]] + HexValues[line[p + 3]]>>, p + 4, Quote)
      ELSE IF c = Backslash /\ Char(line, p + 1) # NUL THEN Turn(<<Unescaped(line[p + 1])>>, p + 2, Quote)
      ELSE IF c = Quote THEN IF Closes(line, p) THEN Done(p + 1) ELSE Refused
      ELSE IF c = NUL THEN Refused
      ELSE Turn(<<c>>, p + 1, Quote)

InSingleQuotes(line, p) ==
  LET c == Char(line, p)
  IN  IF c = Backslash /\ Char(line, p + 1) = Single THEN Turn(<<Single>>, p + 2, Single)
      ELSE IF c = Single THEN IF Closes(line, p) THEN Done(p + 1) ELSE Refused
      ELSE IF c = NUL THEN Refused
      ELSE Turn(<<c>>, p + 1, Single)

\* Outside quotes only four of the spaces end an argument.
Unquoted(line, p) ==
  LET c == Char(line, p)
  IN  IF c \in {Space, Newline, 13, 9} THEN Done(p + 1)
      ELSE IF c = NUL THEN Done(p)
      ELSE IF c \in {Quote, Single} THEN Turn(<< >>, p + 1, c)
      ELSE Turn(<<c>>, p + 1, NUL)

Step(line, p, quote) ==
  IF quote = Quote THEN InQuotes(line, p)
  ELSE IF quote = Single THEN InSingleQuotes(line, p)
  ELSE Unquoted(line, p)

\* sdssplitargs from position p on, in the argument `current', or between two
\* arguments when `inside' is FALSE.
RECURSIVE ArgsFrom(_, _, _, _, _, _)
ArgsFrom(line, p, args, current, quote, inside) ==
  LET step == Step(line, p, quote)
  IN  IF ~inside
      THEN IF Char(line, p) = NUL THEN {args}
           ELSE IF isspace(line[p]) THEN ArgsFrom(line, p + 1, args, << >>, NUL, FALSE)
           ELSE ArgsFrom(line, p, args, << >>, NUL, TRUE)
      ELSE IF step.end = "refused" THEN {}
      ELSE IF step.end = "done" THEN ArgsFrom(line, step.next, Append(args, current), << >>, NUL, FALSE)
      ELSE ArgsFrom(line, step.next, args, current \o step.text, step.quote, TRUE)

sdssplitargs(line) == ArgsFrom(line, 1, << >>, << >>, NUL, FALSE)

-----------------------------------------------------------------------------
(* sdstemplate.                                                            *)

\* The position of the first c in t from position p on, as a set of at most one.
strchr(t, c, p) ==
  LET places == {i \in p..Len(t) : t[i] = c}
  IN  {i \in places : \A j \in places : i <= j}

\* The template from position p on; value maps the names the callback knows.
RECURSIVE Filled(_, _, _, _)
Filled(t, p, res, value) ==
  IF p > Len(t) THEN {res}
  ELSE IF strchr(t, Brace, p) = {} THEN {res \o From(t, p)}
  ELSE LET open == CHOOSE i \in strchr(t, Brace, p) : TRUE
           before == res \o SubSeq(t, p, open - 1)
       IN  IF open = Len(t) THEN {}
           ELSE IF t[open + 1] = Brace THEN Filled(t, open + 2, Append(before, Brace), value)
           ELSE UNION {LET name == SubSeq(t, open + 1, close - 1)
                       IN  IF name \in DOMAIN value THEN Filled(t, close + 1, before \o value[name], value) ELSE {} :
                         close \in strchr(t, EndBrace, open + 1)}

sdstemplate(t, value) == Filled(t, 1, << >>, value)
=============================================================================
