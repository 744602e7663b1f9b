---------------------------- MODULE MCTextCalls ----------------------------
(***************************************************************************)
(* An instance of TextCalls for TLC.  The inputs are the short texts over  *)
(* the characters the functions tell apart, and the numbers around the     *)
(* powers of the base and the ends of the types.                           *)
(***************************************************************************)
EXTENDS TextCalls

\* The sequences over S of at most n elements.
UpTo(S, n) == UNION {[1..m -> S] : m \in 0..n}

-----------------------------------------------------------------------------
(* Patterns.  a and b are 97 and 98, B is 66.                              *)

Piece(text, chars, negated) ==
  [text |-> text, chars |-> chars, escaped |-> {}, crossing |-> {}, negated |-> negated, star |-> FALSE]

AnyLength == [Piece(<<Star>>, {}, FALSE) EXCEPT !.star = TRUE]

\* [\]B], [\B], and [b-B] and [B-]], which with nocase are b and nothing.
ClassPieces == {
  [Piece(<<Bracket, Backslash, EndBracket, 66, EndBracket>>, {66}, FALSE) EXCEPT !.escaped = {EndBracket}],
  [Piece(<<Bracket, Backslash, 66, EndBracket>>, {}, FALSE) EXCEPT !.escaped = {66}],
  [Piece(<<Bracket, 98, Minus, 66, EndBracket>>, {}, FALSE) EXCEPT !.crossing = {<<66, 98>>}],
  [Piece(<<Bracket, 66, Minus, EndBracket, EndBracket>>, {}, FALSE) EXCEPT !.crossing = {<<66, EndBracket>>}]}

Pieces == {
  AnyLength,
  Piece(<<Question>>, {}, TRUE),
  Piece(<<97>>, {97}, FALSE),
  Piece(<<66>>, {66}, FALSE),
  Piece(<<Backslash, Star>>, {Star}, FALSE),
  Piece(<<Bracket, 97, 98, EndBracket>>, {97, 98}, FALSE),
  Piece(<<Bracket, Caret, 97, EndBracket>>, {97}, TRUE),
  Piece(<<Bracket, 98, Minus, 97, EndBracket>>, {97, 98}, FALSE)}
    \union ClassPieces

\* What is cut short by the end of the pattern.  The third is a range up to ].
LastPieces == {
  Piece(<<Bracket, 97>>, {97}, FALSE),
  Piece(<<Bracket, Caret>>, {}, TRUE),
  Piece(<<Bracket, 97, Minus, EndBracket>>, EndBracket..97, FALSE),
  Piece(<<Backslash>>, {Backslash}, FALSE)}

MCGlobs == UpTo(Pieces, 3) \union {Append(g, last) : g \in UpTo(Pieces, 1), last \in LastPieces}
             \union [1..5 -> {AnyLength, Piece(<<97>>, {97}, FALSE), Piece(<<98>>, {98}, FALSE)}]

MCStrings == UpTo({97, 98, 66}, 3) \union UpTo({97, Star, EndBracket, Backslash}, 2) \union [1..5 -> {97, 98}]

-----------------------------------------------------------------------------
(* Texts.                                                                  *)

MCSplitTexts == UpTo({97, 98}, 5)
MCSeparators == UpTo({97, 98}, 3)

\* A letter, the letter x and a digit, which can follow an escape, a space,
\* what is quoted, escaped or written in hexadecimal.
MCArgChars == {97, LetterX, 48, Space, Quote, Single, Backslash, Newline, 7, 200}

MCArgLists == {<<t>> : t \in UpTo(MCArgChars, 3)} \union [1..2 -> UpTo(MCArgChars, 1)] \union {<< >>}

Part(text, value) == [text |-> text, value |-> value, refused |-> FALSE]
Refusal(text)     == [text |-> text, value |-> << >>, refused |-> TRUE]

Parts == {
  Part(<<97>>, <<97>>), Part(<<EndBrace>>, <<EndBrace>>),
  Part(<<Brace, Brace>>, <<Brace>>),
  Part(<<Brace, 97, EndBrace>>, <<98, 98>>),
  Part(<<Brace, EndBrace>>, << >>),
  Refusal(<<Brace, 98, EndBrace>>)}

MCTemplates == UpTo(Parts, 3)
                 \union {Append(p, last) : p \in UpTo(Parts \ {Part(<<EndBrace>>, <<EndBrace>>)}, 2),
                                           last \in {Refusal(<<Brace>>), Refusal(<<Brace, 97>>)}}

\* The callback knows a, and the empty name.
MCTemplateValue == [name \in {<< >>, <<97>>} |-> IF name = << >> THEN << >> ELSE <<98, 98>>]

\* The root, a directory in it and one in that.
MCDirectories == {<<Slash>>, <<Slash, 97>>, <<Slash, 97, 98, Slash, 97>>}

MCPaths == UpTo({Dot, Slash, 97}, 4)
             \union {FlattenSeq([i \in 1..n |-> <<Dot, Dot, Slash>>]) \o t : n \in 1..3, t \in UpTo({Dot, Slash, 97}, 3)}

-----------------------------------------------------------------------------
(* Numbers.                                                                *)

Around(S) == UNION {{n - 1, n, n + 1} : n \in S}

MCIntegers == LET up == Around({0, LLONG_MAX, ULLONG_MAX} \union {Base^e : e \in 1..19} \union {11, 2730, 174762})
              IN  up \union {-n : n \in up}

MCLengths == {0, 1, 2, 3, 4, 8, 10, 12, 14, 19, 20, 21, 22}

\* ULLONG_MAX as it is, and eight bits in base ten: 255 ends in 5, as ULLONG_MAX
\* does in the code.
MCScales == {
  [base |-> Base, max |-> ULLONG_MAX, numbers |-> MCIntegers],
  [base |-> 10, max |-> 255, numbers |-> -300..300]}

MCDigits == {<<5>>, <<1, 2>>, <<1, 0, 3>>, <<7, 0>>, [p \in 1..17 |-> 1 + (p % 9)]}

MCExponents == -30..12 \union Around({-100, 100, -117, 83, -324, 292})
=============================================================================
