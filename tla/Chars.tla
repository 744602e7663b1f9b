------------------------------- MODULE Chars -------------------------------
(***************************************************************************)
(* Characters as their codes, as far as the text functions tell them       *)
(* apart, and the classes of ctype.h in the C locale.                      *)
(***************************************************************************)
EXTENDS Integers

NUL        == 0
Newline    == 10
Space      == 32
Quote      == 34
Single     == 39
Star       == 42
Plus       == 43
Minus      == 45
Dot        == 46
Slash      == 47
Question   == 63
Bracket    == 91
Backslash  == 92
EndBracket == 93
Caret      == 94
LetterE    == 101
LetterX    == 120
Brace      == 123
EndBrace   == 125

tolower(c) == IF c \in 65..90 THEN c + 32 ELSE c

isprint(c) == c \in 32..126
isspace(c) == c = Space \/ c \in 9..13
=============================================================================
