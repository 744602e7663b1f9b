------------------------------ MODULE Numbers ------------------------------
(***************************************************************************)
(* The conversions of util.c between integers and text.                    *)
(*                                                                         *)
(* They are scaled: a number has digits of base Base, every power of ten   *)
(* of the code is the same power of Base, and the widest unsigned number   *)
(* has as many digits as that of 64 bits.  A digit is its value, any other *)
(* character its code, Unwritten a cell nothing wrote.                     *)
(***************************************************************************)
EXTENDS Chars, SequencesExt

CONSTANTS
  Base,       \* the base, ten in the code
  ULLONG_MAX, \* the largest unsigned number
  LLONG_MAX,  \* the largest signed number
  BufSize,    \* sizeof(buf) in memtoull, 128 in the code
  Unwritten   \* what a new buffer holds

ASSUME BaseAssumption == Base \in Nat \ {0, 1} /\ BufSize \in Nat
ASSUME WidthAssumption ==
  /\ LLONG_MAX \in Nat /\ ULLONG_MAX = 2 * LLONG_MAX + 1
  /\ Base^19 <= ULLONG_MAX /\ ULLONG_MAX < Base^20

LLONG_MIN == -LLONG_MAX - 1

Truth(b) == IF b THEN 1 ELSE 0

\* The digits of a number as the buffers are laid out by.  The test against
\* 10^11 comes after one against 10^10, and from there the last line is reached.
digits10[v \in 0..ULLONG_MAX] ==
  IF v < Base THEN 1 ELSE IF v < Base^2 THEN 2 ELSE IF v < Base^3 THEN 3
  ELSE IF v < Base^4 THEN 4
  ELSE IF v < Base^6 THEN 5 + Truth(v >= Base^5)
  ELSE IF v < Base^8 THEN 7 + Truth(v >= Base^7)
  ELSE IF v < Base^10 THEN 11 + Truth(v >= Base^11)
  ELSE 12 + digits10[v \div Base^12]

Magnitude(v) == IF v < 0 THEN -v ELSE v

sdigits10(v) == digits10[Magnitude(v)] + Truth(v < 0)

-----------------------------------------------------------------------------
(* Numbers to text: a buffer is the sequence of its cells from position 0  *)
(* on; a result of no characters is the error.                             *)

\* The digits are written two at a time, from position next down, the last one
\* alone when it is the only one left; nothing is written on position `dot'.
RECURSIVE Pairs(_, _, _, _)
Pairs(dst, v, next, dot) ==
  LET two == [dst EXCEPT ![next + 1] = v % Base, ![next] = (v \div Base) % Base]
  IN  IF v < Base THEN [dst EXCEPT ![next + 1] = v]
      ELSE IF v < Base^2 THEN two
      ELSE Pairs(two, v \div Base^2, IF next - 2 = dot THEN next - 3 ELSE next - 2, dot)

\* Mutant: room for the terminator is not kept.
ull2string_NoTerminator(dstlen, v) ==
  LET length == digits10[v]
  IN  IF length > dstlen THEN << >>
      ELSE Pairs([p \in 1..length |-> Unwritten], v, length - 1, -1)

\* What dst holds in front of the terminator.
ull2string(dstlen, v) ==
  LET length == digits10[v]
  IN  IF length >= dstlen THEN << >>
      ELSE Pairs([p \in 1..length |-> Unwritten], v, length - 1, -1)

ll2string(dstlen, v) ==
  LET digits == ull2string(dstlen - 1, -v)
  IN  IF v >= 0 THEN ull2string(dstlen, v)
      ELSE IF dstlen < 2 \/ digits = << >> THEN << >>
      ELSE <<Minus>> \o digits

\* fixedpoint_d2string of a double other than 0; v is the double multiplied and
\* rounded.  With an odd number of fractional digits the second digit of a pair
\* goes where the dot is.  The terminator may come to lie one cell behind dst.
fixedpoint_d2string(dstlen, v, fractional) ==
  LET room == IF v < 0 THEN dstlen - 1 ELSE dstlen
      ndigits == digits10[Magnitude(v)]
      integer == IF ndigits - fractional < 1 THEN 1 ELSE ndigits - fractional
      size == integer + 1 + fractional
      laid == [p \in 1..size |-> IF p = integer + 1 THEN Dot
                                 ELSE IF p > integer + 1 \/ ndigits - fractional < 1 THEN 0
                                 ELSE Unwritten]
  IN  IF fractional \notin 1..17 \/ dstlen < fractional + 3 \/ ndigits >= room THEN << >>
      ELSE (IF v < 0 THEN <<Minus>> ELSE << >>) \o Pairs(laid, Magnitude(v), size - 1, integer)

\* trimDoubleString: the zeros at the end of a text with a dot, and the dot when
\* nothing is left behind it.
RECURSIVE ZerosTrimmed(_)
ZerosTrimmed(buf) == IF Last(buf) = 0 THEN ZerosTrimmed(Front(buf)) ELSE buf

trimDoubleString(buf) ==
  LET trimmed == ZerosTrimmed(buf)
  IN  IF ~Contains(buf, Dot) THEN buf ELSE IF Last(trimmed) = Dot THEN Front(trimmed) ELSE trimmed

-----------------------------------------------------------------------------
(* Text to numbers.  The texts are digits with or without a minus sign;    *)
(* string2ll also takes other characters behind the first digit.           *)

\* The loop over the digits behind the first one, with the value so far; the
\* empty set when it would overflow.
RECURSIVE Accumulated(_, _, _, _)
Accumulated(v, digits, base, max) ==
  IF digits = << >> THEN {v}
  ELSE IF v > max \div base \/ v * base > max - Head(digits) THEN {}
  ELSE Accumulated((v * base + Head(digits)) % (max + 1), Tail(digits), base, max)

\* The value stored for an unsigned one, if it has one.
Signed(negative, v, max) ==
  IF negative THEN IF v > (max \div 2) + 1 THEN {} ELSE {-v}
  ELSE IF v > max \div 2 THEN {} ELSE {v}

\* The value string2ll stores, as a set of at most one, with max for ULLONG_MAX:
\* one that ends in the highest digit, as every maximum of base 2 does, leaves
\* the second test for overflow nothing to refuse.  When it stores a value the
\* function ends without a return statement: what it returns is undefined.  The
\* test for a single 0 asks for a length of 1 where the length is still 0.
string2ll(text, base, max) ==
  LET negative == text # << >> /\ text[1] = Minus
      digits == IF negative THEN Tail(text) ELSE text
  IN  IF digits = << >> \/ digits[1] \notin 1..(base - 1) THEN {}
      ELSE UNION {Signed(negative, v, max) : v \in Accumulated(digits[1], Tail(digits), base, max)}

\* The multipliers of memtoull; any other unit is an error.
Unit == {"", "b", "k", "kb", "m", "mb", "g", "gb"}

Multiplier(unit, kilo, kibi) ==
  CASE unit \in {"", "b"} -> 1
    [] unit = "k" -> kilo   [] unit = "kb" -> kibi
    [] unit = "m" -> kilo^2 [] unit = "mb" -> kibi^2
    [] unit = "g" -> kilo^3 [] unit = "gb" -> kibi^3

\* What strtoull makes of digits: it stops at the largest number.
strtoull(digits) ==
  FoldLeft(LAMBDA v, d : IF v * Base + d > ULLONG_MAX THEN ULLONG_MAX ELSE v * Base + d, 0, digits)

\* memtoull of a text, which is digits with or without a minus sign, and a unit.
\* The digits and their terminator must fit a buffer, however small the number;
\* the product is that of 64 bits.
memtoull(text, unit, kilo, kibi) ==
  IF IsPrefix(<<Minus>>, text) \/ unit \notin Unit \/ Len(text) >= BufSize THEN [err |-> 1, value |-> 0]
  ELSE [err |-> 0, value |-> (strtoull(text) * Multiplier(unit, kilo, kibi)) % (ULLONG_MAX + 1)]
=============================================================================
