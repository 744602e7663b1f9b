----------------------------- MODULE FloatText -----------------------------
(***************************************************************************)
(* How fpconv_dtoa.c lays out a number whose digits it has: `digits' times *)
(* ten to the power k.  The search for the digits (grisu2) is left out: it *)
(* gives at most MaxDigits of them, the first one not 0.                   *)
(*                                                                         *)
(* A digit is its value, any other character its code.                     *)
(***************************************************************************)
EXTENDS Chars, SequencesExt

absv(v) == IF v < 0 THEN -v ELSE v

Zeros(n) == [p \in 1..n |-> 0]

\* The exponent without leading zeros, of up to three digits.
ExponentDigits(exp) ==
  LET rest == exp % 100
  IN  (IF exp > 99 THEN <<exp \div 100>> ELSE << >>)
      \o (IF exp > 9 THEN <<rest \div 10>> ELSE << >>)
      \o <<rest % 10>>

\* Mutant: the exponent is that of the last digit, not that of the first.
Scientific_LastDigit(digits, k, neg) ==
  LET kept == IF Len(digits) < 18 - neg THEN Len(digits) ELSE 18 - neg
  IN  <<digits[1]>> \o (IF kept > 1 THEN <<Dot>> \o SubSeq(digits, 2, kept) ELSE << >>)
      \o <<LetterE, IF k < 0 THEN Minus ELSE Plus>> \o ExponentDigits(absv(k))

\* Digits beyond the room for them are cut; neg is 1 for a negative number.
Scientific(digits, k, neg) ==
  LET n == Len(digits)
      kept == IF n < 18 - neg THEN n ELSE 18 - neg
  IN  <<digits[1]>> \o (IF kept > 1 THEN <<Dot>> \o SubSeq(digits, 2, kept) ELSE << >>)
      \o <<LetterE, IF k + kept - 1 < 0 THEN Minus ELSE Plus>> \o ExponentDigits(absv(k + n - 1))

\* emit_digits: an integer with its zeros, a fraction with its dot, or the
\* scientific form.
emit_digits(digits, k, neg) ==
  LET n == Len(digits)
      exp == absv(k + n - 1)
      offset == n + k
  IN  IF k >= 0 /\ exp < n + 7 THEN digits \o Zeros(k)
      ELSE IF ~(k < 0 /\ (k > -7 \/ exp < 4)) THEN Scientific(digits, k, neg)
      ELSE IF offset <= 0 THEN <<0, Dot>> \o Zeros(-offset) \o digits
      ELSE SubSeq(digits, 1, offset) \o <<Dot>> \o SubSeq(digits, offset + 1, n)

\* fpconv_dtoa: the sign bit is also written for 0, nan and inf.
fpconv_dtoa(class, digits, k, neg) ==
  (IF neg = 1 THEN <<Minus>> ELSE << >>)
  \o CASE class = "zero"   -> <<0>>
       [] class = "nan"    -> <<110, 97, 110>>
       [] class = "inf"    -> <<105, 110, 102>>
       [] class = "finite" -> emit_digits(digits, k, neg)
=============================================================================
