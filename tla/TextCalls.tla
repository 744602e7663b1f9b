----------------------------- MODULE TextCalls -----------------------------
(***************************************************************************)
(* A client calls the text functions of util.c, sds.c and fpconv_dtoa.c on *)
(* inputs of its choice, one at a time; none of them has a state.  What a  *)
(* function answers is compared with what it is for.                       *)
(***************************************************************************)
EXTENDS StringMatch, PathText, Numbers, FloatText

CONSTANTS
  Globs,        \* patterns, as sequences of pieces: their text and meaning
  Strings,      \* the strings every pattern is matched with
  SplitTexts, Separators,
  ArgLists,     \* lists of arguments to be written as a line and read back
  Templates,    \* templates, as sequences of parts: their text and meaning
  TemplateValue, \* what the callback knows
  Directories,  \* the working directories, as texts
  Paths,        \* paths without blanks around them
  Integers64,   \* the numbers, beyond both ends of the signed type
  Scales,       \* the bases, types and numbers that are read from text
  Padding,      \* how many zeros a size may be written with in front
  Lengths,      \* the lengths of buffers
  Fractions,    \* the numbers of fractional digits
  Digits,       \* the digits of doubles
  Exponents     \* and their exponents

VARIABLES
  call,    \* the function and its input
  answer   \* what it answered

vars == <<call, answer>>

Idle == [of |-> "none"]

Init == call = Idle /\ answer = << >>

Calls(c, a) == call = Idle /\ call' = c /\ answer' = a

Text(parts) == FlattenSeq([i \in DOMAIN parts |-> parts[i].text])

CallMatch == \E glob \in Globs, nocase \in BOOLEAN :
  Calls([of |-> "match", glob |-> glob, nocase |-> nocase],
        {t \in Strings : stringmatch(Text(glob), t, nocase)})

CallSplit == \E t \in SplitTexts, sep \in Separators :
  Calls([of |-> "split", text |-> t, sep |-> sep], sdssplitlen(t, sep))

\* The client quotes every argument, or those of which sdsneedsrepr says so.
Line(args, all) ==
  sdsjoin([i \in DOMAIN args |-> IF all \/ sdsneedsrepr(args[i]) THEN sdscatrepr(<< >>, args[i]) ELSE args[i]], <<Space>>)

CallArgs == \E args \in ArgLists, all \in BOOLEAN :
  Calls([of |-> "args", args |-> args, all |-> all], sdssplitargs(Line(args, all)))

CallTemplate == \E parts \in Templates :
  Calls([of |-> "template", parts |-> parts], sdstemplate(Text(parts), TemplateValue))

\* getcwd may fail.
CallPath == \E cwd \in {{dir} : dir \in Directories} \union {{}}, path \in Paths,
               blanks \in {<< >>, <<Space, 13>>, <<9, Newline>>} :
  Calls([of |-> "path", cwd |-> cwd, path |-> path, filename |-> blanks \o path \o blanks],
        getAbsolutePath(cwd, blanks \o path \o blanks))

Unsigned == Integers64 \intersect 0..ULLONG_MAX
Signed64 == Integers64 \intersect LLONG_MIN..LLONG_MAX

CallUnsigned == \E v \in Unsigned, dstlen \in Lengths :
  Calls([of |-> "ull", value |-> v, dstlen |-> dstlen], ull2string(dstlen, v))

CallSigned == \E v \in Signed64, dstlen \in Lengths :
  Calls([of |-> "ll", value |-> v, dstlen |-> dstlen], ll2string(dstlen, v))

CallFixed == \E v \in Signed64, fractional \in Fractions, dstlen \in Lengths :
  Calls([of |-> "fixed", value |-> v, fractional |-> fractional, dstlen |-> dstlen],
        fixedpoint_d2string(dstlen, v, fractional))

CallCount == \E v \in Signed64 : Calls([of |-> "count", value |-> v], sdigits10(v))

RECURSIVE DigitsIn(_, _)
DigitsIn(n, base) == IF n < base THEN <<n>> ELSE Append(DigitsIn(n \div base, base), n % base)

Decimal(n) == DigitsIn(n, Base)

Sign(n) == IF n < 0 THEN <<Minus>> ELSE << >>

CallParse == \E scale \in Scales : \E n \in scale.numbers :
  Calls([of |-> "parse", value |-> n, max |-> scale.max],
        string2ll(Sign(n) \o DigitsIn(Magnitude(n), scale.base), scale.base, scale.max))

\* 1000 and 1024 are scaled to 4 and 8.
CallMemory == \E n \in Integers64, unit \in Unit \union {"t"}, zeros \in Padding :
  LET text == Sign(n) \o Zeros(zeros) \o Decimal(Magnitude(n))
  IN  Calls([of |-> "memory", value |-> n, unit |-> unit, length |-> Len(text)], memtoull(text, unit, 4, 8))

CallFloat == \E digits \in Digits, k \in Exponents, neg \in 0..1, class \in {"finite", "zero", "nan", "inf"} :
  Calls([of |-> "float", digits |-> digits, k |-> k, neg |-> neg, class |-> class],
        fpconv_dtoa(class, digits, k, neg))

Return == call # Idle /\ call' = Idle /\ answer' = << >>

Next ==
  \/ CallMatch
  \/ CallSplit
  \/ CallArgs
  \/ CallTemplate
  \/ CallPath
  \/ CallUnsigned
  \/ CallSigned
  \/ CallFixed
  \/ CallCount
  \/ CallParse
  \/ CallMemory
  \/ CallFloat
  \/ Return

Spec == Init /\ [][Next]_vars

-----------------------------------------------------------------------------
(* Properties.                                                             *)

\* A piece of a pattern takes a character; with nocase the case of neither counts.
\* There are two exceptions in a class: an escaped member always stands for itself
\* only, and a range whose ends do not have the same case is taken with nocase as
\* that between the lower case of its ends, which may hold no character at all.
Takes(piece, c, nocase) ==
  (\/ \E d \in piece.chars : Folded(d, nocase) = Folded(c, nocase)
   \/ c \in piece.escaped
   \/ \E ends \in piece.crossing : Folded(c, nocase) \in Folded(ends[1], nocase)..Folded(ends[2], nocase)) # piece.negated

\* What a pattern means, piece by piece, a star being any number of characters.
RECURSIVE Means(_, _, _)
Means(glob, t, nocase) ==
  IF glob = << >> THEN t = << >>
  ELSE IF Head(glob).star
  THEN \E i \in 0..Len(t) : Means(Tail(glob), Behind(t, i + 1), nocase)
  ELSE t # << >> /\ Takes(Head(glob), Head(t), nocase) /\ Means(Tail(glob), Tail(t), nocase)

\* A pattern matches exactly the strings it means, although the search gives up
\* the longer matches of an outer star when an inner one has failed.  There are
\* three exceptions: with nocase an escaped member of a class and a range across
\* the cases mean what Takes says, and the empty string is matched by nothing but
\* the empty pattern, not even by a star.
MatchRight ==
  call.of = "match" =>
    answer = {t \in Strings : Means(call.glob, t, call.nocase) /\ (t = << >> => call.glob = << >>)}

\* The directories a path leads through from the root, the dots followed.
Resolved(path) ==
  FoldLeft(LAMBDA names, name : IF name \in {<< >>, <<Dot>>} THEN names
                                ELSE IF name = <<Dot, Dot>> THEN SubSeq(names, 1, Len(names) - 1)
                                ELSE Append(names, name),
           << >>, SplitFrom(path, <<Slash>>, 0))

\* Splitting loses nothing, joining the tokens gives the text back, and each
\* token ends where the separator starts for the first time.  The search leaves
\* the text exactly when it is more than one character shorter than the
\* separator.  A template is filled part by part, or refused.  An absolute path
\* leads where its path led from the working directory, however far that climbs,
\* and there is none exactly when a relative path meets a getcwd that fails.  But
\* for a file name that has at most ShortMax characters, not only blanks, and for
\* a path from the root that leads nowhere but to the root by climbing, a length
\* is written in front of a block.
PiecesRight ==
  /\ call.of = "split" =>
       /\ answer.astray = (call.text # << >> /\ Len(call.sep) > Len(call.text) + 1)
       /\ ~answer.astray => (answer.tokens = {}) = (call.text = << >> \/ call.sep = << >>)
       /\ \A tokens \in answer.tokens :
            /\ sdsjoin(tokens, call.sep) = call.text
            /\ \A n \in DOMAIN tokens :
                 LET u == tokens[n] \o IF n = Len(tokens) THEN << >> ELSE call.sep
                 IN  \A i \in 0..(Len(u) - Len(call.sep)) : At(u, call.sep, i) => i = Len(tokens[n])
  /\ call.of = "template" =>
       answer = IF \E i \in DOMAIN call.parts : call.parts[i].refused THEN {}
                ELSE {FlattenSeq([i \in DOMAIN call.parts |-> call.parts[i].value])}
  /\ call.of = "path" =>
       LET absolute == IsPrefix(<<Slash>>, call.path)
           climbs == call.path = FlattenSeq([i \in 1..(Len(call.path) \div 3) |-> <<Dot, Dot, Slash>>])
       IN  /\ answer.astray = (\/ call.path # << >> /\ Len(call.filename) <= ShortMax
                               \/ climbs /\ call.cwd = {<<Slash>>})
           /\ ~answer.astray => (answer.path = {}) = (call.cwd = {} /\ ~absolute)
           /\ \A path \in answer.path :
                /\ path[1] = Slash
                /\ \/ absolute /\ path = call.path
                   \/ \E dir \in call.cwd : Resolved(path) = Resolved(dir \o <<Slash>> \o call.path)

\* Arguments that are written quoted are read back as they were, whatever their
\* characters.  So are those that sdsneedsrepr leaves as they are, unless they
\* are empty or have a single quote, for which it asks no quotes.
ArgsRight ==
  call.of = "args" =>
    LET spoilt == \E i \in DOMAIN call.args : call.args[i] = << >> \/ Contains(call.args[i], Single)
    IN  call.all \/ ~spoilt => answer = {call.args}

\* The cells in front of the digits that are counted but not written: one or two
\* for the numbers of 9 to 12 digits, none for the others.
Gap(n) ==
  LET length == Len(Decimal(Magnitude(n)))
  IN  IF length \in 9..12 THEN [p \in 1..(1 + (length % 2)) |-> Unwritten] ELSE << >>

\* The digits of n with a dot before the last f of them.
Dotted(n, f) ==
  Gap(n) \o Decimal(n \div Base^f) \o <<Dot>>
         \o SubSeq(Decimal(Base^f + (n % Base^f)), 2, f + 1)

\* trimDoubleString takes the zeros from the end of the fraction and no other,
\* and the dot with the last of them.
Trims(text, f) ==
  LET trimmed == trimDoubleString(text)
  IN  \E z \in 0..f :
        /\ text = trimmed \o (IF z = f THEN <<Dot>> ELSE << >>) \o Zeros(z)
        /\ z < f => Last(trimmed) # 0

\* Whatever is answered fits, and has the digits of the number at the end of the
\* cells counted for them; of a fixed point number with an odd number of
\* fractional digits all that is said is that it is no longer than the buffer, and
\* the terminator may lie one cell behind that.  The text of a number is read back
\* as it, unless it is 0 or out of range, and a size in any unit is right as far as
\* it can be represented, and refused when its digits do not fit the buffer.
NumbersRight ==
  LET n == call.value
      laid == Sign(n) \o Gap(n) \o Decimal(Magnitude(n))
  IN  /\ call.of = "count" => answer = Len(laid)
      /\ call.of \in {"ull", "ll"} => answer = IF Len(laid) >= call.dstlen THEN << >> ELSE laid
      /\ call.of = "ll" /\ answer # << >> /\ Gap(n) = << >> /\ n # 0 =>
           string2ll(answer, Base, ULLONG_MAX) = {n}
      /\ call.of = "fixed" /\ answer # << >> =>
           /\ Len(answer) <= call.dstlen
           /\ call.fractional % 2 = 0 /\ Gap(n) = << >> =>
                /\ answer = Sign(n) \o Dotted(Magnitude(n), call.fractional)
                /\ Trims(answer, call.fractional)
      /\ call.of = "parse" =>
           answer = IF n # 0 /\ n \in (-((call.max + 1) \div 2))..(call.max \div 2) THEN {n} ELSE {}
      /\ call.of = "memory" =>
           /\ answer.err = Truth(n < 0 \/ call.unit = "t" \/ call.length >= BufSize)
           /\ answer.err = 0 /\ n * Multiplier(call.unit, 4, 8) <= ULLONG_MAX =>
                answer.value = n * Multiplier(call.unit, 4, 8)

\* A number as its digits without zeros at either end, and its exponent.
RECURSIVE Normal(_, _)
Normal(digits, k) ==
  IF digits = << >> THEN <<digits, 0>>
  ELSE IF Last(digits) = 0 THEN Normal(Front(digits), k + 1)
  ELSE IF Head(digits) = 0 THEN Normal(Tail(digits), k)
  ELSE <<digits, k>>

\* The number a text says: its digits, the places behind the dot and the exponent.
ReadBack(text) ==
  LET e == IF Contains(text, LetterE) THEN SelectInSeq(text, LAMBDA c : c = LetterE) ELSE Len(text) + 1
      mantissa == SubSeq(text, 1, e - 1)
      places == IF Contains(mantissa, Dot) THEN Len(mantissa) - SelectInSeq(mantissa, LAMBDA c : c = Dot) ELSE 0
      written == FoldLeft(LAMBDA n, d : 10 * n + d, 0, SubSeq(text, e + 2, Len(text)))
      exponent == IF e > Len(text) THEN 0 ELSE IF text[e + 1] = Minus THEN -written ELSE written
  IN  Normal(SelectSeq(mantissa, LAMBDA c : c # Dot), exponent - places)

\* The text of a double says its digits and exponent, in whichever of the forms
\* it is written, and has at most 24 characters; a negative integer of 24
\* digits has one more.
LayoutRight ==
  call.of = "float" /\ call.class = "finite" =>
    /\ call.neg = 1 <=> answer[1] = Minus
    /\ ReadBack(SubSeq(answer, 1 + call.neg, Len(answer))) = Normal(call.digits, call.k)
    /\ Len(answer) <= 24 + (IF Len(call.digits) + call.k = 24 THEN call.neg ELSE 0)
=============================================================================
