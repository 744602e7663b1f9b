------------------------------- MODULE MCSds -------------------------------
(***************************************************************************)
(* An instance of Sds for TLC, with types that hold up to 1, 3, 6, 13 and  *)
(* more characters and a preallocation that doubles up to 4.               *)
(***************************************************************************)
EXTENDS Sds

MCTypeMax == [t \in Types |-> <<1, 3, 6, 13, 30>>[t + 1]]

\* Texts of every type up to 16, one of them made of an init of NULL.
MCText == {<< >>, <<"a">>, <<"b", "a">>, <<NUL, NUL>>, <<"a", "b", "a", "b">>}

Literal(c) == [kind |-> "char", text |-> <<c>>]
Argument(t) == [kind |-> "string", text |-> t]

Long == <<"a", "b", "a", "a", "b", "a">>

\* Formats with each piece; the long argument may need more room than was made
\* for the format, or use it up before the piece that follows.
MCFormat == {<< >>, <<Literal("a"), Literal("b")>>, <<Argument(<<"a", "b">>), Literal("b")>>,
             <<Argument(Long)>>, <<Argument(Long), Literal("b")>>,
             <<Literal("a"), [kind |-> "unsigned", text |-> <<"a">>]>>}

\* Positions from both ends, in front of and behind every text, and lengths.
MCPosition == {-7, -2, -1, 0, 1, 3, 6}

MCMap == {[c \in {"a", "b"} |-> IF c = "a" THEN "b" ELSE "a"]}

\* Nothing reads behind the terminator before it is written.
SdsView == <<s.type, s.len, s.alloc, Len(s.buf), SubSeq(s.buf, 1, Smaller(s.len + 1, Len(s.buf))), s.astray>>
=============================================================================
