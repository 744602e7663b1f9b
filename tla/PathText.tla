------------------------------ MODULE PathText ------------------------------
(***************************************************************************)
(* getAbsolutePath of util.c.  Paths are texts as in SdsText; of the       *)
(* strings they are kept in only the type matters: sdsnew makes one of     *)
(* type 5 of a short text, and setting the length of such a string to      *)
(* anything but 0 writes in front of its block (see Sds).                  *)
(***************************************************************************)
EXTENDS SdsText

CONSTANT ShortMax  \* the longest text of a string of type 5, 31 in the code

ASSUME ShortAssumption == ShortMax \in Nat \ {0}

\* The empty text is given a string of type 8.
Short(t) == Len(t) \in 1..ShortMax

Blank == {Space, 13, Newline, 9}

\* What sdstrim leaves of a text when it takes off the blanks.
Trimmed(t) ==
  LET kept == {i \in DOMAIN t : t[i] \notin Blank}
      ends == {<<i, j>> \in kept \X kept : kept \subseteq i..j}
  IN  IF kept = {} THEN << >> ELSE LET e == CHOOSE e \in ends : TRUE IN SubSeq(t, e[1], e[2])

\* The loop that takes a ../ from the path and a directory from abspath, which
\* ends with a slash.  Only those the path begins with are taken.
RECURSIVE Climbed(_, _)
Climbed(abspath, relpath) ==
  IF ~IsPrefix(<<Dot, Dot, Slash>>, relpath) THEN [abspath |-> abspath, relpath |-> relpath]
  ELSE Climbed(IF Len(abspath) > 1 THEN SubSeq(abspath, 1, SelectLastInSeq(Front(abspath), LAMBDA c : c = Slash))
               ELSE abspath,
               From(relpath, 4))

Answer(path)  == [astray |-> FALSE, path |-> path]
WritesOutside == [astray |-> TRUE, path |-> {}]

\* cwd is what getcwd answers, the empty set when it fails; it ends with a slash
\* in the root only, and any other gets one, and a string of type 8 with it.  A
\* short file name goes astray where it is trimmed, unless nothing remains; the
\* root goes astray when nothing is appended to it, which makes no room and sets
\* the length of a string of type 5.
getAbsolutePath(cwd, filename) ==
  LET relpath == Trimmed(filename)
      at(dir) == Climbed(IF Last(dir) = Slash THEN dir ELSE Append(dir, Slash), relpath)
  IN  IF Short(filename) /\ relpath # << >> THEN WritesOutside
      ELSE IF IsPrefix(<<Slash>>, relpath) THEN Answer({relpath})
      ELSE IF \E dir \in cwd : Last(dir) = Slash /\ Short(dir) /\ at(dir).relpath = << >> THEN WritesOutside
      ELSE Answer({at(dir).abspath \o at(dir).relpath : dir \in cwd})
=============================================================================
