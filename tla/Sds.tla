-------------------------------- MODULE Sds --------------------------------
(***************************************************************************)
(* A dynamic string of sds.c and sds.h: a header whose width depends on    *)
(* its type, and a buffer.  One action per function; the client goes on    *)
(* with the string the function returns.                                   *)
(*                                                                         *)
(* The buffer is what the block has behind the header, one cell for a      *)
(* character.  A write in front of the block or past its end, a failed     *)
(* assertion and the use of an uninitialised variable leave the string     *)
(* astray: what happens next is undefined, and not followed.               *)
(*                                                                         *)
(* As it stands sds.c has two faults of another kind.  The attributes      *)
(* before some case labels lack a semicolon, which compilers refuse; the   *)
(* model reads the file as if it were there.  And _sdsMakeRoomFor has no   *)
(* return type: its pointer passes through an int (WidePointers).          *)
(***************************************************************************)
EXTENDS Integers, SequencesExt

CONSTANTS
  NUL,           \* the character 0
  Junk,          \* what a new block holds
  Text,          \* the texts the client starts with, appends and copies
  Format,        \* the formats it gives to sdscatfmt, with their arguments
  TrimSet,       \* the sets it trims
  Map,           \* the translations it gives to sdsmapchars
  Position,      \* the positions and lengths it gives to sdsrange and sdssubstr
  MaxLen,        \* bound: the longest text
  MaxRoom,       \* bound: the cells of a buffer
  TypeMax,       \* sdsTypeMaxSize: the largest length of each type
  MaxPrealloc,   \* SDS_MAX_PREALLOC
  Slack,         \* by how much the usable size of a block may exceed the request
  WidePointers   \* TRUE iff the addresses of the heap do not fit an int

\* Types 0 to 4 are SDS_TYPE_5, 8, 16, 32 and 64.
Types == 0..4

\* The characters that texts are made of.
Char == (UNION {Range(t) : t \in Text}) \union {NUL}

\* A character of the format is itself, a directive is two.
FormatLen(pieces) ==
  SumFunction([p \in DOMAIN pieces |-> IF pieces[p].kind = "char" THEN 1 ELSE 2])

\* The largest type holds every length that comes up.
ASSUME TypeAssumption ==
  /\ TypeMax \in [Types -> Nat]
  /\ \A t \in 0..3 : TypeMax[t] < TypeMax[t + 1]
  /\ 2 * MaxLen + MaxRoom + MaxPrealloc <= TypeMax[4]
ASSUME TextAssumption == \A t \in Text : t \in Seq(Char) /\ Len(t) <= MaxLen
ASSUME FormatAssumption ==
  \A pieces \in Format :
    /\ pieces \in Seq([kind : STRING, text : Seq(Char)])
    /\ \A p \in DOMAIN pieces : /\ pieces[p].kind = "char" => Len(pieces[p].text) = 1
                               /\ Len(pieces[p].text) <= MaxLen
    /\ MaxLen + 2 * FormatLen(pieces) + MaxPrealloc <= TypeMax[4]
    /\ (Len(pieces) + 1) * MaxLen + MaxPrealloc <= TypeMax[4]
ASSUME CharAssumption == Junk \notin Char /\ \A f \in Map : \A c \in DOMAIN f : f[c] \in Char
ASSUME SizeAssumption ==
  MaxPrealloc \in Nat \ {0} /\ Slack \subseteq Nat /\ {MaxLen, MaxRoom} \subseteq Nat /\ Position \subseteq Int
ASSUME PointerAssumption == WidePointers \in BOOLEAN

VARIABLES
  s       \* the string: type, len and alloc of the header, the buffer, and
          \* how it has gone astray

-----------------------------------------------------------------------------
(* The header.                                                             *)

Smaller(a, b) == IF a < b THEN a ELSE b

sdsReqType(size) == CHOOSE t \in Types : size <= TypeMax[t] /\ \A u \in Types : size <= TypeMax[u] => t <= u

\* A string of type 5 has no alloc: it has no room but for its characters.
sdsalloc(x) == IF x.type = 0 THEN x.len ELSE x.alloc

sdsavail(x) == IF x.type = 0 THEN 0 ELSE x.alloc - x.len

\* What remains of a number in a field of the header.
Field(type, n) == n % (TypeMax[type] + 1)

Astray(x, how) == IF x.astray = "no" THEN [x EXCEPT !.astray = how] ELSE x

\* Mutant: the length of a type 16 string is written as that of type 8.
sdssetlen_Narrow(x, n) == [x EXCEPT !.len = Field(Smaller(x.type, 1), n)]

\* The case of type 5 falls through to the one of type 8, which also writes n
\* where that has its len: two bytes before the block.  Only a 0 does no harm.
sdssetlen(x, n) ==
  LET set == [x EXCEPT !.len = Field(x.type, n)]
  IN  IF x.type = 0 /\ n # 0 THEN Astray(set, "before") ELSE set

sdssetalloc(x, n) == [x EXCEPT !.alloc = IF x.type = 0 THEN 0 ELSE Field(x.type, n)]

-----------------------------------------------------------------------------
(* The buffer; its positions count from 0.                                 *)

\* The characters of t go to positions at, at + 1, ...
Write(x, at, t) ==
  LET written == [x EXCEPT !.buf = [p \in DOMAIN @ |-> IF p - at \in DOMAIN t THEN t[p - at] ELSE @[p]]]
  IN  IF at + Len(t) > Len(x.buf) THEN Astray(written, "past") ELSE written

Terminate(x, at) == Write(x, at, <<NUL>>)

\* A buffer of n cells with the first kept ones of buf.
Resized(buf, kept, n) == [p \in 1..n |-> IF p <= kept /\ p <= Len(buf) THEN buf[p] ELSE Junk]

\* The text, as far as the block has it.
content(x) == SubSeq(x.buf, 1, Smaller(x.len, Len(x.buf)))

-----------------------------------------------------------------------------
(* Allocation.  Memory that is out ends the process in zmalloc, so the     *)
(* branches that return NULL then are dead; a handler that returns, which  *)
(* would make them live, is not modelled here.                             *)

\* _sdsnewlen: the type of the text, except for the empty one, which is
\* expected to grow.  A text of NULs is what an init of NULL asks for.  No client
\* can ask for a text that is not initialised: the SDS_NOINIT sds.h declares is
\* defined nowhere.  sdstrynewlen may return NULL, and its client has no string
\* then, as before the call.
Created(t, slack) ==
  LET type == IF t = << >> THEN 1 ELSE sdsReqType(Len(t))
      room == Len(t) + slack
  IN  [type |-> type, len |-> Len(t),
       alloc |-> IF type = 0 THEN 0 ELSE Smaller(room, TypeMax[type]),
       buf |-> Resized(t \o <<NUL>>, Len(t) + 1, room + 1), astray |-> "no"]

\* A greedy request gets twice what it needs, up to a limit, then that much more.
NewLen(reqlen, greedy) ==
  IF ~greedy THEN reqlen ELSE IF reqlen < MaxPrealloc THEN 2 * reqlen ELSE reqlen + MaxPrealloc

\* Type 5, which has no room to say, is not used for a string that grows.
RoomyType(newlen) == IF sdsReqType(newlen) = 0 THEN 1 ELSE sdsReqType(newlen)

\* Mutant: the usable size is not reduced by the terminator.
MadeRoom_NoTerminator(x, addlen, greedy, slack) ==
  LET newlen == NewLen(x.len + addlen, greedy)
      type == RoomyType(newlen)
      kept == IF type = x.type THEN Len(x.buf) ELSE x.len + 1
      moved == [x EXCEPT !.type = type, !.buf = Resized(@, kept, newlen + slack + 1)]
  IN  IF sdsavail(x) >= addlen THEN x
      ELSE [moved EXCEPT !.alloc = Smaller(newlen + slack + 1, TypeMax[type])]

\* _sdsMakeRoomFor.  With the type the block is reallocated, else its text is
\* copied to a new one.  alloc is all the usable room, up to what it can say.
MadeRoom(x, addlen, greedy, slack) ==
  LET newlen == NewLen(x.len + addlen, greedy)
      type == RoomyType(newlen)
      room == newlen + slack
      kept == IF type = x.type THEN Len(x.buf) ELSE x.len + 1
      moved == [x EXCEPT !.type = type, !.buf = Resized(@, kept, room + 1)]
      made == IF sdsavail(x) >= addlen THEN x ELSE [moved EXCEPT !.alloc = Smaller(room, TypeMax[type])]
  IN  IF WidePointers THEN Astray(made, "wild") ELSE made

\* sdsResize.  The block keeps its header if the type stays or would become one
\* of the wider ones; then the text is copied to a new one.
Fitted(x, size, regrow, slack) ==
  LET len == Smaller(x.len, size)
      type == IF regrow THEN RoomyType(size) ELSE sdsReqType(size)
      in_place == x.type = type \/ (type < x.type /\ type > 1)
      moved == [x EXCEPT !.type = IF in_place THEN @ ELSE type,
                         !.buf = Resized(@, IF in_place THEN Len(@) ELSE len, size + 1 + slack)]
  IN  IF sdsalloc(x) = size THEN x
      ELSE sdssetalloc(sdssetlen(Terminate(moved, len), len), size)

-----------------------------------------------------------------------------
(* What the functions make of a string.                                    *)

Cat(x, t, slack) ==
  Terminate(sdssetlen(Write(MadeRoom(x, Len(t), TRUE, slack), x.len, t), x.len + Len(t)), x.len + Len(t))

Copied(x, t, slack) ==
  LET roomy == IF sdsalloc(x) < Len(t) THEN MadeRoom(x, Len(t) - x.len, TRUE, slack) ELSE x
  IN  sdssetlen(Terminate(Write(roomy, 0, t), Len(t)), Len(t))

Zeroed(x, len, slack) ==
  IF len < x.len THEN x
  ELSE sdssetlen(Write(MadeRoom(x, len - x.len, TRUE, slack), x.len, [p \in 1..(len - x.len + 1) |-> NUL]), len)

\* The first `len' characters from position start on move to the front.
Moved(x, start, len) ==
  sdssetlen(Terminate(Write(x, 0, SubSeq(x.buf, start + 1, start + len)), len), len)

\* sdssubstr: a start behind the text selects nothing, len is cut to the text.
Substr(x, start, len) ==
  IF start >= x.len THEN Moved(x, 0, 0)
  ELSE Moved(x, start, IF len > x.len - start THEN x.len - start ELSE len)

\* sdsrange.  A start that is still negative is a huge size_t for sdssubstr.
Ranged(x, start, end) ==
  LET from == IF start < 0 THEN x.len + start ELSE start
      to   == IF end < 0 THEN x.len + end ELSE end
  IN  IF x.len = 0 THEN x
      ELSE IF from < 0 THEN Moved(x, 0, 0)
      ELSE Substr(x, from, IF from > to THEN 0 ELSE to - from + 1)

\* sdstrim.  strchr also finds the terminator of cset, so NUL is always in it.
Trimmed(x, cset) ==
  LET others == {p \in 0..(x.len - 1) : x.buf[p + 1] \notin cset \union {NUL}}
      sp == CHOOSE p \in others : \A q \in others : p <= q
      ep == CHOOSE p \in others : \A q \in others : p >= q
  IN  IF others = {} THEN Moved(x, 0, 0) ELSE Moved(x, sp, ep - sp + 1)

\* sdsIncrLen after the client has written t behind the text.  For type 5 the
\* assertion allows no increment of 0.
Lengthened(x, t) ==
  LET len == x.len + Len(t)
      written == Write(x, x.len, t)
  IN  IF x.type = 0 /\ t = << >> THEN Astray(x, "assert")
      ELSE Terminate([written EXCEPT !.len = Field(x.type, len)], len)

\* sdsIncrLen with a negative increment.
Shortened(x, decr) == Terminate([x EXCEPT !.len = @ - decr], x.len - decr)

\* strlen, for sdsupdatelen.
strlen(buf) == CHOOSE n \in 0..(Len(buf) - 1) : buf[n + 1] = NUL /\ \A p \in 1..n : buf[p] # NUL

sdsmapchar(c, f) == IF c \in DOMAIN f THEN f[c] ELSE c

\* Mutant: room is made only when there is none at all.
Piece_RoomForOne(x, piece, slack) ==
  LET l == Len(piece.text)
  IN  IF x.astray # "no" THEN x
      ELSE IF sdsavail(x) = 0 \/ piece.kind \notin {"char", "string"} THEN Astray(x, "undefined")
      ELSE [Write(x, x.len, piece.text) EXCEPT !.len = Field(x.type, @ + l)]

\* One piece of a format in sdscatfmt.  Without room the loop asks for as much
\* as the uninitialised l says; %u formats an uninitialised number and goes on
\* to the default, which adds l to the length, like that of an unknown letter.
Piece(x, piece, slack) ==
  LET l == Len(piece.text)
      roomy == IF piece.kind = "string" /\ sdsavail(x) < l THEN MadeRoom(x, l, TRUE, slack) ELSE x
  IN  IF x.astray # "no" THEN x
      ELSE IF sdsavail(x) = 0 \/ piece.kind \notin {"char", "string"} THEN Astray(x, "undefined")
      ELSE [Write(roomy, x.len, piece.text) EXCEPT !.len = Field(roomy.type, @ + l)]

Formatted(x, pieces, slack) ==
  LET full == FoldLeft(LAMBDA y, piece : Piece(y, piece, slack),
                       MadeRoom(x, 2 * FormatLen(pieces), TRUE, slack), pieces)
  IN  IF full.astray # "no" THEN full ELSE Terminate(full, full.len)

-----------------------------------------------------------------------------
(* Operations.                                                             *)

\* A function returns x; the bounds, and nothing after the string went astray.
Returns(x) ==
  /\ s.astray = "no"
  /\ x.len <= MaxLen /\ Len(x.buf) <= MaxRoom
  /\ s' = x

Init == \E t \in Text, slack \in Slack : s = Created(t, slack)

\* sdsnewlen, sdstrynewlen, sdsempty, sdsnew and sdsdup; the client has freed the
\* old string.
sdsnewlen(t, slack)             == Returns(Created(t, slack))
sdscatlen(t, slack)             == Returns(Cat(s, t, slack))
sdscpylen(t, slack)             == Returns(Copied(s, t, slack))
sdsgrowzero(len, slack)         == Returns(Zeroed(s, len, slack))
sdsMakeRoomFor(n, greedy, slack) == Returns(MadeRoom(s, n, greedy, slack))
sdsResize(size, regrow, slack)  == Returns(Fitted(s, size, regrow, slack))
sdsRemoveFreeSpace(regrow, slack) == Returns(Fitted(s, s.len, regrow, slack))
sdscatfmt(pieces, slack)        == Returns(Formatted(s, pieces, slack))
sdstrim(cset)                   == Returns(Trimmed(s, cset))
sdsrange(start, end)            == Returns(Ranged(s, start, end))
sdssubstr(start, len)           == Returns(Substr(s, start, len))
sdsclear                        == Returns(Terminate(sdssetlen(s, 0), 0))
sdsupdatelen                    == Returns(sdssetlen(s, strlen(s.buf)))
sdsmapchars(f) ==
  Returns([s EXCEPT !.buf = [p \in DOMAIN @ |-> IF p <= s.len THEN sdsmapchar(@[p], f) ELSE @[p]]])

\* The client has seen to the room, respectively to the text there is.
sdsIncrLen ==
  \/ \E t \in Text : Len(t) <= sdsavail(s) /\ Returns(Lengthened(s, t))
  \/ \E decr \in 1..s.len : Returns(Shortened(s, decr))

Next ==
  \/ \E t \in Text, slack \in Slack : sdsnewlen(t, slack)
  \/ \E t \in Text, slack \in Slack : sdscatlen(t, slack)
  \/ \E t \in Text, slack \in Slack : sdscpylen(t, slack)
  \/ \E len \in 0..MaxLen, slack \in Slack : sdsgrowzero(len, slack)
  \/ \E n \in 0..MaxRoom, greedy \in BOOLEAN, slack \in Slack : sdsMakeRoomFor(n, greedy, slack)
  \/ \E size \in 0..MaxRoom, regrow \in BOOLEAN, slack \in Slack : sdsResize(size, regrow, slack)
  \/ \E regrow \in BOOLEAN, slack \in Slack : sdsRemoveFreeSpace(regrow, slack)
  \/ \E pieces \in Format, slack \in Slack : sdscatfmt(pieces, slack)
  \/ \E cset \in TrimSet : sdstrim(cset)
  \/ \E start, end \in Position : sdsrange(start, end)
  \/ \E start, len \in Position \intersect Nat : sdssubstr(start, len)
  \/ sdsclear
  \/ sdsupdatelen
  \/ \E f \in Map : sdsmapchars(f)
  \/ sdsIncrLen

Spec == Init /\ [][Next]_s

-----------------------------------------------------------------------------
(* Properties.                                                             *)

\* The string has its type: every field fits the header the type has.
TypeOK ==
  /\ s.type \in Types
  /\ s.len \in 0..TypeMax[s.type] /\ s.alloc \in 0..TypeMax[s.type]
  /\ s.buf \in Seq(Char \union {Junk})
  /\ s.astray \in {"no", "before", "past", "assert", "undefined", "wild"}

\* The header can hold what it says, and tells the truth about the buffer: the
\* text fits the room, the room and a terminator fit the block, whatever usable size the allocator reported
\* and whichever header the string had before, and the text is terminated and
\* holds nothing that was never written.
Consistent ==
  /\ TypeOK
  /\ s.astray = "no" =>
       /\ s.len <= sdsalloc(s)
       /\ sdsalloc(s) + 1 <= Len(s.buf)
       /\ s.buf[s.len + 1] = NUL
       /\ \A p \in 1..s.len : s.buf[p] # Junk

\* No function writes past the end of a block.  In front of it they write only
\* for a string of type 5, whose length they set, and only for such a one an
\* assertion fails.
Inside ==
  /\ s.astray # "past"
  /\ s.astray \in {"before", "assert"} => s.type = 0

\* To its client the string is the sequence of its characters, whatever the
\* header, the room and the block do, until it is astray: each call changes it in
\* one of the ways of SdsString, or not at all.
String == INSTANCE SdsString WITH text <- content(s), lost <- (s.astray # "no")

ImplementsString == String!Spec
=============================================================================
