------------------------------- MODULE Intset -------------------------------
(***************************************************************************)
(* The set of integers of intset.c: a header and an array of elements in   *)
(* one block of memory, all elements as wide as the widest one added.      *)
(*                                                                         *)
(* The block is modelled as cells of the size of an int16_t, little end    *)
(* first: the header is encoding and length, two cells each, and an        *)
(* element is one, two or four cells.  encoding counts cells where the     *)
(* code counts bytes.  Everything the code reads and writes, the element   *)
(* at position -1 included, is then the cells it reads and writes.         *)
(*                                                                         *)
(* Numbers are scaled: a cell has Base values, where an int16_t has 65536. *)
(***************************************************************************)
EXTENDS Integers, SequencesExt

CONSTANTS
  Base,       \* the number of values of a cell
  Value,      \* the values the client adds, removes and looks for
  MaxLength   \* bound: the elements of a set

\* A signed number of k cells is at least -Half[k] and below Half[k].
Half[k \in 1..4] == IF k = 1 THEN Base \div 2 ELSE Base * Half[k - 1]

ASSUME BaseAssumption == Base \in Nat /\ Base >= 4 /\ Base % 2 = 0
ASSUME ValueAssumption == Value \subseteq -Half[4]..(Half[4] - 1)
ASSUME LengthAssumption == MaxLength \in Nat /\ MaxLength < Half[2]

VARIABLES
  is,       \* the block: cells from 0 on
  ret,      \* the last call: its success, and the value it added, if any
  looping,  \* TRUE once a search does not end
  inside    \* history: a value was added although it was not outside the range
            \* of the set

vars == <<is, ret, looping, inside>>

-----------------------------------------------------------------------------
(* Memory.                                                                 *)

Header == 4

\* A uint32_t takes two cells.
Unsigned(m, at) == m[at] + Base * m[at + 1]

\* The last cell of a signed number has the sign.
Signed(m, at, cells) ==
  LET Top(c) == IF 2 * c < Base THEN c ELSE c - Base
      from[k \in 0..(cells - 1)] ==
        IF k = cells - 1 THEN Top(m[at + k]) ELSE m[at + k] + Base * from[k + 1]
  IN  from[0]

\* A write past the end of the block leaves a trace, a cell no block has.
Overrun == -1

Write(m, at, cells, v) ==
  LET written == at..(at + cells - 1)
      outside == IF written \subseteq DOMAIN m THEN {} ELSE {Overrun}
      shifted[k \in 0..(cells - 1)] == IF k = 0 THEN v ELSE shifted[k - 1] \div Base
  IN  [c \in DOMAIN m \union outside |->
         IF c \in written THEN shifted[c - at] % Base ELSE IF c \in DOMAIN m THEN m[c] ELSE 0]

encoding(m) == Unsigned(m, 0)
length(m) == Unsigned(m, 2)

SetLength(m, len) == Write(m, 2, 2, len)

\* The narrowest encoding v fits in.
Fits(v, cells) == v \in -Half[cells]..(Half[cells] - 1)

_intsetValueEncoding(v) == IF ~Fits(v, 2) THEN 4 ELSE IF ~Fits(v, 1) THEN 2 ELSE 1

_intsetGetEncoded(m, pos, enc) == Signed(m, Header + pos * enc, enc)

_intsetGet(m, pos) == _intsetGetEncoded(m, pos, encoding(m))

_intsetSet(m, pos, value) == Write(m, Header + pos * encoding(m), encoding(m), value)

intsetNew == Write([c \in 0..(Header - 1) |-> 0], 0, 2, 1)

\* realloc to len elements; what is new in the block is junk.
intsetResize(m, len, junk) ==
  [c \in 0..(Header + len * encoding(m) - 1) \union (DOMAIN m \intersect {Overrun}) |->
     IF c \in DOMAIN m THEN m[c] ELSE junk]

\* memmove of the elements from position from on.
Moved(m, from, to, byte) ==
  LET enc == encoding(m)
      Target(c) == c - (to - from) * enc
      moved == (Header + to * enc)..(Header + (to + byte) * enc - 1)
      outside == IF moved \subseteq DOMAIN m THEN {} ELSE {Overrun}
  IN  [c \in DOMAIN m \union outside |->
         IF c \in moved THEN m[Target(c)] ELSE IF c \in DOMAIN m THEN m[c] ELSE 0]

\* Mutant: moves one element less.
intsetMoveTail_OneLess(m, from, to) == Moved(m, from, to, length(m) - from - 1)

intsetMoveTail(m, from, to) == Moved(m, from, to, length(m) - from)

-----------------------------------------------------------------------------
(* The search.                                                             *)

\* One turn of the loop.  The middle is assigned to min, and mid stays -1: the
\* element looked at is the end of the header.
Turn(m, value, s) ==
  LET middle == (s.min + s.max) \div 2
      mid == -1
      cur == _intsetGet(m, mid)
  IN  IF value > cur THEN [s EXCEPT !.min = mid + 1]
      ELSE IF value < cur THEN [s EXCEPT !.min = middle, !.max = mid - 1]
      ELSE [s EXCEPT !.min = middle, !.found = TRUE]

\* Whether the search ends, whether it finds the value, and the position it
\* sets: -1 stands for UINT32_MAX, what mid is as a uint32_t.
intsetSearch(m, value) ==
  LET len == length(m)
      Over(s) == s.max < s.min \/ s.found
      turns[k \in 0..(len + 1)] ==
        IF k = 0 THEN [min |-> 0, max |-> len - 1, found |-> FALSE]
        ELSE IF Over(turns[k - 1]) THEN turns[k - 1] ELSE Turn(m, value, turns[k - 1])
      last == turns[len + 1]
  IN  IF len = 0 THEN [ends |-> TRUE, found |-> FALSE, pos |-> 0]
      ELSE IF value > _intsetGet(m, len - 1) THEN [ends |-> TRUE, found |-> FALSE, pos |-> len]
      ELSE IF value < _intsetGet(m, 0) THEN [ends |-> TRUE, found |-> FALSE, pos |-> 0]
      ELSE [ends |-> Over(last), found |-> last.found, pos |-> IF last.found THEN -1 ELSE last.min]

-----------------------------------------------------------------------------
(* The operations.                                                         *)

Init ==
  /\ is = intsetNew
  /\ ret = [value |-> 0, success |-> FALSE]
  /\ looping = FALSE
  /\ inside = FALSE

\* The elements, copied one after the other in the given order: each read is of
\* what the copies before it have left.
Copied(m, order, prepend, curenc) ==
  LET Copy(b, k) == _intsetSet(b, k + prepend, _intsetGetEncoded(b, k, curenc))
      copied[j \in 0..Len(order)] == IF j = 0 THEN m ELSE Copy(copied[j - 1], order[j])
  IN  copied[Len(order)]

Widened(m, wide, value, order) ==
  LET prepend == IF value < 0 THEN 1 ELSE 0
      len == length(m)
      copied == Copied(wide, order, prepend, encoding(m))
  IN  SetLength(_intsetSet(copied, IF prepend = 1 THEN 0 ELSE len, value), len + 1)

WithEncoding(m, value) == Write(m, 0, 2, _intsetValueEncoding(value))

Downwards(len) == [k \in 1..len |-> len - k]

\* Mutant: copies from the first element to the last.
intsetUpgradeAndAdd_Upwards(m, value, junk) ==
  Widened(m, intsetResize(WithEncoding(m, value), length(m) + 1, junk), value,
          Reverse(Downwards(length(m))))

\* The elements are widened in place, from the last to the first.
intsetUpgradeAndAdd(m, value, junk) ==
  Widened(m, intsetResize(WithEncoding(m, value), length(m) + 1, junk), value,
          Downwards(length(m)))

Outside(m, value) ==
  length(m) = 0 \/ value < _intsetGet(m, 0) \/ value > _intsetGet(m, length(m) - 1)

Ret(value, success) == ret' = [value |-> value, success |-> success]

Fails == Ret(0, FALSE)

Hang == looping' = TRUE /\ UNCHANGED <<is, ret, inside>>

intsetAdd(value) ==
  LET found == intsetSearch(is, value)
      len == length(is)
  IN  /\ ~looping /\ len < MaxLength
      /\ \/ /\ _intsetValueEncoding(value) > encoding(is)
            /\ \E junk \in {0, Base - 1} : is' = intsetUpgradeAndAdd(is, value, junk)
            /\ Ret(value, TRUE)
            /\ UNCHANGED <<looping, inside>>
         \/ /\ _intsetValueEncoding(value) <= encoding(is)
            /\ ~found.ends
            /\ Hang
         \/ /\ _intsetValueEncoding(value) <= encoding(is)
            /\ found.ends /\ found.found
            /\ Fails
            /\ UNCHANGED <<is, looping, inside>>
         \/ /\ _intsetValueEncoding(value) <= encoding(is)
            /\ found.ends /\ ~found.found
            /\ \E junk \in {0, Base - 1} :
                 LET room == intsetResize(is, len + 1, junk)
                     open == IF found.pos < len THEN intsetMoveTail(room, found.pos, found.pos + 1)
                                                ELSE room
                 IN  is' = SetLength(_intsetSet(open, found.pos, value), len + 1)
            /\ Ret(value, TRUE)
            /\ inside' = (inside \/ ~Outside(is, value))
            /\ UNCHANGED looping

\* A position of UINT32_MAX is never below len - 1: the last element goes.
intsetRemove(value) ==
  LET found == intsetSearch(is, value)
      len == length(is)
      seen == _intsetValueEncoding(value) <= encoding(is)
  IN  /\ ~looping
      /\ \/ seen /\ ~found.ends /\ Hang
         \/ /\ ~seen \/ (found.ends /\ ~found.found)
            /\ Fails
            /\ UNCHANGED <<is, looping, inside>>
         \/ /\ seen /\ found.ends /\ found.found
            /\ \E junk \in {0, Base - 1} :
                 LET closed == IF found.pos \in 0..(len - 2)
                               THEN intsetMoveTail(is, found.pos + 1, found.pos) ELSE is
                 IN  is' = SetLength(intsetResize(closed, len - 1, junk), len - 1)
            /\ Ret(0, TRUE)
            /\ UNCHANGED <<looping, inside>>

intsetFind(value) ==
  LET found == intsetSearch(is, value)
      seen == _intsetValueEncoding(value) <= encoding(is)
  IN  /\ ~looping
      /\ \/ seen /\ ~found.ends /\ Hang
         \/ /\ ~seen \/ found.ends
            /\ Ret(0, seen /\ found.found)
            /\ UNCHANGED <<is, looping, inside>>

Next ==
  \E value \in Value : intsetAdd(value) \/ intsetRemove(value) \/ intsetFind(value)

Spec == Init /\ [][Next]_vars

-----------------------------------------------------------------------------
(* Properties.                                                             *)

Elements(m) == [k \in 1..length(m) |-> _intsetGet(m, k - 1)]

intsetBlobLen(m) == Header + length(m) * encoding(m)

intsetValidateIntegrity(m, deep) ==
  /\ encoding(m) \in {1, 2, 4}
  /\ DOMAIN m = 0..(intsetBlobLen(m) - 1)
  /\ length(m) # 0
  /\ deep => \A k \in 1..(length(m) - 1) : _intsetGet(m, k - 1) < _intsetGet(m, k)

\* The block has exactly the cells its header says, which no write goes beyond.
TypeOK ==
  /\ encoding(is) \in {1, 2, 4} /\ length(is) \in 0..MaxLength
  /\ is \in [0..(intsetBlobLen(is) - 1) -> 0..(Base - 1)]
  /\ ret.success \in BOOLEAN /\ looping \in BOOLEAN /\ inside \in BOOLEAN

\* The block never has a cell too many or too few, and a set that every value
\* was added to outside its range at the time passes the code's own deep check:
\* increasing, through all changes of width, removals and the search that
\* answers for other values.
ValidOutside ==
  /\ TypeOK
  /\ (~inside /\ length(is) # 0) => intsetValidateIntegrity(is, TRUE)

\* The code's own deep check passes for every set with elements, which the
\* search at intset.c:85 does not ensure.
AlwaysValid == length(is) # 0 => intsetValidateIntegrity(is, TRUE)

\* A call that reports success adds its value, or removes one element, and
\* leaves the values and the order of all others; any other call changes
\* nothing, whatever the widths of the set before and after.
OneAtATime ==
  [][LET before == Elements(is)
         after == Elements(is')
     IN  \/ /\ ret'.success /\ Len(after) > Len(before)
            /\ \E p \in DOMAIN after : after[p] = ret'.value /\ RemoveAt(after, p) = before
         \/ /\ ret'.success /\ Len(after) < Len(before)
            /\ \E p \in DOMAIN before : RemoveAt(before, p) = after
         \/ after = before]_<<is, ret>>
=============================================================================
