----------------------------- MODULE SdsProofs -----------------------------
(***************************************************************************)
(* Proofs about Sds: whatever the widths of the types, the room that the   *)
(* allocator adds and the order of the calls, the header of a string that  *)
(* is not astray tells the truth about its block, and no function writes   *)
(* past the end of the block.  And the string implements SdsString: the    *)
(* text its header points out is what each function promises.              *)
(***************************************************************************)
EXTENDS Sds, RecursionFacts

-----------------------------------------------------------------------------
(* The inductive invariant, for any string.                                *)

Cell == Char \union {Junk}

Strings == [type : Types, len : Nat, alloc : Nat, buf : Seq(Cell),
            astray : {"no", "before", "past", "assert", "undefined", "wild"}]

\* Every field fits the header.
Typed(x) == x \in Strings /\ x.len <= TypeMax[x.type] /\ x.alloc <= TypeMax[x.type]

\* How a string may go astray.
Calm(x) == x.astray # "past" /\ (x.astray \in {"before", "assert"} => x.type = 0)

\* The text fits the room, and the room and a terminator the block.
Held(x) == x.len <= sdsalloc(x) /\ sdsalloc(x) + 1 <= Len(x.buf)

\* The text has been written.
Filled(x) == \A p \in 1..x.len : x.buf[p] \in Char

Ended(x) == x.buf[x.len + 1] = NUL

\* The first n characters of x are the text of y.
Kept(x, n, y) == y.len = n /\ \A p \in 1..n : y.buf[p] = x.buf[p]

\* The text of y is t.
Reads(y, t) == y.len = Len(t) /\ \A p \in 1..Len(t) : y.buf[p] = t[p]

\* The text of y is that of x and then t.
Longer(x, t, y) ==
  /\ y.len = x.len + Len(t)
  /\ \A p \in 1..x.len : y.buf[p] = x.buf[p]
  /\ \A p \in 1..Len(t) : y.buf[x.len + p] = t[p]

\* What every function returns.
Fine(x) == Typed(x) /\ Calm(x) /\ (x.astray = "no" => Held(x) /\ Filled(x) /\ Ended(x))

IInv == Fine(s) /\ s.len <= MaxLen

Assumptions == /\ TypeMax \in [Types -> Nat]
               /\ \A t \in 0..3 : TypeMax[t] < TypeMax[t + 1]
               /\ MaxPrealloc \in Nat \ {0} /\ Slack \subseteq Nat /\ MaxLen \in Nat /\ MaxRoom \in Nat
               /\ 2 * MaxLen + MaxRoom + MaxPrealloc <= TypeMax[4]
               /\ NUL \in Char /\ Char \subseteq Cell

LEMMA Assumed == Assumptions
<1>1. /\ MaxPrealloc \in Nat \ {0} /\ Slack \subseteq Nat /\ MaxLen \in Nat /\ MaxRoom \in Nat
  BY SizeAssumption
<1>2. NUL \in Char /\ Char \subseteq Cell
  <2>1. NUL \in Char
    BY DEF Char
  <2> QED
    BY <2>1 DEF Cell
<1> QED
  BY <1>1, <1>2, TypeAssumption DEF Assumptions

-----------------------------------------------------------------------------
(* The header.                                                             *)

\* The types are ordered by what they hold.
LEMMA TypesGrow == \A t, u \in Types : t <= u => TypeMax[t] <= TypeMax[u]
<1>1. /\ \A t \in Types : TypeMax[t] \in Nat
      /\ \A t \in Types : t = 0 \/ t = 1 \/ t = 2 \/ t = 3 \/ t = 4
  BY Assumed DEF Assumptions, Types
<1>2. /\ TypeMax[0] < TypeMax[1] /\ TypeMax[1] < TypeMax[2]
      /\ TypeMax[2] < TypeMax[3] /\ TypeMax[3] < TypeMax[4]
  <2>1. \A t \in 0..3 : TypeMax[t] < TypeMax[t + 1]
    BY Assumed DEF Assumptions
  <2>2. TypeMax[0] < TypeMax[0 + 1] /\ TypeMax[1] < TypeMax[1 + 1] /\ TypeMax[2] < TypeMax[2 + 1] /\ TypeMax[3] < TypeMax[3 + 1]
    BY <2>1
  <2> QED
    BY <2>2
<1>3. /\ 0 \in Types /\ 1 \in Types /\ 2 \in Types /\ 3 \in Types /\ 4 \in Types
  BY DEF Types
<1> SUFFICES ASSUME NEW t \in Types, NEW u \in Types, t <= u PROVE TypeMax[t] <= TypeMax[u]
  OBVIOUS
<1> QED
  BY <1>1, <1>2, <1>3

\* A length that the largest type holds has a type of its own.
LEMMA ReqType ==
  ASSUME NEW size \in Nat, size <= TypeMax[4]
  PROVE  sdsReqType(size) \in Types /\ size <= TypeMax[sdsReqType(size)]
<1> DEFINE fits == {t \in Types : size <= TypeMax[t]}
<1>1. fits \subseteq Nat /\ fits # {} /\ fits \subseteq Types
  BY DEF Types
<1>2. PICK t \in fits : \A u \in fits : t <= u
  BY <1>1, LeastNatural
<1>3. \E t1 \in Types : size <= TypeMax[t1] /\ \A u \in Types : size <= TypeMax[u] => t1 <= u
  BY <1>1, <1>2
<1> QED
  BY <1>3 DEF sdsReqType

\* So has a string that grows, and it is not type 5.
LEMMA Roomy ==
  ASSUME NEW size \in Nat, size <= TypeMax[4]
  PROVE  RoomyType(size) \in Types /\ RoomyType(size) # 0 /\ size <= TypeMax[RoomyType(size)]
<1>1. sdsReqType(size) \in Types /\ size <= TypeMax[sdsReqType(size)]
  BY ReqType
<1>2. 0 \in Types /\ 1 \in Types /\ TypeMax[0] <= TypeMax[1] /\ TypeMax[0] \in Nat /\ TypeMax[1] \in Nat
  BY TypesGrow, Assumed DEF Types, Assumptions
<1> QED
  BY <1>1, <1>2 DEF RoomyType

\* A number the field has room for is kept.
LEMMA FieldHolds ==
  ASSUME NEW t \in Types, NEW n \in Nat
  PROVE  /\ Field(t, n) \in Nat /\ Field(t, n) <= TypeMax[t]
         /\ n <= TypeMax[t] => Field(t, n) = n
<1>1. TypeMax[t] \in Nat
  BY Assumed DEF Assumptions
<1> DEFINE m == TypeMax[t] + 1
<1>2. m \in Nat /\ m > 0
  BY <1>1
<1>3. n = (n \div m) * m + (n % m) /\ n % m \in 0..(m - 1) /\ n \div m \in Int
  <2> HIDE DEF m
  <2> QED
    BY <1>2, Division
<1>4. n < m => n % m = n
  BY <1>2
<1>5. Field(t, n) = n % m
  BY DEF Field
<1> QED
  BY <1>1, <1>3, <1>4, <1>5

\* Astray changes nothing else, and the first fault is the one that counts.
LEMMA AstrayFacts ==
  ASSUME NEW x, Typed(x), NEW how \in {"no", "before", "past", "assert", "undefined", "wild"}, NEW y, y = Astray(x, how)
  PROVE  /\ Typed(y) /\ y.type = x.type /\ y.len = x.len /\ y.alloc = x.alloc /\ y.buf = x.buf
         /\ y.astray = IF x.astray = "no" THEN how ELSE x.astray
BY DEF Typed, Strings, Astray

\* Writing the length.
LEMMA SetLenFacts ==
  ASSUME NEW x, Typed(x), NEW n \in Nat, NEW y, y = sdssetlen(x, n)
  PROVE  /\ Typed(y) /\ y.type = x.type /\ y.alloc = x.alloc /\ y.buf = x.buf
         /\ n <= TypeMax[x.type] => y.len = n
         /\ y.astray = IF x.astray = "no" /\ x.type = 0 /\ n # 0 THEN "before" ELSE x.astray
<1> DEFINE set == [x EXCEPT !.len = Field(x.type, n)]
<1>1. x.type \in Types
  BY DEF Typed, Strings
<1>2. /\ Field(x.type, n) \in Nat /\ Field(x.type, n) <= TypeMax[x.type]
      /\ n <= TypeMax[x.type] => Field(x.type, n) = n
  BY <1>1, FieldHolds
<1>3. /\ Typed(set) /\ set.type = x.type /\ set.alloc = x.alloc /\ set.buf = x.buf
      /\ set.len = Field(x.type, n) /\ set.astray = x.astray
  BY <1>2 DEF Typed, Strings
<1>4. y = IF x.type = 0 /\ n # 0 THEN Astray(set, "before") ELSE set
  BY DEF sdssetlen
<1> HIDE DEF set
<1>5. CASE x.type = 0 /\ n # 0
  <2>1. y = Astray(set, "before")
    BY <1>4, <1>5
  <2>2. /\ Typed(y) /\ y.type = set.type /\ y.len = set.len /\ y.alloc = set.alloc /\ y.buf = set.buf
        /\ y.astray = IF set.astray = "no" THEN "before" ELSE set.astray
    BY <1>3, <2>1, AstrayFacts
  <2> QED
    BY <1>2, <1>3, <1>5, <2>2
<1>6. CASE ~(x.type = 0 /\ n # 0)
  <2>1. y = set
    BY <1>4, <1>6
  <2> QED
    BY <1>2, <1>3, <1>6, <2>1
<1> QED
  BY <1>5, <1>6

-----------------------------------------------------------------------------
(* The buffer.                                                             *)

\* What a write leaves.
Written(x, at, t, y) ==
  /\ Typed(y) /\ y.type = x.type /\ y.len = x.len /\ y.alloc = x.alloc
  /\ Len(y.buf) = Len(x.buf)
  /\ \A p \in 1..Len(x.buf) : y.buf[p] = IF p - at \in 1..Len(t) THEN t[p - at] ELSE x.buf[p]
  /\ y.astray = IF x.astray = "no" /\ at + Len(t) > Len(x.buf) THEN "past" ELSE x.astray

\* It does.
LEMMA WriteFacts ==
  ASSUME NEW x, Typed(x), NEW at \in Nat, NEW t \in Seq(Cell), NEW y, y = Write(x, at, t)
  PROVE  Written(x, at, t, y)
<1> DEFINE n == Len(x.buf)
           buf == [p \in 1..n |-> IF p - at \in 1..Len(t) THEN t[p - at] ELSE x.buf[p]]
           written == [x EXCEPT !.buf = buf]
<1>1. /\ x.buf \in Seq(Cell) /\ n \in Nat /\ DOMAIN x.buf = 1..n /\ DOMAIN t = 1..Len(t) /\ Len(t) \in Nat
      /\ \A p \in 1..n : x.buf[p] \in Cell
      /\ \A p \in 1..Len(t) : t[p] \in Cell
  BY DEF Typed, Strings
<1>2. \A p \in 1..n : (IF p - at \in 1..Len(t) THEN t[p - at] ELSE x.buf[p]) \in Cell
  BY <1>1
<1>3. buf \in Seq(Cell) /\ Len(buf) = n
  BY <1>1, <1>2
<1>4. y = IF at + Len(t) > n THEN Astray(written, "past") ELSE written
  BY <1>1 DEF Write
<1>5. /\ Typed(written) /\ written.type = x.type /\ written.len = x.len /\ written.alloc = x.alloc
      /\ written.buf = buf /\ written.astray = x.astray
  BY <1>3 DEF Typed, Strings
<1>6. \A p \in 1..n : buf[p] = IF p - at \in 1..Len(t) THEN t[p - at] ELSE x.buf[p]
  OBVIOUS
<1> HIDE DEF written, buf
<1>7. CASE at + Len(t) > n
  <2>1. y = Astray(written, "past")
    BY <1>4, <1>7
  <2>2. /\ Typed(y) /\ y.type = written.type /\ y.len = written.len /\ y.alloc = written.alloc
        /\ y.buf = written.buf /\ y.astray = IF written.astray = "no" THEN "past" ELSE written.astray
    BY <1>5, <2>1, AstrayFacts
  <2> QED
    BY <1>3, <1>5, <1>6, <1>7, <2>2 DEF Written
<1>8. CASE ~(at + Len(t) > n)
  <2>1. y = written
    BY <1>4, <1>8
  <2> QED
    BY <1>3, <1>5, <1>6, <1>8, <2>1 DEF Written
<1> QED
  BY <1>7, <1>8

\* What a terminator leaves.
LEMMA TerminateFacts ==
  ASSUME NEW x, Typed(x), NEW at \in Nat, NEW y, y = Terminate(x, at)
  PROVE  /\ Typed(y) /\ y.type = x.type /\ y.len = x.len /\ y.alloc = x.alloc
         /\ Len(y.buf) = Len(x.buf)
         /\ \A p \in 1..Len(x.buf) : y.buf[p] = IF p = at + 1 THEN NUL ELSE x.buf[p]
         /\ y.astray = IF x.astray = "no" /\ at + 1 > Len(x.buf) THEN "past" ELSE x.astray
<1>0. PICK t : t = <<NUL>>
  OBVIOUS
<1>1. t \in Seq(Cell) /\ Len(t) = 1 /\ t[1] = NUL
  BY <1>0, Assumed DEF Assumptions
<1>2. y = Write(x, at, t)
  BY <1>0 DEF Terminate
<1>3. Written(x, at, t, y)
  BY <1>1, <1>2, WriteFacts
<1>4. \A p \in 1..Len(x.buf) : p - at \in 1..1 <=> p = at + 1
  OBVIOUS
<1>5. Len(y.buf) = Len(x.buf) /\ \A p \in 1..Len(x.buf) : y.buf[p] = IF p - at \in 1..1 THEN t[p - at] ELSE x.buf[p]
  BY <1>1, <1>3 DEF Written
<1>6. \A p \in 1..Len(x.buf) : y.buf[p] = IF p = at + 1 THEN NUL ELSE x.buf[p]
  <2> SUFFICES ASSUME NEW p \in 1..Len(x.buf)
               PROVE  y.buf[p] = IF p = at + 1 THEN NUL ELSE x.buf[p]
    OBVIOUS
  <2>1. y.buf[p] = IF p - at \in 1..1 THEN t[p - at] ELSE x.buf[p]
    BY <1>5
  <2>2. CASE p = at + 1
    <3>1. p - at = 1 /\ p - at \in 1..1
      BY <2>2
    <3> QED
      BY <1>1, <2>1, <2>2, <3>1
  <2>3. CASE p # at + 1
    <3>1. ~(p - at \in 1..1)
      BY <2>3
    <3> QED
      BY <2>1, <2>3, <3>1
  <2> QED
    BY <2>2, <2>3
<1>7. /\ Typed(y) /\ y.type = x.type /\ y.len = x.len /\ y.alloc = x.alloc
      /\ y.astray = IF x.astray = "no" /\ at + 1 > Len(x.buf) THEN "past" ELSE x.astray
  BY <1>1, <1>3 DEF Written
<1> QED
  BY <1>5, <1>6, <1>7

\* A block of another size.
Fits(b, kept, n, r) ==
  /\ r \in Seq(Cell) /\ Len(r) = n
  /\ \A p \in 1..n : p <= kept /\ p <= Len(b) => r[p] = b[p]

LEMMA ResizedFacts ==
  ASSUME NEW b \in Seq(Cell), NEW kept \in Nat, NEW n \in Nat, NEW r, r = Resized(b, kept, n)
  PROVE  Fits(b, kept, n, r)
<1>1. \A p \in 1..n : (IF p <= kept /\ p <= Len(b) THEN b[p] ELSE Junk) \in Cell
  BY DEF Cell
<1> QED
  BY <1>1 DEF Resized, Fits

-----------------------------------------------------------------------------
(* Steps that several functions end with.                                  *)

\* A string that has a text, and may lack its end.
Whole(x) == Typed(x) /\ Calm(x) /\ Held(x) /\ Filled(x)

\* The terminator makes it what a function returns.
LEMMA EndIt ==
  ASSUME NEW x, Whole(x), NEW y, y = Terminate(x, x.len)
  PROVE  Fine(y) /\ Kept(x, x.len, y) /\ Len(y.buf) = Len(x.buf)
<1>1. x.len \in Nat /\ x.alloc \in Nat /\ Len(x.buf) \in Nat
  BY DEF Whole, Typed, Strings
<1>2. /\ Typed(y) /\ y.type = x.type /\ y.len = x.len /\ y.alloc = x.alloc
      /\ Len(y.buf) = Len(x.buf)
      /\ \A p \in 1..Len(x.buf) : y.buf[p] = IF p = x.len + 1 THEN NUL ELSE x.buf[p]
      /\ y.astray = IF x.astray = "no" /\ x.len + 1 > Len(x.buf) THEN "past" ELSE x.astray
  BY <1>1, TerminateFacts DEF Whole
<1>3. x.len + 1 <= Len(x.buf) /\ Held(y) /\ Calm(y)
  BY <1>1, <1>2 DEF Whole, Held, Calm, sdsalloc
<1>4. \A p \in 1..x.len : p \in 1..Len(x.buf) /\ p # x.len + 1
  BY <1>1, <1>3
<1>5. Filled(y)
  BY <1>2, <1>4 DEF Whole, Filled
<1>6. Ended(y)
  BY <1>1, <1>2, <1>3 DEF Ended
<1>7. Kept(x, x.len, y)
  BY <1>2, <1>4 DEF Kept
<1> QED
  BY <1>2, <1>3, <1>5, <1>6, <1>7 DEF Fine

\* The block has n characters and room for them, whatever the header says.
Ready(x, n) ==
  /\ Typed(x) /\ Calm(x) /\ n \in Nat /\ n <= TypeMax[x.type] /\ n + 1 <= Len(x.buf)
  /\ x.type # 0 => n <= x.alloc /\ x.alloc + 1 <= Len(x.buf)
  /\ \A p \in 1..n : x.buf[p] \in Char

\* Then it has them once the length is written.
LEMMA LengthSet ==
  ASSUME NEW x, NEW n, Ready(x, n), NEW y, y = sdssetlen(x, n)
  PROVE  Whole(y) /\ y.len = n /\ y.buf = x.buf /\ y.type = x.type /\ y.alloc = x.alloc
<1>1. n \in Nat /\ Typed(x) /\ n <= TypeMax[x.type]
  BY DEF Ready
<1>2. /\ Typed(y) /\ y.type = x.type /\ y.alloc = x.alloc /\ y.buf = x.buf
      /\ n <= TypeMax[x.type] => y.len = n
      /\ y.astray = IF x.astray = "no" /\ x.type = 0 /\ n # 0 THEN "before" ELSE x.astray
  BY <1>1, SetLenFacts
<1>3. y.len = n
  BY <1>1, <1>2
<1>4. Calm(y)
  BY <1>2 DEF Ready, Calm
<1>5. Held(y)
  BY <1>1, <1>2, <1>3 DEF Ready, Held, sdsalloc
<1>6. Filled(y)
  BY <1>2, <1>3 DEF Ready, Filled
<1> QED
  BY <1>2, <1>3, <1>4, <1>5, <1>6 DEF Whole

\* The three orders in which the functions finish a text.
LEMMA LengthThenEnd ==
  ASSUME NEW x, NEW n, Ready(x, n), NEW y, y = Terminate(sdssetlen(x, n), n)
  PROVE  Fine(y) /\ Kept(x, n, y)
<1>1. PICK l : l = sdssetlen(x, n)
  OBVIOUS
<1>2. Whole(l) /\ l.len = n /\ l.buf = x.buf
  BY <1>1, LengthSet
<1>3. y = Terminate(l, l.len)
  BY <1>1, <1>2
<1>4. Fine(y) /\ Kept(l, l.len, y)
  BY <1>2, <1>3, EndIt
<1> QED
  BY <1>2, <1>4 DEF Kept

LEMMA EndedLength ==
  ASSUME NEW x, NEW n, Ready(x, n), x.buf[n + 1] = NUL, NEW y, y = sdssetlen(x, n)
  PROVE  Fine(y) /\ Kept(x, n, y)
<1>1. Whole(y) /\ y.len = n /\ y.buf = x.buf
  BY LengthSet
<1> QED
  BY <1>1 DEF Whole, Fine, Ended, Kept

LEMMA EndThenLength ==
  ASSUME NEW x, NEW n, Ready(x, n), NEW y, y = sdssetlen(Terminate(x, n), n)
  PROVE  Fine(y) /\ Kept(x, n, y)
<1>1. PICK e : e = Terminate(x, n)
  OBVIOUS
<1>2. n \in Nat /\ Typed(x) /\ x.alloc \in Nat /\ Len(x.buf) \in Nat /\ n + 1 <= Len(x.buf)
  BY DEF Ready, Typed, Strings
<1>3. /\ Typed(e) /\ e.type = x.type /\ e.len = x.len /\ e.alloc = x.alloc
      /\ Len(e.buf) = Len(x.buf)
      /\ \A p \in 1..Len(x.buf) : e.buf[p] = IF p = n + 1 THEN NUL ELSE x.buf[p]
      /\ e.astray = IF x.astray = "no" /\ n + 1 > Len(x.buf) THEN "past" ELSE x.astray
  BY <1>1, <1>2, TerminateFacts
<1>4. Calm(e) /\ e.buf[n + 1] = NUL
  BY <1>2, <1>3 DEF Ready, Calm
<1>5. \A p \in 1..n : e.buf[p] = x.buf[p] /\ e.buf[p] \in Char
  <2>1. \A p \in 1..n : p \in 1..Len(x.buf) /\ p # n + 1
    BY <1>2
  <2> QED
    BY <1>3, <2>1 DEF Ready
<1>6. Ready(e, n)
  BY <1>2, <1>3, <1>4, <1>5 DEF Ready
<1>7. Fine(y) /\ Kept(e, n, y)
  BY <1>1, <1>4, <1>6, EndedLength
<1> QED
  BY <1>5, <1>7 DEF Kept

-----------------------------------------------------------------------------
(* Room.                                                                   *)

\* There is room for addlen characters more.
RoomMade(x, addlen, y) ==
  /\ Typed(y) /\ y.astray \in {"no", "wild"} /\ Held(y) /\ y.len = x.len
  /\ sdsavail(y) >= addlen
  /\ x.len + addlen <= TypeMax[y.type] /\ x.len + addlen + 1 <= Len(y.buf)
  /\ \A p \in 1..(x.len + 1) : y.buf[p] = x.buf[p]

LEMMA MadeRoomFacts ==
  ASSUME NEW x, Whole(x), x.astray = "no", NEW addlen \in Nat, NEW greedy \in BOOLEAN, NEW slack \in Slack,
         x.len + addlen + MaxPrealloc <= TypeMax[4], NEW y, y = MadeRoom(x, addlen, greedy, slack)
  PROVE  RoomMade(x, addlen, y)
<1> DEFINE newlen == NewLen(x.len + addlen, greedy)
           type == RoomyType(newlen)
           room == newlen + slack
           kept == IF type = x.type THEN Len(x.buf) ELSE x.len + 1
           buf == Resized(x.buf, kept, room + 1)
           moved == [x EXCEPT !.type = type, !.buf = buf]
           made == IF sdsavail(x) >= addlen THEN x ELSE [moved EXCEPT !.alloc = Smaller(room, TypeMax[type])]
<1>0. /\ x.len \in Nat /\ x.alloc \in Nat /\ Len(x.buf) \in Nat /\ x.buf \in Seq(Cell) /\ x.type \in Types
      /\ x.len <= TypeMax[x.type] /\ x.alloc <= TypeMax[x.type] /\ TypeMax[x.type] \in Nat
      /\ x \in Strings /\ Held(x)
  BY Assumed DEF Whole, Typed, Strings, Assumptions
<1>1. slack \in Nat /\ MaxPrealloc \in Nat /\ MaxPrealloc > 0 /\ TypeMax[4] \in Nat
  BY Assumed DEF Assumptions, Types
<1>2. newlen \in Nat /\ newlen >= x.len + addlen /\ newlen <= TypeMax[4]
  BY SMTT(30), <1>0, <1>1 DEF NewLen
<1>3. type \in Types /\ type # 0 /\ newlen <= TypeMax[type] /\ TypeMax[type] \in Nat
  BY <1>2, Roomy, Assumed DEF Assumptions
<1>4. x.len + 1 <= Len(x.buf)
  BY <1>0 DEF Held, sdsalloc
<1> HIDE DEF newlen, type
<1>5. kept \in Nat /\ kept >= x.len + 1 /\ room \in Nat /\ room + 1 \in Nat /\ room >= newlen
  BY SMTT(30), <1>0, <1>1, <1>2, <1>4
<1> HIDE DEF kept
<1>6. /\ buf \in Seq(Cell) /\ Len(buf) = room + 1
      /\ \A p \in 1..(room + 1) : p <= kept /\ p <= Len(x.buf) => buf[p] = x.buf[p]
  <2>1. PICK n : n = room + 1
    OBVIOUS
  <2> HIDE DEF room
  <2>2. n \in Nat /\ buf = Resized(x.buf, kept, n)
    BY <1>5, <2>1
  <2> HIDE DEF buf
  <2>3. Fits(x.buf, kept, n, buf)
    BY <1>0, <1>5, <2>2, ResizedFacts
  <2> QED
    BY <2>1, <2>3 DEF Fits
<1> HIDE DEF buf
<1>7. RoomMade(x, addlen, made) /\ made.astray = "no"
  <2>1. CASE sdsavail(x) >= addlen
    <3>1. made = x
      BY <2>1
    <3>2. x.len + addlen <= TypeMax[x.type] /\ x.len + addlen + 1 <= Len(x.buf)
      BY SMTT(30), <1>0, <2>1 DEF Held, sdsalloc, sdsavail
    <3> QED
      BY <1>0, <2>1, <3>1, <3>2 DEF RoomMade, Whole
  <2>2. CASE ~(sdsavail(x) >= addlen)
    <3>1. made = [moved EXCEPT !.alloc = Smaller(room, TypeMax[type])]
      BY <2>2
    <3>2. Smaller(room, TypeMax[type]) \in Nat /\ Smaller(room, TypeMax[type]) <= TypeMax[type]
          /\ Smaller(room, TypeMax[type]) <= room /\ Smaller(room, TypeMax[type]) >= newlen
      BY <1>1, <1>2, <1>3 DEF Smaller
    <3> HIDE DEF room
    <3>3. /\ made \in Strings /\ made.type = type /\ made.len = x.len /\ made.buf = buf
          /\ made.alloc = Smaller(room, TypeMax[type]) /\ made.astray = "no"
      BY <1>0, <1>3, <1>6, <3>1, <3>2 DEF Strings
    <3> HIDE DEF made
    <3>4. x.len + addlen <= made.alloc /\ made.alloc + 1 <= Len(made.buf) /\ made.alloc <= TypeMax[made.type]
          /\ x.len + addlen <= TypeMax[made.type] /\ x.len + addlen + 1 <= Len(made.buf)
      BY SMTT(30), <1>0, <1>2, <1>3, <1>5, <1>6, <3>2, <3>3
    <3>5. Typed(made) /\ Held(made) /\ sdsavail(made) >= addlen
      BY <1>0, <1>3, <3>2, <3>3, <3>4 DEF Typed, Held, sdsalloc, sdsavail
    <3>6. \A p \in 1..(x.len + 1) : made.buf[p] = x.buf[p]
      <4>1. \A p \in 1..(x.len + 1) : p \in 1..(room + 1) /\ p <= kept /\ p <= Len(x.buf)
        BY SMTT(30), <1>0, <1>2, <1>4, <1>5, <1>6, <3>3, <3>4
      <4> QED
        BY <1>6, <3>3, <4>1
    <3> QED
      BY <3>3, <3>4, <3>5, <3>6 DEF RoomMade
  <2> QED
    BY <2>1, <2>2
<1>8. y = IF WidePointers THEN Astray(made, "wild") ELSE made
  BY DEF MadeRoom, newlen, type, room, kept, buf
<1> HIDE DEF made
<1>9. CASE WidePointers
  <2>1. y = Astray(made, "wild")
    BY <1>8, <1>9
  <2>2. /\ Typed(y) /\ y.type = made.type /\ y.len = made.len /\ y.alloc = made.alloc /\ y.buf = made.buf
        /\ y.astray = IF made.astray = "no" THEN "wild" ELSE made.astray
    BY <1>7, <2>1, AstrayFacts DEF RoomMade
  <2> QED
    BY <1>7, <2>2 DEF RoomMade, Held, sdsalloc, sdsavail
<1>10. CASE ~WidePointers
  BY <1>7, <1>8, <1>10
<1> QED
  BY <1>9, <1>10

\* sdsResize writes len and alloc of the new header last; it might have come first.
LEMMA AllocFirst ==
  ASSUME NEW x \in Strings, NEW n \in Nat, NEW size \in Nat, NEW z, z = [sdssetalloc(x, size) EXCEPT !.len = n]
  PROVE  sdssetalloc(sdssetlen(Terminate(x, n), n), size) = sdssetlen(Terminate(z, n), n)
<1> DEFINE buf == [p \in DOMAIN x.buf |-> IF p - n \in DOMAIN <<NUL>> THEN <<NUL>>[p - n] ELSE x.buf[p]]
           past == n + Len(<<NUL>>) > Len(x.buf)
           alloc == IF x.type = 0 THEN 0 ELSE Field(x.type, size)
           len == Field(x.type, n)
           ended == IF past /\ x.astray = "no" THEN "past" ELSE x.astray
           astray == IF x.type = 0 /\ n # 0 /\ ended = "no" THEN "before" ELSE ended
           done == [type |-> x.type, len |-> len, alloc |-> alloc, buf |-> buf, astray |-> astray]
<1>0. x = [type |-> x.type, len |-> x.len, alloc |-> x.alloc, buf |-> x.buf, astray |-> x.astray]
  BY DEF Strings
<1>1. PICK m : m = Terminate(x, n)
  OBVIOUS
<1>2. m = [type |-> x.type, len |-> x.len, alloc |-> x.alloc, buf |-> buf, astray |-> ended]
  <2>1. m = IF past THEN Astray([x EXCEPT !.buf = buf], "past") ELSE [x EXCEPT !.buf = buf]
    BY <1>1, Zenon DEF Terminate, Write
  <2> HIDE DEF buf, past
  <2> QED
    BY <1>0, <2>1 DEF Astray
<1>3. z = [type |-> x.type, len |-> n, alloc |-> alloc, buf |-> x.buf, astray |-> x.astray]
  BY <1>0 DEF sdssetalloc
<1>4. PICK w : w = Terminate(z, n)
  OBVIOUS
<1>5. w = [type |-> x.type, len |-> n, alloc |-> alloc, buf |-> buf, astray |-> ended]
  <2>1. z.buf = x.buf /\ z.astray = x.astray
    BY <1>3
  <2> DEFINE b == [p \in DOMAIN z.buf |-> IF p - n \in DOMAIN <<NUL>> THEN <<NUL>>[p - n] ELSE z.buf[p]]
  <2>2. w = IF n + Len(<<NUL>>) > Len(z.buf) THEN Astray([z EXCEPT !.buf = b], "past") ELSE [z EXCEPT !.buf = b]
    BY <1>4, Zenon DEF Terminate, Write
  <2>3. b = buf
    BY <2>1
  <2> HIDE DEF b
  <2>4. PICK e : e = [z EXCEPT !.buf = b]
    OBVIOUS
  <2>5. w = IF past THEN Astray(e, "past") ELSE e
    <3>1. w = IF n + Len(<<NUL>>) > Len(z.buf) THEN Astray(e, "past") ELSE e
      BY <2>2, <2>4, Zenon
    <3> QED
      BY <2>1, <3>1
  <2> HIDE DEF buf, past, alloc
  <2>6. e = [type |-> x.type, len |-> n, alloc |-> alloc, buf |-> buf, astray |-> x.astray]
    BY <1>3, <2>3, <2>4
  <2> QED
    BY <2>5, <2>6 DEF Astray
<1> HIDE DEF buf, past, alloc
<1>6. sdssetlen(w, n) = done
  BY <1>5 DEF sdssetlen, Astray
<1>7. PICK l : l = sdssetlen(m, n)
  OBVIOUS
<1>8. l = [type |-> x.type, len |-> len, alloc |-> x.alloc, buf |-> buf, astray |-> astray]
  BY <1>2, <1>7 DEF sdssetlen, Astray
<1>9. sdssetalloc(l, size) = done
  BY <1>8 DEF sdssetalloc, alloc
<1> QED
  BY <1>1, <1>4, <1>6, <1>7, <1>9

-----------------------------------------------------------------------------
(* What the functions return.                                              *)

\* The number of cells is nothing but what the block has.
LEMMA FineFields ==
  ASSUME NEW x, Fine(x)
  PROVE  /\ x \in Strings /\ Typed(x) /\ x.type \in Types /\ x.len \in Nat /\ x.alloc \in Nat
         /\ x.buf \in Seq(Cell) /\ Len(x.buf) \in Nat /\ TypeMax[x.type] \in Nat
         /\ x.len <= TypeMax[x.type] /\ x.alloc <= TypeMax[x.type]
         /\ x.astray = "no" => x.len + 1 <= Len(x.buf)
BY SMTT(30), Assumed DEF Fine, Typed, Strings, Held, sdsalloc, Assumptions

LEMMA FineWhole == \A x : Fine(x) /\ x.astray = "no" => Whole(x)
BY DEF Fine, Whole

\* A fine string is ready for any length it has already.
LEMMA FineReady ==
  ASSUME NEW x, Fine(x), x.astray = "no", NEW n \in 0..x.len
  PROVE  Ready(x, n)
<1>1. /\ x.len \in Nat /\ x.alloc \in Nat /\ Len(x.buf) \in Nat /\ TypeMax[x.type] \in Nat
      /\ x.len <= TypeMax[x.type] /\ x.len + 1 <= Len(x.buf)
  BY FineFields
<1>2. n \in Nat /\ n <= x.len /\ \A p \in 1..n : p \in 1..x.len
  BY <1>1
<1>3. \A p \in 1..n : x.buf[p] \in Char
  BY <1>2 DEF Fine, Filled
<1> QED
  BY <1>1, <1>2, <1>3 DEF Ready, Fine, Held, sdsalloc

\* With room made, the string is ready for the text written behind its own.
Appended(x, addlen, r, t, y) ==
  /\ Ready(y, x.len + addlen) /\ Len(y.buf) = Len(r.buf)
  /\ y.len = x.len /\ y.type = r.type /\ y.alloc = r.alloc /\ y.astray = r.astray
  /\ \A p \in 1..x.len : y.buf[p] = x.buf[p]
  /\ \A p \in 1..Len(t) : y.buf[x.len + p] = t[p]

LEMMA AppendReady ==
  ASSUME NEW x, Whole(x), NEW t \in Seq(Char), NEW addlen \in Nat,
         addlen <= Len(t), Len(t) <= addlen + 1, NEW r, RoomMade(x, addlen, r), NEW y, y = Write(r, x.len, t)
  PROVE  Appended(x, addlen, r, t, y)
<1>1. /\ x.len \in Nat /\ Typed(r) /\ r.astray \in {"no", "wild"} /\ Len(r.buf) \in Nat /\ r.alloc \in Nat
      /\ x.len + addlen <= TypeMax[r.type] /\ x.len + addlen + 1 <= Len(r.buf) /\ r.len = x.len
  BY DEF Whole, RoomMade, Typed, Strings
<1>2. t \in Seq(Cell)
  BY DEF Cell
<1>3. Written(r, x.len, t, y)
  BY <1>1, <1>2, WriteFacts
<1>4. Calm(y) /\ y.astray = r.astray
  BY <1>1, <1>3 DEF Written, Calm
<1>5. \A p \in 1..(x.len + addlen) : y.buf[p] \in Char /\ (p <= x.len => y.buf[p] = x.buf[p])
  <2> SUFFICES ASSUME NEW p \in 1..(x.len + addlen)
               PROVE  y.buf[p] \in Char /\ (p <= x.len => y.buf[p] = x.buf[p])
    OBVIOUS
  <2>1. p \in 1..Len(r.buf)
    BY <1>1
  <2>2. y.buf[p] = IF p - x.len \in 1..Len(t) THEN t[p - x.len] ELSE r.buf[p]
    BY <1>3, <2>1 DEF Written
  <2>3. CASE p <= x.len
    <3>1. p - x.len \notin 1..Len(t) /\ p \in 1..(x.len + 1) /\ p \in 1..x.len
      BY <1>1, <2>3
    <3>2. r.buf[p] = x.buf[p]
      BY <3>1 DEF RoomMade
    <3> QED
      BY <2>2, <3>1, <3>2 DEF Whole, Filled
  <2>4. CASE ~(p <= x.len)
    BY <1>1, <2>2, <2>4
  <2> QED
    BY <2>3, <2>4
<1>6. y.type # 0 => x.len + addlen <= y.alloc /\ y.alloc + 1 <= Len(y.buf)
  BY <1>1, <1>3 DEF Written, RoomMade, Held, sdsalloc, sdsavail
<1>7. ASSUME NEW p \in 1..Len(t) PROVE y.buf[x.len + p] = t[p]
  <2>1. x.len + p \in 1..Len(r.buf) /\ (x.len + p) - x.len = p
    BY <1>1
  <2> QED
    BY <1>3, <2>1 DEF Written
<1>8. /\ Typed(y) /\ y.type = r.type /\ y.len = x.len /\ y.alloc = r.alloc /\ Len(y.buf) = Len(r.buf)
      /\ x.len + addlen \in Nat
  BY <1>1, <1>3 DEF Written
<1>9. Ready(y, x.len + addlen)
  BY <1>1, <1>4, <1>5, <1>6, <1>8 DEF Ready
<1>10. \A p \in 1..x.len : y.buf[p] = x.buf[p]
  <2>1. \A p \in 1..x.len : p \in 1..(x.len + addlen) /\ p <= x.len
    BY <1>1
  <2> QED
    BY <1>5, <2>1
<1> QED
  BY <1>4, <1>7, <1>8, <1>9, <1>10 DEF Appended

\* What keeps it all is the longer text.
LEMMA AppendedLonger ==
  ASSUME NEW x, x.len \in Nat, NEW n \in Nat, NEW r, NEW t, Len(t) = n, NEW w, Appended(x, n, r, t, w),
         NEW y, Kept(w, x.len + n, y)
  PROVE  Longer(x, t, y)
<1>1. ASSUME NEW p \in 1..x.len PROVE y.buf[p] = x.buf[p]
  <2>1. p \in 1..(x.len + n)
    OBVIOUS
  <2> QED
    BY <2>1 DEF Kept, Appended
<1>2. ASSUME NEW p \in 1..Len(t) PROVE y.buf[x.len + p] = t[p]
  <2>1. x.len + p \in 1..(x.len + n)
    OBVIOUS
  <2> QED
    BY <2>1 DEF Kept, Appended
<1> QED
  BY <1>1, <1>2 DEF Longer, Kept

\* So is a string whose text is overwritten from the front.
LEMMA OverwriteReady ==
  ASSUME NEW r, Typed(r), Calm(r), NEW t \in Seq(Char), NEW n, n = Len(t),
         n <= TypeMax[r.type], n + 1 <= Len(r.buf), r.type # 0 => n <= r.alloc /\ r.alloc + 1 <= Len(r.buf),
         NEW y, y = Write(r, 0, t)
  PROVE  Ready(y, n) /\ \A p \in 1..n : y.buf[p] = t[p]
<1>1. n \in Nat /\ Len(r.buf) \in Nat /\ r.alloc \in Nat
  BY DEF Typed, Strings
<1>2. t \in Seq(Cell)
  BY DEF Cell
<1>3. Written(r, 0, t, y)
  BY <1>2, WriteFacts
<1>4. Calm(y)
  BY <1>1, <1>3 DEF Written, Calm
<1>5. \A p \in 1..n : y.buf[p] \in Char /\ y.buf[p] = t[p]
  <2> SUFFICES ASSUME NEW p \in 1..n PROVE y.buf[p] \in Char /\ y.buf[p] = t[p]
    OBVIOUS
  <2>1. p \in 1..Len(r.buf) /\ p - 0 = p
    BY <1>1
  <2> QED
    BY <1>3, <2>1 DEF Written
<1> QED
  BY <1>1, <1>3, <1>4, <1>5 DEF Written, Ready

\* _sdsnewlen.
LEMMA CreatedFine ==
  ASSUME NEW t \in Seq(Char), Len(t) <= MaxLen, NEW slack \in Slack, NEW y, y = Created(t, slack)
  PROVE  Fine(y) /\ Reads(y, t)
<1> DEFINE type == IF t = << >> THEN 1 ELSE sdsReqType(Len(t))
           room == Len(t) + slack
           alloc == IF type = 0 THEN 0 ELSE Smaller(room, TypeMax[type])
           buf == Resized(t \o <<NUL>>, Len(t) + 1, room + 1)
<1>0. /\ Len(t) \in Nat /\ slack \in Nat /\ Len(t) <= TypeMax[4] /\ NUL \in Char
      /\ \A u \in Types : TypeMax[u] \in Nat
  BY Assumed DEF Assumptions, Types
<1>1. type \in Types /\ Len(t) <= TypeMax[type] /\ TypeMax[type] \in Nat
  <2>1. 1 \in Types /\ (t = << >> => Len(t) = 0)
    BY DEF Types
  <2>2. sdsReqType(Len(t)) \in Types /\ Len(t) <= TypeMax[sdsReqType(Len(t))]
    BY <1>0, ReqType
  <2> QED
    BY <1>0, <2>1, <2>2
<1>2. PICK b, k, n : b = t \o <<NUL>> /\ k = Len(t) + 1 /\ n = room + 1
  OBVIOUS
<1>3. b \in Seq(Cell) /\ Len(b) = Len(t) + 1 /\ b[Len(t) + 1] = NUL /\ \A p \in 1..Len(t) : b[p] = t[p]
  BY <1>0, <1>2 DEF Cell
<1>4. k \in Nat /\ n \in Nat /\ k <= n
  BY <1>0, <1>2
<1>5. Fits(b, k, n, buf)
  <2>1. buf = Resized(b, k, n)
    BY <1>2
  <2> HIDE DEF buf, room
  <2> QED
    BY <1>3, <1>4, <2>1, ResizedFacts
<1> HIDE DEF type, buf
<1>6. alloc \in Nat /\ alloc <= TypeMax[type] /\ (type # 0 => alloc <= room /\ Len(t) <= alloc)
  BY <1>0, <1>1 DEF Smaller
<1>7. y = [type |-> type, len |-> Len(t), alloc |-> alloc, buf |-> buf, astray |-> "no"]
  BY DEF Created, type, buf
<1> HIDE DEF alloc
<1>8. Typed(y)
  BY <1>0, <1>1, <1>5, <1>6, <1>7 DEF Typed, Strings, Fits
<1>9. Held(y)
  BY <1>0, <1>1, <1>2, <1>4, <1>5, <1>6, <1>7 DEF Held, sdsalloc, Fits
<1>10. \A p \in 1..(Len(t) + 1) : y.buf[p] = b[p]
  <2>1. \A p \in 1..(Len(t) + 1) : p \in 1..n /\ p <= k /\ p <= Len(b)
    BY <1>0, <1>2, <1>3, <1>4
  <2> QED
    BY <1>5, <1>7, <2>1 DEF Fits
<1>11. Filled(y) /\ Ended(y)
  <2>1. \A p \in 1..Len(t) : p \in 1..(Len(t) + 1) /\ t[p] \in Char
    BY <1>0
  <2>2. Len(t) + 1 \in 1..(Len(t) + 1)
    BY <1>0
  <2> QED
    BY <1>3, <1>7, <1>10, <2>1, <2>2 DEF Filled, Ended
<1>12. Reads(y, t)
  <2>1. \A p \in 1..Len(t) : p \in 1..(Len(t) + 1)
    BY <1>0
  <2> QED
    BY <1>3, <1>7, <1>10, <2>1 DEF Reads
<1> QED
  BY <1>7, <1>8, <1>9, <1>11, <1>12 DEF Fine, Calm

\* sdscatlen.
LEMMA CatFine ==
  ASSUME NEW x, Fine(x), x.astray = "no", NEW t \in Seq(Char), NEW slack \in Slack,
         x.len + Len(t) + MaxPrealloc <= TypeMax[4], NEW y, y = Cat(x, t, slack)
  PROVE  Fine(y) /\ Longer(x, t, y)
<1>1. PICK n : n = Len(t)
  OBVIOUS
<1>2. n \in Nat /\ x.len \in Nat
  BY <1>1, FineFields
<1>3. PICK r : r = MadeRoom(x, n, TRUE, slack)
  OBVIOUS
<1>4. RoomMade(x, n, r)
  BY <1>1, <1>2, <1>3, FineWhole, MadeRoomFacts
<1>5. PICK w : w = Write(r, x.len, t)
  OBVIOUS
<1>6. Appended(x, n, r, t, w)
  <2>1. n <= Len(t) /\ Len(t) <= n + 1
    BY <1>1, <1>2
  <2> QED
    BY <1>2, <1>4, <1>5, <2>1, FineWhole, AppendReady
<1>7. y = Terminate(sdssetlen(w, x.len + n), x.len + n)
  BY <1>1, <1>3, <1>5 DEF Cat
<1>8. Fine(y) /\ Kept(w, x.len + n, y)
  BY <1>6, <1>7, LengthThenEnd DEF Appended
<1> QED
  BY <1>1, <1>2, <1>6, <1>8, AppendedLonger

\* sdscpylen.
LEMMA CopiedFine ==
  ASSUME NEW x, Fine(x), x.astray = "no", NEW t \in Seq(Char), NEW slack \in Slack,
         Len(t) + MaxPrealloc <= TypeMax[4], NEW y, y = Copied(x, t, slack)
  PROVE  Fine(y) /\ Reads(y, t)
<1>1. PICK n : n = Len(t)
  OBVIOUS
<1>2. /\ n \in Nat /\ x.len \in Nat /\ x.alloc \in Nat /\ Len(x.buf) \in Nat /\ x.len <= TypeMax[x.type]
      /\ x.alloc <= TypeMax[x.type] /\ TypeMax[x.type] \in Nat /\ Typed(x) /\ Held(x)
  BY <1>1, FineFields DEF Fine
<1>3. PICK r : r = IF sdsalloc(x) < n THEN MadeRoom(x, n - x.len, TRUE, slack) ELSE x
  OBVIOUS
<1>4. /\ Typed(r) /\ Calm(r) /\ n <= TypeMax[r.type] /\ n + 1 <= Len(r.buf)
      /\ r.type # 0 => n <= r.alloc /\ r.alloc + 1 <= Len(r.buf)
  <2>1. CASE sdsalloc(x) < n
    <3>1. PICK m : m = n - x.len
      OBVIOUS
    <3>2. m \in Nat /\ x.len + m = n
      BY <1>2, <2>1, <3>1 DEF Held, sdsalloc
    <3>3. RoomMade(x, m, r)
      <4>1. r = MadeRoom(x, m, TRUE, slack) /\ x.len + m + MaxPrealloc <= TypeMax[4]
        BY <1>1, <1>3, <2>1, <3>1, <3>2
      <4> QED
        BY <3>2, <4>1, FineWhole, MadeRoomFacts
    <3>4. PICK ra, rl, rb, xl : ra = r.alloc /\ rl = r.len /\ rb = Len(r.buf) /\ xl = x.len
      OBVIOUS
    <3>5. ra \in Nat /\ rl \in Nat /\ rb \in Nat /\ rl = xl /\ xl + m = n
      BY <3>2, <3>3, <3>4 DEF RoomMade, Typed, Strings
    <3>6. Typed(r) /\ Calm(r)
      BY <3>3 DEF RoomMade, Calm
    <3>7. n <= TypeMax[r.type] /\ n + 1 <= rb
      BY <3>3, <3>4, <3>5 DEF RoomMade
    <3>8. CASE r.type # 0
      <4>1. ra - rl >= m /\ ra + 1 <= rb
        BY <3>3, <3>4, <3>8 DEF RoomMade, Held, sdsalloc, sdsavail
      <4>2. n <= ra
        BY <1>2, <3>2, <3>5, <4>1
      <4> QED
        BY <3>4, <3>6, <3>7, <4>1, <4>2
    <3> QED
      BY <3>4, <3>6, <3>7, <3>8
  <2>2. CASE ~(sdsalloc(x) < n)
    BY SMTT(30), <1>2, <1>3, <2>2 DEF Fine, Held, sdsalloc
  <2> QED
    BY <2>1, <2>2
<1>5. PICK w : w = Write(r, 0, t)
  OBVIOUS
<1>6. Ready(w, n) /\ \A p \in 1..n : w.buf[p] = t[p]
  BY <1>1, <1>4, <1>5, OverwriteReady
<1>7. y = sdssetlen(Terminate(w, n), n)
  BY <1>1, <1>3, <1>5 DEF Copied
<1>8. Fine(y) /\ Kept(w, n, y)
  BY <1>6, <1>7, EndThenLength
<1> QED
  BY <1>1, <1>6, <1>8 DEF Kept, Reads

\* sdsgrowzero.
LEMMA ZeroedFine ==
  ASSUME NEW x, Fine(x), x.astray = "no", NEW len \in Nat, NEW slack \in Slack,
         len + MaxPrealloc <= TypeMax[4], NEW y, y = Zeroed(x, len, slack)
  PROVE  /\ Fine(y)
         /\ len < x.len => y = x
         /\ ~(len < x.len) => Longer(x, [p \in 1..(len - x.len) |-> NUL], y)
<1>1. CASE len < x.len
  BY <1>1 DEF Zeroed
<1>2. CASE ~(len < x.len)
  <2>1. PICK n : n = len - x.len
    OBVIOUS
  <2>2. n \in Nat /\ x.len \in Nat /\ x.len + n = len /\ n + 1 \in Nat
    BY <1>2, <2>1, FineFields
  <2>3. PICK r : r = MadeRoom(x, n, TRUE, slack)
    OBVIOUS
  <2>4. RoomMade(x, n, r)
    BY <2>2, <2>3, FineWhole, MadeRoomFacts
  <2>5. PICK t : t = [p \in 1..(n + 1) |-> NUL]
    OBVIOUS
  <2>6. t \in Seq(Char) /\ Len(t) = n + 1 /\ t[n + 1] = NUL
    <3>1. NUL \in Char
      BY Assumed DEF Assumptions
    <3> QED
      BY <2>2, <2>5, <3>1
  <2>7. PICK w : w = Write(r, x.len, t)
    OBVIOUS
  <2>8. Appended(x, n, r, t, w)
    <3>1. n <= Len(t) /\ Len(t) <= n + 1
      BY <2>2, <2>6
    <3> QED
      BY <2>2, <2>4, <2>6, <2>7, <3>1, FineWhole, AppendReady
  <2>9. w.buf[x.len + (n + 1)] = NUL /\ x.len + (n + 1) = len + 1
    <3>1. n + 1 \in 1..Len(t)
      BY <2>2, <2>6
    <3> QED
      BY <2>2, <2>6, <2>8, <3>1 DEF Appended
  <2>10. y = sdssetlen(w, len)
    BY <1>2, <2>1, <2>3, <2>5, <2>7 DEF Zeroed
  <2>11. Fine(y) /\ Kept(w, x.len + n, y)
    BY <2>2, <2>8, <2>9, <2>10, EndedLength DEF Appended
  <2>12. PICK z : z = [p \in 1..n |-> NUL]
    OBVIOUS
  <2>13. Len(z) = n /\ \A p \in 1..n : z[p] = NUL /\ t[p] = NUL
    BY <2>2, <2>5, <2>12
  <2>14. Appended(x, n, r, z, w)
    <3>1. \A p \in 1..n : p \in 1..Len(t)
      BY <2>2, <2>6
    <3> QED
      BY <2>8, <2>13, <3>1 DEF Appended
  <2>15. Longer(x, z, y)
    BY <2>2, <2>11, <2>13, <2>14, AppendedLonger
  <2> QED
    BY <1>2, <2>1, <2>11, <2>12, <2>15
<1> QED
  BY <1>1, <1>2

\* _sdsMakeRoomFor.
LEMMA MadeRoomFine ==
  ASSUME NEW x, Fine(x), x.astray = "no", NEW addlen \in Nat, NEW greedy \in BOOLEAN, NEW slack \in Slack,
         x.len + addlen + MaxPrealloc <= TypeMax[4], NEW y, y = MadeRoom(x, addlen, greedy, slack)
  PROVE  Fine(y) /\ RoomMade(x, addlen, y) /\ Kept(x, x.len, y)
<1>1. RoomMade(x, addlen, y)
  BY FineWhole, MadeRoomFacts
<1>2. x.len \in Nat /\ y.len = x.len
  BY <1>1, FineFields DEF RoomMade
<1>3. \A p \in 1..x.len : p \in 1..(x.len + 1)
  BY <1>2
<1>4. x.len + 1 \in 1..(x.len + 1)
  BY <1>2
<1>5. Filled(y)
  BY <1>1, <1>2, <1>3 DEF RoomMade, Filled, Fine
<1>6. Ended(y)
  BY <1>1, <1>2, <1>4 DEF RoomMade, Ended, Fine
<1>7. Kept(x, x.len, y)
  BY <1>1, <1>2, <1>3 DEF RoomMade, Kept
<1> QED
  BY <1>1, <1>5, <1>6, <1>7 DEF RoomMade, Fine, Calm

\* The text of y is that of x from position start on, len characters of it.
Cut(x, start, len, y) == y.len = len /\ \A p \in 1..len : y.buf[p] = x.buf[start + p]

\* The function that sdssubstr, sdsrange and sdstrim share.
LEMMA MovedFine ==
  ASSUME NEW x, Fine(x), x.astray = "no", NEW start \in Nat, NEW len \in Nat, start + len <= x.len,
         NEW y, y = Moved(x, start, len)
  PROVE  Fine(y) /\ Cut(x, start, len, y)
<1>1. /\ x.len \in Nat /\ x.alloc \in Nat /\ x.buf \in Seq(Cell) /\ Len(x.buf) \in Nat /\ Typed(x)
      /\ TypeMax[x.type] \in Nat /\ x.len <= TypeMax[x.type] /\ x.len + 1 <= Len(x.buf) /\ Calm(x)
  BY FineFields DEF Fine
<1>2. PICK t : t = SubSeq(x.buf, start + 1, start + len)
  OBVIOUS
<1>3. t \in Seq(Char) /\ len = Len(t)
  <2>1. /\ Len(t) = len /\ t \in Seq(Cell)
        /\ \A p \in 1..len : t[p] = x.buf[start + p]
    BY <1>1, <1>2
  <2>2. \A p \in 1..len : start + p \in 1..x.len
    BY <1>1
  <2>3. \A p \in 1..len : t[p] \in Char
    BY <2>1, <2>2 DEF Fine, Filled
  <2> QED
    BY <2>1, <2>3
<1>4. /\ len <= TypeMax[x.type] /\ len + 1 <= Len(x.buf)
      /\ x.type # 0 => len <= x.alloc /\ x.alloc + 1 <= Len(x.buf)
  BY <1>1 DEF Fine, Held, sdsalloc
<1>5. PICK w : w = Write(x, 0, t)
  OBVIOUS
<1>6. Ready(w, len) /\ \A p \in 1..len : w.buf[p] = t[p]
  BY <1>1, <1>3, <1>4, <1>5, OverwriteReady
<1>7. y = sdssetlen(Terminate(w, len), len)
  BY <1>2, <1>5 DEF Moved
<1>8. Fine(y) /\ Kept(w, len, y)
  BY <1>6, <1>7, EndThenLength
<1>9. \A p \in 1..len : t[p] = x.buf[start + p]
  BY <1>1, <1>2
<1> QED
  BY <1>6, <1>8, <1>9 DEF Kept, Cut

\* sdssubstr.
LEMMA SubstrFine ==
  ASSUME NEW x, Fine(x), x.astray = "no", NEW start \in Nat, NEW len \in Nat, NEW y, y = Substr(x, start, len)
  PROVE  /\ Fine(y)
         /\ start >= x.len => Cut(x, 0, 0, y)
         /\ ~(start >= x.len) => Cut(x, start, Smaller(len, x.len - start), y)
<1>1. x.len \in Nat
  BY FineFields
<1>2. CASE start >= x.len
  <2>1. y = Moved(x, 0, 0)
    BY <1>2 DEF Substr
  <2> QED
    BY <1>1, <1>2, <2>1, MovedFine
<1>3. CASE ~(start >= x.len)
  <2>1. PICK n : n = IF len > x.len - start THEN x.len - start ELSE len
    OBVIOUS
  <2>2. n \in Nat /\ start + n <= x.len /\ y = Moved(x, start, n)
    BY <1>1, <1>3, <2>1 DEF Substr
  <2>3. n = Smaller(len, x.len - start)
    BY <1>1, <1>3, <2>1 DEF Smaller
  <2> QED
    BY <1>3, <2>2, <2>3, MovedFine
<1> QED
  BY <1>2, <1>3

\* sdsrange.
LEMMA RangedFine ==
  ASSUME NEW x, Fine(x), x.astray = "no", NEW start \in Int, NEW end \in Int, NEW y, y = Ranged(x, start, end)
  PROVE  Fine(y)
<1>1. x.len \in Nat
  BY FineFields
<1>2. PICK from : from = IF start < 0 THEN x.len + start ELSE start
  OBVIOUS
<1>3. PICK to : to = IF end < 0 THEN x.len + end ELSE end
  OBVIOUS
<1>4. PICK n : n = IF from > to THEN 0 ELSE to - from + 1
  OBVIOUS
<1>5. from \in Int /\ to \in Int /\ n \in Nat
  BY <1>1, <1>2, <1>3, <1>4
<1>6. y = IF x.len = 0 THEN x ELSE IF from < 0 THEN Moved(x, 0, 0) ELSE Substr(x, from, n)
  BY <1>2, <1>3, <1>4 DEF Ranged
<1>7. CASE x.len = 0
  BY <1>6, <1>7
<1>8. CASE x.len # 0 /\ from < 0
  <2>1. y = Moved(x, 0, 0)
    BY <1>6, <1>8
  <2> QED
    BY <1>1, <2>1, MovedFine
<1>9. CASE x.len # 0 /\ ~(from < 0)
  <2>1. from \in Nat /\ y = Substr(x, from, n)
    BY <1>5, <1>6, <1>9
  <2> QED
    BY <1>5, <2>1, SubstrFine
<1> QED
  BY <1>7, <1>8, <1>9

\* A set of positions that is not empty has a first and a last one.
LEMMA FirstAndLast ==
  ASSUME NEW n \in Nat, NEW S \in SUBSET (0..(n - 1)), S # {}
  PROVE  /\ \E p \in S : \A q \in S : p <= q
         /\ \E p \in S : \A q \in S : p >= q
<1>1. S \subseteq Nat
  OBVIOUS
<1>2. PICK p \in S : \A q \in S : p <= q
  BY <1>1, LeastNatural
<1>3. PICK gaps : gaps = {n - x : x \in S}
  OBVIOUS
<1>4. gaps \subseteq Nat /\ gaps # {}
  <2>1. \A x \in S : n - x \in Nat
    OBVIOUS
  <2> QED
    BY <1>3, <2>1
<1>5. PICK g \in gaps : \A h \in gaps : g <= h
  BY <1>4, LeastNatural
<1>6. PICK x \in S : g = n - x
  BY <1>3, <1>5
<1>7. ASSUME NEW q \in S PROVE x >= q
  <2>1. n - q \in gaps
    BY <1>3
  <2>2. n - x <= n - q
    BY <1>5, <1>6, <2>1
  <2> QED
    BY <1>1, <2>2
<1> QED
  BY <1>2, <1>7

\* sdstrim.
LEMMA TrimmedFine ==
  ASSUME NEW x, Fine(x), x.astray = "no", NEW cset, NEW y, y = Trimmed(x, cset)
  PROVE  Fine(y)
<1> DEFINE others == {p \in 0..(x.len - 1) : x.buf[p + 1] \notin cset \union {NUL}}
           sp == CHOOSE p \in others : \A q \in others : p <= q
           ep == CHOOSE p \in others : \A q \in others : p >= q
<1>1. x.len \in Nat
  BY FineFields
<1>2. y = IF others = {} THEN Moved(x, 0, 0) ELSE Moved(x, sp, ep - sp + 1)
  BY DEF Trimmed
<1>3. others \in SUBSET (0..(x.len - 1))
  OBVIOUS
<1> HIDE DEF others
<1>4. CASE others = {}
  <2>1. y = Moved(x, 0, 0)
    BY <1>2, <1>4
  <2> QED
    BY <1>1, <2>1, MovedFine
<1>5. CASE others # {}
  <2>1. /\ \E p \in others : \A q \in others : p <= q
        /\ \E p \in others : \A q \in others : p >= q
    BY <1>1, <1>3, <1>5, FirstAndLast
  <2>2. sp \in others /\ ep \in others /\ sp <= ep
    BY <2>1
  <2> HIDE DEF sp, ep
  <2>3. PICK n : n = ep - sp + 1
    OBVIOUS
  <2>4. sp \in Nat /\ n \in Nat /\ sp + n <= x.len
    BY <1>1, <1>3, <2>2, <2>3
  <2>5. y = Moved(x, sp, n)
    BY <1>2, <1>5, <2>3
  <2> QED
    BY <2>4, <2>5, MovedFine
<1> QED
  BY <1>4, <1>5

\* sdsclear.
LEMMA ClearedFine ==
  ASSUME NEW x, Fine(x), x.astray = "no", NEW y, y = Terminate(sdssetlen(x, 0), 0)
  PROVE  Fine(y) /\ Kept(x, 0, y)
<1>1. 0 \in 0..x.len
  BY FineFields
<1>2. Ready(x, 0)
  BY <1>1, FineReady
<1> QED
  BY <1>2, LengthThenEnd

\* The first n characters, and no more, are not NUL.
FirstNul(x, n) == x.buf[n + 1] = NUL /\ \A p \in 1..n : x.buf[p] # NUL

\* sdsupdatelen.
LEMMA UpdatedFine ==
  ASSUME NEW x, Fine(x), x.astray = "no", NEW y, y = sdssetlen(x, strlen(x.buf))
  PROVE  Fine(y) /\ \E n \in 0..x.len : FirstNul(x, n) /\ Kept(x, n, y)
<1>1. x.len \in Nat /\ Len(x.buf) \in Nat /\ x.len + 1 <= Len(x.buf)
  BY FineFields
<1> DEFINE ends == {n \in 0..(Len(x.buf) - 1) : x.buf[n + 1] = NUL}
<1>2. x.len \in ends /\ ends \subseteq Nat
  BY <1>1 DEF Fine, Ended
<1>3. PICK n \in ends : \A m \in ends : n <= m
  BY <1>2, LeastNatural
<1>4. n \in 0..(Len(x.buf) - 1) /\ x.buf[n + 1] = NUL /\ \A p \in 1..n : x.buf[p] # NUL
  <2>1. n \in 0..(Len(x.buf) - 1) /\ x.buf[n + 1] = NUL
    OBVIOUS
  <2>2. ASSUME NEW p \in 1..n PROVE x.buf[p] # NUL
    <3>1. p - 1 \notin ends
      BY SMTT(30), <1>1, <1>3, <2>1
    <3>2. p - 1 \in 0..(Len(x.buf) - 1) /\ (p - 1) + 1 = p
      BY <1>1, <2>1
    <3> QED
      BY <3>1, <3>2
  <2> QED
    BY <2>1, <2>2
<1>5. PICK m : m = strlen(x.buf)
  OBVIOUS
<1>6. m \in 0..(Len(x.buf) - 1) /\ x.buf[m + 1] = NUL /\ \A p \in 1..m : x.buf[p] # NUL
  BY <1>4, <1>5 DEF strlen
<1>7. m \in 0..x.len
  <2>1. ~(x.len + 1 \in 1..m)
    BY <1>2, <1>6
  <2> QED
    BY <1>1, <1>6, <2>1
<1>8. Ready(x, m)
  BY <1>7, FineReady
<1>9. Fine(y) /\ Kept(x, m, y)
  BY <1>5, <1>6, <1>8, EndedLength
<1> QED
  BY <1>6, <1>7, <1>9 DEF FirstNul

\* sdsmapchars.
LEMMA MappedFine ==
  ASSUME NEW x, Fine(x), x.astray = "no", NEW f \in Map,
         NEW y, y = [x EXCEPT !.buf = [p \in DOMAIN @ |-> IF p <= x.len THEN sdsmapchar(@[p], f) ELSE @[p]]]
  PROVE  Fine(y) /\ y.len = x.len /\ \A p \in 1..x.len : y.buf[p] = sdsmapchar(x.buf[p], f)
<1>1. /\ x \in Strings /\ x.len \in Nat /\ x.buf \in Seq(Cell) /\ Len(x.buf) \in Nat /\ x.len + 1 <= Len(x.buf)
      /\ DOMAIN x.buf = 1..Len(x.buf)
  BY FineFields
<1>2. PICK b : b = [p \in 1..Len(x.buf) |-> IF p <= x.len THEN sdsmapchar(x.buf[p], f) ELSE x.buf[p]]
  OBVIOUS
<1>3. \A p \in 1..x.len : p \in 1..Len(x.buf) /\ x.buf[p] \in Char /\ sdsmapchar(x.buf[p], f) \in Char
  BY <1>1, CharAssumption DEF Fine, Filled, sdsmapchar
<1>4. \A p \in 1..Len(x.buf) : x.buf[p] \in Cell /\ (p <= x.len => p \in 1..x.len)
  BY <1>1
<1>5. b \in Seq(Cell) /\ Len(b) = Len(x.buf)
  <2>1. \A p \in 1..Len(x.buf) : (IF p <= x.len THEN sdsmapchar(x.buf[p], f) ELSE x.buf[p]) \in Cell
    BY <1>3, <1>4 DEF Cell
  <2> QED
    BY <1>1, <1>2, <2>1
<1>6. y = [x EXCEPT !.buf = b]
  BY <1>1, <1>2
<1>7. /\ y \in Strings /\ y.type = x.type /\ y.len = x.len /\ y.alloc = x.alloc /\ y.astray = x.astray /\ y.buf = b
  BY <1>1, <1>5, <1>6 DEF Strings
<1>8. Filled(y)
  BY <1>1, <1>2, <1>3, <1>7 DEF Filled
<1>9. Ended(y)
  <2>1. x.len + 1 \in 1..Len(x.buf) /\ ~(x.len + 1 <= x.len)
    BY <1>1
  <2> QED
    BY <1>2, <1>7, <2>1 DEF Ended, Fine
<1>10. \A p \in 1..x.len : y.buf[p] = sdsmapchar(x.buf[p], f)
  <2>1. \A p \in 1..x.len : p \in 1..Len(x.buf) /\ p <= x.len
    BY <1>1
  <2> QED
    BY <1>2, <1>7, <2>1
<1>11. Fine(y)
  BY <1>5, <1>7, <1>8, <1>9 DEF Fine, Typed, Calm, Held, sdsalloc
<1> QED
  BY <1>7, <1>10, <1>11

\* sdsResize.
LEMMA FittedFine ==
  ASSUME NEW x, Fine(x), x.astray = "no", NEW size \in Nat, size <= TypeMax[4], NEW regrow \in BOOLEAN,
         NEW slack \in Slack, NEW y, y = Fitted(x, size, regrow, slack)
  PROVE  Fine(y) /\ \E n \in 0..x.len : Kept(x, n, y)
<1> DEFINE len == Smaller(x.len, size)
           type == IF regrow THEN RoomyType(size) ELSE sdsReqType(size)
           in_place == x.type = type \/ (type < x.type /\ type > 1)
           kept == IF in_place THEN Len(x.buf) ELSE len
           cells == size + 1 + slack
           buf == Resized(x.buf, kept, cells)
           chosen == IF in_place THEN x.type ELSE type
           moved == [x EXCEPT !.type = chosen, !.buf = buf]
           z == [sdssetalloc(moved, size) EXCEPT !.len = len]
<1>1. /\ x \in Strings /\ x.type \in Types /\ x.len \in Nat /\ x.alloc \in Nat /\ x.buf \in Seq(Cell) /\ Len(x.buf) \in Nat
      /\ x.len + 1 <= Len(x.buf) /\ slack \in Nat
  BY FineFields, Assumed DEF Assumptions
<1>2. len \in Nat /\ len <= size /\ len <= x.len /\ cells \in Nat
  BY <1>1 DEF Smaller
<1>3. type \in Types /\ size <= TypeMax[type]
  BY ReqType, Roomy
<1> HIDE DEF type, len
<1>4. chosen \in Types /\ size <= TypeMax[chosen] /\ TypeMax[chosen] \in Nat
  <2>1. \A t \in Types : TypeMax[t] \in Nat
    BY Assumed DEF Assumptions
  <2>2. CASE x.type = type
    BY <1>3, <2>1, <2>2
  <2>3. CASE x.type # type /\ type < x.type /\ type > 1
    <3>1. type <= x.type
      BY <1>1, <1>3, <2>3 DEF Types
    <3>2. TypeMax[type] <= TypeMax[x.type]
      BY <1>1, <1>3, <3>1, TypesGrow
    <3> QED
      BY <1>1, <1>3, <2>1, <2>3, <3>2
  <2>4. CASE x.type # type /\ ~(type < x.type /\ type > 1)
    BY <1>3, <2>1, <2>4
  <2> QED
    BY <2>2, <2>3, <2>4
<1>5. kept \in Nat /\ kept >= len
  BY <1>1, <1>2
<1> HIDE DEF kept, chosen, cells
<1>6. Fits(x.buf, kept, cells, buf)
  BY <1>1, <1>2, <1>5, ResizedFacts
<1> HIDE DEF buf
<1>7. moved \in Strings /\ moved.type = chosen /\ moved.buf = buf /\ moved.astray = "no"
  BY <1>1, <1>4, <1>6 DEF Strings, Fits
<1> HIDE DEF moved
<1>8. /\ z \in Strings /\ z.type = chosen /\ z.buf = buf /\ z.astray = "no" /\ z.len = len
      /\ z.alloc = IF chosen = 0 THEN 0 ELSE size
  <2>1. Field(chosen, size) = size
    BY <1>4, FieldHolds
  <2>2. z = [moved EXCEPT !.alloc = IF chosen = 0 THEN 0 ELSE size, !.len = len]
    BY <1>7, <2>1 DEF sdssetalloc
  <2> HIDE DEF z
  <2> QED
    BY <1>2, <1>7, <2>2 DEF Strings
<1>9. y = IF sdsalloc(x) = size THEN x ELSE sdssetalloc(sdssetlen(Terminate(moved, len), len), size)
  BY DEF Fitted, moved, buf, kept, chosen, cells, type, len
<1>10. sdssetalloc(sdssetlen(Terminate(moved, len), len), size) = sdssetlen(Terminate(z, len), len)
  BY <1>2, <1>7, AllocFirst
<1> HIDE DEF z
<1>11. Len(buf) = size + 1 + slack
  BY <1>6 DEF Fits, cells
<1>12. \A p \in 1..len : z.buf[p] \in Char /\ z.buf[p] = x.buf[p]
  <2> SUFFICES ASSUME NEW p \in 1..len PROVE z.buf[p] \in Char /\ z.buf[p] = x.buf[p]
    OBVIOUS
  <2>1. p \in 1..cells /\ p <= kept /\ p <= Len(x.buf) /\ p \in 1..x.len
    BY <1>1, <1>2, <1>5 DEF cells
  <2>2. buf[p] = x.buf[p]
    BY <1>6, <2>1 DEF Fits
  <2> QED
    BY <1>8, <2>1, <2>2 DEF Fine, Filled
<1>13. Ready(z, len)
  <2>1. Typed(z)
    BY <1>2, <1>4, <1>8 DEF Typed
  <2>2. Calm(z)
    BY <1>8 DEF Calm
  <2>3. len <= TypeMax[z.type] /\ len + 1 <= Len(z.buf)
    BY <1>1, <1>2, <1>4, <1>8, <1>11
  <2>4. z.type # 0 => len <= z.alloc /\ z.alloc + 1 <= Len(z.buf)
    BY <1>1, <1>2, <1>8, <1>11
  <2> QED
    BY <1>2, <1>12, <2>1, <2>2, <2>3, <2>4 DEF Ready
<1>14. CASE sdsalloc(x) = size
  <2>1. y = x /\ Kept(x, x.len, x) /\ x.len \in 0..x.len
    BY <1>1, <1>9, <1>14 DEF Kept
  <2> QED
    BY <2>1
<1>15. CASE sdsalloc(x) # size
  <2>1. Fine(y) /\ Kept(z, len, y)
    BY <1>9, <1>10, <1>13, <1>15, EndThenLength
  <2>2. Kept(x, len, y) /\ len \in 0..x.len
    BY <1>1, <1>2, <1>12, <2>1 DEF Kept
  <2> QED
    BY <2>1, <2>2
<1> QED
  BY <1>14, <1>15

\* A length written to the header by itself, as sdsIncrLen and sdscatfmt do.
LEMMA Counted ==
  ASSUME NEW x, NEW n, Ready(x, n), NEW y, y = [x EXCEPT !.len = n]
  PROVE  Whole(y) /\ Kept(x, n, y) /\ y.astray = x.astray
<1>1. /\ x \in Strings /\ n \in Nat /\ n <= TypeMax[x.type] /\ n + 1 <= Len(x.buf) /\ x.alloc <= TypeMax[x.type]
      /\ x.type # 0 => n <= x.alloc /\ x.alloc + 1 <= Len(x.buf)
  BY DEF Ready, Typed
<1>2. y \in Strings /\ y.type = x.type /\ y.len = n /\ y.alloc = x.alloc /\ y.buf = x.buf /\ y.astray = x.astray
  BY <1>1 DEF Strings
<1>3. Typed(y) /\ Calm(y)
  BY <1>1, <1>2 DEF Typed, Ready, Calm
<1>4. Held(y)
  BY <1>1, <1>2 DEF Held, sdsalloc
<1>5. Filled(y)
  BY <1>2 DEF Filled, Ready
<1> QED
  BY <1>2, <1>3, <1>4, <1>5 DEF Whole, Kept

\* sdsIncrLen after the client has written t.
LEMMA LengthenedFine ==
  ASSUME NEW x, Fine(x), x.astray = "no", NEW t \in Seq(Char), Len(t) <= sdsavail(x), NEW y, y = Lengthened(x, t)
  PROVE  Fine(y) /\ (y.astray = "no" => Longer(x, t, y))
<1>1. /\ x.len \in Nat /\ x.alloc \in Nat /\ Len(x.buf) \in Nat /\ Typed(x) /\ Whole(x) /\ Len(t) \in Nat
      /\ TypeMax[x.type] \in Nat /\ x.alloc <= TypeMax[x.type] /\ x.type \in Types
  BY FineFields, FineWhole
<1>2. CASE x.type = 0
  <2>1. t = << >>
    BY <1>1, <1>2 DEF sdsavail
  <2>2. y = Astray(x, "assert")
    BY <1>2, <2>1 DEF Lengthened
  <2>3. Typed(y) /\ y.type = x.type /\ y.astray = IF x.astray = "no" THEN "assert" ELSE x.astray
    BY <1>1, <2>2, AstrayFacts
  <2> QED
    BY <1>2, <2>3 DEF Fine, Calm
<1>3. CASE x.type # 0
  <2>1. PICK n : n = Len(t)
    OBVIOUS
  <2>2. x.len + n <= x.alloc /\ x.alloc + 1 <= Len(x.buf) /\ x.len + n <= TypeMax[x.type] /\ x.len + n \in Nat /\ n \in Nat
    BY <1>1, <1>3, <2>1 DEF sdsavail, Whole, Held, sdsalloc
  <2>3. RoomMade(x, n, x)
    BY <1>1, <1>3, <2>1, <2>2 DEF RoomMade, Whole, sdsavail
  <2>4. PICK w : w = Write(x, x.len, t)
    OBVIOUS
  <2>5. Appended(x, n, x, t, w)
    BY <1>1, <2>1, <2>2, <2>3, <2>4, AppendReady
  <2>6. PICK l : l = [w EXCEPT !.len = x.len + n]
    OBVIOUS
  <2>7. Ready(w, x.len + n) /\ w.type # 0
    BY <1>3, <2>5 DEF Appended
  <2>8. Whole(l) /\ Kept(w, x.len + n, l) /\ l.len = x.len + n
    BY <2>6, <2>7, Counted DEF Kept
  <2>9. Field(x.type, x.len + n) = x.len + n
    BY <1>1, <2>2, FieldHolds
  <2>10. y = Terminate(l, l.len)
    BY <1>3, <2>1, <2>4, <2>6, <2>8, <2>9 DEF Lengthened
  <2>11. Fine(y) /\ Kept(l, l.len, y)
    BY <2>8, <2>10, EndIt
  <2>12. Kept(w, x.len + n, y)
    BY <2>8, <2>11 DEF Kept
  <2> QED
    BY <1>1, <2>1, <2>2, <2>5, <2>11, <2>12, AppendedLonger
<1> QED
  BY <1>2, <1>3

\* sdsIncrLen with a negative increment.
LEMMA ShortenedFine ==
  ASSUME NEW x, Fine(x), x.astray = "no", NEW decr \in 1..x.len, NEW y, y = Shortened(x, decr)
  PROVE  Fine(y) /\ Kept(x, x.len - decr, y)
<1>1. PICK n : n = x.len - decr
  OBVIOUS
<1>2. n \in 0..x.len
  BY <1>1, FineFields
<1>3. Ready(x, n)
  BY <1>2, FineReady
<1>4. PICK l : l = [x EXCEPT !.len = n]
  OBVIOUS
<1>5. Whole(l) /\ Kept(x, n, l) /\ l.len = n
  <2>1. Whole(l) /\ Kept(x, n, l)
    BY <1>3, <1>4, Counted
  <2> QED
    BY <2>1 DEF Kept
<1>6. y = Terminate(l, l.len)
  BY <1>1, <1>4, <1>5 DEF Shortened
<1>7. Fine(y) /\ Kept(l, l.len, y)
  BY <1>5, <1>6, EndIt
<1> QED
  BY <1>1, <1>5, <1>7 DEF Kept

-----------------------------------------------------------------------------
(* sdscatfmt: a fold over the pieces of the format.                        *)

\* What the string is between two pieces: it has its text, or is astray.
Going(x) == Typed(x) /\ Calm(x) /\ (x.astray = "no" => Whole(x))

ValidPiece(piece) ==
  piece.text \in Seq(Char) /\ Len(piece.text) <= MaxLen /\ (piece.kind = "char" => Len(piece.text) = 1)

\* A string that has not gone astray has the text of the piece behind its own.
Printed(x, piece, y) ==
  y.astray = "no" => x.astray = "no" /\ piece.kind \in {"char", "string"} /\ Longer(x, piece.text, y)

\* A piece leaves it so, and makes it at most MaxLen longer.
LEMMA PieceGoes ==
  ASSUME NEW x, Going(x), NEW piece, ValidPiece(piece), NEW slack \in Slack,
         x.len + MaxLen + MaxPrealloc <= TypeMax[4], NEW y, y = Piece(x, piece, slack)
  PROVE  Going(y) /\ y.len <= x.len + MaxLen /\ Printed(x, piece, y)
<1>1. PICK l : l = Len(piece.text)
  OBVIOUS
<1>2. PICK r : r = IF piece.kind = "string" /\ sdsavail(x) < l THEN MadeRoom(x, l, TRUE, slack) ELSE x
  OBVIOUS
<1>3. /\ x.len \in Nat /\ x.alloc \in Nat /\ Typed(x) /\ MaxLen \in Nat /\ MaxPrealloc \in Nat /\ TypeMax[4] \in Nat
      /\ l \in Nat /\ l <= MaxLen
  <2>1. MaxLen \in Nat /\ MaxPrealloc \in Nat /\ TypeMax[4] \in Nat
    BY Assumed DEF Assumptions, Types
  <2>2. x.len \in Nat /\ x.alloc \in Nat /\ Typed(x)
    BY DEF Going, Typed, Strings
  <2>3. l \in Nat /\ l <= MaxLen
    BY <1>1 DEF ValidPiece
  <2> QED
    BY <2>1, <2>2, <2>3
<1>4. y = IF x.astray # "no" THEN x
          ELSE IF sdsavail(x) = 0 \/ piece.kind \notin {"char", "string"} THEN Astray(x, "undefined")
          ELSE [Write(r, x.len, piece.text) EXCEPT !.len = Field(r.type, @ + l)]
  BY <1>1, <1>2 DEF Piece
<1>5. CASE x.astray # "no"
  <2>1. y = x
    BY <1>4, <1>5
  <2> QED
    BY <1>3, <1>5, <2>1 DEF Printed
<1>6. CASE x.astray = "no" /\ (sdsavail(x) = 0 \/ piece.kind \notin {"char", "string"})
  <2>1. y = Astray(x, "undefined")
    BY <1>4, <1>6
  <2>2. Typed(y) /\ y.len = x.len /\ y.astray = IF x.astray = "no" THEN "undefined" ELSE x.astray
    BY <1>3, <2>1, AstrayFacts
  <2>3. Calm(y) /\ y.astray # "no"
    BY <1>6, <2>2 DEF Calm
  <2> QED
    BY <1>3, <2>2, <2>3 DEF Going, Printed
<1>7. CASE x.astray = "no" /\ sdsavail(x) # 0 /\ piece.kind \in {"char", "string"}
  <2>1. Whole(x) /\ Held(x)
    BY <1>7 DEF Going, Whole
  <2>2. sdsavail(x) \in Nat /\ sdsavail(x) # 0 /\ sdsavail(x) = x.alloc - x.len /\ x.type # 0
    BY <1>3, <1>7, <2>1 DEF sdsavail, Held, sdsalloc
  <2>3. PICK avail : avail = sdsavail(x)
    OBVIOUS
  <2>4. RoomMade(x, l, r)
    <3>1. CASE sdsavail(x) < l
      <4>1. piece.kind = "string"
        <5>1. avail \in Nat /\ avail # 0 /\ avail < l
          BY <2>2, <2>3, <3>1
        <5>2. l # 1
          BY <1>3, <5>1
        <5> QED
          BY <1>1, <1>7, <5>2 DEF ValidPiece
      <4>2. r = MadeRoom(x, l, TRUE, slack) /\ x.len + l + MaxPrealloc <= TypeMax[4]
        BY <1>2, <1>3, <3>1, <4>1
      <4> QED
        BY <1>3, <1>7, <2>1, <4>2, MadeRoomFacts
    <3>2. CASE ~(sdsavail(x) < l)
      <4>1. r = x
        BY <1>2, <3>2
      <4>2. Len(x.buf) \in Nat /\ x.type \in Types /\ TypeMax[x.type] \in Nat /\ x.alloc <= TypeMax[x.type]
        BY <1>3, Assumed DEF Typed, Strings, Assumptions
      <4>3. x.len + l <= TypeMax[x.type] /\ x.len + l + 1 <= Len(x.buf) /\ sdsavail(x) >= l
        <5>1. avail >= l /\ avail = x.alloc - x.len /\ x.alloc + 1 <= Len(x.buf) /\ avail = sdsavail(x)
          BY <1>3, <2>1, <2>2, <2>3, <3>2 DEF Held, sdsalloc
        <5>2. sdsavail(x) >= l
          BY <5>1
        <5>3. x.len + l <= x.alloc
          BY <1>3, <5>1
        <5>4. PICK m, b : m = TypeMax[x.type] /\ b = Len(x.buf)
          OBVIOUS
        <5>5. m \in Nat /\ b \in Nat /\ x.alloc <= m /\ x.alloc + 1 <= b
          BY <4>2, <5>1, <5>4
        <5>6. x.len + l <= m /\ x.len + l + 1 <= b
          BY <1>3, <5>3, <5>5
        <5> QED
          BY <5>2, <5>4, <5>6
      <4> QED
        BY <1>7, <2>1, <4>1, <4>3, <1>3 DEF RoomMade
    <3> QED
      BY <3>1, <3>2
  <2>5. PICK w : w = Write(r, x.len, piece.text)
    OBVIOUS
  <2>6. Appended(x, l, r, piece.text, w)
    <3>1. piece.text \in Seq(Char) /\ l <= Len(piece.text) /\ Len(piece.text) <= l + 1
      BY <1>1, <1>3 DEF ValidPiece
    <3> QED
      BY <1>3, <2>1, <2>4, <2>5, <3>1, AppendReady
  <2>7. Field(r.type, x.len + l) = x.len + l
    <3>1. r.type \in Types /\ x.len + l \in Nat /\ x.len + l <= TypeMax[r.type]
      BY <1>3, <2>4 DEF RoomMade, Typed, Strings
    <3> QED
      BY <3>1, FieldHolds
  <2>8. y = [w EXCEPT !.len = x.len + l]
    <3>1. y = [w EXCEPT !.len = Field(r.type, w.len + l)]
      BY <1>4, <1>7, <2>5
    <3>2. w.len = x.len
      BY <2>6 DEF Appended
    <3> QED
      BY <2>7, <3>1, <3>2
  <2>9. Whole(y) /\ Kept(w, x.len + l, y)
    BY <2>6, <2>8, Counted DEF Appended
  <2>10. Longer(x, piece.text, y)
    BY <1>1, <1>3, <2>6, <2>9, AppendedLonger
  <2>11. y.len = x.len + l
    BY <2>9 DEF Kept
  <2> QED
    BY <1>3, <1>7, <2>9, <2>10, <2>11 DEF Whole, Going, Printed
<1> QED
  BY <1>5, <1>6, <1>7

\* The strings there can be after k pieces.
After(k) == {x \in Strings : Going(x) /\ x.len <= (k + 1) * MaxLen}

\* The strings between the pieces: h[k] is what there is after k of them.
PieceByPiece(h, base, n, pieces, slack) ==
  /\ h[0] = base
  /\ \A k \in 0..n : h[k] \in After(k)
  /\ \A k \in 1..n : h[k] = Piece(h[k - 1], pieces[k], slack)

Results(base, n, pieces, slack) ==
  {h[n] : h \in {g \in [0..n -> After(n)] : PieceByPiece(g, base, n, pieces, slack)}}

\* There is room for all the pieces of a format.
LEMMA PieceFits ==
  ASSUME NEW n \in Nat, (n + 1) * MaxLen + MaxPrealloc <= TypeMax[4], NEW i \in 1..n, NEW x \in After(i - 1),
         NEW piece, ValidPiece(piece), NEW slack \in Slack, NEW y, y = Piece(x, piece, slack)
  PROVE  y \in After(i) /\ Printed(x, piece, y)
<1>0. MaxLen \in Nat /\ MaxPrealloc \in Nat /\ TypeMax[4] \in Nat
  BY Assumed DEF Assumptions, Types
<1>1. (i - 1) + 1 = i
  OBVIOUS
<1>2. x \in Strings /\ Going(x) /\ x.len <= i * MaxLen /\ x.len \in Nat
  BY <1>1 DEF After, Strings
<1>3. i * MaxLen + MaxLen <= (n + 1) * MaxLen /\ i * MaxLen + MaxLen = (i + 1) * MaxLen /\ i * MaxLen \in Nat
  <2>1. (n + 1) * MaxLen = i * MaxLen + MaxLen + (n - i) * MaxLen /\ i * MaxLen + MaxLen = (i + 1) * MaxLen
    BY <1>0
  <2>2. (n - i) * MaxLen \in Nat /\ i * MaxLen \in Nat
    BY <1>0
  <2> QED
    BY <1>0, <2>1, <2>2
<1>4. x.len + MaxLen + MaxPrealloc <= TypeMax[4]
  <2>1. PICK a, b : a = i * MaxLen /\ b = (n + 1) * MaxLen
    OBVIOUS
  <2>2. a \in Nat /\ b \in Nat /\ x.len <= a /\ a + MaxLen <= b /\ b + MaxPrealloc <= TypeMax[4]
    BY <1>0, <1>2, <1>3, <2>1
  <2> QED
    BY <1>0, <1>2, <2>2
<1>5. Going(y) /\ y.len <= x.len + MaxLen /\ Printed(x, piece, y)
  BY <1>2, <1>4, PieceGoes
<1>6. y \in Strings /\ y.len \in Nat
  BY <1>5 DEF Going, Typed, Strings
<1>7. y \in After(i)
  BY <1>0, <1>2, <1>3, <1>5, <1>6 DEF After
<1> QED
  BY <1>5, <1>7

\* The fold over the pieces has a result, and goes from one piece to the next.
LEMMA FoldGoes ==
  ASSUME NEW base \in After(0), NEW n \in Nat, NEW I, I = 1..n, NEW pieces, DOMAIN pieces = I,
         \A i \in I : ValidPiece(pieces[i]), NEW slack \in Slack,
         (n + 1) * MaxLen + MaxPrealloc <= TypeMax[4]
  PROVE  FoldLeft(LAMBDA y, piece : Piece(y, piece, slack), base, pieces) \in Results(base, n, pieces, slack)
<1> DEFINE Sets == SUBSET I
           V == [k \in 0..n |-> After(k)]
           last(T) == IF T = {} THEN 0 ELSE Max(T)
           step == [p \in I \X After(n) |->
                      IF p[2] \in V[p[1] - 1] THEN Piece(p[2], pieces[p[1]], slack) ELSE base]
           Body(h, T) == IF T = {} THEN base ELSE Piece(h[T \ {Max(T)}], pieces[Max(T)], slack)
           Iter == CHOOSE h : h = [T \in Sets |-> Body(h, T)]
<1>0. MaxLen \in Nat /\ MaxPrealloc \in Nat /\ TypeMax[4] \in Nat
  BY Assumed DEF Assumptions, Types
<1>1. \A j, k \in 0..n : j <= k => V[j] \subseteq V[k]
  <2> SUFFICES ASSUME NEW j \in 0..n, NEW k \in 0..n, j <= k PROVE V[j] \subseteq V[k]
    OBVIOUS
  <2>1. (j + 1) * MaxLen <= (k + 1) * MaxLen /\ (j + 1) * MaxLen \in Nat /\ (k + 1) * MaxLen \in Nat
    <3>1. k = j + (k - j) /\ k - j \in Nat
      OBVIOUS
    <3>2. (k + 1) * MaxLen = (j + 1) * MaxLen + (k - j) * MaxLen
      BY <1>0
    <3>3. (k - j) * MaxLen \in Nat /\ (j + 1) * MaxLen \in Nat
      BY <1>0, <3>1
    <3> QED
      BY <3>2, <3>3
  <2>2. \A x \in Strings : x.len \in Nat
    BY DEF Strings
  <2> QED
    BY <2>1, <2>2 DEF After
<1>2. ASSUME NEW i \in I, NEW x \in V[i - 1]
      PROVE  Piece(x, pieces[i], slack) \in V[i]
  <2>1. i \in 1..n /\ i - 1 \in 0..n /\ i \in 0..n
    OBVIOUS
  <2>2. PICK y : y = Piece(x, pieces[i], slack)
    OBVIOUS
  <2>3. x \in After(i - 1) /\ ValidPiece(pieces[i])
    BY <2>1
  <2>4. y \in After(i)
    BY <2>1, <2>2, <2>3, PieceFits
  <2> QED
    BY <2>1, <2>2, <2>4
<1>3. base \in V[0] /\ V[n] = After(n)
  OBVIOUS
<1>4. \A i \in I : i - 1 \in 0..n /\ i \in 0..n /\ V[i] \subseteq After(n) /\ V[i - 1] \subseteq After(n)
  <2>1. \A i \in I : i - 1 \in 0..n /\ i \in 0..n /\ i - 1 <= n /\ i <= n /\ n \in 0..n
    OBVIOUS
  <2> QED
    BY <1>1, <1>3, <2>1
<1>5. V[0] \subseteq After(n)
  <2>1. 0 \in 0..n /\ n \in 0..n /\ 0 <= n
    OBVIOUS
  <2> QED
    BY <1>1, <1>3, <2>1
<1> HIDE DEF V
<1>6. step \in [I \X After(n) -> After(n)]
  <2>1. ASSUME NEW p \in I \X After(n)
        PROVE (IF p[2] \in V[p[1] - 1] THEN Piece(p[2], pieces[p[1]], slack) ELSE base) \in After(n)
    <3>1. p[1] \in I
      OBVIOUS
    <3>2. CASE p[2] \in V[p[1] - 1]
      <4>1. Piece(p[2], pieces[p[1]], slack) \in V[p[1]]
        BY <1>2, <3>1, <3>2
      <4> QED
        BY <1>4, <3>1, <3>2, <4>1
    <3>3. CASE p[2] \notin V[p[1] - 1]
      BY <1>3, <1>5, <3>3
    <3> QED
      BY <3>2, <3>3
  <2> QED
    BY <2>1
<1>7. \A T \in Sets : T # {} => Max(T) \in I
  BY MaxIsOne
<1>8. PICK g \in [SUBSET I -> After(n)] :
        \A T \in SUBSET I : g[T] = IF T = {} THEN base ELSE step[<<Max(T), g[T \ {Max(T)}]>>]
  <2>1. base \in After(n)
    BY <1>3, <1>5
  <2> HIDE DEF step
  <2>2. \E g \in [SUBSET I -> After(n)] : FoldsUp(g, base, I, step)
    BY ZenonT(60), <1>6, <2>1, FoldExists
  <2> QED
    BY <2>2 DEF FoldsUp
<1>9. \A T \in SUBSET I : g[T] \in V[last(T)]
  <2>1. g[{}] \in V[0]
    BY <1>3, <1>8
  <2>2. ASSUME NEW T \in SUBSET I, T # {}, g[T \ {Max(T)}] \in V[Max(T) - 1] PROVE g[T] \in V[Max(T)]
    <3>1. Max(T) \in I /\ T \ {Max(T)} \in SUBSET I
      BY <1>7, <2>2
    <3>2. PICK x : x = g[T \ {Max(T)}]
      OBVIOUS
    <3>3. x \in V[Max(T) - 1] /\ x \in After(n)
      BY <1>8, <2>2, <3>1, <3>2
    <3>4. g[T] = step[<<Max(T), x>>]
      BY <1>8, <2>2, <3>2
    <3>5. step[<<Max(T), x>>] = Piece(x, pieces[Max(T)], slack)
      BY <3>1, <3>3
    <3> QED
      BY <1>2, <3>1, <3>3, <3>4, <3>5
  <2> QED
    BY <1>1, <2>1, <2>2, FoldRises
<1>10. \A T \in Sets : g[T] = Body(g, T)
  <2> SUFFICES ASSUME NEW T \in Sets PROVE g[T] = Body(g, T)
    OBVIOUS
  <2>1. CASE T = {}
    BY <1>8, <2>1
  <2>2. CASE T # {}
    <3>1. PICK m : m = Max(T)
      OBVIOUS
    <3>2. m \in T /\ (\A x \in T : m >= x) /\ m \in I /\ T \ {m} \in SUBSET I
      BY <2>2, <3>1, MaxIsOne
    <3>3. PICK x : x = g[T \ {m}]
      OBVIOUS
    <3>4. x \in After(n) /\ x \in V[last(T \ {m})]
      BY <1>8, <1>9, <3>2, <3>3
    <3>5. x \in V[m - 1]
      <4>1. last(T \ {m}) \in 0..n /\ last(T \ {m}) <= m - 1
        <5>1. CASE T \ {m} = {}
          BY <3>2, <5>1
        <5>2. CASE T \ {m} # {}
          <6>1. Max(T \ {m}) \in T \ {m}
            BY <3>2, <5>2, MaxIsOne
          <6>2. Max(T \ {m}) \in 1..n /\ Max(T \ {m}) # m /\ m >= Max(T \ {m})
            BY <3>2, <6>1
          <6> QED
            BY <3>2, <5>2, <6>2
        <5> QED
          BY <5>1, <5>2
      <4> HIDE DEF last
      <4>2. m - 1 \in 0..n
        BY <3>2
      <4> QED
        BY <1>1, <3>4, <4>1, <4>2
    <3>6. g[T] = step[<<m, x>>]
      BY <1>8, <2>2, <3>1, <3>3
    <3>7. step[<<m, x>>] = Piece(x, pieces[m], slack)
      BY <3>2, <3>4, <3>5
    <3> QED
      BY <2>2, <3>1, <3>3, <3>6, <3>7
  <2> QED
    BY <2>1, <2>2
<1> HIDE DEF Body, step
<1>11. g = [T \in Sets |-> Body(g, T)]
  BY <1>10
<1>12. Iter = [T \in Sets |-> Body(Iter, T)]
  BY <1>11
<1>13. FoldLeft(LAMBDA y, piece : Piece(y, piece, slack), base, pieces) = Iter[I]
  BY DEF FoldLeft, MapThenFoldSet, Body
<1> HIDE DEF Iter
<1>14. \A T \in SUBSET I : Iter[T] \in V[last(T)]
  <2>1. Iter[{}] \in V[0]
    BY <1>3, <1>12 DEF Body
  <2>2. ASSUME NEW T \in SUBSET I, T # {}, Iter[T \ {Max(T)}] \in V[Max(T) - 1] PROVE Iter[T] \in V[Max(T)]
    <3>1. Max(T) \in I
      BY <1>7, <2>2
    <3>2. Iter[T] = Piece(Iter[T \ {Max(T)}], pieces[Max(T)], slack)
      BY <1>12, <2>2 DEF Body
    <3> QED
      BY <1>2, <2>2, <3>1, <3>2
  <2> QED
    BY <1>1, <2>1, <2>2, FoldRises
<1>15. PICK h : h = [k \in 0..n |-> Iter[1..k]]
  OBVIOUS
<1>16. h[0] = base /\ h[n] = Iter[I]
  <2>1. h[0] = Iter[1..0] /\ h[n] = Iter[1..n]
    BY <1>15
  <2>2. 1..0 = {} /\ {} \in Sets
    OBVIOUS
  <2>3. Iter[{}] = base
    BY <1>12, <2>2 DEF Body
  <2> QED
    BY <2>1, <2>2, <2>3
<1>17. ASSUME NEW k \in 1..n
       PROVE  h[k] \in V[k] /\ h[k] = Piece(h[k - 1], pieces[k], slack)
  <2>1. PICK T : T = 1..k
    OBVIOUS
  <2>2. T \in SUBSET I /\ T # {} /\ k \in T /\ \A m \in T : k >= m
    <3>1. k \in T /\ \A m \in T : m \in 1..n /\ k >= m
      BY <2>1
    <3> QED
      BY <3>1
  <2>3. Max(T) = k
    <3>1. Max(T) \in T /\ Max(T) >= k
      BY <2>2, MaxIsOne
    <3> QED
      BY <2>1, <2>2, <3>1
  <2>4. T \ {k} = 1..(k - 1) /\ k - 1 \in 0..n /\ k \in 0..n
    BY <2>1
  <2>5. Iter[T] = Piece(Iter[T \ {k}], pieces[k], slack)
    BY <1>12, <2>2, <2>3 DEF Body
  <2>6. h[k] = Iter[T] /\ h[k - 1] = Iter[T \ {k}]
    BY <1>15, <2>1, <2>4
  <2>7. Iter[T] \in V[k]
    BY <1>14, <2>2, <2>3
  <2> QED
    BY <2>5, <2>6, <2>7
<1>18. ASSUME NEW k \in 0..n PROVE h[k] \in After(k)
  <2>1. CASE k = 0
    BY <1>3, <1>16, <2>1 DEF V
  <2>2. CASE k # 0
    <3>1. k \in 1..n
      BY <2>2
    <3> QED
      BY <1>17, <3>1 DEF V
  <2> QED
    BY <2>1, <2>2
<1>19. h \in [0..n -> After(n)]
  <2>1. \A k \in 0..n : After(k) \subseteq After(n)
    <3>1. n \in 0..n /\ \A k \in 0..n : k <= n
      OBVIOUS
    <3> QED
      BY <1>1, <3>1 DEF V
  <2> QED
    BY <1>15, <1>18, <2>1
<1>20. PieceByPiece(h, base, n, pieces, slack)
  BY <1>16, <1>17, <1>18 DEF PieceByPiece
<1>21. h[n] \in Results(base, n, pieces, slack)
  BY <1>19, <1>20 DEF Results
<1> QED
  BY <1>13, <1>16, <1>21

\* How y comes from x: m is x with room, and h goes from there to the end.
PrintedPieces(x, pieces, slack, m, h, y) ==
  /\ Fine(m) /\ Kept(x, x.len, m)
  /\ PieceByPiece(h, m, Len(pieces), pieces, slack)
  /\ y.astray = "no" => h[Len(pieces)].astray = "no" /\ Kept(h[Len(pieces)], h[Len(pieces)].len, y)

\* The formats a client gives.
LEMMA FormatPieces ==
  ASSUME NEW pieces \in Format, NEW n, n = Len(pieces)
  PROVE  /\ n \in Nat /\ DOMAIN pieces = 1..n /\ \A i \in 1..n : ValidPiece(pieces[i])
         /\ (n + 1) * MaxLen + MaxPrealloc <= TypeMax[4]
<1>0. PICK I : I = 1..n
  OBVIOUS
<1>1. n \in Nat /\ DOMAIN pieces = I /\ \A i \in I : ValidPiece(pieces[i])
  <2>1. pieces \in Seq([kind : STRING, text : Seq(Char)])
    BY FormatAssumption
  <2>2. n \in Nat /\ DOMAIN pieces = I /\ \A i \in I : pieces[i].text \in Seq(Char)
    <3>1. PICK R : R = [kind : STRING, text : Seq(Char)]
      OBVIOUS
    <3>2. pieces \in Seq(R)
      BY <2>1, <3>1
    <3>3. n \in Nat /\ DOMAIN pieces = I /\ \A i \in I : pieces[i] \in R
      BY <1>0, <3>2
    <3>4. \A piece \in R : piece.text \in Seq(Char)
      BY <3>1
    <3> QED
      BY <3>3, <3>4
  <2>3. \A i \in I : /\ pieces[i].kind = "char" => Len(pieces[i].text) = 1
                     /\ Len(pieces[i].text) <= MaxLen
    BY <2>2, FormatAssumption
  <2> QED
    BY <2>2, <2>3 DEF ValidPiece
<1>2. (n + 1) * MaxLen + MaxPrealloc <= TypeMax[4]
  BY FormatAssumption
<1> QED
  BY <1>0, <1>1, <1>2

\* sdscatfmt.
LEMMA FormattedFine ==
  ASSUME NEW x, Fine(x), x.astray = "no", x.len <= MaxLen, NEW pieces \in Format, NEW slack \in Slack,
         NEW y, y = Formatted(x, pieces, slack)
  PROVE  Fine(y) /\ \E m, h : PrintedPieces(x, pieces, slack, m, h, y)
<1>0. MaxLen \in Nat /\ MaxPrealloc \in Nat /\ x.len \in Nat /\ TypeMax[4] \in Nat
  BY FineFields, Assumed DEF Assumptions, Types
<1>1. PICK n, I : n = Len(pieces) /\ I = 1..n
  OBVIOUS
<1>2. n \in Nat /\ DOMAIN pieces = I /\ \A i \in I : ValidPiece(pieces[i])
  BY <1>1, FormatPieces
<1>3. (n + 1) * MaxLen + MaxPrealloc <= TypeMax[4]
  BY <1>1, FormatPieces
<1>4. PICK a : a = 2 * FormatLen(pieces)
  OBVIOUS
<1>5. a \in Nat
  <2>1. PICK f : f = [p \in DOMAIN pieces |-> IF pieces[p].kind = "char" THEN 1 ELSE 2]
    OBVIOUS
  <2>2. \A i \in I : f[i] \in Nat
    BY <1>2, <2>1
  <2>3. IsFiniteSet(I)
    BY <1>1, <1>2, FS_Interval
  <2>4. SumFunctionOnSet(f, I) \in Nat
    BY <2>2, <2>3, SumOfNaturals
  <2>5. FormatLen(pieces) = SumFunctionOnSet(f, I)
    BY <1>2, <2>1 DEF FormatLen, SumFunction
  <2> QED
    BY <1>4, <2>4, <2>5
<1>6. x.len + a + MaxPrealloc <= TypeMax[4]
  <2>1. MaxLen + 2 * FormatLen(pieces) + MaxPrealloc <= TypeMax[4]
    BY FormatAssumption
  <2>2. MaxLen + a + MaxPrealloc <= TypeMax[4]
    BY <1>4, <2>1
  <2> QED
    BY <1>0, <1>5, <2>2
<1>7. PICK m : m = MadeRoom(x, a, TRUE, slack)
  OBVIOUS
<1>8. RoomMade(x, a, m) /\ Fine(m) /\ Kept(x, x.len, m)
  BY <1>5, <1>6, <1>7, MadeRoomFine
<1>9. m \in After(0)
  <2>1. m \in Strings /\ m.len = x.len /\ Going(m)
    BY <1>8, FineWhole DEF RoomMade, Going, Fine, Typed
  <2>2. (0 + 1) * MaxLen = MaxLen
    BY <1>0
  <2> QED
    BY <2>1, <2>2 DEF After
<1>10. PICK full : full = FoldLeft(LAMBDA z, piece : Piece(z, piece, slack), m, pieces)
  OBVIOUS
<1>11. PICK h : PieceByPiece(h, m, n, pieces, slack) /\ full = h[n]
  <2>1. full \in Results(m, n, pieces, slack)
    BY <1>1, <1>2, <1>3, <1>9, <1>10, FoldGoes
  <2> QED
    BY <2>1 DEF Results
<1>12. Going(full)
  BY <1>2, <1>11 DEF PieceByPiece, After
<1>13. y = IF full.astray # "no" THEN full ELSE Terminate(full, full.len)
  BY <1>4, <1>7, <1>10 DEF Formatted
<1>14. CASE full.astray # "no"
  <2>1. y = full /\ Fine(y)
    BY <1>12, <1>13, <1>14 DEF Going, Fine
  <2> QED
    BY <1>1, <1>8, <1>11, <1>14, <2>1 DEF PrintedPieces
<1>15. CASE full.astray = "no"
  <2>1. Whole(full) /\ y = Terminate(full, full.len)
    BY <1>12, <1>13, <1>15 DEF Going
  <2>2. Fine(y) /\ Kept(full, full.len, y)
    BY <2>1, EndIt
  <2> QED
    BY <1>1, <1>8, <1>11, <1>15, <2>2 DEF PrintedPieces
<1> QED
  BY <1>14, <1>15

-----------------------------------------------------------------------------
(* The specification.                                                      *)

\* What the client starts with is a string.
LEMMA InitInv == Init => IInv
<1> SUFFICES ASSUME NEW t \in Text, NEW slack \in Slack, s = Created(t, slack) PROVE IInv
  BY DEF Init
<1>1. t \in Seq(Char) /\ Len(t) <= MaxLen
  BY TextAssumption
<1>2. Fine(s) /\ s.len = Len(t)
  BY <1>1, CreatedFine DEF Reads
<1> QED
  BY <1>1, <1>2 DEF IInv

\* Every function returns one.
LEMMA NextInv == IInv /\ [Next]_s => IInv'
<1> SUFFICES ASSUME IInv, [Next]_s PROVE IInv'
  OBVIOUS
<1>1. /\ Fine(s) /\ s.len <= MaxLen /\ s.len \in Nat
      /\ MaxLen \in Nat /\ MaxRoom \in Nat /\ MaxPrealloc \in Nat /\ TypeMax[4] \in Nat
      /\ 2 * MaxLen + MaxRoom + MaxPrealloc <= TypeMax[4]
  BY FineFields, Assumed DEF IInv, Assumptions, Types
<1>2. ASSUME NEW y, Returns(y), s.astray = "no" => Fine(y) PROVE IInv'
  BY <1>2 DEF Returns, IInv
<1>3. \A t \in Text : /\ t \in Seq(Char) /\ Len(t) \in Nat /\ Len(t) <= MaxLen
                      /\ s.len + Len(t) + MaxPrealloc <= TypeMax[4] /\ Len(t) + MaxPrealloc <= TypeMax[4]
  <2> SUFFICES ASSUME NEW t \in Text
               PROVE  /\ t \in Seq(Char) /\ Len(t) \in Nat /\ Len(t) <= MaxLen
                      /\ s.len + Len(t) + MaxPrealloc <= TypeMax[4] /\ Len(t) + MaxPrealloc <= TypeMax[4]
    OBVIOUS
  <2>1. t \in Seq(Char) /\ Len(t) <= MaxLen
    BY TextAssumption
  <2>2. Len(t) \in Nat
    BY <2>1
  <2> QED
    BY <1>1, <2>1, <2>2
<1>4. ASSUME NEW t \in Text, NEW slack \in Slack, sdsnewlen(t, slack) PROVE IInv'
  <2>1. PICK y : y = Created(t, slack)
    OBVIOUS
  <2>2. Fine(y)
    BY <1>3, <2>1, CreatedFine
  <2> QED
    BY <1>2, <1>4, <2>1, <2>2 DEF sdsnewlen
<1>5. ASSUME NEW t \in Text, NEW slack \in Slack, sdscatlen(t, slack) PROVE IInv'
  <2>1. PICK y : y = Cat(s, t, slack)
    OBVIOUS
  <2>2. s.astray = "no" => Fine(y)
    BY <1>1, <1>3, <2>1, CatFine
  <2> QED
    BY <1>2, <1>5, <2>1, <2>2 DEF sdscatlen
<1>6. ASSUME NEW t \in Text, NEW slack \in Slack, sdscpylen(t, slack) PROVE IInv'
  <2>1. PICK y : y = Copied(s, t, slack)
    OBVIOUS
  <2>2. s.astray = "no" => Fine(y)
    BY <1>1, <1>3, <2>1, CopiedFine
  <2> QED
    BY <1>2, <1>6, <2>1, <2>2 DEF sdscpylen
<1>7. ASSUME NEW len \in 0..MaxLen, NEW slack \in Slack, sdsgrowzero(len, slack) PROVE IInv'
  <2>1. PICK y : y = Zeroed(s, len, slack)
    OBVIOUS
  <2>2. len \in Nat /\ len + MaxPrealloc <= TypeMax[4]
    BY <1>1
  <2>3. s.astray = "no" => Fine(y)
    BY <1>1, <2>1, <2>2, ZeroedFine
  <2> QED
    BY <1>2, <1>7, <2>1, <2>3 DEF sdsgrowzero
<1>8. ASSUME NEW n \in 0..MaxRoom, NEW greedy \in BOOLEAN, NEW slack \in Slack, sdsMakeRoomFor(n, greedy, slack)
      PROVE  IInv'
  <2>1. PICK y : y = MadeRoom(s, n, greedy, slack)
    OBVIOUS
  <2>2. n \in Nat /\ s.len + n + MaxPrealloc <= TypeMax[4]
    BY <1>1
  <2>3. s.astray = "no" => Fine(y)
    BY <1>1, <2>1, <2>2, MadeRoomFine
  <2> QED
    BY <1>2, <1>8, <2>1, <2>3 DEF sdsMakeRoomFor
<1>9. ASSUME NEW size \in 0..MaxRoom, NEW regrow \in BOOLEAN, NEW slack \in Slack, sdsResize(size, regrow, slack)
      PROVE  IInv'
  <2>1. PICK y : y = Fitted(s, size, regrow, slack)
    OBVIOUS
  <2>2. size \in Nat /\ size <= TypeMax[4]
    BY <1>1
  <2>3. s.astray = "no" => Fine(y)
    BY <1>1, <2>1, <2>2, FittedFine
  <2> QED
    BY <1>2, <1>9, <2>1, <2>3 DEF sdsResize
<1>10. ASSUME NEW regrow \in BOOLEAN, NEW slack \in Slack, sdsRemoveFreeSpace(regrow, slack) PROVE IInv'
  <2>1. PICK y, n : n = s.len /\ y = Fitted(s, n, regrow, slack)
    OBVIOUS
  <2>2. n \in Nat /\ n <= TypeMax[4]
    BY <1>1, <2>1
  <2>3. s.astray = "no" => Fine(y)
    BY <1>1, <2>1, <2>2, FittedFine
  <2> QED
    BY <1>2, <1>10, <2>1, <2>3 DEF sdsRemoveFreeSpace
<1>11. ASSUME NEW pieces \in Format, NEW slack \in Slack, sdscatfmt(pieces, slack) PROVE IInv'
  <2>1. PICK y : y = Formatted(s, pieces, slack)
    OBVIOUS
  <2>2. s.astray = "no" => Fine(y)
    BY <1>1, <2>1, FormattedFine
  <2> QED
    BY <1>2, <1>11, <2>1, <2>2 DEF sdscatfmt
<1>12. ASSUME NEW cset \in TrimSet, sdstrim(cset) PROVE IInv'
  <2>1. PICK y : y = Trimmed(s, cset)
    OBVIOUS
  <2>2. s.astray = "no" => Fine(y)
    BY <1>1, <2>1, TrimmedFine
  <2> QED
    BY <1>2, <1>12, <2>1, <2>2 DEF sdstrim
<1>13. ASSUME NEW start \in Position, NEW end \in Position, sdsrange(start, end) PROVE IInv'
  <2>1. PICK y : y = Ranged(s, start, end)
    OBVIOUS
  <2>2. start \in Int /\ end \in Int
    BY SizeAssumption
  <2>3. s.astray = "no" => Fine(y)
    BY <1>1, <2>1, <2>2, RangedFine
  <2> QED
    BY <1>2, <1>13, <2>1, <2>3 DEF sdsrange
<1>14. ASSUME NEW start \in Nat, NEW len \in Nat, sdssubstr(start, len) PROVE IInv'
  <2>1. PICK y : y = Substr(s, start, len)
    OBVIOUS
  <2>2. s.astray = "no" => Fine(y)
    BY <1>1, <2>1, SubstrFine
  <2> QED
    BY <1>2, <1>14, <2>1, <2>2 DEF sdssubstr
<1>15. ASSUME sdsclear PROVE IInv'
  <2>1. PICK y : y = Terminate(sdssetlen(s, 0), 0)
    OBVIOUS
  <2>2. s.astray = "no" => Fine(y)
    BY <1>1, <2>1, ClearedFine
  <2> QED
    BY <1>2, <1>15, <2>1, <2>2 DEF sdsclear
<1>16. ASSUME sdsupdatelen PROVE IInv'
  <2>1. PICK y : y = sdssetlen(s, strlen(s.buf))
    OBVIOUS
  <2>2. s.astray = "no" => Fine(y)
    BY <1>1, <2>1, UpdatedFine
  <2> QED
    BY <1>2, <1>16, <2>1, <2>2 DEF sdsupdatelen
<1>17. ASSUME NEW f \in Map, sdsmapchars(f) PROVE IInv'
  <2> DEFINE y == [s EXCEPT !.buf = [p \in DOMAIN @ |-> IF p <= s.len THEN sdsmapchar(@[p], f) ELSE @[p]]]
  <2>1. s.astray = "no" => Fine(y)
    BY <1>1, MappedFine
  <2>2. Returns(y)
    BY <1>17 DEF sdsmapchars
  <2> HIDE DEF y
  <2> QED
    BY <1>2, <2>1, <2>2
<1>18. ASSUME sdsIncrLen PROVE IInv'
  <2>1. ASSUME NEW t \in Text, Len(t) <= sdsavail(s), Returns(Lengthened(s, t)) PROVE IInv'
    <3>1. PICK y : y = Lengthened(s, t)
      OBVIOUS
    <3>2. s.astray = "no" => Fine(y)
      BY <1>1, <1>3, <2>1, <3>1, LengthenedFine
    <3> QED
      BY <1>2, <2>1, <3>1, <3>2
  <2>2. ASSUME NEW decr \in 1..s.len, Returns(Shortened(s, decr)) PROVE IInv'
    <3>1. PICK y : y = Shortened(s, decr)
      OBVIOUS
    <3>2. s.astray = "no" => Fine(y)
      BY <1>1, <3>1, ShortenedFine
    <3> QED
      BY <1>2, <2>2, <3>1, <3>2
  <2> QED
    BY <1>18, <2>1, <2>2 DEF sdsIncrLen
<1>19. CASE UNCHANGED s
  BY <1>19 DEF IInv
<1> QED
  BY <1>4, <1>5, <1>6, <1>7, <1>8, <1>9, <1>10, <1>11, <1>12, <1>13, <1>14, <1>15, <1>16, <1>17, <1>18, <1>19
     DEF Next

\* Every state has the inductive invariant.
THEOREM StringInvariant == Spec => []IInv
BY InitInv, NextInv, PTL DEF Spec

\* The header tells the truth about the block: what the text fits, the room and
\* the terminator, for any widths of the types and any sizes the allocator gives.
THEOREM HeaderTellsTruth == Spec => []Consistent
<1>1. IInv => Consistent
  <2> SUFFICES ASSUME IInv PROVE Consistent
    OBVIOUS
  <2>1. TypeOK
    <3>1. /\ s.type \in Types /\ s.len \in Nat /\ s.alloc \in Nat /\ s.buf \in Seq(Cell) /\ TypeMax[s.type] \in Nat
          /\ s.len <= TypeMax[s.type] /\ s.alloc <= TypeMax[s.type] /\ s \in Strings
      BY FineFields DEF IInv
    <3> QED
      BY <3>1 DEF TypeOK, Strings, Cell
  <2>2. ASSUME s.astray = "no" PROVE s.len <= sdsalloc(s) /\ sdsalloc(s) + 1 <= Len(s.buf) /\ s.buf[s.len + 1] = NUL
    BY <2>2 DEF IInv, Fine, Held, Ended
  <2>3. ASSUME s.astray = "no" PROVE \A p \in 1..s.len : s.buf[p] # Junk
    BY <2>3, CharAssumption DEF IInv, Fine, Filled
  <2> QED
    BY <2>1, <2>2, <2>3 DEF Consistent
<1> QED
  BY <1>1, StringInvariant, PTL

\* No function writes past the end of the block; it writes in front of it, or has
\* an assertion fail, only for a string of type 5.
THEOREM WritesStayInside == Spec => []Inside
<1>1. IInv => Inside
  BY DEF IInv, Fine, Calm, Inside
<1> QED
  BY <1>1, StringInvariant, PTL

-----------------------------------------------------------------------------
(* To its client: the step of SdsString that each function takes.          *)

\* u is the text of x.
IsText(x, u) == u \in Seq(Char) /\ Len(u) = x.len /\ \A p \in 1..x.len : u[p] = x.buf[p]

\* The content of what a function returns is its text.
LEMMA ContentIsText ==
  ASSUME NEW x, Fine(x), x.astray = "no"
  PROVE  IsText(x, content(x))
<1>1. x.len \in Nat /\ x.buf \in Seq(Cell) /\ Len(x.buf) \in Nat /\ x.len + 1 <= Len(x.buf)
  BY FineFields
<1>2. PICK u : u = SubSeq(x.buf, 1, x.len)
  OBVIOUS
<1>3. u = content(x)
  BY <1>1, <1>2 DEF content, Smaller
<1>4. u \in Seq(Cell) /\ Len(u) = x.len /\ \A p \in 1..x.len : u[p] = x.buf[p]
  BY <1>1, <1>2
<1>5. u \in Seq(Char)
  <2>1. \A p \in 1..Len(u) : u[p] \in Char
    BY <1>1, <1>4 DEF Fine, Filled
  <2> QED
    BY <1>4, <2>1
<1> QED
  BY <1>3, <1>4, <1>5 DEF IsText

\* There is no other.
LEMMA TextIsOne ==
  ASSUME NEW y, Fine(y), y.astray = "no", NEW t \in Seq(Char), Reads(y, t)
  PROVE  content(y) = t
<1>1. PICK u : u = content(y)
  OBVIOUS
<1>2. IsText(y, u)
  BY <1>1, ContentIsText
<1>3. /\ u \in Seq(Char) /\ Len(u) = Len(t)
      /\ \A p \in 1..Len(t) : u[p] = t[p]
  BY <1>2 DEF IsText, Reads
<1>4. u = t
  BY <1>3
<1> QED
  BY <1>1, <1>4

\* The texts that the functions leave.
LEMMA CutText ==
  ASSUME NEW x, x.len \in Nat, NEW u, IsText(x, u), NEW start \in Nat, NEW n \in Nat, start + n <= x.len,
         NEW y, Fine(y), y.astray = "no", Cut(x, start, n, y)
  PROVE  content(y) = SubSeq(u, start + 1, start + n)
<1>1. PICK t : t = SubSeq(u, start + 1, start + n)
  OBVIOUS
<1>2. t \in Seq(Char) /\ Len(t) = n /\ \A p \in 1..n : t[p] = u[start + p]
  BY <1>1 DEF IsText
<1>3. \A p \in 1..n : start + p \in 1..x.len
  OBVIOUS
<1>4. Reads(y, t)
  BY <1>2, <1>3 DEF Cut, Reads, IsText
<1> QED
  BY <1>1, <1>2, <1>4, TextIsOne

LEMMA KeptText ==
  ASSUME NEW x, x.len \in Nat, NEW u, IsText(x, u), NEW n \in 0..x.len,
         NEW y, Fine(y), y.astray = "no", Kept(x, n, y)
  PROVE  content(y) = SubSeq(u, 1, n)
<1>1. Cut(x, 0, n, y)
  BY DEF Cut, Kept
<1>2. content(y) = SubSeq(u, 0 + 1, 0 + n)
  BY <1>1, CutText
<1> QED
  BY <1>2

\* A text that is longer.
LEMMA ReadsOn ==
  ASSUME NEW x, x.len \in Nat, NEW u \in Seq(Char), Reads(x, u), NEW t \in Seq(Char), NEW y, Longer(x, t, y)
  PROVE  Reads(y, u \o t) /\ u \o t \in Seq(Char)
<1>1. PICK v, m, n : v = u \o t /\ m = x.len /\ n = Len(t)
  OBVIOUS
<1>2. /\ v \in Seq(Char) /\ Len(v) = m + n /\ m \in Nat /\ n \in Nat
      /\ \A p \in 1..(m + n) : v[p] = IF p <= m THEN u[p] ELSE t[p - m]
  BY <1>1 DEF Reads
<1>3. \A p \in 1..(m + n) : y.buf[p] = v[p]
  <2> SUFFICES ASSUME NEW p \in 1..(m + n) PROVE y.buf[p] = v[p]
    OBVIOUS
  <2>1. CASE p <= m
    <3>1. p \in 1..m
      BY <1>2, <2>1
    <3> QED
      BY <1>1, <1>2, <2>1, <3>1 DEF Longer, Reads
  <2>2. CASE ~(p <= m)
    <3>1. p - m \in 1..n /\ m + (p - m) = p
      BY <1>2, <2>2
    <3> QED
      BY <1>1, <1>2, <2>2, <3>1 DEF Longer
  <2> QED
    BY <2>1, <2>2
<1>4. Reads(y, v)
  BY <1>1, <1>2, <1>3 DEF Longer, Reads
<1> QED
  BY <1>1, <1>2, <1>4

LEMMA LongerText ==
  ASSUME NEW x, x.len \in Nat, NEW u, IsText(x, u), NEW t \in Seq(Char),
         NEW y, Fine(y), y.astray = "no", Longer(x, t, y)
  PROVE  content(y) = u \o t
<1>1. u \in Seq(Char) /\ Reads(x, u)
  BY DEF IsText, Reads
<1>2. PICK v : v = u \o t
  OBVIOUS
<1>3. Reads(y, v) /\ v \in Seq(Char)
  BY <1>1, <1>2, ReadsOn
<1> QED
  BY <1>2, <1>3, TextIsOne

\* A string that goes astray is lost.
LEMMA LosesIt ==
  ASSUME s.astray = "no", s'.astray # "no"
  PROVE  String!Next
<1>1. String!Lose
  BY DEF String!Lose
<1> QED
  BY <1>1 DEF String!Next

\* The others have a new text.
LEMMA Becomes ==
  ASSUME NEW t, s.astray = "no", s'.astray = "no", content(s') = t
  PROVE  String!Become(t)
BY DEF String!Become, content

\* sdsgrowzero.
LEMMA ZeroedText ==
  ASSUME NEW x, Fine(x), x.astray = "no", NEW u, IsText(x, u), NEW len \in Nat, NEW slack \in Slack,
         len + MaxPrealloc <= TypeMax[4], NEW y, y = Zeroed(x, len, slack), y.astray = "no"
  PROVE  content(y) = [p \in 1..(IF len < Len(u) THEN Len(u) ELSE len) |-> IF p \in DOMAIN u THEN u[p] ELSE NUL]
<1>1. PICK m : m = x.len
  OBVIOUS
<1>2. m \in Nat /\ u \in Seq(Char) /\ Len(u) = m /\ DOMAIN u = 1..m
  BY <1>1, FineFields DEF IsText
<1>3. PICK v : v = [p \in 1..(IF len < m THEN m ELSE len) |-> IF p \in 1..m THEN u[p] ELSE NUL]
  OBVIOUS
<1>4. /\ Fine(y)
      /\ len < m => y = x
      /\ ~(len < m) => Longer(x, [p \in 1..(len - m) |-> NUL], y)
  BY <1>1, ZeroedFine
<1>5. content(y) = v
  <2>1. CASE len < m
    <3>1. Kept(x, m, y) /\ m \in 0..m
      BY <1>1, <1>2, <1>4, <2>1 DEF Kept
    <3>2. content(y) = SubSeq(u, 1, m)
      BY <1>1, <1>2, <1>4, <3>1, KeptText
    <3>3. SubSeq(u, 1, m) = u
      BY <1>2
    <3>4. v = [p \in 1..m |-> IF p \in 1..m THEN u[p] ELSE NUL]
      BY <1>3, <2>1
    <3>5. v = u
      BY <1>2, <3>4
    <3> QED
      BY <3>2, <3>3, <3>5
  <2>2. CASE ~(len < m)
    <3>1. PICK z : z = [p \in 1..(len - m) |-> NUL]
      OBVIOUS
    <3>2. len - m \in Nat /\ NUL \in Char
      BY <1>2, <2>2, Assumed DEF Assumptions
    <3>3. z \in Seq(Char) /\ Len(z) = len - m /\ \A p \in 1..(len - m) : z[p] = NUL
      BY <3>1, <3>2
    <3>4. content(y) = u \o z
      BY <1>1, <1>2, <1>4, <2>2, <3>1, <3>3, LongerText
    <3>5. PICK w : w = u \o z
      OBVIOUS
    <3>6. /\ w \in Seq(Char) /\ Len(w) = len
          /\ \A p \in 1..len : w[p] = IF p \in 1..m THEN u[p] ELSE NUL
      <4>0. PICK k : k = len - m
        OBVIOUS
      <4>1. w \in Seq(Char) /\ Len(w) = len /\ \A p \in 1..len : w[p] = IF p <= m THEN u[p] ELSE z[p - m]
        <5>1. k \in Nat /\ Len(z) = k /\ m + k = len
          BY <1>2, <3>2, <3>3, <4>0
        <5>2. w \in Seq(Char) /\ Len(w) = m + k
          BY <1>2, <3>3, <3>5, <5>1
        <5>3. \A p \in 1..(m + k) : w[p] = IF p <= m THEN u[p] ELSE z[p - m]
          BY <1>2, <3>3, <3>5, <5>1
        <5> QED
          BY <5>1, <5>2, <5>3
      <4>2. \A p \in 1..len : (p <= m <=> p \in 1..m) /\ (~(p <= m) => p - m \in 1..(len - m))
        BY <1>2
      <4> QED
        BY <3>3, <4>1, <4>2
    <3>7. v = [p \in 1..len |-> IF p \in 1..m THEN u[p] ELSE NUL]
      BY <1>3, <2>2
    <3>8. w = v
      <4>1. DOMAIN w = 1..len /\ w = [p \in 1..len |-> w[p]]
        BY <3>6
      <4> QED
        BY <3>6, <3>7, <4>1
    <3> QED
      BY <3>4, <3>5, <3>8
  <2> QED
    BY <2>1, <2>2
<1> QED
  BY <1>2, <1>3, <1>5

\* The characters from..to of a text, as SdsString says it.
Span(u, from, to) == SubSeq(u, from + 1, IF to < Len(u) THEN to + 1 ELSE Len(u))

\* Where it ends.
LEMMA WindowStep ==
  ASSUME NEW from \in Nat, NEW n \in Nat, NEW to \in Int, NEW u \in Seq(Char),
         IF to < Len(u) THEN n = IF from <= to THEN to + 1 - from ELSE 0
         ELSE n = IF from <= Len(u) THEN Len(u) - from ELSE 0
  PROVE  SubSeq(u, from + 1, IF to < Len(u) THEN to + 1 ELSE Len(u)) = SubSeq(u, from + 1, from + n)
<1>1. PICK e : e = IF to < Len(u) THEN to + 1 ELSE Len(u)
  OBVIOUS
<1>2. e \in Int /\ Len(u) \in Nat /\ n = IF from <= e THEN e - from ELSE 0
  BY <1>1
<1>3. CASE from <= e
  BY <1>1, <1>2, <1>3
<1>4. CASE ~(from <= e)
  <2>1. SubSeq(u, from + 1, e) = << >> /\ SubSeq(u, from + 1, from + n) = << >>
    BY <1>2, <1>4
  <2> QED
    BY <1>1, <2>1
<1> QED
  BY <1>3, <1>4

\* sdssubstr.
LEMMA SubstrText ==
  ASSUME NEW x, Fine(x), x.astray = "no", NEW u, IsText(x, u), NEW start \in Nat, NEW len \in Nat,
         NEW y, y = Substr(x, start, len), y.astray = "no"
  PROVE  content(y) = Span(u, start, start + len - 1)
<1>1. x.len \in Nat /\ u \in Seq(Char) /\ Len(u) = x.len
  BY FineFields DEF IsText
<1>2. PICK e : e = start + len - 1
  OBVIOUS
<1>3. e \in Int /\ e + 1 = start + len
  BY <1>2
<1>4. /\ Fine(y)
      /\ start >= x.len => Cut(x, 0, 0, y)
      /\ ~(start >= x.len) => Cut(x, start, Smaller(len, x.len - start), y)
  BY SubstrFine
<1>5. CASE start >= x.len
  <2>1. content(y) = SubSeq(u, 0 + 1, 0 + 0)
    BY <1>1, <1>4, <1>5, CutText
  <2>2. SubSeq(u, 0 + 1, 0 + 0) = << >>
    BY <1>1
  <2>3. SubSeq(u, start + 1, IF e < Len(u) THEN e + 1 ELSE Len(u)) = << >>
    BY <1>1, <1>3, <1>5
  <2> QED
    BY <1>2, <2>1, <2>2, <2>3 DEF Span
<1>6. CASE ~(start >= x.len)
  <2>1. PICK n : n = Smaller(len, x.len - start)
    OBVIOUS
  <2>2. n \in Nat /\ start + n <= x.len /\ n = IF len < x.len - start THEN len ELSE x.len - start
    BY <1>1, <1>6, <2>1 DEF Smaller
  <2>3. content(y) = SubSeq(u, start + 1, start + n)
    BY <1>1, <1>4, <1>6, <2>1, <2>2, CutText
  <2>4. IF e < Len(u) THEN n = IF start <= e THEN e + 1 - start ELSE 0
        ELSE n = IF start <= Len(u) THEN Len(u) - start ELSE 0
    BY <1>1, <1>3, <1>6, <2>2
  <2>5. SubSeq(u, start + 1, IF e < Len(u) THEN e + 1 ELSE Len(u)) = SubSeq(u, start + 1, start + n)
    BY SMTT(30), <1>1, <1>3, <2>2, <2>4, WindowStep
  <2> QED
    BY <1>2, <2>3, <2>5 DEF Span
<1> QED
  BY <1>5, <1>6

\* sdsrange, once the positions count from the front.
LEMMA RangedText ==
  ASSUME NEW x, Fine(x), x.astray = "no", NEW u, IsText(x, u), NEW from \in Int, NEW to \in Int,
         NEW n, n = IF from > to THEN 0 ELSE to - from + 1,
         NEW y, y = IF x.len = 0 THEN x ELSE IF from < 0 THEN Moved(x, 0, 0) ELSE Substr(x, from, n),
         y.astray = "no"
  PROVE  content(y) = IF from < 0 THEN << >>
                      ELSE Span(u, from, to)
<1>1. x.len \in Nat /\ u \in Seq(Char) /\ Len(u) = x.len
  BY FineFields DEF IsText
<1>2. n \in Nat
  OBVIOUS
<1>3. CASE x.len = 0
  <2>1. Kept(x, 0, y)
    BY <1>3 DEF Kept
  <2>2. content(y) = SubSeq(u, 1, 0)
    BY <1>1, <1>3, <2>1, KeptText
  <2>3. SubSeq(u, 1, 0) = << >>
    BY <1>1
  <2>4. ~(from < 0) => SubSeq(u, from + 1, IF to < Len(u) THEN to + 1 ELSE Len(u)) = << >>
    BY <1>1, <1>3
  <2> QED
    BY <2>2, <2>3, <2>4 DEF Span
<1>4. CASE x.len # 0 /\ from < 0
  <2>1. y = Moved(x, 0, 0)
    BY <1>4
  <2>2. Fine(y) /\ Cut(x, 0, 0, y)
    BY <1>1, <2>1, MovedFine
  <2>3. content(y) = SubSeq(u, 0 + 1, 0 + 0)
    BY <1>1, <2>2, CutText
  <2>4. SubSeq(u, 0 + 1, 0 + 0) = << >>
    BY <1>1
  <2> QED
    BY <1>4, <2>3, <2>4
<1>5. CASE x.len # 0 /\ ~(from < 0)
  <2>1. from \in Nat /\ y = Substr(x, from, n)
    BY <1>1, <1>5
  <2>2. content(y) = Span(u, from, from + n - 1)
    BY <1>2, <2>1, SubstrText
  <2>3. PICK e : e = from + n - 1
    OBVIOUS
  <2>4. CASE from > to
    <3>1. n = 0 /\ e = from - 1
      <4>1. n = 0
        BY <2>4
      <4> QED
        BY <1>1, <2>3, <4>1
    <3>2. SubSeq(u, from + 1, IF e < Len(u) THEN e + 1 ELSE Len(u)) = << >>
      BY <1>1, <2>1, <3>1
    <3>3. SubSeq(u, from + 1, IF to < Len(u) THEN to + 1 ELSE Len(u)) = << >>
      <4>1. PICK e1, f : e1 = (IF to < Len(u) THEN to + 1 ELSE Len(u)) /\ f = from
        OBVIOUS
      <4>2. e1 \in Int /\ f \in Nat /\ e1 < f + 1
        BY <1>1, <2>1, <2>4, <4>1
      <4>3. SubSeq(u, f + 1, e1) = << >>
        BY <1>1, <4>2
      <4> QED
        BY <4>1, <4>3
    <3> QED
      BY <1>5, <2>2, <2>3, <3>2, <3>3 DEF Span
  <2>5. CASE ~(from > to)
    <3>1. n = to - from + 1
      BY <2>5
    <3>2. e = to
      BY <1>1, <2>3, <3>1
    <3> QED
      BY <1>5, <2>2, <2>3, <3>2
  <2> QED
    BY <2>4, <2>5
<1> QED
  BY <1>3, <1>4, <1>5


\* The text that sdstrim leaves, as SdsString says it.
Stripped(u, C) ==
  LET kept == {p \in DOMAIN u : u[p] \notin C \union {NUL}}
  IN  IF kept = {} THEN << >>
      ELSE SubSeq(u, CHOOSE p \in kept : \A q \in kept : p <= q,
                     CHOOSE p \in kept : \A q \in kept : p >= q)

\* sdstrim: its positions count from 0, those of the text from 1.
LEMMA TrimText ==
  ASSUME NEW x, Fine(x), x.astray = "no", NEW u, IsText(x, u), NEW cset, NEW y, y = Trimmed(x, cset),
         y.astray = "no"
  PROVE  content(y) = Stripped(u, cset)
<1> DEFINE others == {p \in 0..(x.len - 1) : x.buf[p + 1] \notin cset \union {NUL}}
           sp == CHOOSE p \in others : \A q \in others : p <= q
           ep == CHOOSE p \in others : \A q \in others : p >= q
           kept == {p \in DOMAIN u : u[p] \notin cset \union {NUL}}
           first == CHOOSE p \in kept : \A q \in kept : p <= q
           last == CHOOSE p \in kept : \A q \in kept : p >= q
<1>1. x.len \in Nat /\ u \in Seq(Char) /\ Len(u) = x.len /\ DOMAIN u = 1..x.len
  BY FineFields DEF IsText
<1>2. y = IF others = {} THEN Moved(x, 0, 0) ELSE Moved(x, sp, ep - sp + 1)
  BY DEF Trimmed
<1>3. Stripped(u, cset) = IF kept = {} THEN << >> ELSE SubSeq(u, first, last)
  BY DEF Stripped
<1>4. others \in SUBSET (0..(x.len - 1)) /\ others \subseteq Int /\ kept \subseteq Int
  BY <1>1
<1>5. \A p \in others : p + 1 \in kept
  <2>1. \A p \in others : p + 1 \in 1..x.len /\ x.buf[p + 1] \notin cset \union {NUL}
    BY <1>1
  <2> QED
    BY <1>1, <2>1 DEF IsText
<1>6. \A p \in kept : p - 1 \in others
  <2>1. \A p \in kept : p - 1 \in 0..(x.len - 1) /\ (p - 1) + 1 = p /\ x.buf[p] \notin cset \union {NUL}
    BY <1>1 DEF IsText
  <2> QED
    BY <2>1
<1> HIDE DEF others, kept
<1>7. CASE others = {}
  <2>1. kept = {}
    BY <1>6, <1>7
  <2>2. y = Moved(x, 0, 0)
    BY <1>2, <1>7
  <2>3. Fine(y) /\ Cut(x, 0, 0, y)
    BY <1>1, <2>2, MovedFine
  <2>4. content(y) = SubSeq(u, 0 + 1, 0 + 0)
    BY <1>1, <2>3, CutText
  <2>5. SubSeq(u, 0 + 1, 0 + 0) = << >>
    BY <1>1
  <2> QED
    BY <1>3, <2>1, <2>4, <2>5
<1>8. CASE others # {}
  <2>1. /\ \E p \in others : \A q \in others : p <= q
        /\ \E p \in others : \A q \in others : p >= q
    BY <1>1, <1>4, <1>8, FirstAndLast
  <2>2. /\ sp \in others /\ \A q \in others : sp <= q
        /\ ep \in others /\ \A q \in others : ep >= q
    BY <2>1
  <2>3. \E p \in kept : \A q \in kept : p <= q
    <3>0. sp \in Int
      <4> HIDE DEF sp
      <4> QED
        BY <1>4, <2>2
    <3>1. \A q \in kept : q \in Int /\ sp <= q - 1
      <4> HIDE DEF sp
      <4> QED
        BY <1>4, <1>6, <2>2
    <3>2. \A q \in kept : sp + 1 <= q
      <4> HIDE DEF sp
      <4> QED
        BY <3>0, <3>1
    <3> QED
      BY <1>5, <2>2, <3>2
  <2>4. \E p \in kept : \A q \in kept : p >= q
    <3>0. ep \in Int
      <4> HIDE DEF ep
      <4> QED
        BY <1>4, <2>2
    <3>1. \A q \in kept : q \in Int /\ ep >= q - 1
      <4> HIDE DEF ep
      <4> QED
        BY <1>4, <1>6, <2>2
    <3>2. \A q \in kept : ep + 1 >= q
      <4> HIDE DEF ep
      <4> QED
        BY <3>0, <3>1
    <3> QED
      BY <1>5, <2>2, <3>2
  <2>5. /\ first \in kept /\ \A q \in kept : first <= q
        /\ last \in kept /\ \A q \in kept : last >= q
    BY <2>3, <2>4
  <2> HIDE DEF sp, ep, first, last
  <2>6. /\ sp + 1 \in kept /\ ep + 1 \in kept /\ first - 1 \in others /\ last - 1 \in others
        /\ sp \in 0..(x.len - 1) /\ ep \in 0..(x.len - 1) /\ first \in Int /\ last \in Int
    BY <1>4, <1>5, <1>6, <2>2, <2>5
  <2>7. first <= sp + 1 /\ sp <= first - 1 /\ last >= ep + 1 /\ ep >= last - 1 /\ sp <= ep
    BY <2>2, <2>5, <2>6
  <2>8. first = sp + 1 /\ last = ep + 1
    BY <1>1, <2>6, <2>7
  <2>9. PICK n : n = ep - sp + 1
    OBVIOUS
  <2>10. sp \in Nat /\ n \in Nat /\ sp + n <= x.len /\ last = sp + n
    BY <1>1, <2>6, <2>7, <2>8, <2>9
  <2>11. y = Moved(x, sp, n)
    BY <1>2, <1>8, <2>9
  <2>12. Fine(y) /\ Cut(x, sp, n, y)
    BY <2>10, <2>11, MovedFine
  <2>13. content(y) = SubSeq(u, sp + 1, sp + n)
    BY <1>1, <2>10, <2>12, CutText
  <2>14. kept # {}
    BY <2>5
  <2> QED
    BY <1>3, <2>8, <2>10, <2>13, <2>14
<1> QED
  BY <1>7, <1>8

\* The text up to its first NUL, as SdsString says it.
Before(u) ==
  SubSeq(u, 1, (CHOOSE n \in 0..Len(u) : /\ \A p \in 1..n : u[p] # NUL
                                         /\ n = Len(u) \/ u[n + 1] = NUL))

\* sdsupdatelen: the terminator counts when the text has no NUL.
LEMMA UpdatedText ==
  ASSUME NEW x, Fine(x), x.astray = "no", NEW u, IsText(x, u), NEW y, y = sdssetlen(x, strlen(x.buf)),
         y.astray = "no"
  PROVE  content(y) = Before(u)
<1> DEFINE End(n) == (\A p \in 1..n : u[p] # NUL) /\ (n = Len(u) \/ u[n + 1] = NUL)
           e == CHOOSE n \in 0..Len(u) : End(n)
<1>1. x.len \in Nat /\ u \in Seq(Char) /\ Len(u) = x.len
  BY FineFields DEF IsText
<1>2. Fine(y)
  BY UpdatedFine
<1>3. PICK n \in 0..x.len : FirstNul(x, n) /\ Kept(x, n, y)
  BY UpdatedFine
<1>4. End(n)
  <2>1. \A p \in 1..n : p \in 1..x.len
    BY <1>1
  <2>2. \A p \in 1..n : u[p] # NUL
    BY <1>3, <2>1 DEF FirstNul, IsText
  <2>3. n = x.len \/ n + 1 \in 1..x.len
    BY <1>1
  <2>4. n = Len(u) \/ u[n + 1] = NUL
    BY <1>1, <1>3, <2>3 DEF FirstNul, IsText
  <2> QED
    BY <2>2, <2>4
<1>5. ASSUME NEW i \in 0..Len(u), NEW j \in 0..Len(u), End(i), End(j), i < j PROVE FALSE
  <2>1. i + 1 \in 1..j /\ i # Len(u)
    BY <1>1, <1>5
  <2> QED
    BY <1>5, <2>1
<1>6. Before(u) = SubSeq(u, 1, e)
  BY DEF Before
<1> HIDE DEF End
<1>7. e \in 0..Len(u) /\ End(e)
  BY <1>1, <1>4
<1> HIDE DEF e
<1>8. e = n
  BY <1>1, <1>4, <1>5, <1>7
<1>9. content(y) = SubSeq(u, 1, n)
  BY <1>1, <1>2, <1>3, KeptText
<1> QED
  BY <1>6, <1>8, <1>9

\* The text with its characters translated, as SdsString says it.
Translated(u, f) == [p \in DOMAIN u |-> IF u[p] \in DOMAIN f THEN f[u[p]] ELSE u[p]]

\* sdsmapchars.
LEMMA MappedText ==
  ASSUME NEW x, Fine(x), x.astray = "no", NEW u, IsText(x, u), NEW f \in Map,
         NEW y, Fine(y), y.astray = "no", y.len = x.len, \A p \in 1..x.len : y.buf[p] = sdsmapchar(x.buf[p], f)
  PROVE  content(y) = Translated(u, f)
<1>1. PICK m : m = x.len
  OBVIOUS
<1>2. m \in Nat /\ u \in Seq(Char) /\ Len(u) = m /\ DOMAIN u = 1..m
  BY <1>1, FineFields DEF IsText
<1>3. PICK t : t = [p \in 1..m |-> sdsmapchar(u[p], f)]
  OBVIOUS
<1>4. \A p \in 1..m : u[p] \in Char /\ sdsmapchar(u[p], f) \in Char
  BY <1>2, CharAssumption DEF sdsmapchar
<1>5. t \in Seq(Char) /\ Len(t) = m /\ \A p \in 1..m : t[p] = sdsmapchar(u[p], f)
  BY <1>2, <1>3, <1>4
<1>6. Reads(y, t)
  BY <1>1, <1>5 DEF Reads, IsText
<1>7. content(y) = t
  BY <1>5, <1>6, TextIsOne
<1>8. t = Translated(u, f)
  BY <1>2, <1>3 DEF Translated, sdsmapchar
<1> QED
  BY <1>7, <1>8


-----------------------------------------------------------------------------
(* The pieces of a format, one behind the other.                           *)

\* F[k] is the first k of the texts in one.
Joined(F, texts, n) ==
  /\ F[0] = << >>
  /\ \A k \in 0..n : F[k] \in Seq(Char)
  /\ \A k \in 1..n : F[k] = F[k - 1] \o texts[k]

\* A sequence without elements is the empty one.
LEMMA NothingInIt ==
  ASSUME NEW V, NEW q \in Seq(V), Len(q) = 0
  PROVE  q = << >>
OBVIOUS

\* FlattenSeq of the library joins them.
LEMMA FlattenJoins ==
  ASSUME NEW texts \in Seq(Seq(Char)), NEW n, n = Len(texts)
  PROVE  \E F : Joined(F, texts, n) /\ String!FlattenSeq(texts) = F[n]
<1> DEFINE flatten == CHOOSE f : f = [i \in 1..n |-> IF i = 1 THEN texts[i] ELSE f[i - 1] \o texts[i]]
           S == 0..n
           rank == [i \in S |-> i]
           before == [i \in S \ {0} |-> i - 1]
           start == [i \in {0} |-> << >>]
           step == [p \in (S \ {0}) \X Seq(Char) |-> p[2] \o texts[p[1]]]
<1>1. PICK V : V = Seq(Char)
  OBVIOUS
<1>2. n \in Nat /\ texts \in Seq(V) /\ (\A i \in 1..n : texts[i] \in V) /\ << >> \in V
  <2>1. texts \in Seq(V) /\ << >> \in V
    BY <1>1
  <2> QED
    BY <2>1
<1>3. \A a, b \in V : a \o b \in V
  BY <1>1
<1>4. String!FlattenSeq(texts) = IF n = 0 THEN texts ELSE flatten[n]
  BY DEF String!FlattenSeq
<1>5. n = 0 => texts = << >>
  BY <1>2, NothingInIt
<1>6. step = [p \in (S \ {0}) \X V |-> p[2] \o texts[p[1]]]
  BY <1>1
<1>7. Recursion(S, V, n, rank, {0}, start, before, step)
  <2>1. step \in [(S \ {0}) \X V -> V]
    <3> HIDE DEF step
    <3>1. \A p \in (S \ {0}) \X V : p[2] \in V /\ p[1] \in 1..n
      BY <1>2
    <3>2. \A p \in (S \ {0}) \X V : p[2] \o texts[p[1]] \in V
      BY <1>2, <1>3, <3>1
    <3> QED
      BY <1>6, <3>2
  <2>2. before \in [S \ {0} -> S] /\ rank \in [S -> 0..n] /\ \A i \in S \ {0} : rank[before[i]] < rank[i]
    BY <1>2
  <2>3. {0} \subseteq S /\ start \in [{0} -> V]
    BY <1>2
  <2> HIDE DEF step, rank, before, start, S
  <2> QED
    BY <1>2, <2>1, <2>2, <2>3 DEF Recursion
<1>8. PICK F \in [S -> V] : \A i \in S : F[i] = IF i \in {0} THEN start[i] ELSE step[<<i, F[before[i]]>>]
  <2> HIDE DEF step, rank, before, start, S
  <2> QED
    BY <1>7, RecursionByRank
<1>9. F[0] = << >>
  BY <1>2, <1>8
<1>10. \A i \in 1..n : F[i] = F[i - 1] \o texts[i] /\ F[i] \in V /\ F[i - 1] \in V
  <2> SUFFICES ASSUME NEW i \in 1..n PROVE F[i] = F[i - 1] \o texts[i] /\ F[i] \in V /\ F[i - 1] \in V
    OBVIOUS
  <2>1. i \in S \ {0} /\ i - 1 \in S /\ before[i] = i - 1
    BY <1>2
  <2>2. <<i, F[i - 1]>> \in (S \ {0}) \X V
    BY <1>8, <2>1
  <2>3. step[<<i, F[i - 1]>>] = F[i - 1] \o texts[i]
    BY <1>6, <2>2
  <2>4. F[i] = step[<<i, F[i - 1]>>]
    BY <1>8, <2>1
  <2> QED
    BY <1>8, <2>1, <2>3, <2>4
<1>11. n # 0 => flatten[n] = F[n]
  <2> HIDE DEF step, rank, before, start
  <2>1. \A i \in 1..n : i = 1 => F[i] = texts[i]
    <3>1. ASSUME 1 \in 1..n PROVE << >> \o texts[1] = texts[1]
      BY <1>1, <1>2, <3>1
    <3> QED
      BY <1>9, <1>10, <3>1
  <2>2. PICK g : g = [i \in 1..n |-> F[i]]
    OBVIOUS
  <2>3. \A i \in 1..n : F[i] = IF i = 1 THEN texts[i] ELSE F[i - 1] \o texts[i]
    BY <1>10, <2>1
  <2>4. \A i \in 1..n : i # 1 => i - 1 \in 1..n
    BY <1>2
  <2>5. \A i \in 1..n : F[i] = IF i = 1 THEN texts[i] ELSE g[i - 1] \o texts[i]
    BY <2>2, <2>3, <2>4
  <2>6. g = [i \in 1..n |-> IF i = 1 THEN texts[i] ELSE g[i - 1] \o texts[i]]
    BY <2>2, <2>5
  <2>7. flatten = [i \in 1..n |-> IF i = 1 THEN texts[i] ELSE flatten[i - 1] \o texts[i]]
    BY <2>6
  <2> HIDE DEF flatten
  <2>8. \A i \in 1..n : flatten[i] = IF i = 1 THEN texts[i] ELSE flatten[i - 1] \o texts[i]
    BY <2>7
  <2> DEFINE N == {i \in Nat : i + 1 \in 1..n => flatten[i + 1] = F[i + 1]}
  <2>9. 0 \in N
    BY <2>3, <2>8
  <2>10. ASSUME NEW i \in Nat, i \in N PROVE i + 1 \in N
    <3>1. ASSUME (i + 1) + 1 \in 1..n PROVE flatten[(i + 1) + 1] = F[(i + 1) + 1]
      <4>1. PICK j : j = (i + 1) + 1
        OBVIOUS
      <4>2. j \in 1..n /\ j # 1 /\ j - 1 = i + 1 /\ i + 1 \in 1..n
        BY <1>2, <3>1, <4>1
      <4>3. flatten[j - 1] = F[j - 1]
        BY <2>10, <4>2
      <4>4. flatten[j] = flatten[j - 1] \o texts[j] /\ F[j] = F[j - 1] \o texts[j]
        BY <2>3, <2>8, <4>2
      <4> QED
        BY <4>1, <4>3, <4>4
    <3> QED
      BY <3>1
  <2> HIDE DEF N
  <2>11. Nat \subseteq N
    BY <2>9, <2>10, InductionOverNat
  <2>12. ASSUME n # 0 PROVE n - 1 \in Nat /\ (n - 1) + 1 = n /\ n \in 1..n
    BY <1>2, <2>12
  <2> QED
    BY <2>11, <2>12 DEF N
<1>12. Joined(F, texts, n)
  <2>1. \A k \in 0..n : F[k] \in Seq(Char)
    BY <1>1, <1>8
  <2> QED
    BY <1>9, <1>10, <2>1 DEF Joined
<1> HIDE DEF flatten
<1> QED
  BY <1>4, <1>5, <1>9, <1>11, <1>12


\* The texts of the pieces of a format.
TextsOf(pieces) == [p \in DOMAIN pieces |-> pieces[p].text]

LEMMA JoinIsAssociative ==
  ASSUME NEW a \in Seq(Char), NEW b \in Seq(Char), NEW c \in Seq(Char)
  PROVE  (a \o b) \o c = a \o (b \o c)
OBVIOUS

\* sdscatfmt: one piece after the other goes behind the text.
LEMMA FormattedText ==
  ASSUME NEW x, Fine(x), x.astray = "no", NEW u, IsText(x, u), NEW pieces \in Format, NEW slack \in Slack,
         NEW m, NEW h, NEW y, Fine(y), y.astray = "no", PrintedPieces(x, pieces, slack, m, h, y)
  PROVE  /\ \A p \in DOMAIN pieces : pieces[p].kind \in {"char", "string"}
         /\ content(y) = u \o String!FlattenSeq(TextsOf(pieces))
<1>1. PICK n : n = Len(pieces)
  OBVIOUS
<1>2. /\ n \in Nat /\ DOMAIN pieces = 1..n /\ \A i \in 1..n : ValidPiece(pieces[i])
      /\ (n + 1) * MaxLen + MaxPrealloc <= TypeMax[4]
  BY <1>1, FormatPieces
<1>3. x.len \in Nat /\ u \in Seq(Char) /\ Reads(x, u)
  BY FineFields DEF IsText, Reads
<1>4. /\ Kept(x, x.len, m) /\ h[0] = m
      /\ h[n].astray = "no" /\ Kept(h[n], h[n].len, y)
      /\ \A k \in 0..n : h[k] \in After(k)
      /\ \A k \in 1..n : h[k] = Piece(h[k - 1], pieces[k], slack)
  BY <1>1 DEF PrintedPieces, PieceByPiece
<1>5. \A k \in 1..n : k - 1 \in 0..n /\ Printed(h[k - 1], pieces[k], h[k])
  <2> SUFFICES ASSUME NEW k \in 1..n PROVE k - 1 \in 0..n /\ Printed(h[k - 1], pieces[k], h[k])
    OBVIOUS
  <2>1. k - 1 \in 0..n
    BY <1>2
  <2>2. h[k - 1] \in After(k - 1)
    BY <1>4, <2>1
  <2> QED
    BY <1>2, <1>4, <2>1, <2>2, PieceFits
<1>6. \A k \in 0..n : h[k].astray = "no"
  <2> DEFINE N == {i \in Nat : n - i \in 0..n => h[n - i].astray = "no"}
  <2>1. 0 \in N
    BY <1>2, <1>4
  <2>2. ASSUME NEW i \in Nat, i \in N PROVE i + 1 \in N
    <3>1. ASSUME n - (i + 1) \in 0..n PROVE h[n - (i + 1)].astray = "no"
      <4>1. PICK k : k = n - i
        OBVIOUS
      <4>2. k \in 1..n /\ k - 1 = n - (i + 1) /\ k \in 0..n
        BY <1>2, <3>1, <4>1
      <4>3. h[k].astray = "no"
        BY <2>2, <4>1, <4>2
      <4> QED
        BY <1>5, <4>2, <4>3 DEF Printed
    <3> QED
      BY <3>1
  <2> HIDE DEF N
  <2>3. Nat \subseteq N
    BY <2>1, <2>2, InductionOverNat
  <2>4. \A k \in 0..n : n - k \in Nat /\ n - (n - k) = k
    BY <1>2
  <2> QED
    BY <2>3, <2>4 DEF N
<1>7. \A k \in 1..n : pieces[k].kind \in {"char", "string"} /\ Longer(h[k - 1], pieces[k].text, h[k])
  <2>1. \A k \in 1..n : h[k].astray = "no"
    BY <1>2, <1>6
  <2> QED
    BY <1>5, <2>1 DEF Printed
<1>8. PICK texts : texts = TextsOf(pieces)
  OBVIOUS
<1>9. texts \in Seq(Seq(Char)) /\ Len(texts) = n /\ \A k \in 1..n : texts[k] = pieces[k].text /\ texts[k] \in Seq(Char)
  <2>1. PICK V : V = Seq(Char)
    OBVIOUS
  <2>2. texts = [p \in 1..n |-> pieces[p].text]
    BY <1>2, <1>8 DEF TextsOf
  <2>3. \A k \in 1..n : pieces[k].text \in V
    BY <1>2, <2>1 DEF ValidPiece
  <2>4. texts \in Seq(V) /\ Len(texts) = n /\ \A k \in 1..n : texts[k] = pieces[k].text
    BY <1>2, <2>2, <2>3
  <2> QED
    BY <2>1, <2>3, <2>4
<1>10. PICK F : Joined(F, texts, n) /\ String!FlattenSeq(texts) = F[n]
  BY <1>9, FlattenJoins
<1>11. \A k \in 0..n : Reads(h[k], u \o F[k]) /\ u \o F[k] \in Seq(Char)
  <2> DEFINE N == {k \in Nat : k \in 0..n => Reads(h[k], u \o F[k]) /\ u \o F[k] \in Seq(Char)}
  <2>1. 0 \in N
    <3>1. u \o << >> = u
      BY <1>3
    <3>2. Reads(m, u)
      BY <1>3, <1>4 DEF Kept, Reads
    <3>3. F[0] = << >>
      BY <1>10 DEF Joined
    <3> QED
      BY <1>3, <1>4, <3>1, <3>2, <3>3
  <2>2. ASSUME NEW i \in Nat, i \in N PROVE i + 1 \in N
    <3>1. ASSUME i + 1 \in 0..n PROVE Reads(h[i + 1], u \o F[i + 1]) /\ u \o F[i + 1] \in Seq(Char)
      <4>1. PICK k, t, v : k = i + 1 /\ t = texts[k] /\ v = u \o F[i]
        OBVIOUS
      <4>2. k \in 1..n /\ k - 1 = i /\ i \in 0..n
        BY <1>2, <3>1, <4>1
      <4>3. Reads(h[i], v) /\ v \in Seq(Char)
        BY <2>2, <4>1, <4>2
      <4>4. h[i].len \in Nat /\ Longer(h[i], t, h[k]) /\ t \in Seq(Char)
        <5>1. h[i].len \in Nat
          BY <1>4, <4>2 DEF After, Strings
        <5>2. Longer(h[k - 1], pieces[k].text, h[k])
          BY <1>7, <4>2
        <5>3. t = pieces[k].text /\ t \in Seq(Char)
          BY <1>9, <4>1, <4>2
        <5> QED
          BY <4>2, <5>1, <5>2, <5>3
      <4>5. Reads(h[k], v \o t) /\ v \o t \in Seq(Char)
        BY <4>3, <4>4, ReadsOn
      <4>6. F[k] = F[i] \o t /\ F[i] \in Seq(Char)
        BY <1>10, <4>1, <4>2 DEF Joined
      <4>7. v \o t = u \o F[k]
        <5>1. PICK w : w = F[i]
          OBVIOUS
        <5>2. (u \o w) \o t = u \o (w \o t)
          BY <1>3, <4>4, <4>6, <5>1, JoinIsAssociative
        <5> QED
          BY <4>1, <4>6, <5>1, <5>2
      <4> QED
        BY <4>1, <4>5, <4>7
    <3> QED
      BY <3>1
  <2> HIDE DEF N
  <2>3. Nat \subseteq N
    BY <2>1, <2>2, InductionOverNat
  <2> QED
    BY <1>2, <2>3 DEF N
<1>12. PICK v : v = u \o F[n]
  OBVIOUS
<1>13. Reads(h[n], v) /\ v \in Seq(Char)
  BY <1>2, <1>11, <1>12
<1>14. Reads(y, v)
  BY <1>4, <1>13 DEF Kept, Reads
<1>15. content(y) = v
  BY <1>13, <1>14, TextIsOne
<1> QED
  BY <1>2, <1>7, <1>8, <1>10, <1>12, <1>15


-----------------------------------------------------------------------------
(* The refinement.                                                         *)

\* A function that leaves the first n characters truncates to them.
LEMMA Truncates ==
  ASSUME NEW u, IsText(s, u), u = content(s), s.astray = "no", s.len \in Nat, MaxLen \in Nat,
         NEW n \in 0..s.len, n <= MaxLen, Fine(s'), s'.astray = "no", Kept(s, n, s')
  PROVE  String!Next
<1>1. u \in Seq(Char) /\ Len(u) = s.len
  BY DEF IsText
<1>2. content(s') = SubSeq(u, 1, n)
  BY KeptText
<1>3. SubSeq(u, 0 + 1, IF n - 1 < Len(u) THEN (n - 1) + 1 ELSE Len(u)) = SubSeq(u, 1, n)
  BY <1>1
<1>4. String!Window(0, n - 1) = SubSeq(u, 1, n)
  BY <1>3 DEF String!Window
<1>5. String!Truncate(n)
  BY <1>2, <1>4, Becomes DEF String!Truncate
<1>6. n \in 0..MaxLen
  OBVIOUS
<1> QED
  BY <1>5, <1>6 DEF String!Next

\* The client of the abstract string starts with the same text.
LEMMA InitIsString == Init => String!Init
<1> SUFFICES ASSUME NEW t \in Text, NEW slack \in Slack, s = Created(t, slack) PROVE String!Init
  BY DEF Init
<1>1. t \in Seq(Char) /\ Len(t) <= MaxLen
  BY TextAssumption
<1>2. s.astray = "no"
  BY DEF Created
<1>3. Fine(s) /\ Reads(s, t)
  BY <1>1, CreatedFine
<1>4. content(s) = t
  BY <1>1, <1>2, <1>3, TextIsOne
<1> QED
  BY <1>2, <1>4 DEF String!Init

\* Every function takes a step of the abstract string.
LEMMA NextIsString ==
  ASSUME IInv, IInv', Next
  PROVE  String!Next
<1>1. /\ Fine(s) /\ Fine(s') /\ s.len <= MaxLen /\ s.len \in Nat /\ s'.len <= MaxLen
      /\ MaxLen \in Nat /\ MaxRoom \in Nat /\ MaxPrealloc \in Nat /\ TypeMax[4] \in Nat
      /\ 2 * MaxLen + MaxRoom + MaxPrealloc <= TypeMax[4]
  BY FineFields, Assumed DEF IInv, Assumptions, Types
<1>2. PICK u : u = content(s)
  OBVIOUS
<1>3. s.astray = "no" => IsText(s, u)
  BY <1>1, <1>2, ContentIsText
<1>4. ASSUME NEW y, Returns(y),
             ASSUME s' = y, s.astray = "no", y.astray = "no" PROVE String!Next
      PROVE  String!Next
  <2>1. s.astray = "no" /\ s' = y
    BY <1>4 DEF Returns
  <2>2. CASE s'.astray # "no"
    BY <2>1, <2>2, LosesIt
  <2>3. CASE s'.astray = "no"
    BY <1>4, <2>1, <2>3
  <2> QED
    BY <2>2, <2>3
<1>5. \A t \in Text : /\ t \in Seq(Char) /\ Len(t) \in Nat /\ Len(t) <= MaxLen
                      /\ s.len + Len(t) + MaxPrealloc <= TypeMax[4] /\ Len(t) + MaxPrealloc <= TypeMax[4]
  <2> SUFFICES ASSUME NEW t \in Text
               PROVE  /\ t \in Seq(Char) /\ Len(t) \in Nat /\ Len(t) <= MaxLen
                      /\ s.len + Len(t) + MaxPrealloc <= TypeMax[4] /\ Len(t) + MaxPrealloc <= TypeMax[4]
    OBVIOUS
  <2>1. t \in Seq(Char) /\ Len(t) <= MaxLen
    BY TextAssumption
  <2>2. Len(t) \in Nat
    BY <2>1
  <2> QED
    BY <1>1, <2>1, <2>2
<1>6. ASSUME NEW t \in Text, s.astray = "no", s'.astray = "no", Reads(s', t) PROVE String!Next
  <2>1. content(s') = t
    BY <1>1, <1>5, <1>6, TextIsOne
  <2>2. String!Become(t)
    BY <1>6, <2>1, Becomes
  <2> QED
    BY <1>6, <2>2 DEF String!Next
<1>7. ASSUME NEW t \in Text, s.astray = "no", s'.astray = "no", Longer(s, t, s') PROVE String!Next
  <2>1. content(s') = u \o t
    BY <1>1, <1>3, <1>5, <1>7, LongerText
  <2>2. String!Extend(t)
    BY <1>2, <1>7, <2>1, Becomes DEF String!Extend
  <2> QED
    BY <1>7, <2>2 DEF String!Next
<1>8. ASSUME NEW n \in 0..s.len, s.astray = "no", s'.astray = "no", Kept(s, n, s') PROVE String!Next
  <2>1. n <= MaxLen
    BY <1>1
  <2> QED
    BY <1>1, <1>2, <1>3, <1>8, <2>1, Truncates
<1>9. ASSUME NEW t \in Text, NEW slack \in Slack, sdsnewlen(t, slack) PROVE String!Next
  <2>1. PICK y : y = Created(t, slack)
    OBVIOUS
  <2>2. Reads(y, t)
    BY <1>5, <2>1, CreatedFine
  <2> QED
    BY <1>4, <1>6, <1>9, <2>1, <2>2 DEF sdsnewlen
<1>10. ASSUME NEW t \in Text, NEW slack \in Slack, sdscatlen(t, slack) PROVE String!Next
  <2>1. PICK y : y = Cat(s, t, slack)
    OBVIOUS
  <2>2. s.astray = "no" => Longer(s, t, y)
    BY <1>1, <1>5, <2>1, CatFine
  <2> QED
    BY <1>4, <1>7, <1>10, <2>1, <2>2 DEF sdscatlen
<1>11. ASSUME NEW t \in Text, NEW slack \in Slack, sdscpylen(t, slack) PROVE String!Next
  <2>1. PICK y : y = Copied(s, t, slack)
    OBVIOUS
  <2>2. s.astray = "no" => Reads(y, t)
    BY <1>1, <1>5, <2>1, CopiedFine
  <2> QED
    BY <1>4, <1>6, <1>11, <2>1, <2>2 DEF sdscpylen
<1>12. ASSUME NEW len \in 0..MaxLen, NEW slack \in Slack, sdsgrowzero(len, slack) PROVE String!Next
  <2>1. PICK y : y = Zeroed(s, len, slack)
    OBVIOUS
  <2>2. len \in Nat /\ len + MaxPrealloc <= TypeMax[4]
    BY <1>1
  <2>3. ASSUME s' = y, s.astray = "no", y.astray = "no" PROVE String!Next
    <3>1. content(s') = [p \in 1..(IF len < Len(u) THEN Len(u) ELSE len) |-> IF p \in DOMAIN u THEN u[p] ELSE NUL]
      BY <1>1, <1>3, <2>1, <2>2, <2>3, ZeroedText
    <3>2. String!GrowZero(len)
      BY <1>2, <2>3, <3>1, Becomes DEF String!GrowZero
    <3> QED
      BY <2>3, <3>2 DEF String!Next
  <2> QED
    BY <1>4, <1>12, <2>1, <2>3 DEF sdsgrowzero
<1>13. ASSUME NEW n \in 0..MaxRoom, NEW greedy \in BOOLEAN, NEW slack \in Slack, sdsMakeRoomFor(n, greedy, slack)
       PROVE  String!Next
  <2>1. PICK y : y = MadeRoom(s, n, greedy, slack)
    OBVIOUS
  <2>2. n \in Nat /\ s.len + n + MaxPrealloc <= TypeMax[4]
    BY <1>1
  <2>3. s.astray = "no" => Kept(s, s.len, y) /\ s.len \in 0..s.len
    BY <1>1, <2>1, <2>2, MadeRoomFine
  <2> QED
    BY <1>4, <1>8, <1>13, <2>1, <2>3 DEF sdsMakeRoomFor
<1>14. ASSUME NEW size \in 0..MaxRoom, NEW regrow \in BOOLEAN, NEW slack \in Slack, sdsResize(size, regrow, slack)
       PROVE  String!Next
  <2>1. PICK y : y = Fitted(s, size, regrow, slack)
    OBVIOUS
  <2>2. size \in Nat /\ size <= TypeMax[4]
    BY <1>1
  <2>3. s.astray = "no" => \E n \in 0..s.len : Kept(s, n, y)
    BY <1>1, <2>1, <2>2, FittedFine
  <2> QED
    BY <1>4, <1>8, <1>14, <2>1, <2>3 DEF sdsResize
<1>15. ASSUME NEW regrow \in BOOLEAN, NEW slack \in Slack, sdsRemoveFreeSpace(regrow, slack) PROVE String!Next
  <2>1. PICK y, n : n = s.len /\ y = Fitted(s, n, regrow, slack)
    OBVIOUS
  <2>2. n \in Nat /\ n <= TypeMax[4]
    BY <1>1, <2>1
  <2>3. s.astray = "no" => \E k \in 0..s.len : Kept(s, k, y)
    BY <1>1, <2>1, <2>2, FittedFine
  <2> QED
    BY <1>4, <1>8, <1>15, <2>1, <2>3 DEF sdsRemoveFreeSpace
<1>16. ASSUME NEW pieces \in Format, NEW slack \in Slack, sdscatfmt(pieces, slack) PROVE String!Next
  <2>1. PICK y : y = Formatted(s, pieces, slack)
    OBVIOUS
  <2>2. ASSUME s' = y, s.astray = "no", y.astray = "no" PROVE String!Next
    <3>1. PICK m, h : PrintedPieces(s, pieces, slack, m, h, y)
      BY <1>1, <2>1, <2>2, FormattedFine
    <3>2. /\ \A p \in DOMAIN pieces : pieces[p].kind \in {"char", "string"}
          /\ content(s') = u \o String!FlattenSeq(TextsOf(pieces))
      BY <1>1, <1>3, <2>2, <3>1, FormattedText
    <3>3. String!Extend(String!FlattenSeq(TextsOf(pieces)))
      BY <1>2, <2>2, <3>2, Becomes DEF String!Extend
    <3>4. String!Formatted(pieces)
      BY <3>2, <3>3 DEF String!Formatted, TextsOf
    <3> QED
      BY <2>2, <3>4 DEF String!Next
  <2> QED
    BY <1>4, <1>16, <2>1, <2>2 DEF sdscatfmt
<1>17. ASSUME NEW cset \in TrimSet, sdstrim(cset) PROVE String!Next
  <2>1. PICK y : y = Trimmed(s, cset)
    OBVIOUS
  <2>2. ASSUME s' = y, s.astray = "no", y.astray = "no" PROVE String!Next
    <3>1. content(s') = Stripped(u, cset)
      BY <1>1, <1>3, <2>1, <2>2, TrimText
    <3>2. String!Trim(cset)
      BY <1>2, <2>2, <3>1, Becomes DEF String!Trim, Stripped
    <3> QED
      BY <2>2, <3>2 DEF String!Next
  <2> QED
    BY <1>4, <1>17, <2>1, <2>2 DEF sdstrim
<1>18. ASSUME NEW start \in Position, NEW end \in Position, sdsrange(start, end) PROVE String!Next
  <2>1. PICK y : y = Ranged(s, start, end)
    OBVIOUS
  <2>2. start \in Int /\ end \in Int
    BY SizeAssumption
  <2>3. ASSUME s' = y, s.astray = "no", y.astray = "no" PROVE String!Next
    <3>1. u \in Seq(Char) /\ Len(u) = s.len
      BY <1>3, <2>3 DEF IsText
    <3>2. PICK from : from = IF start < 0 THEN s.len + start ELSE start
      OBVIOUS
    <3>3. PICK to : to = IF end < 0 THEN s.len + end ELSE end
      OBVIOUS
    <3>4. PICK n : n = IF from > to THEN 0 ELSE to - from + 1
      OBVIOUS
    <3>5. from \in Int /\ to \in Int
      BY <1>1, <2>2, <3>2, <3>3
    <3>6. y = IF s.len = 0 THEN s ELSE IF from < 0 THEN Moved(s, 0, 0) ELSE Substr(s, from, n)
      BY <2>1, <3>2, <3>3, <3>4 DEF Ranged
    <3>7. content(s') = IF from < 0 THEN << >> ELSE Span(u, from, to)
      BY <1>1, <1>3, <2>3, <3>4, <3>5, <3>6, RangedText
    <3>8. String!Become(IF from < 0 THEN << >> ELSE Span(u, from, to))
      BY <2>3, <3>7, Becomes
    <3>9. String!Select(start, end)
      BY <1>2, <3>1, <3>2, <3>3, <3>8 DEF String!Select, String!Window, Span
    <3> QED
      BY <2>3, <3>9 DEF String!Next
  <2> QED
    BY <1>4, <1>18, <2>1, <2>3 DEF sdsrange
<1>19. ASSUME NEW start \in Position \intersect Nat, NEW len \in Position \intersect Nat, sdssubstr(start, len)
       PROVE  String!Next
  <2>1. PICK y : y = Substr(s, start, len)
    OBVIOUS
  <2>2. ASSUME s' = y, s.astray = "no", y.astray = "no" PROVE String!Next
    <3>1. content(s') = Span(u, start, start + len - 1)
      BY <1>1, <1>3, <2>1, <2>2, SubstrText
    <3>2. String!Substring(start, len)
      BY <1>2, <2>2, <3>1, Becomes DEF String!Substring, String!Window, Span
    <3> QED
      BY <2>2, <3>2 DEF String!Next
  <2> QED
    BY <1>4, <1>19, <2>1, <2>2 DEF sdssubstr
<1>20. ASSUME sdsclear PROVE String!Next
  <2>1. PICK y : y = Terminate(sdssetlen(s, 0), 0)
    OBVIOUS
  <2>2. s.astray = "no" => Kept(s, 0, y) /\ 0 \in 0..s.len
    BY <1>1, <2>1, ClearedFine
  <2> QED
    BY <1>4, <1>8, <1>20, <2>1, <2>2 DEF sdsclear
<1>21. ASSUME sdsupdatelen PROVE String!Next
  <2>1. PICK y : y = sdssetlen(s, strlen(s.buf))
    OBVIOUS
  <2>2. ASSUME s' = y, s.astray = "no", y.astray = "no" PROVE String!Next
    <3>1. content(s') = Before(u)
      BY <1>1, <1>3, <2>1, <2>2, UpdatedText
    <3>2. String!UpToNul
      BY <1>2, <2>2, <3>1, Becomes DEF String!UpToNul, Before
    <3> QED
      BY <2>2, <3>2 DEF String!Next
  <2> QED
    BY <1>4, <1>21, <2>1, <2>2 DEF sdsupdatelen
<1>22. ASSUME NEW f \in Map, sdsmapchars(f) PROVE String!Next
  <2> DEFINE y == [s EXCEPT !.buf = [p \in DOMAIN @ |-> IF p <= s.len THEN sdsmapchar(@[p], f) ELSE @[p]]]
  <2>1. ASSUME s' = y, s.astray = "no", y.astray = "no" PROVE String!Next
    <3>1. y.len = s.len /\ \A p \in 1..s.len : y.buf[p] = sdsmapchar(s.buf[p], f)
      BY <1>1, <2>1, MappedFine
    <3>2. content(s') = Translated(u, f)
      <4> HIDE DEF y
      <4> QED
        BY <1>1, <1>3, <2>1, <3>1, MappedText
    <3>3. String!Translate(f)
      <4> HIDE DEF y
      <4> QED
        BY <1>2, <2>1, <3>2, Becomes DEF String!Translate, Translated
    <3> QED
      BY <2>1, <3>3 DEF String!Next
  <2>2. Returns(y)
    BY <1>22 DEF sdsmapchars
  <2> HIDE DEF y
  <2> QED
    BY <1>4, <2>1, <2>2
<1>23. ASSUME sdsIncrLen PROVE String!Next
  <2>1. ASSUME NEW t \in Text, Len(t) <= sdsavail(s), Returns(Lengthened(s, t)) PROVE String!Next
    <3>1. PICK y : y = Lengthened(s, t)
      OBVIOUS
    <3>2. s.astray = "no" /\ y.astray = "no" => Longer(s, t, y)
      BY <1>1, <1>5, <2>1, <3>1, LengthenedFine
    <3> QED
      BY <1>4, <1>7, <2>1, <3>1, <3>2
  <2>2. ASSUME NEW decr \in 1..s.len, Returns(Shortened(s, decr)) PROVE String!Next
    <3>1. PICK y : y = Shortened(s, decr)
      OBVIOUS
    <3>2. s.astray = "no" => Kept(s, s.len - decr, y)
      BY <1>1, <3>1, ShortenedFine
    <3>3. s.len - decr \in 0..s.len
      BY <1>1
    <3> QED
      BY <1>4, <1>8, <2>2, <3>1, <3>2, <3>3
  <2> QED
    BY <1>23, <2>1, <2>2 DEF sdsIncrLen
<1> QED
  BY <1>9, <1>10, <1>11, <1>12, <1>13, <1>14, <1>15, <1>16, <1>17, <1>18, <1>19, <1>20, <1>21, <1>22, <1>23
     DEF Next

\* To its client a string of any type, wherever its block has moved, is the
\* sequence of its characters, and each call of sds.c changes it as some operation
\* of SdsString does, until the string goes astray.
THEOREM StringsAreTexts == Spec => ImplementsString
<1>1. IInv /\ IInv' /\ [Next]_s => [String!Next]_<<content(s), s.astray # "no">>
  <2>1. UNCHANGED s => UNCHANGED <<content(s), s.astray # "no">>
    BY DEF content
  <2> QED
    BY <2>1, NextIsString
<1> QED
  BY <1>1, InitIsString, StringInvariant, PTL DEF Spec, ImplementsString, String!Spec

=============================================================================
