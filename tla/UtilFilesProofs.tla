-------------------------- MODULE UtilFilesProofs --------------------------
(***************************************************************************)
(* Theorems about UtilFiles, for any names, depth and number of troubles.  *)
(***************************************************************************)
EXTENDS UtilFiles, FiniteSetTheorems, SequenceTheorems, TLAPS

Kind == {"none", "file", "dir"}

Below(p) == {n \in Name : Append(p, n) \in Path}

FrameType ==
  [path : Path, at : {"opendir", "readdir", "open", "unlink", "rmdir"},
   entry : SUBSET Name, must : SUBSET Name, may : SUBSET Name, alive : BOOLEAN]

CreationType ==
  [path : Path, at : {"stat"}, wasDir : BOOLEAN, wasOther : BOOLEAN, ret : {-1, 0}]

\* A stream gives names that its directory can have.
FrameOK(f) == f \in FrameType /\ f.entry \union f.must \union f.may \subseteq Below(f.path)

StackOK(frames) == frames \in Seq(FrameType) /\ \A i \in 1..Len(frames) : FrameOK(frames[i])

\* The types.
TypeOK ==
  /\ kind \in [Path -> Kind]
  /\ StackOK(stack)
  /\ streams \in Int /\ abandoned \in Nat
  /\ ret \in {"none", "ok", "failed"}
  /\ creating \in SUBSET CreationType /\ created \in SUBSET CreationType
  /\ trouble \in 0..MaxTrouble

-----------------------------------------------------------------------------
(* Paths.                                                                  *)

LEMMA PathIsSeq ==
  \A p : p \in Path <=> p \in Seq(Name) /\ Len(p) <= MaxDepth
<1>1. ASSUME NEW p \in Path PROVE p \in Seq(Name) /\ Len(p) <= MaxDepth
  <2>1. PICK n \in 0..MaxDepth : p \in [1..n -> Name]
    BY DEF Path
  <2>2. n \in Nat
    BY BoundAssumption
  <2> QED
    BY <2>1, <2>2, BoundAssumption
<1>2. ASSUME NEW p \in Seq(Name), Len(p) <= MaxDepth PROVE p \in Path
  <2>1. Len(p) \in 0..MaxDepth /\ p \in [1..Len(p) -> Name]
    BY <1>2, LenProperties, BoundAssumption
  <2> QED
    BY <2>1 DEF Path
<1> QED
  BY <1>1, <1>2

\* A path other than the root is its parent and a name.
LEMMA PathSplit ==
  ASSUME NEW p \in Path, p # << >>
  PROVE  /\ Parent(p) \in Path /\ Len(Parent(p)) = Len(p) - 1
         /\ p[Len(p)] \in Name
         /\ Append(Parent(p), p[Len(p)]) = p
         /\ p[Len(p)] \in Below(Parent(p))
<1>1. p \in Seq(Name) /\ Len(p) <= MaxDepth /\ Len(p) \in Nat \ {0}
  BY PathIsSeq, EmptySeq
<1>2. p[Len(p)] \in Name
  BY <1>1
<1>3. Parent(p) \in Seq(Name) /\ Len(Parent(p)) = Len(p) - 1
  BY <1>1 DEF Parent
<1>4. Append(Parent(p), p[Len(p)]) = p
  BY <1>1, <1>3 DEF Parent
<1>5. Parent(p) \in Path
  BY <1>1, <1>3, PathIsSeq, BoundAssumption
<1> QED
  BY <1>2, <1>3, <1>4, <1>5 DEF Below

\* What is above a path is a path.
LEMMA PrefixPath ==
  ASSUME NEW p \in Path, NEW j \in 0..Len(p)
  PROVE  SubSeq(p, 1, j) \in Path
<1>1. p \in Seq(Name) /\ Len(p) <= MaxDepth /\ Len(p) \in Nat /\ j \in Nat /\ j <= Len(p) /\ MaxDepth \in Nat
  BY PathIsSeq, BoundAssumption
<1>2. SubSeq(p, 1, j) \in Seq(Name) /\ Len(SubSeq(p, 1, j)) = j
  BY <1>1
<1>3. j <= MaxDepth
  BY <1>1
<1>4. Len(SubSeq(p, 1, j)) <= MaxDepth
  BY <1>2, <1>3
<1> QED
  BY <1>2, <1>4, PathIsSeq

\* A name that a directory can have makes a path below it, one level deeper.
LEMMA PathBelow ==
  ASSUME NEW p \in Path, NEW n \in Below(p)
  PROVE  /\ Append(p, n) \in Path /\ Append(p, n) # << >>
         /\ Len(Append(p, n)) = Len(p) + 1
         /\ Parent(Append(p, n)) = p
         /\ Append(p, n)[Len(Append(p, n))] = n
<1>1. p \in Seq(Name) /\ n \in Name /\ Append(p, n) \in Path
  BY PathIsSeq DEF Below
<1>2. Len(Append(p, n)) = Len(p) + 1 /\ Append(p, n) # << >> /\ Len(p) \in Nat
  BY <1>1
<1>3. Parent(Append(p, n)) = p
  BY <1>1, <1>2 DEF Parent
<1>4. Append(p, n)[Len(Append(p, n))] = n
  BY <1>1, <1>2
<1> QED
  BY <1>1, <1>2, <1>3, <1>4

LEMMA EntriesBelow ==
  ASSUME NEW k, NEW p \in Path
  PROVE  Entries(k, p) \subseteq Below(p)
BY DEF Entries, Below

-----------------------------------------------------------------------------
(* What making and removing an entry does to the frames.                   *)

\* They keep their number, their places in the code and their paths, and the
\* names an open stream may give stay names below its directory.
LEMMA FramesKept ==
  ASSUME NEW frames, StackOK(frames), NEW p \in Path,
         NEW new, new \in {AfterMaking(p, frames), AfterRemoving(p, frames)}
  PROVE  /\ StackOK(new) /\ Len(new) = Len(frames)
         /\ \A i \in 1..Len(frames) :
              new[i].at = frames[i].at /\ new[i].path = frames[i].path /\ new[i].entry = frames[i].entry
<1>1. /\ frames \in Seq(FrameType)
      /\ DOMAIN frames = 1..Len(frames) /\ Len(frames) \in Nat
      /\ \A i \in 1..Len(frames) : frames[i] \in FrameType /\ FrameOK(frames[i])
  BY DEF StackOK
<1>2. /\ p # << >> => p[Len(p)] \in Below(Parent(p)) /\ p[Len(p)] \in Name
  BY PathSplit
<1>3. /\ DOMAIN new = 1..Len(frames)
      /\ \A i \in 1..Len(frames) :
           /\ FrameOK(new[i])
           /\ new[i].at = frames[i].at /\ new[i].path = frames[i].path /\ new[i].entry = frames[i].entry
  <2>1. DOMAIN new = 1..Len(frames)
    BY <1>1 DEF AfterMaking, AfterRemoving
  <2>2. ASSUME NEW i \in 1..Len(frames)
        PROVE  /\ FrameOK(new[i])
               /\ new[i].at = frames[i].at /\ new[i].path = frames[i].path /\ new[i].entry = frames[i].entry
    <3> DEFINE f == frames[i]
    <3> DEFINE name == p[Len(p)]
    <3>1. f \in FrameType /\ f.entry \union f.must \union f.may \subseteq Below(f.path)
      BY <1>1 DEF FrameOK
    <3>2. CASE new[i] = f
      BY <3>1, <3>2 DEF FrameOK
    <3>3. CASE p # << >> /\ f.path = Parent(p) /\ new[i] = [f EXCEPT !.may = @ \union {name}]
      BY <3>1, <3>3, <1>2 DEF FrameOK, FrameType
    <3>4. CASE p # << >> /\ f.path = Parent(p)
               /\ new[i] = [f EXCEPT !.must = @ \ {name}, !.may = @ \union {name}]
      <4>1. /\ new[i].path = f.path /\ new[i].at = f.at /\ new[i].entry = f.entry /\ new[i].alive = f.alive
            /\ new[i].must = f.must \ {name} /\ new[i].may = f.may \union {name}
            /\ new[i] = [path |-> f.path, at |-> f.at, entry |-> f.entry, must |-> f.must \ {name},
                         may |-> f.may \union {name}, alive |-> f.alive]
        BY <3>1, <3>4 DEF FrameType
      <4>2. f.must \ {name} \in SUBSET Name /\ f.may \union {name} \in SUBSET Name
        BY <3>1, <3>4, <1>2 DEF FrameType
      <4>3. new[i] \in FrameType
        BY <3>1, <4>1, <4>2 DEF FrameType
      <4>4. name \in Below(f.path)
        BY <3>4, <1>2
      <4> QED
        BY <3>1, <4>1, <4>3, <4>4 DEF FrameOK
    <3>5. CASE new[i] = [f EXCEPT !.alive = FALSE]
      BY <3>1, <3>5 DEF FrameOK, FrameType
    <3>6. \/ new[i] = f
          \/ p # << >> /\ f.path = Parent(p) /\ new[i] = [f EXCEPT !.may = @ \union {name}]
          \/ p # << >> /\ f.path = Parent(p) /\ new[i] = [f EXCEPT !.must = @ \ {name}, !.may = @ \union {name}]
          \/ new[i] = [f EXCEPT !.alive = FALSE]
      BY <1>1 DEF AfterMaking, AfterRemoving
    <3> QED
      BY <3>2, <3>3, <3>4, <3>5, <3>6
  <2> QED
    BY <2>1, <2>2
<1>4. new = [i \in 1..Len(frames) |-> new[i]]
  BY <1>1 DEF AfterMaking, AfterRemoving
<1>5. new \in Seq(FrameType) /\ Len(new) = Len(frames)
  BY <1>1, <1>3, <1>4 DEF FrameOK
<1> QED
  BY <1>3, <1>5 DEF StackOK
\* The innermost frame.
LEMMA TopFrame ==
  ASSUME TypeOK, stack # << >>
  PROVE  /\ Len(stack) \in Nat \ {0} /\ DOMAIN stack = 1..Len(stack)
         /\ FrameOK(Top) /\ Top \in FrameType
<1>1. stack \in Seq(FrameType) /\ Len(stack) \in Nat \ {0} /\ DOMAIN stack = 1..Len(stack)
  BY EmptySeq DEF TypeOK, StackOK
<1> QED
  BY <1>1 DEF TypeOK, StackOK, Top

\* Another innermost frame.
LEMMA TopReplaced ==
  ASSUME TypeOK, stack # << >>, NEW f, FrameOK(f)
  PROVE  /\ StackOK(WithTop(f)) /\ Len(WithTop(f)) = Len(stack)
         /\ WithTop(f)[Len(stack)] = f
         /\ \A i \in 1..(Len(stack) - 1) : WithTop(f)[i] = stack[i]
<1>1. stack \in Seq(FrameType) /\ Len(stack) \in 1..Len(stack) /\ f \in FrameType
  BY TopFrame DEF TypeOK, StackOK, FrameOK
<1>2. /\ WithTop(f) \in Seq(FrameType) /\ Len(WithTop(f)) = Len(stack)
      /\ \A j \in 1..Len(stack) : WithTop(f)[j] = IF j = Len(stack) THEN f ELSE stack[j]
  BY <1>1 DEF WithTop
<1> QED
  BY <1>1, <1>2 DEF TypeOK, StackOK

\* A call more, and one less.
LEMMA FrameAdded ==
  ASSUME NEW frames, StackOK(frames), NEW p \in Path
  PROVE  /\ StackOK(Append(frames, Frame(p))) /\ Len(Append(frames, Frame(p))) = Len(frames) + 1
         /\ Append(frames, Frame(p))[Len(frames) + 1] = Frame(p)
         /\ \A i \in 1..Len(frames) : Append(frames, Frame(p))[i] = frames[i]
<1>1. Frame(p) \in FrameType /\ FrameOK(Frame(p))
  BY DEF Frame, FrameOK, FrameType
<1>2. frames \in Seq(FrameType) /\ Len(frames) \in Nat
  BY DEF StackOK
<1>3. /\ Append(frames, Frame(p)) \in Seq(FrameType) /\ Len(Append(frames, Frame(p))) = Len(frames) + 1
      /\ Append(frames, Frame(p))[Len(frames) + 1] = Frame(p)
      /\ \A i \in 1..Len(frames) : Append(frames, Frame(p))[i] = frames[i]
  BY <1>1, <1>2
<1> QED
  BY <1>1, <1>2, <1>3 DEF StackOK

LEMMA FrameGone ==
  ASSUME TypeOK, stack # << >>
  PROVE  LET s == SubSeq(stack, 1, Len(stack) - 1)
         IN  /\ StackOK(s) /\ Len(s) = Len(stack) - 1
             /\ \A i \in 1..(Len(stack) - 1) : s[i] = stack[i]
<1>1. stack \in Seq(FrameType) /\ Len(stack) \in Nat \ {0}
  BY TopFrame DEF TypeOK, StackOK
<1>2. /\ SubSeq(stack, 1, Len(stack) - 1) \in Seq(FrameType)
      /\ Len(SubSeq(stack, 1, Len(stack) - 1)) = Len(stack) - 1
      /\ \A i \in 1..(Len(stack) - 1) : SubSeq(stack, 1, Len(stack) - 1)[i] = stack[i]
  <2>1. \A i \in 1..(Len(stack) - 1) : stack[i] \in FrameType
    BY <1>1
  <2>2. 1 \in Int /\ Len(stack) - 1 \in Int /\ (Len(stack) - 1) - 1 + 1 = Len(stack) - 1
    BY <1>1
  <2>3. SubSeq(stack, 1, Len(stack) - 1) \in Seq(FrameType)
    BY <2>1, <2>2, SubSeqProperties
  <2>4. Len(SubSeq(stack, 1, Len(stack) - 1)) = IF 1 <= Len(stack) - 1 THEN Len(stack) - 1 - 1 + 1 ELSE 0
    BY <2>1, <2>2, SubSeqProperties
  <2>5. Len(SubSeq(stack, 1, Len(stack) - 1)) = Len(stack) - 1
    <3>1. \A x, n : n \in Nat \ {0} /\ x = (IF 1 <= n - 1 THEN n - 1 - 1 + 1 ELSE 0) => x = n - 1
      OBVIOUS
    <3>2. Len(stack) \in Nat \ {0}
      BY <1>1
    <3> QED
      BY <2>4, <3>1, <3>2
  <2>6. \A i \in 1..(Len(stack) - 1) : SubSeq(stack, 1, Len(stack) - 1)[i] = stack[i]
    BY <1>1
  <2> QED
    BY <2>3, <2>5, <2>6
<1> QED
  BY <1>1, <1>2 DEF TypeOK, StackOK
-----------------------------------------------------------------------------
(* The types are kept.                                                     *)

LEMMA FailType ==
  ASSUME TypeOK, stack # << >>, Fail
  PROVE  StackOK(stack') /\ streams' \in Int /\ abandoned' \in Nat /\ ret' \in {"none", "ok", "failed"}
<1>1. StackOK(<< >>)
  BY DEF StackOK
<1>2. Len(stack) \in Nat \ {0}
  BY TopFrame
<1> QED
  BY <1>1, <1>2 DEF Fail, TypeOK

LEMMA WitnessType ==
  ASSUME TypeOK, NEW k
  PROVE  Witness(k) \in SUBSET CreationType
BY ZenonT(60) DEF Witness, TypeOK, CreationType

LEMMA CreationTyped ==
  ASSUME NEW p \in Path, NEW r \in {-1, 0}
  PROVE  /\ Creation(p) \in CreationType
         /\ [Creation(p) EXCEPT !.wasDir = TRUE, !.ret = r] \in CreationType
BY DEF Creation, CreationType

\* The names that are there are names the directory can have.
LEMMA OpenedFrame ==
  ASSUME TypeOK, stack # << >>
  PROVE  FrameOK([Top EXCEPT !.at = "readdir", !.must = Entries(kind, Top.path)])
<1>1. FrameOK(Top) /\ Top \in FrameType
  BY TopFrame
<1>2. Entries(kind, Top.path) \subseteq Below(Top.path) /\ Below(Top.path) \subseteq Name
  BY <1>1, EntriesBelow DEF FrameType, Below
<1> QED
  BY <1>1, <1>2 DEF FrameOK, FrameType

LEMMA FrameMoved ==
  ASSUME TypeOK, stack # << >>
  PROVE  /\ FrameOK([Top EXCEPT !.at = "readdir", !.entry = {}])
         /\ FrameOK([Top EXCEPT !.at = "unlink"]) /\ FrameOK([Top EXCEPT !.at = "rmdir"])
         /\ \A n \in Top.must \union Top.may :
              FrameOK(AtEntry(Top, n))
<1>1. FrameOK(Top) /\ Top \in FrameType
  BY TopFrame
<1>2. /\ FrameOK([Top EXCEPT !.at = "readdir", !.entry = {}])
      /\ FrameOK([Top EXCEPT !.at = "unlink"]) /\ FrameOK([Top EXCEPT !.at = "rmdir"])
  BY <1>1 DEF FrameOK, FrameType
<1>3. ASSUME NEW n \in Top.must \union Top.may
      PROVE  FrameOK(AtEntry(Top, n))
  <2>1. n \in Name /\ n \in Below(Top.path)
    BY <1>1 DEF FrameOK, FrameType
  <2>2. {n} \in SUBSET Name /\ Top.must \ {n} \in SUBSET Name /\ Top.may \ {n} \in SUBSET Name
    BY <1>1, <2>1 DEF FrameType
  <2>3. AtEntry(Top, n) \in FrameType
    BY <1>1, <2>2 DEF FrameType, AtEntry
  <2>4. AtEntry(Top, n).entry \union AtEntry(Top, n).must \union AtEntry(Top, n).may \subseteq Below(AtEntry(Top, n).path)
    BY <1>1, <2>1 DEF FrameOK, AtEntry
  <2> QED
    BY <2>3, <2>4 DEF FrameOK
<1> QED
  BY <1>2, <1>3
LEMMA TypeInit ==
  ASSUME Init
  PROVE  TypeOK
BY BoundAssumption DEF Init, TypeOK, StackOK, Kind

LEMMA TypeStep ==
  ASSUME TypeOK, [Next]_vars
  PROVE  TypeOK'
<1> DEFINE Calls == StackOK(stack') /\ streams' \in Int /\ abandoned' \in Nat /\ ret' \in {"none", "ok", "failed"}
<1> DEFINE Rest ==
      /\ kind' \in [Path -> Kind]
      /\ creating' \in SUBSET CreationType /\ created' \in SUBSET CreationType
      /\ trouble' \in 0..MaxTrouble
<1>1. Calls /\ Rest => TypeOK'
  BY DEF TypeOK
<1>2. Unhindered => Rest
  BY DEF Unhindered, TypeOK
<1>3. UNCHANGED <<streams, ret, abandoned>> /\ StackOK(stack') => Calls
  BY DEF TypeOK
<1>4. CASE dirRemove
  <2>1. << >> \in Path
    <3>1. << >> \in Seq(Name) /\ Len(<< >>) = 0
      BY EmptySeq
    <3>2. 0 <= MaxDepth
      BY BoundAssumption
    <3> QED
      BY <3>1, <3>2, PathIsSeq
  <2>2. StackOK(<< >>) /\ Append(<< >>, Frame(<< >>)) = <<Frame(<< >>)>>
    BY DEF StackOK
  <2>3. StackOK(<<Frame(<< >>)>>)
    BY <2>1, <2>2, FrameAdded
  <2> QED
    BY <1>1, <1>2, <1>3, <1>4, <2>3 DEF dirRemove
<1>5. CASE opendir
  <2>1. CASE kind[Top.path] = "dir"
    <3>1. StackOK(stack') /\ streams' = streams + 1 /\ UNCHANGED <<ret, abandoned>>
      BY <1>5, <2>1, OpenedFrame, TopReplaced DEF opendir
    <3> QED
      BY <1>1, <1>2, <1>5, <3>1 DEF opendir, TypeOK
  <2>2. CASE kind[Top.path] # "dir"
    BY <1>1, <1>2, <1>5, <2>2, FailType DEF opendir
  <2> QED
    BY <2>1, <2>2
<1>6. CASE readdir
  <2>1. StackOK(stack')
    BY <1>6, FrameMoved, TopReplaced DEF readdir
  <2> QED
    BY <1>1, <1>2, <1>3, <1>6, <2>1 DEF readdir
<1>7. CASE open
  <2>1. PICK n \in Top.entry : 
          IF kind[Append(Top.path, n)] = "none" THEN Fail
          ELSE /\ stack' = IF kind[Append(Top.path, n)] = "dir"
                           THEN Append(WithTop([Top EXCEPT !.at = "readdir", !.entry = {}]), Frame(Append(Top.path, n)))
                           ELSE WithTop([Top EXCEPT !.at = "unlink"])
               /\ UNCHANGED <<streams, ret, abandoned>>
    BY <1>7 DEF open
  <2>2. stack # << >> /\ Append(Top.path, n) \in Path
    BY <1>7, TopFrame DEF open, FrameOK, Below
  <2>3. CASE kind[Append(Top.path, n)] = "none"
    BY <1>1, <1>2, <1>7, <2>1, <2>2, <2>3, FailType DEF open
  <2>4. CASE kind[Append(Top.path, n)] # "none"
    <3>1. StackOK(WithTop([Top EXCEPT !.at = "readdir", !.entry = {}])) /\ StackOK(WithTop([Top EXCEPT !.at = "unlink"]))
      BY <2>2, FrameMoved, TopReplaced
    <3>2. StackOK(stack')
      BY <2>1, <2>2, <2>4, <3>1, FrameAdded
    <3> QED
      BY <1>1, <1>2, <1>3, <1>7, <2>1, <2>4, <3>2 DEF open
  <2> QED
    BY <2>3, <2>4
<1>8. CASE unlink
  <2>1. PICK n \in Top.entry :
          IF kind[Append(Top.path, n)] # "file" THEN Fail /\ Unhindered
          ELSE /\ kind' = [kind EXCEPT ![Append(Top.path, n)] = "none"]
               /\ stack' = AfterRemoving(Append(Top.path, n), WithTop([Top EXCEPT !.at = "readdir", !.entry = {}]))
               /\ creating' = Witness(kind')
               /\ UNCHANGED <<streams, ret, abandoned, created, trouble>>
    BY <1>8 DEF unlink
  <2>2. stack # << >> /\ Append(Top.path, n) \in Path
    BY <1>8, TopFrame DEF unlink, FrameOK, Below
  <2>3. CASE kind[Append(Top.path, n)] # "file"
    BY <1>1, <1>2, <2>1, <2>2, <2>3, FailType
  <2>4. CASE kind[Append(Top.path, n)] = "file"
    <3>1. StackOK(WithTop([Top EXCEPT !.at = "readdir", !.entry = {}]))
      BY <2>2, FrameMoved, TopReplaced
    <3>2. StackOK(stack')
      BY <2>1, <2>2, <2>4, <3>1, FramesKept
    <3>3. Rest
      BY <2>1, <2>4, WitnessType DEF TypeOK, Kind
    <3> QED
      BY <1>1, <1>3, <2>1, <2>4, <3>2, <3>3
  <2> QED
    BY <2>3, <2>4
<1>9. CASE rmdir
  <2>1. CASE Empty(Top.path)
    <3>1. StackOK(stack')
      BY <1>9, <2>1, FrameGone DEF rmdir, Succeed
    <3>2. Calls
      BY <1>9, <2>1, <3>1 DEF rmdir, Succeed, TypeOK
    <3>3. Rest
      BY <1>9, <2>1, WitnessType DEF rmdir, TypeOK, Kind
    <3> QED
      BY <1>1, <3>2, <3>3
  <2>2. CASE ~Empty(Top.path)
    BY <1>1, <1>2, <1>9, <2>2, FailType DEF rmdir
  <2> QED
    BY <2>1, <2>2
<1>10. CASE CallFails
  <2>1. Calls
    BY <1>10, FailType DEF CallFails
  <2>2. Rest
    BY <1>10, BoundAssumption DEF CallFails, TypeOK
  <2> QED
    BY <1>1, <2>1, <2>2
<1>11. ASSUME NEW p \in Path, mkdir(p)
       PROVE  TypeOK'
  <2>1. StackOK(stack')
    BY <1>11, FramesKept DEF mkdir, TypeOK
  <2>2. trouble' \in 0..MaxTrouble
    BY <1>11, BoundAssumption DEF mkdir, TypeOK
  <2>3. kind' \in [Path -> Kind]
    BY <1>11 DEF mkdir, TypeOK, Kind
  <2>4. creating' \in SUBSET CreationType /\ created' \in SUBSET CreationType
    <3>1. Creation(p) \in CreationType /\ [Creation(p) EXCEPT !.wasDir = TRUE, !.ret = 0] \in CreationType
      BY CreationTyped
    <3>2. creating' \in {creating, {Creation(p)}}
      BY <1>11 DEF mkdir
    <3>3. created' \in {created, {Creation(p)}, {[Creation(p) EXCEPT !.wasDir = TRUE, !.ret = 0]}}
      BY <1>11 DEF mkdir
    <3> QED
      BY <3>1, <3>2, <3>3 DEF TypeOK
  <2> QED
    BY <1>1, <1>3, <1>11, <2>1, <2>2, <2>3, <2>4 DEF mkdir
<1>12. CASE dirExists
  <2>1. \A c \in creating, r \in {-1, 0} : [c EXCEPT !.ret = r] \in CreationType
    BY DEF TypeOK, CreationType
  <2>2. created' \in SUBSET CreationType
    BY <1>12, <2>1 DEF dirExists
  <2> QED
    BY <1>12, <2>2 DEF dirExists, TypeOK
<1>13. ASSUME NEW p \in Path, Others(p)
       PROVE  TypeOK'
  <2>1. StackOK(stack')
    BY <1>13, FramesKept DEF Others, TypeOK
  <2>2. trouble' \in 0..MaxTrouble
    BY <1>13, BoundAssumption DEF Others, TypeOK
  <2>3. kind' \in [Path -> Kind]
    BY <1>13 DEF Others, TypeOK, Kind
  <2>4. creating' \in SUBSET CreationType /\ created' \in SUBSET CreationType
    BY <1>13, WitnessType DEF Others, TypeOK
  <2> QED
    BY <1>1, <1>3, <1>13, <2>1, <2>2, <2>3, <2>4 DEF Others
<1>14. CASE UNCHANGED vars
  BY <1>14 DEF vars, TypeOK
<1> HIDE DEF Calls, Rest
<1> QED
  BY <1>4, <1>5, <1>6, <1>7, <1>8, <1>9, <1>10, <1>11, <1>12, <1>13, <1>14 DEF Next, Remove

-----------------------------------------------------------------------------
(* The streams.                                                            *)

\* Only the innermost call can be anywhere else than in its loop.
Waiting(frames) == \A i \in 1..(Len(frames) - 1) : frames[i].at = "readdir"

\* So the calls that have opened their stream are all, or all but the innermost.
Opened(frames) ==
  IF Len(frames) = 0 THEN 0
  ELSE IF frames[Len(frames)].at = "opendir" THEN Len(frames) - 1 ELSE Len(frames)

StreamsInv == TypeOK /\ Waiting(stack) /\ streams = abandoned + Opened(stack)

LEMMA OpenedCounted ==
  ASSUME StackOK(stack), Waiting(stack)
  PROVE  Cardinality({i \in DOMAIN stack : stack[i].at # "opendir"}) = Opened(stack)
<1>1. Len(stack) \in Nat /\ DOMAIN stack = 1..Len(stack)
  BY DEF StackOK
<1>2. Opened(stack) \in Nat
  BY <1>1 DEF Opened
<1>3. {i \in DOMAIN stack : stack[i].at # "opendir"} = 1..Opened(stack)
  <2>1. ASSUME NEW i \in 1..Len(stack)
        PROVE  stack[i].at # "opendir" <=> i <= Opened(stack)
    <3>1. CASE i = Len(stack)
      BY <1>1, <2>1, <3>1 DEF Opened
    <3>2. CASE i # Len(stack)
      <4>1. i \in 1..(Len(stack) - 1)
        <5>1. \A n \in Nat : \A j \in 1..n : j # n => j \in 1..(n - 1)
          OBVIOUS
        <5>2. Len(stack) \in Nat /\ i \in 1..Len(stack)
          BY <1>1, <2>1
        <5> QED
          BY <3>2, <5>1, <5>2, Zenon
      <4>2. stack[i].at = "readdir"
        BY <4>1 DEF Waiting
      <4>3. i <= Opened(stack)
        BY <1>1, <4>1 DEF Opened
      <4> QED
        BY <4>2, <4>3
    <3> QED
      BY <3>1, <3>2
  <2>2. Opened(stack) <= Len(stack)
    BY <1>1 DEF Opened
  <2> QED
    BY <1>1, <1>2, <2>1, <2>2
<1>4. Cardinality(1..Opened(stack)) = Opened(stack)
  <2>1. 1 \in Int /\ Opened(stack) \in Int
    BY <1>2
  <2>2. Cardinality(1..Opened(stack)) = IF 1 > Opened(stack) THEN 0 ELSE Opened(stack) - 1 + 1
    BY <2>1, FS_Interval
  <2>3. \A n \in Nat : (IF 1 > n THEN 0 ELSE n - 1 + 1) = n
    OBVIOUS
  <2> QED
    BY <1>2, <2>2, <2>3
<1> QED
  BY <1>3, <1>4

\* Frames that differ in their innermost only, which has its stream in both or
\* in neither.
LEMMA OpenedKept ==
  ASSUME NEW old, NEW new, StackOK(old), Len(new) = Len(old), Waiting(old),
         \A i \in 1..(Len(old) - 1) : new[i].at = old[i].at,
         Len(old) # 0 => (new[Len(old)].at = "opendir" <=> old[Len(old)].at = "opendir")
  PROVE  Waiting(new) /\ Opened(new) = Opened(old)
<1>1. Len(old) \in Nat
  BY DEF StackOK
<1> QED
  BY <1>1 DEF Waiting, Opened

\* A call that fails takes all with it, and leaves the streams of the others.
LEMMA FailCounted ==
  ASSUME StreamsInv, stack # << >>, Fail
  PROVE  Waiting(stack') /\ streams' = abandoned' + Opened(stack')
<1>1. Len(stack) \in Nat \ {0} /\ streams \in Int /\ abandoned \in Nat
  BY TopFrame DEF StreamsInv, TypeOK
<1>2. stack' = << >> /\ Opened(stack') = 0 /\ Waiting(stack')
  BY DEF Fail, Opened, Waiting
<1>3. streams = abandoned + IF Top.at = "opendir" THEN Len(stack) - 1 ELSE Len(stack)
  BY <1>1 DEF StreamsInv, Opened, Top
<1> QED
  BY <1>1, <1>2, <1>3 DEF Fail

LEMMA StreamsStep ==
  ASSUME StreamsInv, [Next]_vars
  PROVE  StreamsInv'
<1> DEFINE Counted == Waiting(stack') /\ streams' = abandoned' + Opened(stack')
<1>1. TypeOK /\ TypeOK' /\ StackOK(stack) /\ Waiting(stack) /\ streams = abandoned + Opened(stack)
  BY TypeStep DEF StreamsInv, TypeOK
<1>2. Counted => StreamsInv'
  BY <1>1 DEF StreamsInv
<1>3. UNCHANGED <<stack, streams, abandoned>> => Counted
  BY <1>1
<1>4. stack # << >> => /\ Len(stack) \in Nat \ {0} /\ Top = stack[Len(stack)] /\ FrameOK(Top) /\ Top \in FrameType
                       /\ streams \in Int /\ abandoned \in Nat
  BY <1>1, TopFrame DEF Top, TypeOK
<1>5. CASE dirRemove
  <2>1. Len(stack) = 0 /\ stack' = <<Frame(<< >>)>> /\ UNCHANGED <<streams, abandoned>>
    BY <1>5 DEF dirRemove
  <2>2. Len(stack') = 1 /\ stack'[1].at = "opendir"
    BY <2>1 DEF Frame
  <2>3. Opened(stack) = 0 /\ Opened(stack') = 0 /\ Waiting(stack')
    BY <2>1, <2>2 DEF Opened, Waiting
  <2>4. Counted
    BY <1>1, <2>1, <2>3
  <2> QED
    BY <1>2, <2>4
<1>6. CASE opendir
  <2>1. CASE kind[Top.path] = "dir"
    <3> DEFINE f == [Top EXCEPT !.at = "readdir", !.must = Entries(kind, Top.path)]
    <3>1. FrameOK(f) /\ f.at = "readdir"
      BY <1>1, <1>4, <1>6, OpenedFrame DEF opendir, FrameType
    <3>2. stack' = WithTop(f) /\ streams' = streams + 1 /\ abandoned' = abandoned /\ stack # << >> /\ Top.at = "opendir"
      BY <1>6, <2>1 DEF opendir
    <3> HIDE DEF f
    <3>3. /\ Len(stack') = Len(stack) /\ stack'[Len(stack)] = f
          /\ \A i \in 1..(Len(stack) - 1) : stack'[i] = stack[i]
      BY <1>1, <3>1, <3>2, TopReplaced
    <3>4. Waiting(stack') /\ Opened(stack) = Len(stack) - 1 /\ Opened(stack') = Len(stack)
      BY <1>1, <1>4, <3>1, <3>2, <3>3 DEF Waiting, Opened
    <3>5. Counted
      BY <1>1, <1>4, <3>2, <3>4
    <3> QED
      BY <1>2, <3>5
  <2>2. CASE kind[Top.path] # "dir"
    <3>1. Counted
      BY <1>6, <2>2, FailCounted DEF opendir
    <3> QED
      BY <1>2, <3>1
  <2> QED
    BY <2>1, <2>2
<1>7. ASSUME stack # << >>, Top.at # "opendir",
             NEW f, FrameOK(f), f.at # "opendir", stack' = WithTop(f), UNCHANGED <<streams, abandoned>>
      PROVE  Counted
  <2>1. /\ Len(stack') = Len(stack) /\ stack'[Len(stack)] = f
        /\ \A i \in 1..(Len(stack) - 1) : stack'[i] = stack[i]
    BY <1>1, <1>7, TopReplaced
  <2>2. Waiting(stack') /\ Opened(stack') = Opened(stack)
    BY <1>1, <1>4, <1>7, <2>1, OpenedKept
  <2> QED
    BY <1>1, <1>7, <2>2
<1>8. CASE readdir
  <2>1. stack # << >> /\ Top.at = "readdir" /\ UNCHANGED <<streams, abandoned>>
    BY <1>8 DEF readdir
  <2>2. CASE \E n \in Top.must \union Top.may : stack' = WithTop(AtEntry(Top, n))
    <3>1. PICK n \in Top.must \union Top.may : stack' = WithTop(AtEntry(Top, n))
      BY <2>2
    <3>2. FrameOK(AtEntry(Top, n)) /\ AtEntry(Top, n).at = "open"
      BY <1>1, <2>1, FrameMoved DEF AtEntry
    <3> QED
      BY <1>2, <1>7, <2>1, <3>1, <3>2
  <2>3. CASE stack' = WithTop([Top EXCEPT !.at = "rmdir"])
    <3>1. FrameOK([Top EXCEPT !.at = "rmdir"]) /\ [Top EXCEPT !.at = "rmdir"].at = "rmdir"
      BY <1>1, <1>4, <2>1, FrameMoved DEF FrameType
    <3> QED
      BY <1>2, <1>7, <2>1, <2>3, <3>1
  <2> QED
    BY <1>8, <2>2, <2>3 DEF readdir
<1>9. CASE open
  <2>1. stack # << >> /\ Top.at = "open"
    BY <1>9 DEF open
  <2>2. PICK n \in Top.entry :
          IF kind[Append(Top.path, n)] = "none" THEN Fail
          ELSE /\ stack' = IF kind[Append(Top.path, n)] = "dir"
                           THEN Append(WithTop([Top EXCEPT !.at = "readdir", !.entry = {}]), Frame(Append(Top.path, n)))
                           ELSE WithTop([Top EXCEPT !.at = "unlink"])
               /\ UNCHANGED <<streams, ret, abandoned>>
    BY <1>9 DEF open
  <2>3. Append(Top.path, n) \in Path
    BY <1>4, <2>1 DEF FrameOK, Below
  <2>4. CASE Fail
    BY <1>2, <2>1, <2>4, FailCounted
  <2>5. CASE stack' = WithTop([Top EXCEPT !.at = "unlink"]) /\ UNCHANGED <<streams, abandoned>>
    <3>1. FrameOK([Top EXCEPT !.at = "unlink"]) /\ [Top EXCEPT !.at = "unlink"].at = "unlink"
      BY <1>1, <1>4, <2>1, FrameMoved DEF FrameType
    <3> QED
      BY <1>2, <1>7, <2>1, <2>5, <3>1
  <2>6. CASE /\ stack' = Append(WithTop([Top EXCEPT !.at = "readdir", !.entry = {}]), Frame(Append(Top.path, n)))
             /\ UNCHANGED <<streams, abandoned>>
    <3> DEFINE f == [Top EXCEPT !.at = "readdir", !.entry = {}]
    <3> DEFINE g == Frame(Append(Top.path, n))
    <3>1. FrameOK(f) /\ f.at = "readdir" /\ g.at = "opendir"
      BY <1>1, <1>4, <2>1, FrameMoved DEF FrameType, Frame
    <3>2. /\ StackOK(WithTop(f)) /\ Len(WithTop(f)) = Len(stack) /\ WithTop(f)[Len(stack)] = f
          /\ \A i \in 1..(Len(stack) - 1) : WithTop(f)[i] = stack[i]
      BY <1>1, <2>1, <3>1, TopReplaced
    <3>3. /\ Len(stack') = Len(stack) + 1 /\ stack'[Len(stack) + 1] = g
          /\ \A i \in 1..Len(stack) : stack'[i] = WithTop(f)[i]
      BY <2>3, <2>6, <3>2, FrameAdded
    <3> HIDE DEF f, g
    <3>4. \A i \in 1..Len(stack) : stack'[i].at = "readdir"
      BY <1>1, <1>4, <2>1, <3>1, <3>2, <3>3 DEF Waiting
    <3>5. Waiting(stack') /\ Opened(stack') = Len(stack) /\ Opened(stack) = Len(stack)
      BY <1>4, <2>1, <3>1, <3>3, <3>4 DEF Waiting, Opened
    <3>6. Counted
      BY <1>1, <2>6, <3>5
    <3> QED
      BY <1>2, <3>6
  <2> QED
    BY <2>2, <2>4, <2>5, <2>6
<1>10. CASE unlink
  <2>1. stack # << >> /\ Top.at = "unlink"
    BY <1>10 DEF unlink
  <2>2. PICK n \in Top.entry :
          IF kind[Append(Top.path, n)] # "file" THEN Fail /\ Unhindered
          ELSE /\ kind' = [kind EXCEPT ![Append(Top.path, n)] = "none"]
               /\ stack' = AfterRemoving(Append(Top.path, n), WithTop([Top EXCEPT !.at = "readdir", !.entry = {}]))
               /\ creating' = Witness(kind')
               /\ UNCHANGED <<streams, ret, abandoned, created, trouble>>
    BY <1>10 DEF unlink
  <2>3. Append(Top.path, n) \in Path
    BY <1>4, <2>1 DEF FrameOK, Below
  <2>4. CASE Fail
    BY <1>2, <2>1, <2>4, FailCounted
  <2>5. CASE /\ stack' = AfterRemoving(Append(Top.path, n), WithTop([Top EXCEPT !.at = "readdir", !.entry = {}]))
             /\ UNCHANGED <<streams, abandoned>>
    <3> DEFINE f == [Top EXCEPT !.at = "readdir", !.entry = {}]
    <3>1. FrameOK(f) /\ f.at = "readdir"
      BY <1>1, <1>4, <2>1, FrameMoved DEF FrameType
    <3>2. /\ StackOK(WithTop(f)) /\ Len(WithTop(f)) = Len(stack) /\ WithTop(f)[Len(stack)] = f
          /\ \A i \in 1..(Len(stack) - 1) : WithTop(f)[i] = stack[i]
      BY <1>1, <2>1, <3>1, TopReplaced
    <3>3. Len(stack') = Len(stack) /\ \A i \in 1..Len(stack) : stack'[i].at = WithTop(f)[i].at
      BY <2>3, <2>5, <3>2, FramesKept
    <3> HIDE DEF f
    <3>4. /\ \A i \in 1..(Len(stack) - 1) : stack'[i].at = stack[i].at
          /\ stack'[Len(stack)].at = "readdir" /\ stack[Len(stack)].at = "unlink"
      BY <1>4, <2>1, <3>1, <3>2, <3>3
    <3>5. Waiting(stack') /\ Opened(stack') = Opened(stack)
      BY <1>1, <3>3, <3>4, OpenedKept
    <3>6. Counted
      BY <1>1, <2>5, <3>5
    <3> QED
      BY <1>2, <3>6
  <2> QED
    BY <2>2, <2>4, <2>5
<1>11. CASE rmdir
  <2>1. stack # << >> /\ Top.at = "rmdir"
    BY <1>11 DEF rmdir
  <2>2. CASE Fail
    BY <1>2, <2>1, <2>2, FailCounted
  <2>3. CASE Succeed
    <3>1. /\ Len(stack') = Len(stack) - 1 /\ streams' = streams - 1 /\ abandoned' = abandoned
          /\ \A i \in 1..(Len(stack) - 1) : stack'[i] = stack[i]
      BY <1>1, <2>1, <2>3, FrameGone DEF Succeed
    <3>2. \A i \in 1..Len(stack') : stack'[i].at = "readdir"
      BY <1>1, <1>4, <2>1, <3>1 DEF Waiting
    <3>3. Waiting(stack') /\ Opened(stack') = Len(stack) - 1 /\ Opened(stack) = Len(stack)
      BY <1>4, <2>1, <3>1, <3>2 DEF Waiting, Opened
    <3>4. Counted
      BY <1>1, <1>4, <2>1, <3>1, <3>3
    <3> QED
      BY <1>2, <3>4
  <2> QED
    BY <1>11, <2>2, <2>3 DEF rmdir
<1>12. CASE CallFails
  BY <1>2, <1>12, FailCounted DEF CallFails
\* The other processes move no frame.
<1>13. ASSUME NEW p \in Path, stack' \in {AfterMaking(p, stack), AfterRemoving(p, stack)},
              UNCHANGED <<streams, abandoned>>
       PROVE  Counted
  <2>1. Len(stack') = Len(stack) /\ \A i \in 1..Len(stack) : stack'[i].at = stack[i].at
    BY <1>1, <1>13, FramesKept
  <2>2. Len(stack) \in Nat
    BY <1>1 DEF StackOK
  <2>3. Waiting(stack') /\ Opened(stack') = Opened(stack)
    BY <1>1, <2>1, <2>2, OpenedKept
  <2> QED
    BY <1>1, <1>13, <2>3
<1>14. ASSUME NEW p \in Path, mkdir(p)
       PROVE  StreamsInv'
  BY <1>2, <1>3, <1>13, <1>14 DEF mkdir
<1>15. CASE dirExists
  BY <1>2, <1>3, <1>15 DEF dirExists
<1>16. ASSUME NEW p \in Path, Others(p)
       PROVE  StreamsInv'
  BY <1>2, <1>13, <1>16 DEF Others
<1>17. CASE UNCHANGED vars
  BY <1>2, <1>3, <1>17 DEF vars
<1> HIDE DEF Counted
<1> QED
  BY <1>5, <1>6, <1>8, <1>9, <1>10, <1>11, <1>12, <1>14, <1>15, <1>16, <1>17 DEF Next, Remove

\* Every directory stream dirRemove has open is that of a call in progress, or of
\* one above a call that has failed, which returns without closing it.
THEOREM StreamsAccounted == Spec => []StreamsCounted
<1>1. Init => StreamsInv
  BY TypeInit DEF Init, StreamsInv, Waiting, Opened
<1>2. StreamsInv /\ [Next]_vars => StreamsInv'
  BY StreamsStep
<1>3. StreamsInv => StreamsCounted
  BY OpenedCounted DEF StreamsInv, TypeOK, StreamsCounted
<1> QED
  BY <1>1, <1>2, <1>3, PTL DEF Spec

-----------------------------------------------------------------------------
(* dirCreateIfMissing.                                                     *)

\* What is there now is a moment of the call too.
CreatingInv ==
  /\ TypeOK
  /\ \A c \in creating : IF kind[c.path] = "dir" THEN c.wasDir ELSE c.wasOther
  /\ CreatedTrue

\* The present is always among the moments that are remembered.
LEMMA Witnessed ==
  ASSUME TypeOK, NEW k
  PROVE  \A c \in Witness(k) : IF k[c.path] = "dir" THEN c.wasDir ELSE c.wasOther
<1>1. creating \in SUBSET CreationType
  BY DEF TypeOK
<1> QED
  BY <1>1 DEF Witness, CreationType

LEMMA CreatingStep ==
  ASSUME CreatingInv, [Next]_vars
  PROVE  CreatingInv'
<1> DEFINE Now == \A c \in creating' : IF kind'[c.path] = "dir" THEN c.wasDir ELSE c.wasOther
<1>1. TypeOK /\ TypeOK' /\ CreatedTrue
  BY TypeStep DEF CreatingInv
<1>2. Now /\ CreatedTrue' => CreatingInv'
  BY <1>1 DEF CreatingInv
<1>3. UNCHANGED created => CreatedTrue'
  BY <1>1 DEF CreatedTrue
<1>4. UNCHANGED <<kind, creating, created>> => CreatingInv'
  BY <1>2, <1>3 DEF CreatingInv
<1>5. creating' = Witness(kind') /\ UNCHANGED created => CreatingInv'
  BY <1>1, <1>2, <1>3, Witnessed
<1>6. ASSUME NEW p \in Path, mkdir(p)
      PROVE  CreatingInv'
  <2>1. CASE Free(p)
    <3>1. creating = {} /\ creating' = {}
      BY <1>6, <2>1 DEF mkdir
    <3>2. created' = {[Creation(p) EXCEPT !.wasDir = TRUE, !.ret = 0]}
      BY <1>6, <2>1 DEF mkdir
    <3>3. [Creation(p) EXCEPT !.wasDir = TRUE, !.ret = 0].wasDir = TRUE
          /\ [Creation(p) EXCEPT !.wasDir = TRUE, !.ret = 0].ret = 0
      BY DEF Creation
    <3> QED
      BY <1>2, <3>1, <3>2, <3>3 DEF CreatedTrue
  <2>2. CASE ~Free(p) /\ kind[p] = "none"
    <3>1. creating' = {} /\ created' = {Creation(p)}
      BY <1>6, <2>2 DEF mkdir
    <3>2. Creation(p).ret = -1 /\ Creation(p).wasOther
      BY <2>2 DEF Creation
    <3> QED
      BY <1>2, <3>1, <3>2 DEF CreatedTrue
  <2>3. CASE ~Free(p) /\ kind[p] # "none"
    <3>1. creating' = {Creation(p)} /\ UNCHANGED <<kind, created>>
      BY <1>6, <2>3 DEF mkdir
    <3>2. /\ Creation(p).path = p /\ Creation(p).wasDir = (kind[p] = "dir")
          /\ Creation(p).wasOther = (kind[p] # "dir")
      BY DEF Creation
    <3> QED
      BY <1>2, <1>3, <3>1, <3>2
  <2> QED
    BY <2>1, <2>2, <2>3
<1>7. CASE dirExists
  <2>1. creating' = {}
    BY <1>7 DEF dirExists
  <2>2. CreatedTrue'
    <3>1. SUFFICES ASSUME NEW d \in created'
                   PROVE  IF d.ret = 0 THEN d.wasDir ELSE d.wasOther
      BY DEF CreatedTrue
    <3>2. PICK c \in creating : d = [c EXCEPT !.ret = IF kind[c.path] = "dir" THEN 0 ELSE -1]
      BY <1>7 DEF dirExists
    <3>3. c \in CreationType
      BY <1>1 DEF TypeOK
    <3>4. d.ret = (IF kind[c.path] = "dir" THEN 0 ELSE -1) /\ d.wasDir = c.wasDir /\ d.wasOther = c.wasOther
      BY <3>2, <3>3 DEF CreationType
    <3>5. IF kind[c.path] = "dir" THEN c.wasDir ELSE c.wasOther
      BY <3>2 DEF CreatingInv
    <3> QED
      BY <3>4, <3>5
  <2> QED
    BY <1>2, <2>1, <2>2
<1>8. CASE UNCHANGED vars
  BY <1>4, <1>8 DEF vars
<1>9. CASE dirRemove \/ opendir \/ readdir \/ open \/ CallFails
  BY <1>4, <1>9 DEF dirRemove, opendir, readdir, open, CallFails, Unhindered
<1>10. CASE unlink \/ rmdir
  BY <1>4, <1>5, <1>10 DEF unlink, rmdir, Unhindered
<1>11. ASSUME NEW p \in Path, Others(p)
       PROVE  CreatingInv'
  BY <1>5, <1>11 DEF Others
<1> HIDE DEF Now
<1> QED
  BY <1>6, <1>7, <1>8, <1>9, <1>10, <1>11 DEF Next, Remove

\* What dirCreateIfMissing answers was true at some moment of its call, whatever
\* the others do between its mkdir and its stat.
THEOREM CreationTrue == Spec => []CreatedTrue
<1>1. Init => CreatingInv
  BY TypeInit DEF Init, CreatingInv, CreatedTrue
<1>2. CreatingInv /\ [Next]_vars => CreatingInv'
  BY CreatingStep
<1>3. CreatingInv => CreatedTrue
  BY DEF CreatingInv
<1> QED
  BY <1>1, <1>2, <1>3, PTL DEF Spec

-----------------------------------------------------------------------------
(* A removal that nobody disturbs.                                         *)

\* The name of the directory the call below the i-th works on.
Child(frames, i) == IF i < Len(frames) THEN {frames[i + 1].path[i]} ELSE {}

\* What a call still has to do: the entries of its directory are the names its
\* stream must give, the entry it is at and the directory of the call below.
FrameCalm(k, f, child) ==
  /\ k[f.path] = "dir" /\ f.may = {}
  /\ f.at = "opendir" => f.entry = {} /\ f.must = {}
  /\ f.at # "opendir" => Entries(k, f.path) = f.must \union f.entry \union child
  /\ f.at \in {"readdir", "rmdir"} => f.entry = {}
  /\ f.at = "rmdir" => f.must = {}
  /\ f.at = "unlink" => \A n \in f.entry : k[Append(f.path, n)] = "file"
  /\ \A m, n \in f.entry : m = n
  /\ f.must \intersect (f.entry \union child) = {}

\* The calls work on a directory, a directory in it, and so on.
Nested(frames) ==
  /\ \A i \in 1..Len(frames) : Len(frames[i].path) = i - 1
  /\ \A i \in 1..(Len(frames) - 1) : Parent(frames[i + 1].path) = frames[i].path

CalmInv ==
  /\ StreamsInv
  /\ trouble = 0 =>
       /\ WellFormed(kind)
       /\ ret # "failed"
       /\ ret = "none" => kind[<< >>] = "dir"
       /\ ret = "ok" => stack = << >> /\ \A p \in Path : kind[p] = "none"
       /\ Nested(stack)
       /\ \A i \in 1..Len(stack) : FrameCalm(kind, stack[i], Child(stack, i))

\* An entry that goes is missing in its directory, and nowhere else.
LEMMA EntriesGone ==
  ASSUME NEW k \in [Path -> Kind], NEW p \in Path, NEW q \in Path
  PROVE  Entries([k EXCEPT ![p] = "none"], q)
           = IF p # << >> /\ q = Parent(p) THEN Entries(k, q) \ {p[Len(p)]} ELSE Entries(k, q)
<1>1. ASSUME NEW n \in Name, Append(q, n) \in Path
      PROVE  Append(q, n) = p <=> p # << >> /\ q = Parent(p) /\ n = p[Len(p)]
  <2>1. n \in Below(q)
    BY <1>1 DEF Below
  <2>2. Append(q, n) = p => p # << >> /\ q = Parent(p) /\ n = p[Len(p)]
    BY <2>1, PathBelow
  <2>3. p # << >> => Append(Parent(p), p[Len(p)]) = p
    BY PathSplit
  <2> QED
    BY <2>2, <2>3
<1> QED
  BY <1>1 DEF Entries

\* A file has nothing below it.
LEMMA FileBare ==
  ASSUME NEW k \in [Path -> Kind], WellFormed(k), NEW p \in Path, k[p] # "dir"
  PROVE  Entries(k, p) = {}
<1> SUFFICES ASSUME NEW n \in Entries(k, p) PROVE FALSE
  OBVIOUS
<1>1. n \in Below(p) /\ Append(p, n) \in Path /\ k[Append(p, n)] # "none"
  BY DEF Entries, Below
<1>2. Len(Append(p, n)) = Len(p) + 1 /\ Parent(Append(p, n)) = p /\ Len(p) \in Nat
  BY <1>1, PathBelow, PathIsSeq
<1>3. \A i \in 0..(Len(Append(p, n)) - 1) : k[SubSeq(Append(p, n), 1, i)] = "dir"
  BY <1>1 DEF WellFormed
<1>4. Len(p) \in 0..(Len(Append(p, n)) - 1) /\ SubSeq(Append(p, n), 1, Len(p)) = p
  BY <1>2 DEF Parent
<1> QED
  BY <1>3, <1>4

\* A tree stays one when an entry without entries of its own goes.
LEMMA GoneWellFormed ==
  ASSUME NEW k \in [Path -> Kind], WellFormed(k), NEW p \in Path, Entries(k, p) = {}
  PROVE  WellFormed([k EXCEPT ![p] = "none"])
<1> DEFINE k2 == [k EXCEPT ![p] = "none"]
<1>1. ASSUME NEW q \in Path, k2[q] # "none", NEW i \in 0..(Len(q) - 1)
      PROVE  k2[SubSeq(q, 1, i)] = "dir"
  <2>1. q # p /\ k[q] # "none"
    BY <1>1
  <2>2. q \in Seq(Name) /\ Len(q) <= MaxDepth /\ Len(q) \in Nat /\ i \in Nat /\ i + 1 <= Len(q)
    BY <1>1, PathIsSeq
  <2>3. k[SubSeq(q, 1, i)] = "dir"
    BY <1>1, <2>1 DEF WellFormed
  <2>4. SubSeq(q, 1, i) \in Path
    <3>1. i \in 0..Len(q)
      BY <2>2
    <3> QED
      BY <3>1, PrefixPath
  <2>5. SubSeq(q, 1, i) # p
    <3> SUFFICES ASSUME SubSeq(q, 1, i) = p PROVE FALSE
      OBVIOUS
    <3>1. q[i + 1] \in Name /\ Append(p, q[i + 1]) = SubSeq(q, 1, i + 1)
      BY <2>2
    <3>2. SubSeq(q, 1, i + 1) \in Path
      <4>1. i + 1 \in 0..Len(q)
        BY <2>2
      <4> QED
        BY <4>1, PrefixPath
    <3>3. k[SubSeq(q, 1, i + 1)] # "none"
      <4>1. CASE i + 1 = Len(q)
        <5>1. SubSeq(q, 1, i + 1) = q
          BY <2>2, <4>1
        <5> QED
          BY <2>1, <5>1
      <4>2. CASE i + 1 # Len(q)
        <5>1. i + 1 \in 0..(Len(q) - 1)
          BY <2>2, <4>2
        <5> QED
          BY <2>1, <5>1 DEF WellFormed
      <4> QED
        BY <4>1, <4>2
    <3>4. q[i + 1] \in Entries(k, p)
      BY <3>1, <3>2, <3>3 DEF Entries
    <3> QED
      BY <3>4
  <2> QED
    BY <2>3, <2>4, <2>5
<1> QED
  BY <1>1 DEF WellFormed

\* Without its root nothing is left of a tree.
LEMMA RootGone ==
  ASSUME NEW k \in [Path -> Kind], WellFormed(k), << >> \in Path, k[<< >>] # "dir", NEW p \in Path, p # << >>
  PROVE  k[p] = "none"
<1>1. p \in Seq(Name) /\ Len(p) \in Nat \ {0}
  BY PathIsSeq, EmptySeq
<1>2. 0 \in 0..(Len(p) - 1) /\ SubSeq(p, 1, 0) = << >>
  BY <1>1
<1>3. k[p] # "none" => k[SubSeq(p, 1, 0)] = "dir"
  BY <1>2 DEF WellFormed
<1> QED
  BY <1>2, <1>3

\* A call whose directory is not the one in which the entry was goes on as before.
LEMMA FrameUntouched ==
  ASSUME NEW k \in [Path -> Kind], NEW p \in Path, NEW f \in FrameType, NEW child, FrameCalm(k, f, child),
         f.at = "readdir", f.path # p, p = << >> \/ f.path # Parent(p)
  PROVE  FrameCalm([k EXCEPT ![p] = "none"], f, child)
<1>1. f.path \in Path
  BY DEF FrameType
<1>2. Entries([k EXCEPT ![p] = "none"], f.path) = Entries(k, f.path)
  BY <1>1, EntriesGone
<1> QED
  BY <1>1, <1>2 DEF FrameCalm

\* What the invariant says of the calls.
CalmCalls(k, frames) ==
  Nested(frames) /\ \A i \in 1..Len(frames) : FrameCalm(k, frames[i], Child(frames, i))

LEMMA CalmFacts ==
  ASSUME CalmInv, trouble = 0
  PROVE  /\ TypeOK /\ kind \in [Path -> Kind] /\ WellFormed(kind) /\ CalmCalls(kind, stack) /\ Len(stack) \in Nat
         /\ stack # << >> => ret = "none"
         /\ \A i \in 1..(Len(stack) - 1) : stack[i].at = "readdir"
         /\ \A i \in 1..Len(stack) : stack[i] \in FrameType
BY DEF CalmInv, StreamsInv, Waiting, TypeOK, StackOK, CalmCalls

LEMMA CalmTop ==
  ASSUME CalmInv, trouble = 0, stack # << >>
  PROVE  /\ FrameOK(Top) /\ Top \in FrameType /\ FrameCalm(kind, Top, {})
         /\ Len(Top.path) = Len(stack) - 1 /\ Len(stack) \in Nat \ {0}
<1>1. TypeOK /\ CalmCalls(kind, stack)
  BY CalmFacts
<1>2. Len(stack) \in Nat \ {0} /\ FrameOK(Top) /\ Top \in FrameType /\ Len(stack) \in 1..Len(stack)
  BY <1>1, TopFrame
<1>3. Child(stack, Len(stack)) = {}
  BY <1>2 DEF Child
<1> QED
  BY <1>1, <1>2, <1>3 DEF CalmCalls, Nested, Top

\* The innermost call goes on.
LEMMA CalmReplaced ==
  ASSUME CalmInv, trouble = 0, stack # << >>, NEW f, FrameOK(f), f.path = Top.path,
         NEW k, FrameCalm(k, f, {}),
         \A i \in 1..(Len(stack) - 1) : FrameCalm(k, stack[i], Child(stack, i))
  PROVE  CalmCalls(k, WithTop(f))
<1> DEFINE s == WithTop(f)
<1>1. TypeOK /\ CalmCalls(kind, stack) /\ Len(stack) \in Nat \ {0}
  BY CalmFacts, CalmTop
<1>2. /\ Len(s) = Len(stack) /\ s[Len(stack)] = f /\ \A i \in 1..(Len(stack) - 1) : s[i] = stack[i]
  BY <1>1, TopReplaced
<1> HIDE DEF s
<1>3. \A i \in 1..Len(stack) : s[i].path = stack[i].path
  BY <1>1, <1>2 DEF Top
<1>4. \A i \in 1..Len(stack) : Child(s, i) = Child(stack, i)
  <2>1. ASSUME NEW i \in 1..Len(stack)
        PROVE  Child(s, i) = Child(stack, i)
    <3>1. CASE i < Len(stack)
      <4>1. i + 1 \in 1..Len(stack)
        BY <1>1, <3>1
      <4> QED
        BY <1>2, <1>3, <4>1 DEF Child
    <3>2. CASE ~(i < Len(stack))
      BY <1>2, <3>2 DEF Child
    <3> QED
      BY <3>1, <3>2
  <2> QED
    BY <2>1
<1>5. Nested(s)
  <2>1. \A i \in 1..Len(s) : Len(s[i].path) = i - 1
    BY <1>1, <1>2, <1>3 DEF CalmCalls, Nested
  <2>2. ASSUME NEW i \in 1..(Len(s) - 1)
        PROVE  Parent(s[i + 1].path) = s[i].path
    <3>1. i \in 1..Len(stack) /\ i + 1 \in 1..Len(stack) /\ i \in 1..(Len(stack) - 1)
      BY <1>1, <1>2
    <3> QED
      BY <1>1, <1>3, <3>1 DEF CalmCalls, Nested
  <2> QED
    BY <2>1, <2>2 DEF Nested
<1>6. ASSUME NEW i \in 1..Len(s)
      PROVE  FrameCalm(k, s[i], Child(s, i))
  <2>1. CASE i = Len(stack)
    <3>1. Child(s, i) = {}
      BY <1>1, <1>2, <2>1 DEF Child
    <3> QED
      BY <1>2, <2>1, <3>1
  <2>2. CASE i # Len(stack)
    <3>1. i \in 1..(Len(stack) - 1) /\ i \in 1..Len(stack)
      BY <1>1, <1>2, <2>2
    <3> QED
      BY <1>2, <1>4, <3>1
  <2> QED
    BY <2>1, <2>2
<1> QED
  BY <1>5, <1>6 DEF CalmCalls, s

\* The calls far above an entry that goes do not notice.
LEMMA LowerUntouched ==
  ASSUME CalmInv, trouble = 0, NEW p \in Path, NEW i \in 1..(Len(stack) - 1), i < Len(p)
  PROVE  FrameCalm([kind EXCEPT ![p] = "none"], stack[i], Child(stack, i))
<1>1. /\ kind \in [Path -> Kind] /\ CalmCalls(kind, stack) /\ Len(stack) \in Nat
      /\ stack[i].at = "readdir" /\ i \in 1..Len(stack) /\ stack[i] \in FrameType
  BY CalmFacts
<1>2. Len(stack[i].path) = i - 1 /\ FrameCalm(kind, stack[i], Child(stack, i))
  BY <1>1 DEF CalmCalls, Nested
<1>3. p # << >> => Len(Parent(p)) = Len(p) - 1
  BY PathSplit
<1>4. Len(p) \in Nat /\ i \in Nat
  BY PathIsSeq, <1>1
<1>5. stack[i].path # p /\ (p = << >> \/ stack[i].path # Parent(p))
  BY <1>2, <1>3, <1>4
<1> QED
  BY <1>1, <1>2, <1>5, FrameUntouched

LEMMA CalmOpendir ==
  ASSUME CalmInv, trouble = 0, opendir
  PROVE  CalmCalls(kind', stack') /\ UNCHANGED <<kind, ret>> /\ stack' # << >>
<1> DEFINE f == [Top EXCEPT !.at = "readdir", !.must = Entries(kind, Top.path)]
<1>1. stack # << >> /\ Top.at = "opendir" /\ UNCHANGED kind
  BY DEF opendir, Unhindered
<1>2. /\ FrameOK(Top) /\ Top \in FrameType /\ FrameCalm(kind, Top, {}) /\ TypeOK /\ Len(stack) \in Nat \ {0}
      /\ CalmCalls(kind, stack)
  BY <1>1, CalmTop, CalmFacts
<1>3. kind[Top.path] = "dir"
  BY <1>2 DEF FrameCalm
<1>4. stack' = WithTop(f) /\ UNCHANGED ret
  BY <1>3 DEF opendir
<1>5. FrameOK(f)
  BY <1>1, <1>2, OpenedFrame
<1>6. /\ f.path = Top.path /\ f.at = "readdir" /\ f.entry = Top.entry /\ f.must = Entries(kind, Top.path)
      /\ f.may = Top.may
  BY <1>2 DEF FrameType
<1> HIDE DEF f
<1>7. FrameCalm(kind, f, {})
  BY <1>1, <1>2, <1>6 DEF FrameCalm
<1>8. CalmCalls(kind, WithTop(f))
  BY <1>1, <1>2, <1>5, <1>6, <1>7, CalmReplaced DEF CalmCalls
<1>9. Len(WithTop(f)) = Len(stack)
  BY <1>1, <1>2, <1>5, TopReplaced
<1> QED
  BY <1>1, <1>2, <1>4, <1>8, <1>9

LEMMA CalmReaddir ==
  ASSUME CalmInv, trouble = 0, readdir
  PROVE  CalmCalls(kind', stack') /\ UNCHANGED <<kind, ret>> /\ stack' # << >>
<1>1. stack # << >> /\ Top.at = "readdir" /\ UNCHANGED <<kind, ret>>
  BY DEF readdir, Unhindered
<1>2. /\ FrameOK(Top) /\ Top \in FrameType /\ FrameCalm(kind, Top, {}) /\ TypeOK /\ Len(stack) \in Nat \ {0}
      /\ CalmCalls(kind, stack)
  BY <1>1, CalmTop, CalmFacts
<1>3. ASSUME NEW f, FrameOK(f), f.path = Top.path, FrameCalm(kind, f, {}), stack' = WithTop(f)
      PROVE  CalmCalls(kind', stack') /\ stack' # << >>
  <2>1. CalmCalls(kind, WithTop(f)) /\ Len(WithTop(f)) = Len(stack)
    BY <1>1, <1>2, <1>3, CalmReplaced, TopReplaced DEF CalmCalls
  <2> QED
    BY <1>1, <1>2, <1>3, <2>1
<1>4. CASE \E n \in Top.must \union Top.may : stack' = WithTop(AtEntry(Top, n))
  <2>1. PICK n \in Top.must \union Top.may : stack' = WithTop(AtEntry(Top, n))
    BY <1>4
  <2>2. FrameOK(AtEntry(Top, n)) /\ AtEntry(Top, n).path = Top.path
    BY <1>1, <1>2, FrameMoved DEF AtEntry
  <2>3. n \in Top.must
    BY <1>2 DEF FrameCalm
  <2>4. FrameCalm(kind, AtEntry(Top, n), {})
    <3>1. Entries(kind, Top.path) = (Top.must \ {n}) \union {n}
      BY <1>1, <1>2, <2>3 DEF FrameCalm
    <3> QED
      BY <1>2, <3>1 DEF FrameCalm, AtEntry
  <2> QED
    BY <1>1, <1>3, <2>1, <2>2, <2>4
<1>5. CASE Top.must = {} /\ stack' = WithTop([Top EXCEPT !.at = "rmdir"])
  <2> DEFINE f == [Top EXCEPT !.at = "rmdir"]
  <2>1. FrameOK(f)
    BY <1>1, <1>2, FrameMoved
  <2>2. f.path = Top.path /\ f.at = "rmdir" /\ f.entry = Top.entry /\ f.must = Top.must /\ f.may = Top.may
    BY <1>2 DEF FrameType
  <2>3. stack' = WithTop(f)
    BY <1>5
  <2> HIDE DEF f
  <2>4. FrameCalm(kind, f, {})
    BY <1>1, <1>2, <1>5, <2>2 DEF FrameCalm
  <2> QED
    BY <1>1, <1>3, <2>1, <2>2, <2>3, <2>4
<1> QED
  BY <1>4, <1>5 DEF readdir

\* The directory at n becomes the work of a call of its own.
LEMMA CalmPushed ==
  ASSUME CalmInv, trouble = 0, stack # << >>, Top.at = "open", NEW n \in Top.entry,
         kind[Append(Top.path, n)] = "dir"
  PROVE  CalmCalls(kind, Append(WithTop([Top EXCEPT !.at = "readdir", !.entry = {}]), Frame(Append(Top.path, n))))
<1> DEFINE p == Append(Top.path, n)
<1> DEFINE f == [Top EXCEPT !.at = "readdir", !.entry = {}]
<1> DEFINE s == WithTop(f)
<1> DEFINE new == Append(s, Frame(p))
<1>1. /\ FrameOK(Top) /\ Top \in FrameType /\ FrameCalm(kind, Top, {}) /\ TypeOK /\ Len(stack) \in Nat \ {0}
      /\ Len(Top.path) = Len(stack) - 1 /\ CalmCalls(kind, stack)
      /\ \A i \in 1..(Len(stack) - 1) : stack[i].at = "readdir"
  BY CalmTop, CalmFacts
<1>2. FrameOK(f) /\ f.path = Top.path /\ f.at = "readdir" /\ f.entry = {} /\ f.must = Top.must /\ f.may = Top.may
  BY <1>1, FrameMoved DEF FrameType
<1>3. p \in Path /\ Len(p) = Len(stack) /\ p[Len(stack)] = n /\ Parent(p) = Top.path
  <2>1. n \in Below(Top.path) /\ Top.path \in Path
    BY <1>1 DEF FrameOK, FrameType
  <2> QED
    BY <1>1, <2>1, PathBelow
<1>4. /\ StackOK(s) /\ Len(s) = Len(stack) /\ s[Len(stack)] = f
      /\ \A i \in 1..(Len(stack) - 1) : s[i] = stack[i]
  BY <1>1, <1>2, TopReplaced
<1>5. /\ Len(new) = Len(stack) + 1 /\ new[Len(stack) + 1] = Frame(p)
      /\ \A i \in 1..Len(stack) : new[i] = s[i]
  BY <1>3, <1>4, FrameAdded
<1>6. Frame(p).path = p /\ Frame(p).at = "opendir" /\ Frame(p).entry = {} /\ Frame(p).must = {} /\ Frame(p).may = {}
  BY DEF Frame
<1>7. FrameCalm(kind, Frame(p), {})
  BY <1>6 DEF FrameCalm
<1>8. FrameCalm(kind, f, {n})
  <2>1. Entries(kind, Top.path) = Top.must \union {n}
    BY <1>1 DEF FrameCalm
  <2> QED
    BY <1>1, <1>2, <2>1 DEF FrameCalm
<1> HIDE DEF f, p, s, new
<1>10. \A i \in 1..Len(stack) : new[i].path = stack[i].path
  BY <1>1, <1>2, <1>4, <1>5 DEF Top
<1>11. ASSUME NEW i \in 1..(Len(stack) - 1)
       PROVE  Child(new, i) = Child(stack, i) /\ i < Len(stack) /\ i + 1 \in 1..Len(stack) /\ i \in 1..Len(stack)
  <2>1. i < Len(stack) /\ i < Len(new) /\ i + 1 \in 1..Len(stack) /\ i \in 1..Len(stack)
    BY <1>1, <1>5
  <2> QED
    BY <1>10, <2>1 DEF Child
<1>12. Child(new, Len(stack)) = {n} /\ Child(new, Len(stack) + 1) = {}
  BY <1>1, <1>3, <1>5, <1>6 DEF Child
<1>13. ASSUME NEW i \in 1..Len(new)
       PROVE  Len(new[i].path) = i - 1 /\ FrameCalm(kind, new[i], Child(new, i))
  <2>1. CASE i = Len(stack) + 1
    <3>1. new[i] = Frame(p) /\ Child(new, i) = {}
      BY <1>5, <1>12, <2>1, Zenon
    <3>2. Len(new[i].path) = Len(stack) /\ i - 1 = Len(stack)
      BY <1>1, <1>3, <1>6, <2>1, <3>1
    <3> QED
      BY <1>7, <3>1, <3>2, Zenon
  <2>2. CASE i = Len(stack)
    <3>1. new[Len(stack)] = f /\ Len(stack) \in 1..Len(stack)
      BY <1>1, <1>4, <1>5
    <3>2. new[i] = f /\ Child(new, i) = {n}
      BY <1>12, <2>2, <3>1, Zenon
    <3>3. Len(new[i].path) = Len(stack) - 1
      BY <1>1, <1>2, <3>2, Zenon
    <3> QED
      BY <1>8, <2>2, <3>2, <3>3, Zenon
  <2>3. CASE i \in 1..(Len(stack) - 1)
    <3>1. new[i] = stack[i] /\ Child(new, i) = Child(stack, i) /\ i \in 1..Len(stack)
      BY <1>4, <1>5, <1>11, <2>3
    <3> QED
      BY <1>1, <3>1 DEF CalmCalls, Nested
  <2> QED
    BY <1>1, <1>5, <2>1, <2>2, <2>3
<1>14. ASSUME NEW i \in 1..(Len(new) - 1)
       PROVE  Parent(new[i + 1].path) = new[i].path
  <2>1. CASE i = Len(stack)
    BY <1>1, <1>2, <1>3, <1>4, <1>5, <1>6, <2>1
  <2>2. CASE i \in 1..(Len(stack) - 1)
    BY <1>1, <1>10, <1>11, <2>2 DEF CalmCalls, Nested
  <2> QED
    BY <1>1, <1>5, <2>1, <2>2
<1> QED
  BY <1>13, <1>14 DEF CalmCalls, Nested, new, s, f, p

LEMMA CalmOpen ==
  ASSUME CalmInv, trouble = 0, open
  PROVE  CalmCalls(kind', stack') /\ UNCHANGED <<kind, ret>> /\ stack' # << >>
<1>1. stack # << >> /\ Top.at = "open" /\ UNCHANGED kind
  BY DEF open, Unhindered
<1>2. /\ FrameOK(Top) /\ Top \in FrameType /\ FrameCalm(kind, Top, {}) /\ TypeOK /\ Len(stack) \in Nat \ {0}
      /\ CalmCalls(kind, stack) /\ kind \in [Path -> Kind]
  BY <1>1, CalmTop, CalmFacts
<1>3. PICK n \in Top.entry :
        IF kind[Append(Top.path, n)] = "none" THEN Fail
        ELSE /\ stack' = IF kind[Append(Top.path, n)] = "dir"
                         THEN Append(WithTop([Top EXCEPT !.at = "readdir", !.entry = {}]), Frame(Append(Top.path, n)))
                         ELSE WithTop([Top EXCEPT !.at = "unlink"])
             /\ UNCHANGED <<streams, ret, abandoned>>
  BY DEF open
<1>4. Append(Top.path, n) \in Path /\ kind[Append(Top.path, n)] # "none"
  <2>1. n \in Entries(kind, Top.path)
    BY <1>1, <1>2 DEF FrameCalm
  <2> QED
    BY <2>1 DEF Entries
<1>5. UNCHANGED ret
  BY <1>3, <1>4
<1>6. CASE kind[Append(Top.path, n)] = "dir"
  <2>1. stack' = Append(WithTop([Top EXCEPT !.at = "readdir", !.entry = {}]), Frame(Append(Top.path, n)))
    BY <1>3, <1>6
  <2>2. StackOK(WithTop([Top EXCEPT !.at = "readdir", !.entry = {}]))
    BY <1>1, <1>2, FrameMoved, TopReplaced
  <2>3. Len(stack') = Len(WithTop([Top EXCEPT !.at = "readdir", !.entry = {}])) + 1
        /\ Len(WithTop([Top EXCEPT !.at = "readdir", !.entry = {}])) = Len(stack)
    BY <1>1, <1>2, <1>4, <2>1, <2>2, FrameAdded, FrameMoved, TopReplaced
  <2>4. stack' # << >>
    BY <1>2, <2>3
  <2> QED
    BY <1>1, <1>5, <1>6, <2>1, <2>4, CalmPushed
<1>7. CASE kind[Append(Top.path, n)] # "dir"
  <2> DEFINE f == [Top EXCEPT !.at = "unlink"]
  <2>1. FrameOK(f) /\ f.path = Top.path /\ f.at = "unlink" /\ f.entry = Top.entry /\ f.must = Top.must /\ f.may = Top.may
    BY <1>1, <1>2, FrameMoved DEF FrameType
  <2>2. stack' = WithTop(f)
    BY <1>3, <1>4, <1>7
  <2> HIDE DEF f
  <2>3. kind[Append(Top.path, n)] = "file"
    BY <1>2, <1>4, <1>7 DEF Kind
  <2>4. FrameCalm(kind, f, {})
    BY <1>1, <1>2, <2>1, <2>3 DEF FrameCalm
  <2>5. CalmCalls(kind, WithTop(f)) /\ Len(WithTop(f)) = Len(stack)
    BY <1>1, <1>2, <2>1, <2>4, CalmReplaced, TopReplaced DEF CalmCalls
  <2> QED
    BY <1>1, <1>2, <1>5, <2>2, <2>5
<1> QED
  BY <1>6, <1>7

\* No stream that is open would give the name of an entry one of the calls removes.
LEMMA CalmStreams ==
  ASSUME NEW k, NEW frames, StackOK(frames), NEW p \in Path, CalmCalls(k, frames),
         k[p] # "dir",
         \A i \in 1..Len(frames) : p # << >> /\ frames[i].path = Parent(p) => p[Len(p)] \notin frames[i].must
  PROVE  AfterRemoving(p, frames) = frames
<1>1. frames \in Seq(FrameType) /\ DOMAIN frames = 1..Len(frames)
  BY DEF StackOK
<1>2. \A i \in 1..Len(frames) : frames[i].path # p
  BY DEF CalmCalls, FrameCalm
<1>3. AfterRemoving(p, frames) = [i \in 1..Len(frames) |-> frames[i]]
  BY <1>1, <1>2 DEF AfterRemoving
<1> QED
  BY <1>1, <1>3

LEMMA CalmUnlink ==
  ASSUME CalmInv, trouble = 0, unlink
  PROVE  CalmCalls(kind', stack') /\ UNCHANGED ret /\ stack' # << >> /\ WellFormed(kind')
<1>1. stack # << >> /\ Top.at = "unlink"
  BY DEF unlink
<1>2. /\ FrameOK(Top) /\ Top \in FrameType /\ FrameCalm(kind, Top, {}) /\ TypeOK /\ Len(stack) \in Nat \ {0}
      /\ Len(Top.path) = Len(stack) - 1 /\ CalmCalls(kind, stack) /\ kind \in [Path -> Kind] /\ WellFormed(kind)
  BY <1>1, CalmTop, CalmFacts
<1>3. PICK n \in Top.entry :
        IF kind[Append(Top.path, n)] # "file" THEN Fail /\ Unhindered
        ELSE /\ kind' = [kind EXCEPT ![Append(Top.path, n)] = "none"]
             /\ stack' = AfterRemoving(Append(Top.path, n), WithTop([Top EXCEPT !.at = "readdir", !.entry = {}]))
             /\ creating' = Witness(kind')
             /\ UNCHANGED <<streams, ret, abandoned, created, trouble>>
  BY DEF unlink
<1> DEFINE p == Append(Top.path, n)
<1> DEFINE f == [Top EXCEPT !.at = "readdir", !.entry = {}]
<1>4. kind[p] = "file"
  BY <1>1, <1>2 DEF FrameCalm
<1>5. kind' = [kind EXCEPT ![p] = "none"] /\ stack' = AfterRemoving(p, WithTop(f)) /\ UNCHANGED ret
  BY <1>3, <1>4
<1>6. n \in Below(Top.path) /\ Top.path \in Path
  BY <1>2 DEF FrameOK, FrameType
<1>7. p \in Path /\ p # << >> /\ Len(p) = Len(Top.path) + 1 /\ p[Len(p)] = n /\ Parent(p) = Top.path
  BY <1>6, PathBelow
<1>8. FrameOK(f) /\ f.path = Top.path /\ f.at = "readdir" /\ f.entry = {} /\ f.must = Top.must /\ f.may = Top.may
  BY <1>1, <1>2, FrameMoved DEF FrameType
<1> HIDE DEF p, f
<1>9. WellFormed(kind')
  <2>1. Entries(kind, p) = {}
    BY <1>2, <1>4, <1>7, FileBare
  <2> QED
    BY <1>2, <1>5, <1>7, <2>1, GoneWellFormed
<1>10. n \notin Top.must
  BY <1>2 DEF FrameCalm
<1>11. FrameCalm(kind', f, {})
  <2>1. Entries(kind, Top.path) = Top.must \union {n}
    BY <1>1, <1>2 DEF FrameCalm
  <2>2. Entries(kind', f.path) = Top.must
    <3>1. Entries(kind', f.path) = Entries(kind, Top.path) \ {n}
      <4>1. Entries([kind EXCEPT ![p] = "none"], Top.path) = Entries(kind, Top.path) \ {p[Len(p)]}
        BY <1>2, <1>6, <1>7, EntriesGone, ZenonT(60)
      <4> QED
        BY <1>5, <1>7, <1>8, <4>1, Zenon
    <3> QED
      BY <1>10, <2>1, <3>1
  <2>3. kind'[f.path] = "dir"
    <3>1. kind[Top.path] = "dir"
      BY <1>2 DEF FrameCalm
    <3> QED
      BY <1>2, <1>4, <1>5, <1>6, <1>8, <3>1
  <2>4. f.may = {}
    BY <1>2, <1>8 DEF FrameCalm
  <2> QED
    BY <1>8, <2>2, <2>3, <2>4 DEF FrameCalm
<1>12. ASSUME NEW i \in 1..(Len(stack) - 1)
       PROVE  FrameCalm(kind', stack[i], Child(stack, i))
  <2>1. i < Len(p)
    BY <1>2, <1>7
  <2> QED
    BY <1>5, <1>7, <2>1, LowerUntouched
<1>13. CalmCalls(kind', WithTop(f))
  BY <1>1, <1>8, <1>11, <1>12, CalmReplaced
<1>14. /\ StackOK(WithTop(f)) /\ Len(WithTop(f)) = Len(stack) /\ WithTop(f)[Len(stack)] = f
  BY <1>1, <1>2, <1>8, TopReplaced
<1>15. ASSUME NEW i \in 1..Len(WithTop(f)), WithTop(f)[i].path = Parent(p)
       PROVE  p[Len(p)] \notin WithTop(f)[i].must
  <2>1. Len(WithTop(f)[i].path) = i - 1
    BY <1>13 DEF CalmCalls, Nested
  <2>2. i = Len(stack)
    BY <1>2, <1>7, <1>14, <1>15, <2>1
  <2> QED
    BY <1>7, <1>8, <1>10, <1>14, <2>2
<1>16. kind'[p] # "dir"
  BY <1>2, <1>5, <1>7
<1>17. stack' = WithTop(f)
  BY <1>5, <1>7, <1>13, <1>14, <1>15, <1>16, CalmStreams
<1>18. stack' # << >>
  BY <1>2, <1>14, <1>17
<1> QED
  BY <1>5, <1>9, <1>13, <1>17, <1>18

LEMMA CalmRmdir ==
  ASSUME CalmInv, trouble = 0, rmdir
  PROVE  /\ CalmCalls(kind', stack') /\ WellFormed(kind')
         /\ IF stack' = << >> THEN ret' = "ok" /\ kind'[<< >>] = "none" ELSE UNCHANGED ret
<1>1. stack # << >> /\ Top.at = "rmdir"
  BY DEF rmdir
<1>2. /\ FrameOK(Top) /\ Top \in FrameType /\ FrameCalm(kind, Top, {}) /\ TypeOK /\ Len(stack) \in Nat \ {0}
      /\ Len(Top.path) = Len(stack) - 1 /\ CalmCalls(kind, stack) /\ kind \in [Path -> Kind] /\ WellFormed(kind)
      /\ \A i \in 1..Len(stack) : stack[i] \in FrameType
      /\ \A i \in 1..(Len(stack) - 1) : stack[i].at = "readdir"
  BY <1>1, CalmTop, CalmFacts
<1> DEFINE p == Top.path
<1> DEFINE s == SubSeq(stack, 1, Len(stack) - 1)
<1>3. p \in Path /\ Len(p) = Len(stack) - 1 /\ p = stack[Len(stack)].path
  BY <1>2 DEF FrameType, Top
<1>4. Entries(kind, p) = {} /\ kind[p] = "dir"
  BY <1>1, <1>2 DEF FrameCalm
<1>5. kind' = [kind EXCEPT ![p] = "none"] /\ stack' = s /\ ret' = IF Len(stack) = 1 THEN "ok" ELSE ret
  BY <1>4 DEF rmdir, Empty, Succeed
<1>6. Len(s) = Len(stack) - 1 /\ \A i \in 1..(Len(stack) - 1) : s[i] = stack[i]
  BY <1>1, <1>2, FrameGone
<1> HIDE DEF p, s
<1>7. WellFormed(kind')
  BY <1>2, <1>3, <1>4, <1>5, GoneWellFormed
<1>8. ASSUME NEW i \in 1..Len(s)
      PROVE  /\ i \in 1..Len(stack) /\ i + 1 \in 1..Len(stack) /\ i \in 1..(Len(stack) - 1)
             /\ s[i] = stack[i] /\ Len(s[i].path) = i - 1 /\ FrameCalm(kind, s[i], Child(stack, i))
             /\ s[i] \in FrameType /\ s[i].at = "readdir"
  <2>1. i \in 1..Len(stack) /\ i + 1 \in 1..Len(stack) /\ i \in 1..(Len(stack) - 1)
    BY <1>2, <1>6
  <2>2. s[i] = stack[i]
    BY <1>6, <2>1
  <2> QED
    BY <1>2, <2>1, <2>2 DEF CalmCalls, Nested
<1>9. ASSUME NEW i \in 1..(Len(s) - 1)
      PROVE  i \in 1..Len(s) /\ i + 1 \in 1..Len(s) /\ Parent(s[i + 1].path) = s[i].path
  <2>1. i \in 1..Len(s) /\ i + 1 \in 1..Len(s)
    BY <1>2, <1>6
  <2> QED
    BY <1>2, <1>8, <2>1 DEF CalmCalls, Nested
<1>10. ASSUME NEW i \in 1..Len(s)
       PROVE  FrameCalm(kind', s[i], Child(s, i))
  <2>1. CASE i = Len(s)
    <3>1. Child(s, i) = {} /\ Child(stack, i) = {p[Len(p)]} /\ i = Len(p)
      BY <1>2, <1>3, <1>6, <2>1 DEF Child
    <3>2. p # << >> /\ Parent(p) = s[i].path
      <4>1. p # << >>
        BY <1>3, <1>6, <2>1, EmptySeq
      <4>2. i + 1 = Len(stack) /\ i \in 1..(Len(stack) - 1) /\ s[i] = stack[i]
        BY <1>2, <1>6, <1>8, <2>1
      <4> QED
        BY <1>2, <1>3, <4>1, <4>2 DEF CalmCalls, Nested
    <3>3. s[i].at = "readdir" /\ s[i].path \in Path /\ s[i].entry = {} /\ s[i].may = {} /\ kind[s[i].path] = "dir"
      BY <1>8 DEF FrameType, FrameCalm
    <3>4. Entries(kind, s[i].path) = s[i].must \union {p[Len(p)]} /\ p[Len(p)] \notin s[i].must
      BY <1>8, <3>1, <3>3 DEF FrameCalm
    <3>5. Entries(kind', s[i].path) = s[i].must
      <4>1. Entries(kind', s[i].path) = Entries(kind, s[i].path) \ {p[Len(p)]}
        BY <1>2, <1>3, <1>5, <3>2, <3>3, EntriesGone, ZenonT(60)
      <4> QED
        BY <3>4, <4>1
    <3>6. kind'[s[i].path] = "dir"
      <4>1. s[i].path # p
        <5>1. Len(s[i].path) = i - 1 /\ i - 1 # Len(p)
          BY <1>8, <3>1
        <5> QED
          BY <5>1
      <4> QED
        BY <1>2, <1>5, <3>3, <4>1
    <3> QED
      BY <3>1, <3>3, <3>5, <3>6 DEF FrameCalm
  <2>2. CASE i # Len(s)
    <3>1. i \in 1..(Len(s) - 1) /\ i < Len(p) /\ i < Len(s)
      BY <1>2, <1>3, <1>6, <2>2
    <3>2. FrameCalm(kind', stack[i], Child(stack, i))
      BY <1>3, <1>5, <1>8, <3>1, LowerUntouched
    <3>3. Child(s, i) = Child(stack, i)
      <4>1. i + 1 \in 1..Len(s) /\ i < Len(stack)
        BY <1>2, <1>6, <1>9, <3>1
      <4> QED
        BY <1>8, <3>1, <4>1 DEF Child
    <3> QED
      BY <1>8, <3>2, <3>3
  <2> QED
    BY <2>1, <2>2
<1>11. CalmCalls(kind', stack')
  BY <1>5, <1>8, <1>9, <1>10 DEF CalmCalls, Nested
<1>12. CASE Len(stack) = 1
  <2>1. Len(p) = 0 /\ p = << >>
    <3>1. p \in Seq(Name) /\ Len(p) = 0
      BY <1>3, <1>12, PathIsSeq
    <3> QED
      BY <3>1, EmptySeq
  <2>2. kind'[<< >>] = "none" /\ ret' = "ok"
    BY <1>2, <1>3, <1>5, <1>12, <2>1
  <2>3. stack' = << >>
    BY <1>5, <1>12 DEF s
  <2> QED
    BY <1>7, <1>11, <2>2, <2>3
<1>13. CASE Len(stack) # 1
  <2>1. stack' # << >>
    BY <1>2, <1>5, <1>6, <1>13
  <2> QED
    BY <1>5, <1>7, <1>11, <1>13, <2>1
<1> QED
  BY <1>12, <1>13

LEMMA CalmStep ==
  ASSUME CalmInv, [Next]_vars
  PROVE  CalmInv'
<1>1. StreamsInv'
  BY StreamsStep DEF CalmInv
<1>2. SUFFICES ASSUME trouble' = 0
               PROVE  /\ WellFormed(kind') /\ CalmCalls(kind', stack')
                      /\ ret' # "failed"
                      /\ ret' = "none" => kind'[<< >>] = "dir"
                      /\ ret' = "ok" => stack' = << >> /\ \A p \in Path : kind'[p] = "none"
  BY <1>1 DEF CalmInv, CalmCalls
<1> DEFINE Goal == /\ WellFormed(kind') /\ CalmCalls(kind', stack')
                   /\ ret' # "failed"
                   /\ ret' = "none" => kind'[<< >>] = "dir"
                   /\ ret' = "ok" => stack' = << >> /\ \A p \in Path : kind'[p] = "none"
<1>3. TypeOK /\ TypeOK' /\ trouble \in Nat
  BY <1>1, BoundAssumption DEF CalmInv, StreamsInv, TypeOK
<1>4. CASE trouble = 0
  <2>1. /\ WellFormed(kind) /\ CalmCalls(kind, stack) /\ kind \in [Path -> Kind]
        /\ ret # "failed"
        /\ ret = "none" => kind[<< >>] = "dir"
        /\ ret = "ok" => stack = << >> /\ \A p \in Path : kind[p] = "none"
        /\ stack # << >> => ret = "none"
    BY <1>4, CalmFacts DEF CalmInv
  <2>2. << >> \in Path
    <3>1. << >> \in Seq(Name) /\ Len(<< >>) = 0 /\ 0 <= MaxDepth
      BY EmptySeq, BoundAssumption
    <3> QED
      BY <3>1, PathIsSeq
  <2>3. UNCHANGED <<kind, stack, ret>> => Goal
    BY <2>1
  <2>4. stack # << >> /\ CalmCalls(kind', stack') /\ UNCHANGED <<kind, ret>> => Goal
    BY <2>1
  <2>5. CASE dirRemove
    <3> DEFINE new == <<Frame(<< >>)>>
    <3>1. stack = << >> /\ ret # "ok" /\ stack' = new /\ UNCHANGED <<kind, ret>>
      BY <2>5 DEF dirRemove, Unhindered
    <3>2. ret = "none" /\ kind[<< >>] = "dir"
      BY <1>3, <2>1, <3>1 DEF TypeOK
    <3>3. /\ Len(new) = 1 /\ new[1].path = << >> /\ new[1].at = "opendir" /\ new[1].entry = {}
          /\ new[1].must = {} /\ new[1].may = {}
      BY DEF Frame
    <3> HIDE DEF new
    <3>4. Child(new, 1) = {} /\ FrameCalm(kind, new[1], {})
      BY <3>2, <3>3 DEF Child, FrameCalm
    <3>5. Nested(new)
      BY <3>3, EmptySeq DEF Nested
    <3>6. CalmCalls(kind, new)
      <4>1. \A i \in 1..1 : i = 1
        OBVIOUS
      <4>2. \A i \in 1..Len(new) : FrameCalm(kind, new[i], Child(new, i))
        BY <3>3, <3>4, <4>1, Zenon
      <4> QED
        BY <3>5, <4>2 DEF CalmCalls
    <3> QED
      BY <2>1, <3>1, <3>2, <3>6
  <2>6. CASE opendir
    BY <1>4, <2>4, <2>6, CalmOpendir DEF opendir
  <2>7. CASE readdir
    BY <1>4, <2>4, <2>7, CalmReaddir DEF readdir
  <2>8. CASE open
    BY <1>4, <2>4, <2>8, CalmOpen DEF open
  <2>9. CASE unlink
    <3>1. CalmCalls(kind', stack') /\ UNCHANGED ret /\ stack' # << >> /\ WellFormed(kind') /\ stack # << >>
      BY <1>4, <2>9, CalmUnlink DEF unlink
    <3>2. kind'[<< >>] = "dir"
      <4>1. Len(stack') \in Nat \ {0}
        BY <1>3, <3>1, EmptySeq DEF TypeOK, StackOK
      <4>2. 1 \in 1..Len(stack')
        BY <4>1
      <4>3. kind'[stack'[1].path] = "dir" /\ Len(stack'[1].path) = 1 - 1
        BY <3>1, <4>2 DEF CalmCalls, Nested, FrameCalm
      <4>4. stack'[1].path \in Path
        BY <1>3, <4>2 DEF TypeOK, StackOK, FrameOK, FrameType
      <4>5. stack'[1].path = << >>
        BY <4>3, <4>4, PathIsSeq, EmptySeq
      <4> QED
        BY <4>3, <4>5
    <3> QED
      BY <2>1, <3>1, <3>2
  <2>10. CASE rmdir
    <3>1. /\ CalmCalls(kind', stack') /\ WellFormed(kind') /\ stack # << >>
          /\ IF stack' = << >> THEN ret' = "ok" /\ kind'[<< >>] = "none" ELSE UNCHANGED ret
      BY <1>4, <2>10, CalmRmdir DEF rmdir
    <3>2. CASE stack' = << >>
      <4>1. \A p \in Path : kind'[p] = "none"
        BY <1>3, <2>2, <3>1, <3>2, RootGone DEF TypeOK
      <4> QED
        BY <3>1, <3>2, <4>1
    <3>3. CASE stack' # << >>
      <4>1. Len(stack') \in Nat \ {0}
        BY <1>3, <3>3, EmptySeq DEF TypeOK, StackOK
      <4>2. 1 \in 1..Len(stack')
        BY <4>1
      <4>3. kind'[stack'[1].path] = "dir" /\ Len(stack'[1].path) = 1 - 1
        BY <3>1, <4>2 DEF CalmCalls, Nested, FrameCalm
      <4>4. stack'[1].path \in Path
        BY <1>3, <4>2 DEF TypeOK, StackOK, FrameOK, FrameType
      <4>5. stack'[1].path = << >>
        BY <4>3, <4>4, PathIsSeq, EmptySeq
      <4> QED
        BY <2>1, <3>1, <3>3, <4>3, <4>5
    <3> QED
      BY <3>2, <3>3
  <2>11. CASE CallFails \/ (\E p \in Path : mkdir(p)) \/ \E p \in Path : Others(p)
    BY <1>2, <1>4, <2>11 DEF CallFails, mkdir, Others
  <2>12. CASE dirExists
    BY <2>3, <2>12 DEF dirExists
  <2>13. CASE UNCHANGED vars
    BY <2>3, <2>13 DEF vars
  <2> QED
    BY <2>5, <2>6, <2>7, <2>8, <2>9, <2>10, <2>11, <2>12, <2>13 DEF Next, Remove
\* Troubles are not forgotten.
<1>5. CASE trouble # 0
  <2>1. \/ trouble' = trouble \/ trouble' = trouble + 1
    BY DEF Next, Remove, dirRemove, opendir, readdir, open, unlink, rmdir, CallFails, mkdir, dirExists, Others,
           Unhindered, vars
  <2> QED
    BY <1>2, <1>3, <1>5, <2>1
<1> QED
  BY <1>4, <1>5

\* dirRemove does what it is called for: when nobody else touches the tree and
\* no system call fails it never answers -1, and when it answers 0 nothing is
\* left, whatever the tree and however deep the calls of itself.
THEOREM RemovalComplete == Spec => []CalmSucceeds
<1>1. Init => CalmInv
  <2>1. Init => StreamsInv
    BY TypeInit DEF Init, StreamsInv, Waiting, Opened
  <2> QED
    BY <2>1 DEF Init, CalmInv, Nested
<1>2. CalmInv /\ [Next]_vars => CalmInv'
  BY CalmStep
<1>3. CalmInv => CalmSucceeds
  BY DEF CalmInv, CalmSucceeds
<1> QED
  BY <1>1, <1>2, <1>3, PTL DEF Spec
=============================================================================
