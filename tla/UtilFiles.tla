----------------------------- MODULE UtilFiles -----------------------------
(***************************************************************************)
(* dirRemove and dirCreateIfMissing of util.c, on a directory that other   *)
(* processes use too.  A step is one system call, what the code does until *)
(* the next one is part of it.                                             *)
(*                                                                         *)
(* A path is the sequence of the names behind the directory to be removed, *)
(* which is << >>.  The file system (external) has files and directories;  *)
(* links and paths longer than PATH_MAX are left out.                      *)
(***************************************************************************)
EXTENDS Integers, Sequences, FiniteSets

CONSTANTS
  Name,        \* the names of entries
  MaxDepth,    \* bound: the depth of the tree
  MaxTrouble   \* bound: the steps of other processes and the system calls
               \* that fail for a reason of their own

ASSUME BoundAssumption == MaxDepth \in Nat \ {0} /\ MaxTrouble \in Nat

Path == UNION {[1..n -> Name] : n \in 0..MaxDepth}

VARIABLES
  kind,       \* what there is at each path
  stack,      \* the calls of dirRemove, outermost first
  streams,    \* the number of open directory streams
  ret,        \* how the last outermost dirRemove has ended
  creating,   \* the dirCreateIfMissing in progress, as a set of at most one
  created,    \* the one that returned last
  trouble,    \* the troubles so far
  abandoned   \* the streams of the calls above those that failed

vars == <<kind, stack, streams, ret, creating, created, trouble, abandoned>>

-----------------------------------------------------------------------------
(* The file system.                                                        *)

Parent(p) == SubSeq(p, 1, Len(p) - 1)

Entries(k, p) == {n \in Name : Append(p, n) \in Path /\ k[Append(p, n)] # "none"}

\* What there is lies in a directory, and so does that, up to the root.
WellFormed(k) == \A p \in Path : k[p] # "none" => \A i \in 0..(Len(p) - 1) : k[SubSeq(p, 1, i)] = "dir"

\* There is nothing at p, and something can be made there.
Free(p) == kind[p] = "none" /\ (p # << >> => kind[Parent(p)] = "dir")

Empty(p) == kind[p] = "dir" /\ Entries(kind, p) = {}

\* What an open stream will still give after p has been made, respectively
\* removed: it must give the names that have been there all the time, and may
\* give those that came or went.  Once its directory is gone nothing is added.
AfterMaking(p, frames) ==
  [i \in DOMAIN frames |->
     IF p # << >> /\ frames[i].path = Parent(p) /\ frames[i].alive
     THEN [frames[i] EXCEPT !.may = @ \union {p[Len(p)]}] ELSE frames[i]]

AfterRemoving(p, frames) ==
  [i \in DOMAIN frames |->
     IF frames[i].path = p THEN [frames[i] EXCEPT !.alive = FALSE]
     ELSE IF p # << >> /\ frames[i].path = Parent(p) /\ p[Len(p)] \in frames[i].must
     THEN [frames[i] EXCEPT !.must = @ \ {p[Len(p)]}, !.may = @ \union {p[Len(p)]}] ELSE frames[i]]

\* The moments of a dirCreateIfMissing: its path has been a directory, and has
\* been something else.
Witness(k) ==
  {[c EXCEPT !.wasDir = @ \/ k[c.path] = "dir", !.wasOther = @ \/ k[c.path] # "dir"] : c \in creating}

-----------------------------------------------------------------------------
(* dirRemove.                                                              *)

Frame(p) == [path |-> p, at |-> "opendir", entry |-> {}, must |-> {}, may |-> {}, alive |-> TRUE]

\* The stream has given n, which is looked at next.
AtEntry(f, n) ==
  [path |-> f.path, at |-> "open", entry |-> {n}, must |-> f.must \ {n}, may |-> f.may \ {n}, alive |-> f.alive]

Top == stack[Len(stack)]

WithTop(frame) == [stack EXCEPT ![Len(stack)] = frame]

\* The innermost call returns 0 to the loop of the one that called it.
Succeed ==
  /\ stack' = SubSeq(stack, 1, Len(stack) - 1)
  /\ streams' = streams - 1
  /\ ret' = IF Len(stack) = 1 THEN "ok" ELSE ret
  /\ UNCHANGED abandoned

\* Mutant: the stream of the call that fails stays open too.
Fail_StreamOpen ==
  /\ stack' = << >>
  /\ UNCHANGED streams
  /\ ret' = "failed"
  /\ abandoned' = abandoned + Len(stack) - 1

\* The innermost call closes its stream and returns -1.  So do all those above
\* it at once, but they do not close theirs.
Fail ==
  /\ stack' = << >>
  /\ streams' = IF Top.at = "opendir" THEN streams ELSE streams - 1
  /\ ret' = "failed"
  /\ abandoned' = abandoned + Len(stack) - 1

\* The call has left the tree as it was and made no other call.
Unhindered == UNCHANGED <<kind, creating, created, trouble>>

\* A caller whose removal has failed calls it again.
dirRemove ==
  /\ stack = << >> /\ ret # "ok"
  /\ stack' = <<Frame(<< >>)>>
  /\ UNCHANGED <<streams, ret, abandoned>>
  /\ Unhindered

opendir ==
  /\ stack # << >> /\ Top.at = "opendir"
  /\ IF kind[Top.path] = "dir"
     THEN /\ stack' = WithTop([Top EXCEPT !.at = "readdir", !.must = Entries(kind, Top.path)])
          /\ streams' = streams + 1
          /\ UNCHANGED <<ret, abandoned>>
     ELSE Fail
  /\ Unhindered

\* The loop goes on with one more name, or ends.
readdir ==
  /\ stack # << >> /\ Top.at = "readdir"
  /\ \/ \E n \in Top.must \union Top.may :
          stack' = WithTop(AtEntry(Top, n))
     \/ Top.must = {} /\ stack' = WithTop([Top EXCEPT !.at = "rmdir"])
  /\ UNCHANGED <<streams, ret, abandoned>>
  /\ Unhindered

\* Mutant: a directory is unlinked like a file.
open_NotAsked ==
  /\ stack # << >> /\ Top.at = "open"
  /\ \E n \in Top.entry :
       LET p == Append(Top.path, n)
       IN  IF kind[p] = "none" THEN Fail
           ELSE /\ stack' = WithTop([Top EXCEPT !.at = "unlink"])
                /\ UNCHANGED <<streams, ret, abandoned>>
  /\ Unhindered

\* Mutant: directories are left to the end, and there forgotten.
open_SkipsDirectories ==
  /\ stack # << >> /\ Top.at = "open"
  /\ \E n \in Top.entry :
       LET p == Append(Top.path, n)
       IN  IF kind[p] = "none" THEN Fail
           ELSE /\ stack' = WithTop(IF kind[p] = "dir" THEN [Top EXCEPT !.at = "readdir", !.entry = {}]
                                   ELSE [Top EXCEPT !.at = "unlink"])
                /\ UNCHANGED <<streams, ret, abandoned>>
  /\ Unhindered

\* open, fstat and close of the entry: what it was when it was opened decides.
open ==
  /\ stack # << >> /\ Top.at = "open"
  /\ \E n \in Top.entry :
       LET p == Append(Top.path, n)
       IN  IF kind[p] = "none" THEN Fail
           ELSE /\ stack' = IF kind[p] = "dir"
                            THEN Append(WithTop([Top EXCEPT !.at = "readdir", !.entry = {}]), Frame(p))
                            ELSE WithTop([Top EXCEPT !.at = "unlink"])
                /\ UNCHANGED <<streams, ret, abandoned>>
  /\ Unhindered

unlink ==
  /\ stack # << >> /\ Top.at = "unlink"
  /\ \E n \in Top.entry :
       LET p == Append(Top.path, n)
       IN  IF kind[p] # "file" THEN Fail /\ Unhindered
           ELSE /\ kind' = [kind EXCEPT ![p] = "none"]
                /\ stack' = AfterRemoving(p, WithTop([Top EXCEPT !.at = "readdir", !.entry = {}]))
                /\ creating' = Witness(kind')
                /\ UNCHANGED <<streams, ret, abandoned, created, trouble>>

rmdir ==
  /\ stack # << >> /\ Top.at = "rmdir"
  /\ IF Empty(Top.path)
     THEN /\ kind' = [kind EXCEPT ![Top.path] = "none"]
          /\ Succeed
          /\ creating' = Witness(kind')
          /\ UNCHANGED <<created, trouble>>
     ELSE Fail /\ Unhindered

\* Any of these system calls but readdir fails for a reason of its own.
CallFails ==
  /\ stack # << >> /\ Top.at # "readdir"
  /\ trouble < MaxTrouble
  /\ trouble' = trouble + 1
  /\ Fail
  /\ UNCHANGED <<kind, creating, created>>

-----------------------------------------------------------------------------
(* dirCreateIfMissing, of another process.                                 *)

Creation(p) ==
  [path |-> p, at |-> "stat", wasDir |-> kind[p] = "dir", wasOther |-> kind[p] # "dir", ret |-> -1]

\* Mutant: whatever there is will do.
mkdir_AnyEntry(p) ==
  /\ creating = {}
  /\ trouble < MaxTrouble
  /\ trouble' = trouble + 1
  /\ IF Free(p)
     THEN /\ kind' = [kind EXCEPT ![p] = "dir"]
          /\ stack' = AfterMaking(p, stack)
          /\ created' = {[Creation(p) EXCEPT !.wasDir = TRUE, !.ret = 0]}
     ELSE created' = {[Creation(p) EXCEPT !.ret = IF kind[p] = "none" THEN -1 ELSE 0]} /\ UNCHANGED <<kind, stack>>
  /\ UNCHANGED <<streams, ret, creating, abandoned>>

\* mkdir: a directory is made, or there is something already and stat decides,
\* or there is no directory to make it in.
mkdir(p) ==
  /\ creating = {}
  /\ trouble < MaxTrouble
  /\ trouble' = trouble + 1
  /\ IF Free(p)
     THEN /\ kind' = [kind EXCEPT ![p] = "dir"]
          /\ stack' = AfterMaking(p, stack)
          /\ created' = {[Creation(p) EXCEPT !.wasDir = TRUE, !.ret = 0]}
          /\ UNCHANGED creating
     ELSE /\ IF kind[p] = "none"
             THEN created' = {Creation(p)} /\ UNCHANGED creating
             ELSE creating' = {Creation(p)} /\ UNCHANGED created
          /\ UNCHANGED <<kind, stack>>
  /\ UNCHANGED <<streams, ret, abandoned>>

\* dirExists, after mkdir has said EEXIST; without a directory errno is ENOTDIR.
dirExists ==
  /\ creating # {}
  /\ created' = {[c EXCEPT !.ret = IF kind[c.path] = "dir" THEN 0 ELSE -1] : c \in creating}
  /\ creating' = {}
  /\ UNCHANGED <<kind, stack, streams, ret, trouble, abandoned>>

\* Another process makes a file, removes one, or removes an empty directory.
Others(p) ==
  /\ trouble < MaxTrouble
  /\ trouble' = trouble + 1
  /\ \/ /\ Free(p) /\ p # << >>
        /\ kind' = [kind EXCEPT ![p] = "file"]
        /\ stack' = AfterMaking(p, stack)
     \/ /\ kind[p] = "file" \/ Empty(p)
        /\ kind' = [kind EXCEPT ![p] = "none"]
        /\ stack' = AfterRemoving(p, stack)
  /\ creating' = Witness(kind')
  /\ UNCHANGED <<streams, ret, created, abandoned>>

-----------------------------------------------------------------------------

Init ==
  /\ kind \in {k \in [Path -> {"none", "file", "dir"}] : WellFormed(k) /\ k[<< >>] = "dir"}
  /\ stack = << >>
  /\ streams = 0
  /\ ret = "none"
  /\ creating = {} /\ created = {}
  /\ trouble = 0
  /\ abandoned = 0

Remove ==
  \/ dirRemove
  \/ opendir
  \/ readdir
  \/ open
  \/ unlink
  \/ rmdir

Next ==
  \/ Remove
  \/ CallFails
  \/ \E p \in Path : mkdir(p)
  \/ dirExists
  \/ \E p \in Path : Others(p)

\* The process that removes keeps running: its system calls return, and it tries
\* again as long as it has not succeeded.
Spec == Init /\ [][Next]_vars /\ WF_vars(Remove)

-----------------------------------------------------------------------------
(* Properties.                                                             *)

\* Every open stream belongs to a call in progress that has opened it, or to one
\* whose inner call has failed: those above a failure stay open, and no other,
\* wherever the failure came and however often the removal is tried.
StreamsCounted ==
  streams = abandoned + Cardinality({i \in DOMAIN stack : stack[i].at # "opendir"})

\* A removal that nobody disturbs and of which no system call fails succeeds, and
\* nothing of the tree is left.
CalmSucceeds ==
  trouble = 0 => ret # "failed" /\ (ret = "ok" => \A p \in Path : kind[p] = "none")

\* dirCreateIfMissing tells the truth about some moment of its call, whoever
\* makes and removes entries between its two system calls: 0 when there was a
\* directory, -1 when there was none.
CreatedTrue ==
  \A c \in created : IF c.ret = 0 THEN c.wasDir ELSE c.wasOther

\* A removal that is tried again whenever it has failed gets the directory away:
\* the failures, and what the others put into the tree, only delay it.  (It may
\* be one of the others that removes the emptied directory; dirRemove then
\* fails, and goes on failing.)  That there is a caller who tries again is an
\* assumption about the client: no code of the repository calls dirRemove.
Removes == <>(kind[<< >>] = "none")
=============================================================================
