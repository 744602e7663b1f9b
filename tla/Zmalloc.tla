------------------------------ MODULE Zmalloc ------------------------------
(***************************************************************************)
(* The counting allocator of zmalloc.c, used by several threads at once.   *)
(* Every call works on the heap of the C library and on the counter        *)
(* used_memory in separate steps: an allocation is counted after malloc,   *)
(* a release is subtracted before free, and zrealloc subtracts and adds    *)
(* after the block has changed.  Other threads run in between.             *)
(*                                                                         *)
(* malloc, realloc and free are external: a block is any one that is not   *)
(* allocated, its usable size may exceed the request, and an allocation    *)
(* may fail at any time.                                                   *)
(***************************************************************************)
EXTENDS Integers, FiniteSets, Functions

CONSTANTS
  Thread,          \* the threads
  Block,           \* the addresses malloc may return
  NULL,            \* the pointer to nothing
  Request,         \* the sizes asked for
  Count,           \* the numbers of elements asked of zcalloc_num
  Slack,           \* by how much a usable size may exceed the request
  SizeMax,         \* SIZE_MAX: used_memory counts modulo SizeMax + 1
  LongSize,        \* sizeof(long), what a request for 0 bytes becomes
  HandlerReturns,  \* TRUE iff the handler of zmalloc_set_oom_handler returns
  OutAddress       \* the addresses of the variables given to zfree_usable;
                   \* {} when the program does not call it

ASSUME BlockAssumption == NULL \notin Block
ASSUME SizeAssumption ==
  /\ SizeMax \in Nat /\ LongSize \in Nat \ {0}
  /\ Request \subseteq 0..SizeMax /\ Count \subseteq 0..SizeMax
  /\ Slack \subseteq Nat /\ OutAddress \subseteq 0..SizeMax
ASSUME HandlerAssumption == HandlerReturns \in BOOLEAN

VARIABLES
  heap,         \* the usable size of every block, 0 for one that is not allocated
  held,         \* the blocks whose pointer a client holds
  used_memory,  \* the counter
  pc,           \* where each thread is in a call, and what it remembers there
  up            \* FALSE once the out-of-memory handler has aborted

vars == <<heap, held, used_memory, pc, up>>

\* The counter and the sizes are of type size_t.
Plus(a, b) == (a + b) % (SizeMax + 1)
Minus(a, b) == (a - b) % (SizeMax + 1)
Times(a, b) == (a * b) % (SizeMax + 1)

Unallocated == {b \in Block : heap[b] = 0}

Usable(size) == {(IF size > 0 THEN size ELSE LongSize) + s : s \in Slack}

\* A request of half the address space or more is refused before malloc.
Refused(size) == size >= SizeMax \div 2

\* A call remembers its block, the bytes the client asked of it, and the size of
\* the block before realloc.
Idle == [at |-> "idle", block |-> NULL, asked |-> 0, old |-> 0, then |-> "return"]

Between(t) == pc[t] = Idle /\ up

-----------------------------------------------------------------------------
(* The calls.                                                              *)

Init ==
  /\ heap = [b \in Block |-> 0]
  /\ held = {}
  /\ used_memory = 0
  /\ pc = [t \in Thread |-> Idle]
  /\ up = TRUE

\* The call has no pointer to return.  The ztry functions return NULL, the
\* others call the handler first, and return NULL only if it returns.
ReturnNull(strict) == up' = (strict => HandlerReturns)

\* zmalloc, zcalloc and their _usable forms (strict), the ztry forms of these
\* (not strict), and zrealloc and ztryrealloc of NULL, up to the allocation of
\* size bytes for a client that asked for the given number.
Allocate(t, size, asked, strict) ==
  /\ Between(t)
  /\ \/ /\ ~Refused(size)
        /\ \E b \in Unallocated, s \in Usable(size) :
             /\ heap' = [heap EXCEPT ![b] = s]
             /\ pc' = [pc EXCEPT ![t] = [Idle EXCEPT !.at = "add", !.block = b, !.asked = asked]]
        /\ UNCHANGED <<held, used_memory, up>>
     \/ ReturnNull(strict) /\ UNCHANGED <<heap, held, used_memory, pc>>

\* Mutant: the product is computed without looking whether it fits.
zcalloc_num_Wraps(t, num, size) == Allocate(t, Times(num, size), num * size, TRUE)

\* zcalloc_num: a product that does not fit, and one of size 0, is "no memory".
zcalloc_num(t, num, size) ==
  IF size = 0 \/ num > SizeMax \div size
  THEN Between(t) /\ ReturnNull(TRUE) /\ UNCHANGED <<heap, held, used_memory, pc>>
  ELSE Allocate(t, Times(num, size), num * size, TRUE)

\* The addition after malloc, calloc or realloc; the pointer goes to the client.
Add(t) ==
  /\ up /\ pc[t].at = "add"
  /\ LET b == pc[t].block
     IN  /\ used_memory' = Plus(used_memory, heap[b])
         /\ held' = held \union {b}
  /\ pc' = [pc EXCEPT ![t] = Idle]
  /\ UNCHANGED <<heap, up>>

\* zfree up to the subtraction; then says what the caller does afterwards.
Uncount(t, b, then) ==
  /\ held' = held \ {b}
  /\ used_memory' = Minus(used_memory, heap[b])
  /\ pc' = [pc EXCEPT ![t] = [Idle EXCEPT !.at = "free", !.block = b, !.then = then]]
  /\ UNCHANGED <<heap, up>>

zfree(t, b) == Between(t) /\ b \in held /\ Uncount(t, b, "return")

\* Mutant: the block is subtracted from the counter and never freed.
Release_NotFreed(t) ==
  /\ up /\ pc[t].at = "free"
  /\ pc' = [pc EXCEPT ![t] = Idle]
  /\ UNCHANGED <<heap, held, used_memory, up>>

\* The free after the subtraction.  A zrealloc that came here returns NULL.
Release(t) ==
  /\ up /\ pc[t].at = "free"
  /\ heap' = [heap EXCEPT ![pc[t].block] = 0]
  /\ pc' = [pc EXCEPT ![t] = Idle]
  /\ IF pc[t].then = "return" THEN UNCHANGED up ELSE ReturnNull(pc[t].then = "handler")
  /\ UNCHANGED <<held, used_memory>>

\* Mutant: a realloc that fails has freed the block.
zrealloc_FailureFrees(t, b, size, strict) ==
  /\ Between(t) /\ b \in held
  /\ ReturnNull(strict)
  /\ heap' = [heap EXCEPT ![b] = 0]
  /\ UNCHANGED <<held, used_memory, pc>>

\* zrealloc and zrealloc_usable (strict), ztryrealloc and ztryrealloc_usable, of
\* a block.  For 0 bytes and for a request that is refused the block is freed
\* and the call returns NULL, with the handler in the second case; when realloc
\* fails the block stays with the client.
zrealloc(t, b, size, strict) ==
  /\ Between(t) /\ b \in held
  /\ \/ /\ size = 0 \/ Refused(size)
        /\ Uncount(t, b, IF strict /\ size # 0 THEN "handler" ELSE "null")
     \/ /\ size # 0 /\ ~Refused(size)
        /\ \E n \in {b} \union Unallocated, s \in Usable(size) :
             /\ heap' = [heap EXCEPT ![b] = 0, ![n] = s]
             /\ pc' = [pc EXCEPT ![t] = [Idle EXCEPT !.at = "subtract", !.block = n,
                                                  !.asked = size, !.old = heap[b]]]
        /\ held' = held \ {b}
        /\ UNCHANGED <<used_memory, up>>
     \/ /\ size # 0 /\ ~Refused(size)
        /\ ReturnNull(strict)
        /\ UNCHANGED <<heap, held, used_memory, pc>>

\* Mutant: the size is read after the realloc.
Subtract_NewSize(t) ==
  /\ up /\ pc[t].at = "subtract"
  /\ used_memory' = Minus(used_memory, heap[pc[t].block])
  /\ pc' = [pc EXCEPT ![t].at = "add", ![t].old = 0]
  /\ UNCHANGED <<heap, held, up>>

\* The subtraction after a successful realloc, of the size read before it.
Subtract(t) ==
  /\ up /\ pc[t].at = "subtract"
  /\ used_memory' = Minus(used_memory, pc[t].old)
  /\ pc' = [pc EXCEPT ![t].at = "add", ![t].old = 0]
  /\ UNCHANGED <<heap, held, up>>

\* zfree_usable subtracts its second argument, the address where it has stored
\* the usable size, and does not call free.
zfree_usable(t, b, usable) ==
  /\ Between(t) /\ b \in held
  /\ held' = held \ {b}
  /\ used_memory' = Minus(used_memory, usable)
  /\ UNCHANGED <<heap, pc, up>>

Next ==
  \E t \in Thread :
    \/ \E size \in Request, strict \in BOOLEAN : Allocate(t, size, size, strict)
    \/ \E num \in Count, size \in Request : zcalloc_num(t, num, size)
    \/ \E b \in Block : zfree(t, b)
    \/ \E b \in Block, size \in Request, strict \in BOOLEAN : zrealloc(t, b, size, strict)
    \/ \E b \in Block, usable \in OutAddress : zfree_usable(t, b, usable)
    \/ Add(t)
    \/ Subtract(t)
    \/ Release(t)

Spec == Init /\ [][Next]_vars

-----------------------------------------------------------------------------
(* Properties.                                                             *)

Live == {b \in Block : heap[b] > 0}

InCall == {pc[t].block : t \in {u \in Thread : pc[u].at # "idle"}}

Call == [at : {"idle", "add", "subtract", "free"}, block : Block \union {NULL},
         asked : Nat, old : Nat, then : {"return", "null", "handler"}]

\* The threads that have reallocated a block and not yet subtracted its old size.
Subtracting == {t \in Thread : pc[t].at = "subtract"}

\* What the counter should say.
Counted == SumFunctionOnSet(heap, held)
         + SumFunctionOnSet([t \in Thread |-> pc[t].old], Subtracting)

\* Every variable has its type, and a pointer a client holds points to a block
\* that is allocated.
TypeOK ==
  /\ heap \in [Block -> Nat]
  /\ held \subseteq Live
  /\ used_memory \in 0..SizeMax
  /\ pc \in [Thread -> Call]
  /\ \A t \in Thread : pc[t].block = NULL <=> pc[t].at = "idle"
  /\ up \in BOOLEAN

\* used_memory is what the clients hold and the old sizes of the reallocs that
\* have not subtracted them yet: it never wraps, although additions and
\* subtractions of several threads mix, and once no call is in progress it is
\* the memory in use.
CounterExact == used_memory = Counted

\* A block is in the hands of one client or of one call: no call returns, frees
\* or resizes a block another one is still working on.
Exclusive ==
  /\ held \intersect InCall = {}
  /\ \A t, u \in Thread : pc[t].at # "idle" /\ pc[t].block = pc[u].block => t = u

\* No block leaks, whichever allocation fails: every allocated one is held by a
\* client or in the hands of a call.
NoLeak == Live = held \union InCall

\* A pointer a call is about to return is to at least the bytes the client asked
\* for: no product of zcalloc_num wraps to a smaller one, and no other thread
\* shrinks the block between its allocation and its return.
Served == \A t \in Thread : pc[t].at \in {"subtract", "add"} => heap[pc[t].block] >= pc[t].asked
=============================================================================
