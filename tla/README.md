# A verification project for redis-copy

redis-copy is a library of the data structures a Redis server is made of (a hash table with
incremental resize, a linked list, a sorted set of integers, dynamic strings), an allocator that
counts what it hands out, and helpers. Its `main` functions are stubs: there is no server loop yet,
so the system is what any legal sequence of calls of the library can do, and, for the allocator,
what several threads can do at once.

The modules model the code as it is written, its slips included: where a loop is never entered, a
counter never incremented or a variable never set, the model does the same, and the properties say
what still holds and where it stops holding.

- [Inventory](#inventory) - components, state, operations, difficulties, correctness
- [Plan](#plan) - modules, order, theorems
- [Modules and code](#modules-and-code) - how state and actions correspond
- [Runs](#runs) - what each checks, its bounds, why they are enough
- [Fairness and liveness](#fairness-and-liveness)
- [Proofs](#proofs)
- [Findings](#findings)
- [Not modelled](#not-modelled)

## Inventory

| component | state | operations | what is hard about it | what makes it correct |
|---|---|---|---|---|
| dict (dict.c) | two tables, their counters and exponents, reHashIdx, pauseRehash; a global resize policy | expand, resize, policy, add, replace, set, find, delete, two-phase unlink, empty; iterators, scan, random and sampled keys | two tables at once from the start of a resize; several ways to compute a slot; clients that hold an entry or an iterator between calls | a key stored once, counters exact, entries where they are looked for, no operation answers for another key; a walk returns nothing twice or freed |
| zmalloc (zmalloc.c) | the heap of the C library, the atomic counter used_memory, the out-of-memory handler | malloc, calloc, realloc and free in strict, try and usable forms | threads run between the step on the heap and the step on the counter; allocations fail; sizes overflow | the counter is the memory in use, no block is shared or lost, no call returns less memory than it was asked for |
| adlist (adlist.c) | lists (head, tail, len, free callback), nodes, an iterator | add, insert, delete, link, unlink, rotate, join, empty, iterate, index | the client holds nodes and an iterator while the list changes; an iterator saves its next node | links in both directions and len agree with one sequence; an iteration returns each node once |
| intset (intset.c) | one block: encoding, length, elements as wide as the widest | add, remove, find | the block is widened in place, moved and resized; a binary search | the elements are an increasing sequence in a block of the right size; one call adds or removes one value |
| sds (sds.c, sds.h) | a header of five possible widths, the buffer behind it | create, make room, resize, append, copy, trim, range, format, split, join, parse, template | the header changes under the text; lengths at the limit of a header; in-place moves | len, alloc and block agree, the text is terminated, writes stay in the block, the text changes only as the operations say |
| util: texts (util.c) | none | glob patterns, number conversions, paths | recursion with early exits; boundary values; buffers whose cells are counted first and written later | each function against its reference definition |
| util: directories (util.c) | the file system | remove a tree, create a directory that is missing | other processes make and remove entries between any two system calls; a failure deep in the recursion | what is removed is gone, what is opened is accounted for, an answer was true at some moment, a removal that is tried again ends |
| mt19937-64 (mt19937-64.c) | 312 words and an index | seed, next number | arithmetic only; words are read in front of the array | the same seed, the same numbers |
| sha256 (sha256.c) | 64 bytes of data, their number, the bit count, eight words | init, update, final | a block boundary anywhere in an update; padding that needs a second block | every byte is in exactly one block (see Not modelled) |
| siphash (siphash.c) | none | two hashes of a byte string | arithmetic only | equal input, equal hash |
| fpconv (fpconv_dtoa.c) | none | shortest decimal of a double | Grisu2 with a table of powers; four layouts of the digits | the text reads back as the same number |
| endianconv | none | byte swaps | nothing | an involution |
| redisassert, log | none | report and abort | nothing | does not return |
| the programs, Makefile | none | print and return | nothing | - |

**How they interact.** Every structure allocates through zmalloc; its strict forms abort through the
out-of-memory handler, its try forms return NULL, and sds uses the `_usable` forms to learn how much
room a block really has. `dict` calls the hash function, the comparator, the duplicators, the
destructors and `expandAllowed` of its `dictType`, takes siphash for strings and the Mersenne
twister for random keys. `intset` uses endianconv for what it stores, sds the number conversions of
util. `adlist` and `dict` call back into their client to free values. The structures are
single-threaded: a call is one step for everyone who can see the structure. Only the allocator is
shared by threads, and only the file system with other processes. The text functions keep nothing
between calls. One seam is not uniform: `listDelNode` releases a node with `free` and not `zfree`
(adlist.c:117).

**Which behaviours are hard.** Interleavings, in zmalloc and with the other users of a directory.
Long legal sequences, everywhere: a structure with two tables, a header that changes width or an
iterator that outlives a change is tested call by call and used in sequences nobody wrote a test
for. State saved before a change and used after it: the entry of a two-phase unlink, the successor
an iterator has saved. Boundaries: tables of 0 slots, counters that wrap, lengths at the limit of a
header. Failures: an allocation, a refused growth, a failed assertion, a system call in the middle
of a recursion. Nothing is persisted and nothing is sent, so there is no recovery and no message;
the one thing that is tried again is the removal of a directory. PROJECT.json lists the hazards one
by one, each at its line with the properties that would show it.

## Plan

| order | module | composes | what it is for | state |
|---|---|---|---|---|
| 1 | DictStore, Dict | Dict implements DictStore | the dict through all calls that change it | done |
| 2 | DictProofs | Dict | inductive invariant of the dict | done |
| 3 | Zmalloc, ZmallocProofs | - | threads, the heap and the counter | done |
| 4 | ListSeq, Adlist | Adlist implements ListSeq | lists of nodes against sequences | done |
| 5 | Intset | - | cells, encodings, the search as it is | done |
| 6 | DictTraversal | extends Dict | iterators, scan, samples among the other calls | done |
| 7 | SdsString, Sds | Sds implements SdsString | header, room and text | done |
| 8 | UtilFiles | - | dirRemove and dirCreateIfMissing among other processes | done |
| 9 | UtilFilesProofs | UtilFiles | types, the streams, the removal nobody disturbs | done |
| 10 | Chars, StringMatch, SdsText, PathText, Numbers, FloatText | - | the functions of texts and numbers | done |
| 11 | TextCalls | all of 10 | a client of them, and a reference definition for each | done |
| 12 | RecursionFacts, AdlistProofs | Adlist, ListSeq | recursion; the chains of the lists; the refinement | done |
| 13 | DictTraversalProofs | DictTraversal, DictProofs | an iterator among the other calls; what a scan and a sample give | done |
| 14 | SdsProofs | Sds, SdsString | the header and the block of a string; its text | done |
| 15 | IntsetProofs | Intset | numbers in cells, widening in place, the order of the elements | done |

A model of the buffer of sha256 and one of the twister were planned once; the last section says why
there is none.

## Modules and code

A step of a model is a whole call of the library, except in Zmalloc, where a call is two or three
steps, and in UtilFiles, where it is one for each system call. A variable `up` (Dict, Zmalloc,
Adlist), `looping` (Intset) or the field `astray` (Sds) says that the process has ended or done
something undefined: a failed assertion, an access outside a table or through NULL, a write outside
a block, a search that does not end. What undefined behaviour does next is not followed: the model
stops there.

**DictStore** is what a dict promises: a set of entries with distinct keys, operations that answer
for the key they are given, and the possibility that a call stops the process and changes nothing:
by a fault of its own, or (`"abort"`) because memory is out.

**Dict** has the struct dict as one record, with the fields of dict.h. A table is a function from
slots to chains, a chain the sequence of its entries, newest first. The hash is a constant function,
so that all collisions the masks distinguish can be given. Three facts of the code shape its states.
`_dictExpand` does not set `ht_size_exp[0]` for the first table (dict.c:140 compares), so table 0
keeps the exponent -1: its mask is that of size 0 and everything is in slot 0. The second table
comes with the next expansion, and `reHashIdx` becomes 0. And the guard of `dictRehash` (dict.c:177,
`!d->reHashIdx != -1`) is always true, so a rehash never moves an entry nor ends: the loop behind it
is unreachable and is not modelled. Look-ups compute the slot of table 0 in another way than
insertions (`LookupSlots`, `InsertSlots`), and a look-up may read the word before the table;
`ReadsBeforeTable` allows every outcome that read can have, a miss or an invalid access, even in
cases where the word in front of the block would make it a miss for certain. Memory may be out at
every allocation. The strict forms of zmalloc and zcalloc then end the process by the default
handler: for a new entry (dict.c:306, reached by `dictAdd` and `dictReplace` for a key that is not
stored) and for a table (dict.c:145, reached by an insertion that grows, `dictExpand` and
`dictResize`). `Allocates` says when a call of an insertion gets that far; only `dictTryExpand`
reports the failure and leaves the dict as it was. That the client who holds an entry between the
phases of an unlink does not change the dict in between is an assumption about it: no comment of
dict.c asks for it, but the second phase writes through a link the first one saved.

**DictTraversal** extends Dict with an iterator, the scan and the samples. Random numbers are any
number, of which the model keeps the slots and entries they select. A scan is one call of
`dictScan`, from the first cursor or the one the last call returned; a cursor is the set of its one
bits, which makes `rev` and the increment of the reversed cursor operators on sets. A sample gives
any answer the random slot can lead to. `Client` is every operation of Dict under the discipline of
iterators: only reading under an unsafe one, and under a safe one any call but the deletion of an
entry it is not at and `dictEmpty`. Making an iterator allocates it, and ends the process when
memory is out.

**Zmalloc**: `heap` is the usable size of each block, `held` what clients own, `pc` where each
thread is in a call. An allocation is a step on the heap and then a step on the counter; a release
is subtracted and then freed; a reallocation changes the block, subtracts the old size and adds the
new one. The C library is external: any block that is not allocated may be returned, with any usable
size from the request on that `Slack` allows, and any allocation may fail. The counter is kept
modulo `SizeMax + 1`. A call remembers how many bytes its client asked for (`asked`), which for
`zcalloc_num` is the product as a number, whatever a size_t makes of it. A call without a pointer to
return is `ReturnNull`: the strict forms call the handler first, which ends the process unless it
returns, the try forms do not. `zfree_usable` is in the model as it is, with the addresses of its
argument given by `OutAddress`.

**ListSeq** is a list as the sequence of its nodes, or a broken one of which nothing is promised.
**Adlist** has nodes with `prev` and `next`, lists with `head`, `tail`, `len`. Two operations leave
a list that is not what was asked for, and a history variable says which lists: appending at the
tail does not count (`"short"`, adlist.c:72), unlinking the last node leaves `tail` pointing to it
(`"torn"`, adlist.c:128). The properties say what holds of lists without such a past, and what still
holds of those with one. An iteration is followed (`owed`, `given`) until its list is rotated, gets
a node at the tail, loses the last one, counts none of its nodes and gets one, or is joined to
another when either has a defect; after that nothing is said of it. A step of ListSeq does not tell
which operation it is of, nor with which arguments: the refinement says that lists change in the
ways sequences do and in no other.

**Intset** has the block as cells of the size of an `int16_t`, header included, because the search
reads the element at position -1: `intsetSearch` (intset.c:85) never assigns `mid`. A removal takes
that -1 for the position UINT32_MAX and drops the last element, whichever value was to go;
`OneAtATime` accepts this, and says only that one element goes and no other changes. An upgrade and
a move are the reads and writes they are, cell by cell in the order of the code.

**SdsString** is a sequence of characters, whose steps, like those of ListSeq, do not tell which
function they are of. **Sds** has the header (type, len, alloc) and the buffer behind it, one cell
for a character; a cell nobody wrote is `Junk`, so that a property can see it become text. A field
of the header keeps what fits it. `sdssetlen` falls through for type 5 (sds.h:105-111) and writes
two bytes before the block. `sdscatfmt` asks for as much room as an uninitialised variable says when
the room is used up. Both make the string go astray. sds.c does not compile as it stands: the
fall-through attributes of its case labels lack a semicolon; the model reads it as if they were
there. `_sdsMakeRoomFor` has no return type, so the pointer it returns goes through an `int`;
`WidePointers` says whether that loses anything, and the run takes a heap in the low addresses,
where it does not (elsewhere no string that grows is usable, and there is nothing to check).

**UtilFiles** has the file system as a function from paths to what is there; it is external, and a
directory removed while it is open gives nothing new. `stack` is the recursion of dirRemove, one
frame for each call with the place it is at and what it remembers: the name it looks at and what its
stream will still give. A stream must give the names that have been there since it was opened, and
may give those that came or went meanwhile (`must`, `may`). A step is one system call with what the
code does until the next one; only the open, fstat and close of an entry are one step, for what open
found decides. When an inner call fails all calls above return -1 at once (util.c:769), so that is
part of the failing step, and `abandoned` counts the streams they do not close. dirCreateIfMissing
belongs to another process: its mkdir is one step, the stat another. `Others` makes files and
removes files and empty directories anywhere at any time, and `CallFails` is any system call but
readdir failing for a reason of its own; readdir cannot be told from the end of the stream when it
fails. Both count as troubles.

**Chars** has the character codes and the classes of ctype.h (external, C locale). **StringMatch**
is the recursion of stringmatchlen, with the flag that makes outer stars give up. **SdsText** has
the functions of sds.c that take texts apart and put them together; results that may be NULL are
sets of at most one value, and `astray` of a split says that the search for the separator leaves the
text: its bound is an unsigned difference (sds.c:607). **PathText** is getAbsolutePath. What it cuts
is a string of sdsnew, of type 5 for 1 to 31 characters (`ShortMax`), and cutting sets the length,
which writes in front of the block (sds.h:105-111, as in Sds): the answer says `astray` there, and
where the root is the working directory and nothing is appended to it. A getcwd that fails gives no
path (util.c:682). **Numbers** has the conversions between integers and texts. They are scaled:
every power of ten is the same power of `Base`, and the widest unsigned number has as many digits as
that of 64 bits, so that each threshold of the code keeps its place among the others. A buffer is
the sequence of its cells, and one nobody wrote is `Unwritten`: the digit count of the code is one
or two too high for numbers of 9 to 12 digits (util.c:233), and the properties show those cells.
memtoull refuses digits that do not fit its buffer of `BufSize` characters, however small the
number. string2ll ends without a return statement when it has stored a value; the model keeps the
value and says nothing of what is returned. **FloatText** is the layout of a double whose digits and
exponent are given.

**TextCalls** composes these: a client calls one function with an input of its choice, sees the
answer, and calls again. The functions keep no state, so a sequence of calls can show no more than
each call alone; the sequences are those of the functions that undo each other, which a single call
of the client chains (write numbers and parse them, quote arguments, join and split). For each
function there is a reference definition that has nothing of the code: the meaning of a pattern
piece by piece, the directories a path leads through, a number as its digits without outer zeros.

The **MC** modules give the constants values; the cfg files name the properties. Mutants (a
definition followed by `_` and what is wrong with it) are plausible slips of the code: each property
has one that breaks it, which shows that the property can see such a slip.

## Runs

| run | expects | distinct states | question |
|---|---|---|---|
| dict | pass | 46,504 | Under all three policies, with growth allowed or refused and memory out at any allocation: are keys unique, counters exact, entries where insertions look; does growth obey the policy; does a started resize hide no key; is a dict a store; what can stop an insertion during a rehash? |
| dict_traversal | pass | 30,052 | Is nothing returned twice or after it was freed; is each pause taken back; do scan and samples give what they promise? |
| zmalloc | pass | 56,070 | In every interleaving: is the counter exact between calls, no block shared or lost, no client served less than it asked for? |
| zmalloc_usable | pass | 7,050 | What is left when a program calls `zfree_usable` and its handler returns? |
| zmalloc_free_usable | violation | - | Does one `zfree_usable` keep the counter right? It does not. |
| adlist | pass | 234,304 | Are lists well linked and counted until an operation breaks them, and does an iteration return each node once? |
| adlist_seq | pass | 43,794 | Do lists change only as sequences do, and indexes right from both ends? |
| intset | pass | 9,319 | Do upgrades and moves lose nothing, and is a set increasing until a value inside its range is added? |
| intset_valid | violation | - | Does every set pass the integrity check of the code? It does not. |
| sds | pass | 14,342 | Does the header tell the truth, do writes stay in the block, does the text change only as that of a sequence of characters? |
| texts | pass | 35,334 | Does every function of texts and numbers answer what its reference definition says, up to the exceptions the properties name? |
| files | pass | 407,446 | While others interfere and calls fail: are open streams accounted for, does an undisturbed removal remove everything, is an answer of dirCreateIfMissing true, does a repeated removal end? |

Bounds, all in the cfg files and MC modules:

- *dict*: three keys with hashes 0, 3 and 7. 3 and 7 share a slot in a table of 4 and not in one of
  8, 0 differs from both; all three share the slot of a table of exponent -1. `MaxExp` = 3 gives the
  sizes 4 and 8 and refuses 9, as the code refuses a size that overflows. A dict has at most two
  tables and never a third, so further sizes only repeat these cases. Two values (interchangeable)
  tell a replaced value from a kept one. The dict has a comparator; one without (`KeyCompare` FALSE)
  compares pointers, which the model and the proofs cover and the run does not.
- *dict_traversal*: the same keys, one value, one policy, sizes for both tables, samples of one and
  two entries. States that differ only in what the last operation of Dict returned are one state
  (`VIEW`), for no action and no property of the run reads it.
- *zmalloc*: three threads and four blocks, so that a reallocation can meet two other calls; a
  `size_t` of five bits, with requests 0 (raised to a `long`), 2 and 3 (which grow and shrink into
  each other), and 15 (refused), and counts whose product is refused or overflows (3 times 15 would
  wrap around to 13, which is a request that succeeds); the usable size is the request or one more.
  The usable runs have two threads and three blocks. The runs with the aborting handler end, so they
  do not check deadlock; zmalloc_usable does.
- *adlist*: two lists, because nodes move between them, and four nodes, which are a head, a tail and
  two in between; three nodes for the refinement. `LenMax` is 4 and 3: an uncounted node makes a
  later decrement wrap around. A torn list is followed until it is mended, joined or the process
  strays, and not worked on until then (`TornIsLeft`): without this bound runs would only list what
  dangling pointers do.
- *intset*: a cell has four values instead of 65,536, so the three encodings hold -2..1, -8..7 and
  -128..127; the values are both ends of each width and some in between. Lengths up to 4 use both
  cells of the length field.
- *sds*: the types hold up to 1, 3, 6, 13 and 30 characters, texts have up to 6 and buffers up to 11
  cells, so that strings grow and shrink through four headers, and requests lie on both sides of the
  preallocation limit (4). One format has an argument that needs more room than was made for the
  format, another one that uses it up. An allocation has its size or one cell more. Positions for
  range and substr are at, in front of and behind both ends of a text (`Position`). Cells behind the
  terminator are dropped from the states (`VIEW`), as nothing reads them before they are written.
- *texts*: patterns of up to three pieces of every kind, of five pieces when they are stars and two
  letters (so that an inner star uses up the string of two outer ones), and every form the end of
  the pattern cuts short, with all strings of three characters; among the pieces are escaped members
  of a class and ranges across the cases, which nocase takes in its own way (`escaped`, `crossing`).
  Texts of up to five characters and separators of up to three, so that separators overlap
  themselves, fill the text or are longer than it. Arguments of up to three of the characters
  quoting tells apart. Paths that climb further than the root, from three directories and without
  one, with file names up to `ShortMax` = 3 characters and longer ones. Numbers on both sides of
  every power of the base up to the largest, and of the ends of the types; buffers from nothing to
  more than the longest number; digits with up to 23 zeros in front, for a buffer of 24 (`BufSize`).
  `Base` is 2. The largest value of an unsigned type then ends in the highest digit, so the second
  test for overflow of string2ll (util.c:359) is never the one that decides; texts are therefore
  also read on a second scale, base 10 up to 255, where it does. Digits of 1 to 17, and exponents on
  both sides of every switch between layouts and of 100, with both signs.
- *files*: every tree over two names two levels deep, so that a directory has a file and a
  directory, two of either, or nothing, and the recursion has three calls; two troubles, which can
  be a failure after a change, or two changes at different places (removing an entry and making one
  of another kind under its name). A deeper tree adds frames that only wait; `UtilFilesProofs`
  covers all depths.

Deadlock is checked in zmalloc_usable and texts. The other models stop where the process does, and
that of the files when the directory is gone.

## Fairness and liveness

UtilFiles assumes that the process that removes keeps running: `WF_vars(Remove)`. A weaker
assumption would let it stop between two system calls, and the code justifies this one: dirRemove
never waits for anything but the return of a system call, and its caller tries again after a
failure. That there is such a caller is an assumption about the client: dirRemove is declared in
util.h and no code of the repository calls it. Nothing is assumed of the other processes, nor that
calls succeed; the bound on troubles stands for their becoming quiet at some time. Under this
`Removes` says that the directory goes. It takes the whole path from a failure through the abandoned
frames to the next attempt, with a stream that must give every name.

The other specifications assume no fairness. The structures are passive: a call returns in one step
and none waits for another, which leaves two things that might be said to happen eventually, and
neither does. A rehash never ends, since its guard returns at once (dict.c:177). A search in an
intset may go on for ever (intset.c:85). Both are in the models as they are, and what remains true
of the states they leave (`OldTableDrains`, `VisibleStays`, `ValidOutside`) is checked as safety.

## Proofs

TLAPS proves these for every value of the constants that satisfies the named assumptions of the
modules, for any number of keys, entries, threads and blocks.

**DictProofs.** `Invariant`: the inductive invariant holds always. From it `TypeCorrect` (TypeOK),
`KeysStayUnique` (UniqueKeys), `CountersExact` (UsedCounts), `EntriesInPlace` (Placement),
`TablesShaped` (TwoTables), `PausesBalanced` (PauseBalanced, which no run repeats); the action
properties `InsertionSafe` (InsertSafeInRehash), `RehashKeepsTables` (OldTableDrains),
`PolicyGovernsGrowth` (GrowthByPolicy) and `FoundStaysFound` (VisibleStays); and `DictIsStore`, the
refinement of DictStore.

That keys are unique is not inductive. An insertion refuses a key it finds, and it finds it only
because the entry is in the slot insertions compute (`Placed`), in a table that exists with the
slots its exponent says (`Shaped`). Those stay true only because exponents change with tables and
never for a table with entries, and because the counters by which operations return early are exact
(`UsedExact`). The conjunction of these, with the finiteness of the sets of positions that the
counting lemmas need, is `GoodDict`. The proof has lemmas that putting an entry in front of a chain
and taking one out of it keep GoodDict, and what they do to positions and to their number; that
expanding keeps it; and then one step for each action. The invariant is stated so that a client with
an iterator can use it too: `Sane` leaves open who else has paused the rehash (`OtherPauses`), and
every operation but dictEmpty keeps that number.

The action properties and the refinement do not speak of positions, which shift when a chain grows,
but of *items*, an entry and its slot. `ChangedFrom` says what any operation may do to a dict: put
one item into the table insertions go to, take one out, or store a value; each action is shown to do
one of these, to a dict that has grown or not. `VisibleStays` then follows because no growth changes
the slot a look-up computes for the entries there are, nor does a deletion for those of other keys,
and `Refinement` because the store is the set of the entries of the items. `OldTableDrains` says of
a rehash what the code leaves of it: only dictEmpty ends it, the old table gains no key, and the new
one keeps its slots and every key but one that is deleted. `InsertSafeInRehash` names the one thing
that stops an insertion or a resize during a rehash: memory that is out for the entry of a new key.
There is a table to look into, so the search of a key that is stored finds it before anything is
allocated, and nothing is left to grow. Without a comparator there is the other fault of dict.c:357,
and the property says nothing.

Assumed: hashes are naturals; `MaxExp` is at least 2; powers of two up to `MaxExp + 1` are positive
naturals and grow (`ShiftAssumption`: the provers know no induction over exponents, and TLC
evaluates the assumption on every run); a table can have more slots than there are keys
(`KeysAssumption`: an entry takes 24 bytes, so memory ends first). The last is needed by
`VisibleStays` and `Refinement`: the growth an insertion asks for is then never refused.

**DictTraversalProofs.** `TraversalInvariant` is the invariant of a dict with an iterator: Sane, the
pauses that are not those of an unlink are those of the iterator, and the iterator is before its
first step, at an entry of the second table, or past the end (`Waiting`, `Visiting`, `Over`). The
part that is not obvious is `Progress`: of the keys returned none lies ahead, and of those owed each
does, where "ahead" is a later slot or the chain from the saved successor on. It is kept by an
insertion because entries come in front, by a deletion because only the entry the iterator is at may
go, and by a resize because the second table is not replaced. From it `PausesHaveOwners`
(PausesOwned), `EachKeyOnce` (IteratesOnce) and `SavedStaysAlive` (NextAlive). That an iterator
never visits table 0 is a consequence of its exponent.

`AnswersInvariant` does the same for what scans and samples return, and gives `ScanInOneCall`
(ScanExact) and `SamplesRight` (SamplesAnswer). The loop of the scan over the second table is a
recursion over cursors; its value is computed for the masks the code uses: with the single bit e - 1
as mask it takes two turns, at slots 0 and 2^(e - 1), for every exponent e. The steps of a sample
are a recursion over their number, in which the fold over a chain is one more; both are shown to
stay in the set of sequences of stored keys of at most n elements.

**ZmallocProofs.** `Invariant`, and from it `TypeCorrect` (TypeOK), `NeverShared` (Exclusive),
`NothingLeaks` (NoLeak), and `AlwaysServed` (Served). That no block is in two hands is not inductive
either: malloc returns a block that is not allocated, and what is needed is that every block held or
in a call *is* allocated. `IInv` adds this for the blocks in calls.

`CounterRight` (CounterExact) is about sums: the counter is the sum of the sizes held and those
still to be subtracted. What holds after every step is `CounterFollows`, the same modulo the width
of a size_t, for the counter itself wraps (`CounterKept`); an addition or subtraction of one thread
moves one term from one side to the other, in any interleaving. `CounterExact` follows under the
hypothesis that what is counted fits a size_t at every moment, which the instance of the run
satisfies and any allocator does: those blocks exist, or existed when their call began. Assumed:
NULL is no block and sizes are naturals. `NothingLeaks` and the counter assume a program that does
not call `zfree_usable` (`OutAddress = {}`), which releases nothing and subtracts an address.

`AlwaysServed` needs of `zcalloc_num` that the guard it has lets a product pass only when it fits a
size_t, so that the remainder is the product (`num > SizeMax \div size` is the test by division of
zmalloc.c:104), and of the other threads that no step of theirs changes the block of a call in
progress, which is Exclusive again.

**AdlistProofs.** The invariant names the chain of each list that is not torn: a function s on
0..m+1, the nodes at 1..m, NULL at both ends, with head at s[1], tail at s[m], and each node's links
to the neighbours in s; len is m when the list has no defect. The iterator, when it is not at its
end, is at some s[k] of such a chain, what it owes lies ahead of k and what it has given does not.
Each operation is one on chains: a node put in, taken out, one end turned to the other, one chain
joined to another. From it `ListsLinked` (Linked), `LengthsRight` (Counted), `IterationsExact`
(IterExact), and `IndexesRight` (IndexRight), for which the recursions `Walk` and `Nth` along the
links are shown to read the chain. Assumed: NULL is no node, and memory has fewer nodes than an
unsigned long can count (`LenAssumption`).

`ListsAreSequences`: Adlist implements ListSeq. The refinement mapping is the walk from head, which
is the chain read from 1 to m; one lemma for each operation on chains says what it is on that
sequence, and one for each action that it is a step of ListSeq.

**IntsetProofs**, for any even number of values of a cell from 4 on, any values an int64_t of such
cells holds, and any bound on the length. `OutsideIsValid` (ValidOutside) and `OneElementAtATime`
(OneAtATime). The invariant, `IInv`, is that the block is a function on exactly the cells its header
asks for, all with a value of a cell (`Block`), and increasing while every value was added outside
the range (`Sorted`). The block's size alone is not inductive in the middle of a call, where header,
length and size disagree, so the lemmas follow the calls on a block with room for n elements,
whatever its length field says (`Holds`). Below is a layer about numbers: Write puts into k cells
the digits that Signed reads, for any number that fits (`WriteFacts`), the same cells are the same
number (`SameNumber`), and whatever cells hold fits their width. In a widening the cells of the
elements not copied yet are those of before, and the others say in the new width what they said in
the old (`Midway`); a copy keeps that because the place of an element is never before its old one,
which is why they must go from the last to the first. The loop of the search decides in its first
turn or never (`LoopIs`), so a value it finds is at -1, and one that `Outside` holds of gets an end
as its position; a value too wide for the set belongs at an end as well (`TooWide`), which keeps the
order in an upgrade. Assumed: Base is even and at least 4, as 65,536 is; values fit four cells;
lengths are below half of what two cells hold, (`LengthAssumption`: positions are ints in the code,
and sets of 2^31 elements are beyond the model).

**UtilFilesProofs**, for any names, any depth and any number of troubles. `StreamsAccounted`
(StreamsCounted): needed is that every call but the innermost is in its loop (`Waiting`), so that a
failure finds exactly the streams of the calls above it. `CreationTrue` (CreatedTrue): what is at
the path now is always among the moments the call remembers. `RemovalComplete` (CalmSucceeds): the
calls work on a directory, a directory in it and so on (`Nested`), and the entries of each are the
names its stream must give, the one it is at and the directory of the call below (`FrameCalm`); so
nothing is left in a directory when its stream ends, rmdir succeeds, and, as what there is lies in a
directory (`WellFormed`), nothing is left when the root has gone. Assumed: the depth is a positive
natural, the number of troubles a natural.

**SdsProofs.** `StringInvariant`, and from it `HeaderTellsTruth` (Consistent) and `WritesStayInside`
(Inside): for types of any widths, any room the allocator adds and any order of the calls. The
invariant, `Fine`, says that a string that is not astray holds its text (`Held`, `Filled`) and ends
it (`Ended`), that every field fits the header also when it is astray, and how it may have gone
astray (`Calm`). Inside a function none of this holds all the time: the functions write the text,
the length and the terminator in different orders, so the lemmas go from function to function by two
weaker states, `Ready` (the block has n characters and room for them, whatever the header says) and
`Whole` (the header says so, the end may be missing). `RoomMade` is what _sdsMakeRoomFor gives: a
length may be written to the header it leaves because the type was chosen for more than that length,
and alloc was cut to what the type can say. sdsResize passes through a header that holds neither the
old length nor the old alloc (a smaller type, not yet written); `AllocFirst` shows that it might as
well have written both first. sdscatfmt is a fold over the pieces of the format, each of which
leaves the text whole or the string astray (`Going`). `StringsAreTexts` (ImplementsString): Sds
implements SdsString. The refinement mapping is the text the header points out, or the word that the
string is astray; for each function there is a lemma that says which text it leaves, from the cells
its copies, moves and terminators change and the ones they do not. Assumed: the largest type, which
is size_t in the code, holds every length that comes up with what is preallocated (`TypeAssumption`,
`FormatAssumption`); what a new block holds can be told from what was written to it
(`CharAssumption`).

**RecursionFacts** holds what the others need of recursion: a set of naturals that is not empty has
a least element; a set with 0 and all successors is all of them; the same for the subsets of a
finite set; a function defined by recursion on a rank exists, and with it a fold over a sequence;
and the sum of a function over a finite set, element by element.

**Model-checked only.** `Removes`, which is liveness, and everything of TextCalls, whose functions
recur by RECURSIVE operators.

**Out of reach.** Liveness under fairness and ENABLED. The induction theorems of the library take an
operator as a parameter, which no installed prover can instantiate; a recursion is therefore
unfolded for itself, by RecursionFacts, where a property needs its value. RECURSIVE operators, which
StringMatch, SdsText, PathText, Numbers and TextCalls declare; no module with a theorem reaches one.

## Findings

- *zmalloc_free_usable*: `zfree_usable` subtracts the address of its argument from the counter
  (zmalloc.c:219). The comment above it has the intended statement and asks whether there is a
  problem. It does not release the block either.
- *intset_valid*: the search assigns the middle to `min` instead of `mid` (intset.c:85), so adding a
  value inside the range of a set makes one that the code's own deep check (intset.c:257) refuses.

Behaviour of the code that contradicts no sentence of the repository is in the models and not listed
as a finding: the exponent of table 0, the guard of dictRehash, the uncounted tail and the torn
list, the header writes of short strings, the digit counts that are too high, the bound of a split,
needsrepr without single quotes, the path of a short file name, the escaped members and crossing
ranges of a pattern without case, the streams a failed removal leaves open. The section on modules
and the properties say where each is. `LayoutRight` allows the one text that is longer than the 24
characters fpconv_dtoa.h:3 declares as a destination: a negative integer of 24 digits.

## Not modelled

- dict: entries without values (the no_value encodings), which pack the same chains into pointers;
  `dictSetKey`, which changes a key in place and leaves the consequences to its caller;
  defragmentation, as an entry has no address here; a scan whose callback changes the dict; the body
  of dictRehash behind its guard; `dictEmpty` under an open iterator, which would leave the iterator
  at a freed entry and make pauseRehash negative (dict.c:1007). A growth an insertion asks for can
  be refused (`GrowthRefused`) only when the table would not fit `size_t`; the action has that
  branch, but no dict of a run gets as far.
- zmalloc: the readers of /proc and the statistics, which only read.
- intset: big-endian builds.
- sds: `sdsfreesplitres`, whose loop ends for no count but 0; the case conversions, which are
  mapchars; comparison, which only reads; allocations that fail inside the functions of texts. The
  functions that change a string return NULL where their strict allocation returned NULL, which the
  default handler does not let happen; a client whose handler returns is not followed there.
  sdstrynewlen, which may, leaves its client without a string. `SDS_NOINIT` is declared in sds.h and
  defined nowhere, so no caller can ask for an unwritten text that way. Of sdscatvprintf only what
  it appends is modelled, not the buffer it formats into, which it makes larger until the text fits.
- util: string2ull and string2l, which act on what string2ll returns, and that is undefined;
  string2ld, string2d, d2string and ld2string, which are the conversions of the C library; the
  random bytes, which need sha256; single system calls without control of their own (fsyncFileDir,
  reclaimFilePageCache, fileExist); one-line helpers (makePath, pathIsBaseName, getTimeZone,
  mempbrk, memmapchars). Of dirRemove: paths cut at PATH_MAX and symbolic links, which open follows
  and unlink does not.
- sha256: the loop of sha256_transform that expands a block tests an enumeration constant, which is
  8, instead of its counter, so it never ends and writes behind its array. No digest has a defined
  value, and a model of the buffer in front of it would say nothing about this program.
- mt19937-64: the seeding reads the word in front of the array, so the numbers are no function of
  the seed, and the rest is a recurrence whose reference would be the same recurrence.
- siphash, the search for digits in fpconv (Grisu2): third-party arithmetic whose reference would be
  the same arithmetic.
- endianconv, redisassert, log, the programs: no state.
