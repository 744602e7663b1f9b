-------------------------------- MODULE Dict --------------------------------
(***************************************************************************)
(* The chained hash table of dict.c: two tables, the second one in use     *)
(* from the moment a resize starts (reHashIdx # -1).  One action per call  *)
(* of the library; a step is a whole call, because a dict belongs to one   *)
(* thread.                                                                 *)
(*                                                                         *)
(* A chain is the sequence of its entries, the newest first, and an entry  *)
(* is its key and its value.  An access outside a table, a call of a NULL  *)
(* comparator, a division by zero and a failed assertion stop the process: *)
(* up becomes FALSE and nothing happens any more.  So does an allocation   *)
(* that must not fail, when memory is out: the handler of zmalloc aborts.  *)
(***************************************************************************)
EXTENDS Integers, FiniteSets, SequencesExt

CONSTANTS
  Key,            \* the keys of the client
  Value,          \* the values it stores
  Hash,           \* type->hashFunction: a natural number for every key
  KeyCompare,     \* TRUE iff type->keyCompare is set (it then compares exactly)
  ExpandAllowed,  \* what type->expandAllowed may answer; {TRUE} when it is not set
  Policies,       \* the arguments the program gives to dictSetResizeEnabled
  ExpandSizes,    \* the sizes the client asks of dictExpand and dictTryExpand
  MaxExp          \* the largest exponent whose table has a size in bytes that
                  \* fits size_t (60 in a 64-bit build)

ResizePolicies == {"ENABLE", "AVOID", "FORBID"}

ASSUME HashAssumption == Hash \in [Key -> Nat]
ASSUME TypeAssumption == KeyCompare \in BOOLEAN /\ ExpandAllowed \subseteq BOOLEAN
ASSUME PolicyAssumption == Policies \subseteq ResizePolicies
ASSUME SizeAssumption == ExpandSizes \subseteq Nat /\ MaxExp \in Nat \ {0, 1}
\* An entry takes 24 bytes: those that memory can hold are fewer than the slots
\* of the largest table.
ASSUME KeysAssumption == IsFiniteSet(Key) /\ Cardinality(Key) < 2^MaxExp
\* 1ul << e is a positive number, as long as e is less than the width of a long,
\* and a larger one for a larger e.
ASSUME ShiftAssumption ==
  \A e \in 0..(MaxExp + 1) : 2^e \in Nat \ {0} /\ \A f \in 0..(e - 1) : 2^f < 2^e

VARIABLES
  d,               \* the struct dict, as in dict.h
  dict_can_resize, \* the resize policy, one for all dicts
  unlinking,       \* the entry a client holds between dictTwoPhaseUnlinkFind
                   \* and dictTwoPhaseUnlinkFree: its position, or nothing
  up,              \* FALSE once an operation has stopped the process
  ret              \* the last operation and what it returned

vars == <<d, dict_can_resize, unlinking, up, ret>>

Entry == [key : Key, val : Value]

-----------------------------------------------------------------------------
(* Tables.                                                                 *)

\* DICTHT_SIZE: the number of slots the code believes a table to have.
Size(e) == IF e = -1 THEN 0 ELSE 2^e

\* A table is a function from its slots to chains; the NULL table has no slot.
NoTable == [i \in {} |-> << >>]

NewTable(e) == [i \in 0..(Size(e) - 1) |-> << >>]

Rehashing(ht) == ht.reHashIdx # -1

Count(ht) == ht.ht_used[0] + ht.ht_used[1]

\* Where the entries are: table, slot, and index in the chain.
Positions(ht, t) ==
  UNION {{[table |-> t, slot |-> i, index |-> p] : p \in 1..Len(ht.ht_table[t][i])} :
           i \in DOMAIN ht.ht_table[t]}

AllPositions(ht) == Positions(ht, 0) \union Positions(ht, 1)

EntryAt(ht, pos) == ht.ht_table[pos.table][pos.slot][pos.index]

Entries(ht) == {EntryAt(ht, pos) : pos \in AllPositions(ht)}

KeysIn(ht, t) == {EntryAt(ht, pos).key : pos \in Positions(ht, t)}

-----------------------------------------------------------------------------
(* The slot of a key.  An insertion masks the hash with the size of the    *)
(* table.  A look-up writes h & exp == -1 ? 0 : mask, which C reads as     *)
(* (h & (exp == -1)) ? 0 : mask: the last slot of a table with a size, and *)
(* for a table whose ht_size_exp is -1 slot 0 when h is odd and slot       *)
(* 2^64 - 1, the word before the array (-1 here), when h is even.          *)

InsertSlot(h, e) == IF e = -1 THEN 0 ELSE h % Size(e)

LookupSlot(h, e) == IF e = -1 /\ h % 2 = 1 THEN 0 ELSE Size(e) - 1

\* dictFindEntryByPtrAndHash masks with 1 << (exp - 1): a single bit.
PtrSlot(h, e) ==
  IF e = -1 THEN 0 ELSE LET bit == 2^(e - 1) IN bit * ((h \div bit) % 2)

InsertSlots(ht, k) == [t \in 0..1 |-> InsertSlot(Hash[k], ht.ht_size_exp[t])]
LookupSlots(ht, k) == [t \in 0..1 |-> LookupSlot(Hash[k], ht.ht_size_exp[t])]
PtrSlots(ht, k)    == [t \in 0..1 |-> PtrSlot(Hash[k], ht.ht_size_exp[t])]

\* Mutant: during a rehash only the new table is searched.
SearchedTables_NewOnly(ht) == IF Rehashing(ht) THEN {1} ELSE {0}

\* The loops over the tables leave after table 0 unless a rehash is going on.
SearchedTables(ht) == IF Rehashing(ht) THEN {0, 1} ELSE {0}

\* Mutant: the comparison of keys is lost, the first entry of the chain matches.
KeyIndexes_AnyKey(ht, t, i, k) ==
  IF i \in DOMAIN ht.ht_table[t] /\ ht.ht_table[t][i] # << >> THEN {1} ELSE {}

\* Where chain i of table t holds key k; nowhere, when there is no such chain.
KeyIndexes(ht, t, i, k) ==
  IF i \in DOMAIN ht.ht_table[t]
  THEN {p \in 1..Len(ht.ht_table[t][i]) : ht.ht_table[t][i][p].key = k}
  ELSE {}

\* The entries with key k in the chains of the given slots.  A key is stored
\* once (UniqueKeys), so the first match of the code is the only one.
Hits(ht, k, slots) ==
  UNION {{[table |-> t, slot |-> slots[t], index |-> p] : p \in KeyIndexes(ht, t, slots[t], k)} :
           t \in SearchedTables(ht)}

-----------------------------------------------------------------------------
(* Growing.                                                                *)

\* _dictNextExp: the least exponent, at least 2, with room for size slots;
\* MaxExp + 1 stands for all those whose table does not fit size_t.
NextExp(size) ==
  LET fits == {e \in 2..MaxExp : 2^e >= size}
  IN  IF fits = {} THEN MaxExp + 1 ELSE CHOOSE e \in fits : \A f \in fits : e <= f

\* Mutant: a dict that is being rehashed may be expanded again.
ExpandRefused_NotWhileRehashing(ht, size) ==
  \/ ht.ht_used[0] > size
  \/ NextExp(size) > MaxExp
  \/ NextExp(size) = ht.ht_size_exp[0]

\* The early DICT_ERR of _dictExpand.
ExpandRefused(ht, size) ==
  \/ Rehashing(ht)
  \/ ht.ht_used[0] > size
  \/ NextExp(size) > MaxExp
  \/ NextExp(size) = ht.ht_size_exp[0]

\* Mutant: the rehash is not started when the second table is set.
Expanded_NoRehashIdx(ht, size) ==
  LET e == NextExp(size)
  IN  IF ht.ht_table[0] = NoTable
      THEN [ht EXCEPT !.ht_used[0] = 0, !.ht_table[0] = NewTable(e)]
      ELSE [ht EXCEPT !.ht_size_exp[1] = e, !.ht_used[1] = 0, !.ht_table[1] = NewTable(e)]

\* Mutant: the exponent of the new table is also given to the old one.
Expanded_BothExponents(ht, size) ==
  LET e == NextExp(size)
  IN  IF ht.ht_table[0] = NoTable
      THEN [ht EXCEPT !.ht_used[0] = 0, !.ht_table[0] = NewTable(e)]
      ELSE [ht EXCEPT !.ht_size_exp = [t \in 0..1 |-> e], !.ht_used[1] = 0,
                      !.ht_table[1] = NewTable(e), !.reHashIdx = 0]

\* _dictExpand once the new table is allocated.  The first table of a dict
\* leaves ht_size_exp[0] at -1: "ht_size_exp[0] == new_ht_size_exp" compares.
Expanded(ht, size) ==
  LET e == NextExp(size)
  IN  IF ht.ht_table[0] = NoTable
      THEN [ht EXCEPT !.ht_used[0] = 0, !.ht_table[0] = NewTable(e)]
      ELSE [ht EXCEPT !.ht_size_exp[1] = e, !.ht_used[1] = 0,
                      !.ht_table[1] = NewTable(e), !.reHashIdx = 0]

Expand(ht, size) == IF ExpandRefused(ht, size) THEN ht ELSE Expanded(ht, size)

\* Mutant: the early DICT_OK during a rehash is missing.
NeededSize_AlsoRehashing(ht, allowed) ==
  IF Size(ht.ht_size_exp[0]) # 0 THEN {4}
  ELSE IF allowed /\ dict_can_resize = "ENABLE" THEN {ht.ht_used[0] + 1}
  ELSE {}

\* Mutant: the policy is not consulted.
NeededSize_AnyPolicy(ht, allowed) ==
  IF Rehashing(ht) THEN {}
  ELSE IF Size(ht.ht_size_exp[0]) # 0 THEN {4}
  ELSE IF allowed THEN {ht.ht_used[0] + 1}
  ELSE {}

\* _dictExpandIfNeeded: the size it asks for, as a set of at most one.
NeededSize(ht, allowed) ==
  IF Rehashing(ht) THEN {}
  ELSE IF Size(ht.ht_size_exp[0]) # 0 THEN {4}
  ELSE IF allowed /\ dict_can_resize = "ENABLE" THEN {ht.ht_used[0] + 1}
  ELSE {}

ExpandIfNeeded(ht, allowed) ==
  IF NeededSize(ht, allowed) = {} THEN ht
  ELSE Expand(ht, CHOOSE size \in NeededSize(ht, allowed) : TRUE)

\* Under DICT_RESIZE_AVOID the load factor divides by the size of table 0.
DividesByZero(ht, allowed) ==
  /\ ~Rehashing(ht)
  /\ Size(ht.ht_size_exp[0]) = 0
  /\ allowed
  /\ dict_can_resize = "AVOID"

\* dictRehash returns 0 before its loop iff this holds: "!reHashIdx != -1"
\* compares a truth value with -1.  With the guard as it is written, rehash
\* steps do nothing, and so no operation below shows one.
RehashReturnsAtOnce(ht) ==
  LET not == IF ht.reHashIdx = 0 THEN 1 ELSE 0
  IN  dict_can_resize = "FORBID" \/ not # -1

-----------------------------------------------------------------------------
(* Changing a chain.                                                       *)

\* Mutant: a new entry is always counted in the first table.
Prepended_CountsFirst(ht, t, i, e) ==
  [ht EXCEPT !.ht_table[t][i] = <<e>> \o @, !.ht_used[0] = @ + 1]

Prepended(ht, t, i, e) ==
  [ht EXCEPT !.ht_table[t][i] = <<e>> \o @, !.ht_used[t] = @ + 1]

\* Mutant: the counter of the first table is decremented, whatever the table.
Removed_CountsFirst(ht, pos) ==
  [ht EXCEPT !.ht_table[pos.table][pos.slot] = RemoveAt(@, pos.index), !.ht_used[0] = @ - 1]

Removed(ht, pos) ==
  [ht EXCEPT !.ht_table[pos.table][pos.slot] = RemoveAt(@, pos.index),
             !.ht_used[pos.table] = @ - 1]

WithVal(ht, pos, v) ==
  [ht EXCEPT !.ht_table[pos.table][pos.slot][pos.index].val = v]

\* dictInsertAtPosition: new entries go to table 1 during a rehash.
InsertTable(ht) == IF Rehashing(ht) THEN 1 ELSE 0

\* Mutant: the position computed for the first table is used in the second.
Inserted_FirstSlot(ht, e) ==
  LET t == InsertTable(ht)
  IN  Prepended(ht, t, InsertSlots(ht, e.key)[0], e)

Inserted(ht, e) ==
  LET t == InsertTable(ht)
  IN  Prepended(ht, t, InsertSlots(ht, e.key)[t], e)

-----------------------------------------------------------------------------
(* What an operation returns, and how it stops the process.                *)

Return(op, ks, ok, found) == [op |-> op, key |-> ks, ok |-> ok, found |-> found]

\* The library is called only while the process runs.  A client that holds an
\* entry of dictTwoPhaseUnlinkFind does not change the dict before it frees it.
MayRead == up
MayChange == up /\ unlinking = {}

Stop(op, k) ==
  /\ up' = FALSE
  /\ ret' = Return(op, {k}, FALSE, {})
  /\ UNCHANGED <<d, dict_can_resize, unlinking>>

\* The growth dictFindPositionForInsert asks for is refused (it returns NULL).
GrowthRefused(ht, allowed) ==
  \E size \in NeededSize(ht, allowed) : ExpandRefused(ht, size)

\* dictFindPositionForInsert stops the process: the division; no table to look
\* into; a comparator that is NULL called for a pointer that is equal.
InsertFaults(ht, k, allowed) ==
  \/ DividesByZero(ht, allowed)
  \/ /\ ~GrowthRefused(ht, allowed)
     /\ LET grown == ExpandIfNeeded(ht, allowed)
        IN  \/ grown.ht_table[0] = NoTable
            \/ ~KeyCompare /\ Hits(grown, k, InsertSlots(grown, k)) # {}

\* An insertion allocates a table, an entry, or both, with zcalloc and zmalloc.
\* The order does not matter: either aborts, and leaves nobody to see the other.
Allocates(ht, k, allowed) ==
  LET grown == ExpandIfNeeded(ht, allowed)
  IN  /\ ~GrowthRefused(ht, allowed)
      /\ \/ NeededSize(ht, allowed) # {}
         \/ ~InsertFaults(ht, k, allowed) /\ Hits(grown, k, InsertSlots(grown, k)) = {}

\* A look-up reads the word before table 0: an odd word is taken for a key, an
\* even one is followed.  The outcome is a miss or an invalid access.
ReadsBeforeTable(ht, k) == Count(ht) # 0 /\ LookupSlots(ht, k)[0] \notin DOMAIN ht.ht_table[0]

LookupHits(ht, k) == IF Count(ht) = 0 THEN {} ELSE Hits(ht, k, LookupSlots(ht, k))

-----------------------------------------------------------------------------
(* Operations.                                                             *)

Init ==
  /\ d = [ht_table |-> [t \in 0..1 |-> NoTable], ht_used |-> [t \in 0..1 |-> 0],
          ht_size_exp |-> [t \in 0..1 |-> -1], reHashIdx |-> -1, pauseRehash |-> 0]
  /\ dict_can_resize = "ENABLE"
  /\ unlinking = {}
  /\ up = TRUE
  /\ ret = Return("create", {}, TRUE, {})

\* dictExpand and dictTryExpand; allocated is FALSE when the allocation fails,
\* which aborts in dictExpand and is reported by dictTryExpand, the only error
\* the latter reports.
dictExpand(size, try, allocated) ==
  /\ MayChange
  /\ IF ExpandRefused(d, size)
     THEN d' = d /\ up' = TRUE /\ ret' = Return("maintain", {}, try, {})
     ELSE /\ d' = IF allocated THEN Expanded(d, size) ELSE d
          /\ up' = (allocated \/ try)
          /\ ret' = Return(IF up' THEN "maintain" ELSE "abort", {}, allocated, {})
  /\ UNCHANGED <<dict_can_resize, unlinking>>

\* dictResize: a table for the entries there are, when the policy lets it; with
\* dictExpand, which aborts when there is no memory for it.
dictResize(allocated) ==
  LET minimal == IF d.ht_used[0] < 4 THEN 4 ELSE d.ht_used[0]
      refused == \/ dict_can_resize # "ENABLE"
                 \/ Rehashing(d)
                 \/ ExpandRefused(d, minimal)
  IN  /\ MayChange
      /\ IF refused
         THEN d' = d /\ up' = TRUE /\ ret' = Return("maintain", {}, FALSE, {})
         ELSE /\ d' = IF allocated THEN Expanded(d, minimal) ELSE d
              /\ up' = allocated
              /\ ret' = Return(IF up' THEN "maintain" ELSE "abort", {}, allocated, {})
      /\ UNCHANGED <<dict_can_resize, unlinking>>

dictSetResizeEnabled(policy) ==
  /\ MayRead
  /\ dict_can_resize' = policy
  /\ ret' = Return("maintain", {}, TRUE, {})
  /\ UNCHANGED <<d, unlinking, up>>

\* dictFindPositionForInsert and, when the key is new, dictInsertAtPosition.
\* The value of a new entry is v; an existing one keeps its own.
AddRaw(k, v, allowed) ==
  LET grown == ExpandIfNeeded(d, allowed)
      existing == Hits(grown, k, InsertSlots(grown, k))
      new == [key |-> k, val |-> v]
  IN  /\ ~InsertFaults(d, k, allowed)
      /\ IF GrowthRefused(d, allowed)
         THEN d' = d /\ ret' = Return("add", {k}, FALSE, {})
         ELSE IF existing # {}
         THEN d' = grown /\ ret' = Return("add", {k}, FALSE, {EntryAt(grown, pos) : pos \in existing})
         ELSE d' = Inserted(grown, new) /\ ret' = Return("add", {k}, TRUE, {new})
      /\ UNCHANGED <<dict_can_resize, unlinking, up>>

\* dictAdd writes the value it is given.  dictAddRaw and dictAddOrFind leave the
\* value of a new entry as zmalloc returned it: any value.
dictAdd(k, v) ==
  /\ MayChange
  /\ \E allowed \in ExpandAllowed :
       \/ AddRaw(k, v, allowed)
       \/ InsertFaults(d, k, allowed) /\ Stop("add", k)
       \/ Allocates(d, k, allowed) /\ Stop("abort", k)

\* dictReplace: like dictAdd for a new key, else the entry gets the value.
\* When no position was found for another reason than the key being there,
\* existing is NULL and dictGetVal(existing) stops the process.
dictReplace(k, v) ==
  /\ MayChange
  /\ \E allowed \in ExpandAllowed :
       LET grown == ExpandIfNeeded(d, allowed)
           existing == Hits(grown, k, InsertSlots(grown, k))
           new == [key |-> k, val |-> v]
       IN  \/ /\ InsertFaults(d, k, allowed) \/ GrowthRefused(d, allowed)
              /\ Stop("replace", k)
           \/ Allocates(d, k, allowed) /\ Stop("abort", k)
           \/ /\ ~InsertFaults(d, k, allowed) /\ ~GrowthRefused(d, allowed)
              /\ IF existing = {} THEN d' = Inserted(grown, new)
                 ELSE \E pos \in existing : d' = WithVal(grown, pos, v)
              /\ ret' = Return("replace", {k}, existing = {}, {new})
              /\ UNCHANGED <<dict_can_resize, unlinking, up>>

\* dictSetVal on the entry an earlier operation returned to the client.
dictSetVal(k, v) ==
  /\ MayChange
  /\ \E pos \in AllPositions(d) :
       /\ EntryAt(d, pos).key = k
       /\ d' = WithVal(d, pos, v)
  /\ ret' = Return("setval", {k}, TRUE, {[key |-> k, val |-> v]})
  /\ UNCHANGED <<dict_can_resize, unlinking, up>>

\* dictFind, and dictFetchValue on top of it.
dictFind(k) ==
  /\ MayRead
  /\ \/ /\ LET hits == LookupHits(d, k)
           IN ret' = Return("find", {k}, hits # {}, {EntryAt(d, pos) : pos \in hits})
        /\ UNCHANGED <<d, dict_can_resize, unlinking, up>>
     \/ ReadsBeforeTable(d, k) /\ Stop("find", k)

\* dictFindEntryByPtrAndHash: k is the old pointer, and the hash its own.
dictFindEntryByPtrAndHash(k) ==
  /\ MayRead
  /\ LET hits == IF Count(d) = 0 THEN {} ELSE Hits(d, k, PtrSlots(d, k))
     IN ret' = Return("find", {k}, hits # {}, {EntryAt(d, pos) : pos \in hits})
  /\ UNCHANGED <<d, dict_can_resize, unlinking, up>>

\* dictGenericDelete, called by dictDelete and dictUnlink.  The test of a key,
\* key == he_key || keyCompare ? ... : ..., calls a comparator that is NULL.
dictGenericDelete(k) ==
  LET hits == LookupHits(d, k)
  IN  /\ MayChange
      /\ \/ /\ hits = {}
            /\ ret' = Return("delete", {k}, FALSE, {})
            /\ UNCHANGED <<d, dict_can_resize, unlinking, up>>
         \/ /\ KeyCompare
            /\ \E pos \in hits :
                 /\ d' = Removed(d, pos)
                 /\ ret' = Return("delete", {k}, TRUE, {EntryAt(d, pos)})
            /\ UNCHANGED <<dict_can_resize, unlinking, up>>
         \/ ((~KeyCompare /\ hits # {}) \/ ReadsBeforeTable(d, k)) /\ Stop("delete", k)

\* The first phase finds the entry and pauses rehashing.
dictTwoPhaseUnlinkFind(k) ==
  LET hits == LookupHits(d, k)
  IN  /\ MayChange
      /\ \/ /\ ret' = Return("find", {k}, hits # {}, {EntryAt(d, pos) : pos \in hits})
            /\ unlinking' = hits
            /\ d' = [d EXCEPT !.pauseRehash = IF hits = {} THEN @ ELSE @ + 1]
            /\ UNCHANGED <<dict_can_resize, up>>
         \/ ReadsBeforeTable(d, k) /\ Stop("find", k)

\* The second phase unlinks and frees the entry through the link it kept.
dictTwoPhaseUnlinkFree ==
  /\ MayRead
  /\ \E pos \in unlinking :
       LET e == EntryAt(d, pos)
       IN  /\ d' = [Removed(d, pos) EXCEPT !.pauseRehash = @ - 1]
           /\ ret' = Return("delete", {e.key}, TRUE, {e})
  /\ unlinking' = {}
  /\ UNCHANGED <<dict_can_resize, up>>

\* _dictClear walks the slots until ht_used entries are freed; nothing else
\* bounds the walk.  It stays in the table iff the counter is the number of
\* entries, and then frees them all.
ClearFaults(ht) == \E t \in 0..1 : ht.ht_used[t] # Cardinality(Positions(ht, t))

dictEmpty ==
  /\ MayChange
  /\ up' = ~ClearFaults(d)
  /\ d' = [ht_table |-> [t \in 0..1 |-> NoTable], ht_used |-> [t \in 0..1 |-> 0],
           ht_size_exp |-> [t \in 0..1 |-> -1], reHashIdx |-> -1, pauseRehash |-> 0]
  /\ ret' = Return("empty", {}, TRUE, {})
  /\ UNCHANGED <<dict_can_resize, unlinking>>

Next ==
  \/ \E size \in ExpandSizes, try, allocated \in BOOLEAN : dictExpand(size, try, allocated)
  \/ \E allocated \in BOOLEAN : dictResize(allocated)
  \/ \E policy \in Policies : dictSetResizeEnabled(policy)
  \/ \E k \in Key, v \in Value : dictAdd(k, v)
  \/ \E k \in Key, v \in Value : dictReplace(k, v)
  \/ \E k \in Key, v \in Value : dictSetVal(k, v)
  \/ \E k \in Key : dictFind(k)
  \/ \E k \in Key : dictFindEntryByPtrAndHash(k)
  \/ \E k \in Key : dictGenericDelete(k)
  \/ \E k \in Key : dictTwoPhaseUnlinkFind(k)
  \/ dictTwoPhaseUnlinkFree
  \/ dictEmpty

Spec == Init /\ [][Next]_vars

-----------------------------------------------------------------------------
(* Properties.                                                             *)

Exponents == {-1} \union 2..MaxExp

IsTable(T) == T = NoTable \/ \E e \in 2..MaxExp : T \in [0..(2^e - 1) -> Seq(Entry)]

StructOK(ht) ==
  /\ DOMAIN ht = {"ht_table", "ht_used", "ht_size_exp", "reHashIdx", "pauseRehash"}
  /\ DOMAIN ht.ht_table = 0..1 /\ \A t \in 0..1 : IsTable(ht.ht_table[t])
  /\ ht.ht_used \in [0..1 -> Nat]
  /\ ht.ht_size_exp \in [0..1 -> Exponents]
  /\ ht.reHashIdx \in {-1, 0}
  /\ ht.pauseRehash \in Nat

\* What the operations return.
Returned == [op : {"create", "maintain", "add", "replace", "setval", "find", "delete", "empty", "abort"},
             key : SUBSET Key, ok : BOOLEAN, found : SUBSET Entry]

\* Every variable has its type: d is a struct dict whose chains hold entries,
\* and a client about to unlink an entry holds one that is still there.
TypeOK ==
  /\ StructOK(d)
  /\ dict_can_resize \in ResizePolicies
  /\ unlinking \subseteq AllPositions(d)
  /\ up \in BOOLEAN
  /\ ret \in Returned

KeysDistinct(ht) ==
  \A p, q \in AllPositions(ht) : EntryAt(ht, p).key = EntryAt(ht, q).key => p = q

UsedExact(ht) == \A t \in 0..1 : ht.ht_used[t] = Cardinality(Positions(ht, t))

Placed(ht) ==
  \A t \in 0..1 : \A pos \in Positions(ht, t) :
    pos.slot = InsertSlot(Hash[EntryAt(ht, pos).key], ht.ht_size_exp[t])

Shaped(ht) ==
  /\ ht.ht_size_exp[0] = -1
  /\ ht.ht_table[0] # NoTable => 0 \in DOMAIN ht.ht_table[0]
  /\ IF Rehashing(ht)
     THEN /\ ht.ht_table[0] # NoTable
          /\ ht.ht_size_exp[1] # -1
          /\ DOMAIN ht.ht_table[1] = 0..(Size(ht.ht_size_exp[1]) - 1)
     ELSE ht.ht_table[1] = NoTable /\ ht.ht_size_exp[1] = -1

\* A key is stored once, whatever table it is in: dictFindPositionForInsert
\* looks into every chain where an earlier insertion may have put the key,
\* before, during and after the start of a rehash.
UniqueKeys == KeysDistinct(d)

\* ht_used counts the entries of each table.  The walk of _dictClear is bounded
\* by that counter alone, and every look-up returns early on it.
UsedCounts == UsedExact(d)

\* An entry is in the slot its key has for an insertion now, although the
\* exponents were others when it was inserted: table 0 keeps the exponent -1,
\* so its entries share slot 0 and no later mask moves a key.
Placement == Placed(d)

\* The second table exists exactly while a rehash is going on, with the slots
\* its exponent says, and a rehash starts only from a dict that has a table.
TwoTables == Shaped(d)

\* Rehashing is paused exactly while a client holds an entry it is going to
\* unlink; a pause that is not taken back would last for ever.
PauseBalanced == d.pauseRehash = Cardinality(unlinking)

\* The key of the entry the last operation has deleted.
Deleted == IF ret.op = "delete" THEN ret.key ELSE {}

\* A rehash that has started is left by dictEmpty only.  Until then the old table
\* gains no key, and the new one is not replaced by another: it keeps its slots,
\* and every key but one that is deleted.
OldTableDrains ==
  [][Rehashing(d) =>
       \/ /\ Rehashing(d')
          /\ KeysIn(d', 0) \subseteq KeysIn(d, 0)
          /\ KeysIn(d, 1) \subseteq KeysIn(d', 1) \union Deleted'
          /\ DOMAIN d'.ht_table[1] = DOMAIN d.ht_table[1]
       \/ ~Rehashing(d') /\ ret'.op = "empty"]_d

\* The key of a stored entry that a look-up would find now.
Visible(ht) == {k \in Key : LookupHits(ht, k) # {}}

\* What a look-up has found it goes on finding, until that key is deleted or the
\* dict emptied: neither a started resize nor what happens to another key hides
\* a key that was visible before it.
VisibleStays ==
  [][ret'.op = "empty" \/ Visible(d) \subseteq Visible(d') \union Deleted']_d

\* During a rehash, given a comparator, neither an insertion nor a resize stops
\* the process, but for one event: memory is out for the entry of a new key.
\* There is a table to look into, nothing is left to grow, and a stored key is
\* found, in whichever table it is, before anything is allocated for it.
InsertSafeInRehash ==
  [][Rehashing(d) /\ KeyCompare /\ ~up' /\ ret'.op \notin {"find", "delete", "empty"} =>
       \E k \in Key : ret' = Return("abort", {k}, FALSE, {}) /\ k \notin KeysIn(d, 0) \union KeysIn(d, 1)]_up

\* An operation on a key allocates a table only under the policy that lets a
\* dict grow; under the others only dictExpand and dictTryExpand do.
GrowthByPolicy ==
  [][ret'.op \notin {"maintain", "empty"} /\ dict_can_resize # "ENABLE"
       => \A t \in 0..1 : DOMAIN d'.ht_table[t] = DOMAIN d.ht_table[t]]_d

\* The dict is a store that holds a key at most once and answers for no other
\* key than the one it is asked for.
store == Entries(d)

Store == INSTANCE DictStore

Refinement == Store!Spec

=============================================================================
