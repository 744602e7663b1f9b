------------------------------ MODULE DictStore ------------------------------
(***************************************************************************)
(* What the dictionary of dict.c promises to its client, whatever its      *)
(* tables look like: a store that holds a key at most once.                *)
(*                                                                         *)
(* Insertion is exact: it succeeds iff the key is not stored.  Look-up and *)
(* deletion are one-sided: they never return or remove anything but the    *)
(* entry of the key they were given, but they may miss a stored key,       *)
(* because dictFind, dictGenericDelete and dictTwoPhaseUnlinkFind do not   *)
(* compute the slot an insertion used.  The operation that runs may stop   *)
(* the process (up becomes FALSE); it then leaves the store as it was.     *)
(***************************************************************************)
CONSTANTS
  Key,     \* the keys of the client
  Value    \* the values it stores

VARIABLES
  store,   \* the set of stored entries
  up,      \* FALSE once an operation has stopped the process
  ret      \* the last operation and what it returned

Entry == [key : Key, val : Value]

StoredKeys == {e.key : e \in store}

EntriesOf(k) == {e \in store : e.key = k}

\* The outcome of operation op on the keys ks: a flag and the entry returned.
Return(op, ks, ok, found) == [op |-> op, key |-> ks, ok |-> ok, found |-> found]

Keep == UNCHANGED <<store, up>>

Init ==
  /\ store = {}
  /\ up = TRUE
  /\ ret = Return("create", {}, TRUE, {})

-----------------------------------------------------------------------------
(* Operations.                                                             *)

\* dictAdd and dictAddRaw/dictAddOrFind: the entry is new, or nothing changes.
Add(k, v) ==
  \/ /\ ret' = Return("add", {k}, TRUE, {[key |-> k, val |-> v]})
     /\ k \notin StoredKeys
     /\ store' = store \union {[key |-> k, val |-> v]}
     /\ UNCHANGED up
  \/ /\ ret' = Return("add", {k}, FALSE, EntriesOf(k))
     /\ k \in StoredKeys
     /\ Keep

Replace(k, v) ==
  /\ ret' = Return("replace", {k}, k \notin StoredKeys, {[key |-> k, val |-> v]})
  /\ store' = (store \ EntriesOf(k)) \union {[key |-> k, val |-> v]}
  /\ UNCHANGED up

SetVal(k, v) ==
  /\ ret' = Return("setval", {k}, TRUE, {[key |-> k, val |-> v]})
  /\ k \in StoredKeys
  /\ store' = (store \ EntriesOf(k)) \union {[key |-> k, val |-> v]}
  /\ UNCHANGED up

\* A look-up returns the entry of its key, or misses it.
Find(k) ==
  /\ \E found \in {{}, EntriesOf(k)} : ret' = Return("find", {k}, found # {}, found)
  /\ Keep

Delete(k) ==
  \/ /\ k \in StoredKeys
     /\ store' = store \ EntriesOf(k)
     /\ ret' = Return("delete", {k}, TRUE, EntriesOf(k))
     /\ UNCHANGED up
  \/ /\ ret' = Return("delete", {k}, FALSE, {})
     /\ Keep

Empty ==
  /\ ret' = Return("empty", {}, TRUE, {})
  /\ store' = {}
  /\ UNCHANGED up

\* Resizing, rehashing and the policy switch do not touch the store.
Maintain(ok) ==
  /\ ret' = Return("maintain", {}, ok, {})
  /\ Keep

\* The operation stops the process: a fault of its own, or, by the name of
\* "abort", the handler of an allocation it could not do without.
Stop(op, ks) ==
  /\ up' = FALSE
  /\ ret' = Return(op, ks, FALSE, {})
  /\ UNCHANGED store

Next ==
  /\ up
  /\ \/ \E ok \in BOOLEAN : Maintain(ok)
     \/ Empty
     \/ \E k \in Key, v \in Value : SetVal(k, v) \/ Add(k, v) \/ Replace(k, v)
     \/ \E k \in Key : Find(k) \/ Delete(k)
     \/ Stop("abort", {})
     \/ \E op \in {"add", "replace", "find", "delete", "abort"}, k \in Key : Stop(op, {k})

Spec == Init /\ [][Next]_<<store, up, ret>>
=============================================================================
