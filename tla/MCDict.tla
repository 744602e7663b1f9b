------------------------------- MODULE MCDict -------------------------------
(***************************************************************************)
(* Instances of Dict for TLC.  The hashes collide and differ in the ways   *)
(* the slots of 4 and 8 bins distinguish: 0 is even, 3 and 7 are odd; 3    *)
(* and 7 share the last bin of a table of 4 and part in a table of 8.      *)
(***************************************************************************)
EXTENDS Dict, TLC

CONSTANTS k0, k3, k7

MCHash == (k0 :> 0) @@ (k3 :> 3) @@ (k7 :> 7)

\* 1 is refused once two keys are stored, 6 asks for 8 slots, and the table
\* for 9 would not fit in memory.
MCExpandSizes == {1, 6, 9}

\* The values are only stored and returned.
ValueSymmetry == Permutations(Value)
=============================================================================
