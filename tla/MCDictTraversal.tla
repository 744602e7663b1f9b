--------------------------- MODULE MCDictTraversal ---------------------------
(***************************************************************************)
(* An instance of DictTraversal for TLC, with the hashes of MCDict: 3 and  *)
(* 7 share a chain in a table of 4 bins and part in a table of 8.          *)
(***************************************************************************)
EXTENDS DictTraversal, TLC

CONSTANTS k0, k3, k7

MCHash == (k0 :> 0) @@ (k3 :> 3) @@ (k7 :> 7)

\* One size of each of the two tables, 4 and 8 bins.
MCExpandSizes == {1, 6}

\* What an operation returned is read by no action and by no property here.
TraversalView == <<d, dict_can_resize, unlinking, up, iter, walk, given>>
=============================================================================
