------------------------------ MODULE MCZmalloc ------------------------------
(***************************************************************************)
(* Instances of Zmalloc for TLC: a size_t of five bits, SIZE_MAX / 2 = 15. *)
(***************************************************************************)
EXTENDS Zmalloc, TLC

\* 0 becomes LongSize, 2 and 3 grow and shrink into each other, 15 is the
\* first size that is refused.
MCRequest == {0, 2, 3, 15}

\* 15 * 2 is refused, 15 * 3 overflows to 13, which is not.
MCCount == {1, 15}

Interchangeable == Permutations(Thread) \union Permutations(Block)
=============================================================================
