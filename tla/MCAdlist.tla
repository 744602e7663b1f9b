------------------------------ MODULE MCAdlist ------------------------------
EXTENDS Adlist, TLC

CONSTANTS l1, l2, n1, n2, n3, n4

MCList == {l1, l2}
MCNodes3 == {n1, n2, n3}
MCNodes4 == {n1, n2, n3, n4}

\* Lists and nodes are only compared.
Symmetry == Permutations(MCList) \union Permutations(Node)

\* A bound: a torn list is followed until something mends it, joins it to the
\* other list or makes the process stray, and is not worked on until then.
TornIsLeft ==
  \A i \in List : "torn" \in defect[i] \intersect defect'[i] => list'[i] = list[i]
=============================================================================
