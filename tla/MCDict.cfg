\* Every operation of a dict with a comparator, over three collision classes,
\* under every policy, with growth allowed or refused.
SPECIFICATION Spec
CONSTANTS
  k0 = k0
  k3 = k3
  k7 = k7
  Key = {k0, k3, k7}
  Value = {v1, v2}
  Hash <- MCHash
  KeyCompare = TRUE
  ExpandAllowed = {TRUE, FALSE}
  Policies = {"ENABLE", "AVOID", "FORBID"}
  ExpandSizes <- MCExpandSizes
  MaxExp = 3
SYMMETRY ValueSymmetry
\* A step may stop the process.
CHECK_DEADLOCK FALSE
INVARIANTS
  TypeOK
  UniqueKeys
  UsedCounts
  Placement
  TwoTables
PROPERTIES
  GrowthByPolicy
  OldTableDrains
  VisibleStays
  InsertSafeInRehash
  Refinement
