\* Iterators, scans and samples among all other operations of a dict.
SPECIFICATION TraversalSpec
CONSTANTS
  k0 = k0
  k3 = k3
  k7 = k7
  Key = {k0, k3, k7}
  Value = {v1}
  Hash <- MCHash
  KeyCompare = TRUE
  ExpandAllowed = {TRUE}
  Policies = {"ENABLE"}
  ExpandSizes <- MCExpandSizes
  MaxExp = 3
  Counts = {1, 2}
VIEW TraversalView
\* A step may stop the process.
CHECK_DEADLOCK FALSE
INVARIANTS
  PausesOwned
  NextAlive
  ScanExact
PROPERTIES
  IteratesOnce
  SamplesAnswer
