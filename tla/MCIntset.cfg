\* Lengths up to 4, so that the upper half of length is not always 0.
SPECIFICATION Spec
CONSTANTS
  Base = 4
  Value <- MCValue
  MaxLength = 4
\* A search may never end.
CHECK_DEADLOCK FALSE
INVARIANTS
  ValidOutside
PROPERTY OneAtATime
