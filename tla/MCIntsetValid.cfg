\* The set as the deep check wants it.
SPECIFICATION Spec
CONSTANTS
  Base = 4
  Value <- MCValue
  MaxLength = 4
\* A search may never end.
CHECK_DEADLOCK FALSE
INVARIANT AlwaysValid
