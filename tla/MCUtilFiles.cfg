\* Every tree two levels deep, and two troubles.
SPECIFICATION Spec
CONSTANTS
  Name = {"a", "b"}
  MaxDepth = 2
  MaxTrouble = 2
\* The removal ends.
CHECK_DEADLOCK FALSE
INVARIANTS
  StreamsCounted
  CalmSucceeds
  CreatedTrue
PROPERTY Removes
