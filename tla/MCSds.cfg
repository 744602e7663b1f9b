\* One string through every function; heap addresses that fit an int.
SPECIFICATION Spec
CONSTANTS
  NUL = "0"
  Junk = "?"
  Text <- MCText
  Format <- MCFormat
  TrimSet = {{"a"}}
  Map <- MCMap
  Position <- MCPosition
  MaxLen = 6
  MaxRoom = 11
  TypeMax <- MCTypeMax
  MaxPrealloc = 4
  Slack = {0, 1}
  WidePointers = FALSE
VIEW SdsView
\* A string may go astray.
CHECK_DEADLOCK FALSE
INVARIANTS
  Consistent
  Inside
PROPERTY ImplementsString
