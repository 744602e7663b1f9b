\* The program also calls zfree_usable, and its handler returns.
SPECIFICATION Spec
CONSTANTS
  Thread = {t1, t2}
  Block = {b1, b2, b3}
  NULL = NULL
  Request <- MCRequest
  Count <- MCCount
  Slack = {0, 1}
  SizeMax = 31
  LongSize = 1
  HandlerReturns = TRUE
  OutAddress = {5}
SYMMETRY Interchangeable
INVARIANTS
  Exclusive
