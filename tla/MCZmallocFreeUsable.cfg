\* zfree_usable and the counter.
SPECIFICATION Spec
CONSTANTS
  Thread = {t1, t2}
  Block = {b1, b2, b3}
  NULL = NULL
  Request <- MCRequest
  Count <- MCCount
  Slack = {0, 1}
  SizeMax = 31
  LongSize = 1
  HandlerReturns = FALSE
  OutAddress = {5}
SYMMETRY Interchangeable
\* The process may abort.
CHECK_DEADLOCK FALSE
INVARIANTS
  CounterExact
