\* Three threads on four blocks; the default handler aborts.
SPECIFICATION Spec
CONSTANTS
  Thread = {t1, t2, t3}
  Block = {b1, b2, b3, b4}
  NULL = NULL
  Request <- MCRequest
  Count <- MCCount
  Slack = {0, 1}
  SizeMax = 31
  LongSize = 1
  HandlerReturns = FALSE
  OutAddress = {}
SYMMETRY Interchangeable
\* The process may abort.
CHECK_DEADLOCK FALSE
INVARIANTS
  TypeOK
  CounterExact
  Exclusive
  NoLeak
  Served
