\* Concurrent requests over one database; any query may fail, any process die.
CONSTANTS
  Request = {r1, r2}
  MaxDecisions = 3
  StoreMayFail = TRUE
SPECIFICATION Spec
INVARIANTS
  ChainIntact
  TrailsInOrder
  GreenVouches
PROPERTIES
  IsAppendOnlyLog
\* The requests end and the audits may stop.
CHECK_DEADLOCK FALSE
