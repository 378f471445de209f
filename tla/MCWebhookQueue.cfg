\* Five events, two slots, single attempts: queue and breaker.
CONSTANTS
  e1 = e1
  e2 = e2
  e3 = e3
  e4 = e4
  e5 = e5
  u1 = u1
  u2 = u2
  Delivery = {e1, e2, e3, e4, e5}
  Url = {u1}
  UrlOf <- OneUrl
  Blocked = {}
  Concurrency = 2
  MaxAttempts = 1
  Interval = 1
  Factor = 2
  RetryAfter = {}
  Threshold = 2
  ResetFor = 2
  AnswersOf <- OkOrFail
  Request = {}
  MaxEntries = 2
  MaxTime = 4
SPECIFICATION Spec
SYMMETRY Symmetry
INVARIANTS
  QueueKeepsTurns
PROPERTIES
  CircuitIsFair
CHECK_DEADLOCK FALSE
