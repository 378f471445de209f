\* Two events of one receiver and one of a blocked one, one slot, retries with
\* Retry-After, a missing secret, an open circuit, one replay, fairness.
CONSTANTS
  e1 = e1
  e2 = e2
  e3 = e3
  e4 = e4
  e5 = e5
  u1 = u1
  u2 = u2
  r1 = r1
  Delivery = {e1, e2, e3}
  Url = {u1, u2}
  UrlOf <- TwoUrls
  Blocked = {u2}
  Concurrency = 1
  MaxAttempts = 2
  Interval = 1
  Factor = 2
  RetryAfter = {0, 3}
  Threshold = 1
  ResetFor = 1
  AnswersOf <- OneUnsigned
  Request = {r1}
  MaxEntries = 1
  MaxTime = 3
SPECIFICATION FairSpec
INVARIANTS
  TypeOK
PROPERTIES
  AnswersAreHeeded
  FailuresFillTheBuffer
  DeliveriesEnd
CHECK_DEADLOCK FALSE
