\* Documented: every queued text leaves the queue.
CONSTANTS
  c1 = c1
  o1 = o1
  None = None
  Conv = {c1}
  Obj = {o1}
  BatchIdle = 1
  BatchMaxWait = 2
  MaxBatch = 2
  PauseFor = {}
  MuteFor = {}
  MaxMsgs = 2
  MaxEpoch = 0
  MaxDisposals = 0
  Horizon = 3
  MaxTime = 6
SPECIFICATION FairSpec
PROPERTY
  BacklogDrains
CHECK_DEADLOCK FALSE
