\* One conversation, two objects, fairness: every call of the router, shutdown while
\* flushes are in flight and handlers of the closed session that still enqueue.
CONSTANTS
  c1 = c1
  o1 = o1
  o2 = o2
  None = None
  Conv = {c1}
  Obj = {o1, o2}
  BatchIdle = 2
  BatchMaxWait = 3
  MaxBatch = 3
  PauseFor = {1, 3}
  MuteFor = {2}
  MaxMsgs = 4
  MaxEpoch = 2
  MaxDisposals = 1
  Horizon = 2
  MaxTime = 6
SPECIFICATION FairSpec
INVARIANTS
  TypeOK
  BacklogIsServed
  OnePlacePerText
PROPERTIES
  TextsTakeTheirTurn
  RouterIsAnInbox
  RouterSettles
CHECK_DEADLOCK FALSE
