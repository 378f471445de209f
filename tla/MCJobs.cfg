CONSTANTS
  \* DeadLetters: three failures into a buffer of two, two overlapping requests, a restart.
  l1 = l1
  l2 = l2
  l3 = l3
  r1 = r1
  r2 = r2
  Letter = {l1, l2, l3}
  Request = {r1, r2}
  MaxEntries = 2
  \* BroadcastQueue: a job of three messages and a short one, batches of two, room for one
  \* ended job.
  j1 = j1
  j2 = j2
  j3 = j3
  Job = {j1, j2}
  TotalOf <- OneLong
  BatchSize = 2
  Delays = {1}
  BatchPause = 1
  CheckChunk = 2
  MaxAge = 1
  MaxJobs = 1
  MaxTime = 2
SPECIFICATION JobsSpec
INVARIANTS
  JobsTypesOK
  LettersAreSound
  JobsAreHonest
PROPERTIES
  SendsArePaced
  NothingVanishes
  WorkEnds
CHECK_DEADLOCK FALSE
