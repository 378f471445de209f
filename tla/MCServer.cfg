CONSTANTS
  \* AuthBackend: every value of the configuration.
  Configured = {"auto", "file", "redis"}
  \* SendSlots: three requests for two sessions with one slot each.
  Sender = {"t1", "t2", "t3"}
  Session = {"s1", "s2"}
  MaxConcurrent = 1
  \* TokenBucket: two deliveries to two receivers; two tokens that refill in two polls.
  Url = {"u1", "u2"}
  Delivery = {"d1", "d2"}
  Capacity = 4
  Share = 2
  PerTick = 1
  MaxWait = 2
  IdleTtl = 4
  LastTick = 8
  \* SessionSettings: four changes, two writes on their way.
  LastRev = 4
  Grace = 1
  LastHour = 2
  MaxWrites = 2
  \* MessageStore: two messages of one contact, one per room; two writes at once.
  LastMessage = 2
  MaxPerChat = 1
  MaxSaves = 2
  MaxChanges = 2
  \* Accounts: two names and two hashing requests.
  n1 = n1
  n2 = n2
  q1 = q1
  q2 = q2
  Name = {n1, n2}
  AccountRequest = {q1, q2}
  RequireApproval = TRUE
  MaxUsers = 2
  \* LoginGuard: a name guessed from two addresses against small limits.
  a1 = a1
  Account = {a1}
  Ip = {n1, n2}
  Attempt = {q1, q2}
  MaxFailures = 2
  FailWindow = 1
  LockTime = 2
  RateMax = 2
  RateWindow = 1
  MaxTime = 2
  \* ApiKeys: one plaintext and one hashed key with two requests.
  k1 = k1
  k2 = k2
  Key = {k1, k2}
  Legacy = {k2}
  KeyRequest = {q1, q2}
SYMMETRY Symmetric
SPECIFICATION ServerSpec
INVARIANTS
  ServerTypesOK
  LimitsAreKept
  StoreIsSound
  AccountsStayGoverned
  KeysAreKept
PROPERTIES
  StorageIsKept
CHECK_DEADLOCK FALSE
