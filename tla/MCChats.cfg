CONSTANTS
  \* InboundRouting: two messages of one conversation.
  Conv = {"c"}
  LastMail = 2
  LastMoment = 2
  HumanIdle = 1
  MuteTime = 1
  Cooldown = 1
  MaxStrikes = 2
  MaxAsks = 1
  \* AgentLoop: two replies of one tool round, one send an hour.
  g1 = g1
  g2 = g2
  Reply = {g1, g2}
  MaxRounds = 1
  MaxAttempts = 2
  MaxPerHour = 1
  Hour = 2
  LastTime = 2
  MaxCalls = 2
  Called = {"own", "other", "unknown"}
  Allowlist = TRUE
  \* ReplyRules: every input within these bounds.
  Text = {"a", "b"}
  Times = {1, 2}
  CharLimits = {0, 1, 2}
  MaxEntries = 3
  MaxCost = 2
  Minutes = 6
  Near = 2
  Far = 4
  \* AiMetrics: three decisions in two sessions on two days of two hours.
  Sid = {"s1", "s2"}
  Hours = 2
  MaxRecent = 2
  MaxDecisions = 3
  LastDay = 2
  \* AiSettingsPage: two sessions, three requests without an answer.
  AiSession = {g1, g2}
  NoSession = NoSession
  MaxOpen = 3
SYMMETRY Symmetric
SPECIFICATION ChatsSpec
INVARIANTS
  ChatsTypesOK
  AgentIsBounded
  AiFormIsTheirs
  RulesAndFiguresHold
PROPERTIES
  AnswersAreGoverned
  HandlersUseAnInbox
CHECK_DEADLOCK FALSE
