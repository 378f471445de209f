CONSTANTS
  \* ChatRooms: two chats, two chains of requests.
  c1 = c1
  c2 = c2
  p1 = p1
  p2 = p2
  Chat = {c1, c2}
  NoChat = NoChat
  Slot = {p1, p2}
  MaxSteps = 2
  \* WebhooksPage: two sessions, two requests, two URLs typed.
  WebSession = {c1, c2}
  WebRequest = {p1, p2}
  Typings = 1
  \* QrPolling: two sessions, two calls of pollQR(), two updates of an interval under way,
  \* a code that expires at once or twice missing.
  PollSession = {"s1", "s2"}
  Poll = {p1, p2}
  NoPoll = NoPoll
  MaxMissing = 2
  MaxAsking = 2
  \* TypingPresence: two rooms, three requests.
  Room = {c1, c2}
  NoRoom = NoRoom
  MaxPosts = 3
  \* EventFeed: four events, of which two are kept and three shown.
  LastEvent = 4
  MaxKept = 2
  MaxShown = 3
  Stream = {c1, c2}
  NoStream = NoStream
  Visit = {p1, p2}
SYMMETRY Symmetric
SPECIFICATION PagesSpec
INVARIANTS
  PagesTypesOK
  PageRecovers
  UntouchedUrlIsKept
  QrIsFollowed
  TypingEnds
  FeedIsOrdered
CHECK_DEADLOCK FALSE
