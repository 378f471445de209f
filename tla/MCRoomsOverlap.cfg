\* Documented: a form that is being sent does not send again.
CONSTANTS
  c1 = c1
  c2 = c2
  p1 = p1
  p2 = p2
  Chat = {c1, c2}
  NoChat = NoChat
  Slot = {p1, p2}
  MaxSteps = 3
SPECIFICATION RoomsSpec
INVARIANT
  SendsDoNotOverlap
CHECK_DEADLOCK FALSE
