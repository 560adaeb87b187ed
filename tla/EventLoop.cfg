SPECIFICATION Spec
CONSTANTS
  Conn = {a, b}
  a = a
  b = b
  Clients <- MCClients
  LargeReply = 3
  MaxOutput = 2
  ReadSize = 2
  SocketRoom = 2
  Room = 2
  MaxFailures = 1
INVARIANTS RepliesInOrder SavedBeforeReply ConnectionsKept
PROPERTIES EveryRequestAnswered
CHECK_DEADLOCK FALSE
