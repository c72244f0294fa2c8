CONSTANTS
  VAR_MSG_HLEN = 2
  MsgSize = 4
  EachCapacity = 16
  Lengths = {2, 4}
  StaleLengths = {1}
  MaxChunks = 3
  MaxUnread = 3
SPECIFICATION QueueSpec
INVARIANTS
  QueueInOrder
CHECK_DEADLOCK FALSE
