SPECIFICATION Spec
CONSTANTS
  Capacity = 3
  Blocks = {b1, b2}
  Words = {0, 2}
  ConnCapacity = 3
  ConnFds = {5}
  MaxFds = 3
  Reactor = {0, 1, 2, Pipe}
  NoReactor = NoReactor
  Descriptors = {0, 1}
  Owners = {0, 1}
  PendingBound = 2
  Grow = 2
  BufSizes = {1}
  PushSizes = {1, 2, 3}
  Limits = {0, 3}
  Mod = 3
  MaxAlloc = 5
  Keys = {0, 1, 2}
  Slots = {1, 2}
  MaxEntries = 4
  VAR_MSG_HLEN = 2
  MsgSize = 4
  EachCapacity = 16
  Lengths = {1, 2, 4}
  StaleLengths = {1, 3}
  MaxChunks = 3
  MaxUnread = 3
  MAX_SMALL_LEN = 2
  Texts <- MCTexts
  MaxLen = 4
  Byte = 8
  MaxMsgs = 8
  WorkerNum = 2
  Sockets = {1, 2}
  Resettable = {1, 2}
  StartMayFail = TRUE
  HidSpace = 2
  MaxLog = 5
  Pipe = Pipe
INVARIANTS
  FreeListIntact
  FreeStackExact
  NoNullDispatch
  RegisteredIsActive
  StreamKept
  ViewsAgree
  QueueCounts
  TextKept
  MessageArrives
  ListenBarrier
  RoutedByHid
  RetiredInBounds
  ReactorsInPlace
PROPERTIES
  DeliverySpec
CHECK_DEADLOCK FALSE
