CONSTANTS
  SLOT_PER_WHEEL = 3
  TOTAL_WHEEL = 3
  TickInterval = 2
  Timeouts = {1}
  MaxHandle = 1
  MaxBacklog = 1
  MaxMsgs = 2
  HeaderLen = 2
  PayloadLen <- MCPayloadLen
  Cap = 5
  ReadMax = 5
  MaxFds = 2
  Reactor = {0, Pipe}
  NoReactor = NoReactor
  ConnCapacity = 1
  WorkerNum = 1
  Sockets = {1}
  Resettable = {}
  StartMayFail = FALSE
  HidSpace = 2
  MaxLog = 1
  Pipe = Pipe
SPECIFICATION FairSpec
PROPERTIES
  WrittenIsDelivered
CHECK_DEADLOCK FALSE
