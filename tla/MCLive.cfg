CONSTANTS
  SLOT_PER_WHEEL = 2
  TOTAL_WHEEL = 3
  TickInterval = 2
  Timeouts = {1, 4, 9}
  MaxHandle = 3
  MaxBacklog = 2
  MaxMsgs = 4
  HeaderLen = 2
  PayloadLen <- MCPayloadLen
  Cap = 80
  ReadMax = 5
  MaxFds = 3
  Reactor = {0, 1, 2, Pipe}
  NoReactor = NoReactor
  ConnCapacity = 3
  WorkerNum = 2
  Sockets = {1, 2}
  Resettable = {}
  StartMayFail = FALSE
  HidSpace = 2
  MaxLog = 4
  Pipe = Pipe
SPECIFICATION FairSpec
PROPERTIES
  DeadlinesSpec
  SetGoesOff
  MailboxSpec
  WrittenIsDelivered
  GateOpens
  AcceptedIsServed
  DataIsAnswered
CHECK_DEADLOCK FALSE
