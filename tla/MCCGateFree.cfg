CONSTANTS
  MaxFds = 3
  Reactor = {0, 1, 2, Pipe}
  NoReactor = NoReactor
  ConnCapacity = 3
  WorkerNum = 1
  Sockets = {1, 2}
  Resettable = {1, 2}
  StartMayFail = FALSE
  HidSpace = 8
  MaxLog = 5
  Pipe = Pipe
SPECIFICATION GateSpec
INVARIANTS
  FreeConnectAsserts
CHECK_DEADLOCK FALSE
