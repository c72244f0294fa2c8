CONSTANTS
  MaxFds = 3
  Reactor = {0, 1, 2, Pipe}
  NoReactor = NoReactor
  ConnCapacity = 3
  WorkerNum = 1
  Sockets = {1}
  Resettable = {}
  StartMayFail = FALSE
  HidSpace = 2
  MaxLog = 3
  Pipe = Pipe
SPECIFICATION GateFairSpec
PROPERTIES
  PeerCloseReleases
CHECK_DEADLOCK FALSE
