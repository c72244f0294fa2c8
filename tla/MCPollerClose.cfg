CONSTANTS
  MaxFds = 2
  Reactor = {r1, r2}
  NoReactor = NoReactor
  Descriptors = {0, 1}
  Owners = {r1, r2}
  PendingBound = 2
SPECIFICATION PollerSpec
PROPERTIES
  RetiredFdsAreClosed
