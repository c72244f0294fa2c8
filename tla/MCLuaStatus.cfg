CONSTANTS
  Main = m
  Coroutines = {c1}
  BASIC_CI_SIZE = 2
  LUAI_MAXCALLS = 4
  LUAI_MAXCCALLS = 3
  CCallsReserve = 2
  MaxOpen = 1
  MaxFrames = 4
INIT DoInit
NEXT DoNext
INVARIANT
  StatusRight
CHECK_DEADLOCK FALSE
