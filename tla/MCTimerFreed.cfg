CONSTANTS
  SLOT_PER_WHEEL = 2
  TOTAL_WHEEL = 3
  TickInterval = 2
  Timeouts = {1, 4}
  MaxHandle = 2
  MaxBacklog = 1
SPECIFICATION TimerSpec
INVARIANTS
  FreedOnce
CHECK_DEADLOCK FALSE
