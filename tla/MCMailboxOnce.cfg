CONSTANTS
  MaxMsgs = 2
SPECIFICATION MailSpec
INVARIANTS
  DeliveredOnce
CHECK_DEADLOCK FALSE
