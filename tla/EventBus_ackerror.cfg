SPECIFICATION FairSpec
CONSTANTS
  MaxEvents = 3
  StreamMaxlen = 3
  PageSize = 2
  MaxAttempts = 2
  MaxFaults <- RefusedAck
PROPERTIES AtLeastOnce
CHECK_DEADLOCK FALSE
