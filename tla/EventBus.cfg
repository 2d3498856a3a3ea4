SPECIFICATION FairSpec
CONSTANTS
  MaxEvents = 4
  StreamMaxlen = 2
  PageSize = 2
  MaxAttempts = 2
  MaxFaults <- EveryFault
INVARIANTS TypeOK NothingOwedIsForgotten OldestPendingFirst
PROPERTIES ImplementsEventLog EventuallySettled
CHECK_DEADLOCK FALSE
