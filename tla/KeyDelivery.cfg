SPECIFICATION Spec
CONSTANTS
  NtRetries = 1
  MaxKeys = 2
  MaxCancels = 1
  MaxKinds = 3
  MaxFaults <- RaceFaults
INVARIANTS TypeOK KeyHandedOutOnce HandedOutKeyIsBobs ActiveKeyOnlyWhenDone IndexExact HandedOutPerActivation DoneHasKey
PROPERTIES ImplementsSession
CHECK_DEADLOCK FALSE
