SPECIFICATION FairSpec
CONSTANTS
  NtRetries = 1
  MaxKeys = 2
  MaxCancels = 1
  MaxKinds = 2
  MaxFaults <- NodeFaults
PROPERTIES SessionSettles AliceFreed
CHECK_DEADLOCK FALSE
