SPECIFICATION Spec
CONSTANTS
  NtRetries = 1
  MaxKeys = 1
  MaxCancels = 1
  MaxKinds = 0
  MaxFaults <- NoFaults
PROPERTIES TerminalIsFinal
CHECK_DEADLOCK FALSE
