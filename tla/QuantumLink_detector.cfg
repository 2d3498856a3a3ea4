SPECIFICATION Spec
CONSTANTS
  NQubits = 4
  BatchSize = 2
  Workers = 2
  MaxRetries = 1
  Channels = {"fiber"}
  Intercepted = FALSE
  MaxFaults <- NoFaults
PROPERTIES NoPhotonBlinded
CHECK_DEADLOCK FALSE
