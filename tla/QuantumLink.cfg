SPECIFICATION FairSpec
CONSTANTS
  NQubits = 3
  BatchSize = 2
  Workers = 2
  MaxRetries = 1
  Channels = {"fiber", "statistical"}
  Intercepted = TRUE
  MaxFaults <- EveryFault
INVARIANTS TypeOK OneMeasurementPerSend DeliveredIsMeasured EveLogComplete
PROPERTIES PipelineEnds
CHECK_DEADLOCK FALSE
