SPECIFICATION Spec
CONSTANTS
  Files <- Tables
  Distances <- Lengths
  Unit = 8
  NQubits = 3
  BatchSize = 2
  Preparations <- Drawn
  Drifts <- Turns
  MaxResends = 1
  MaxLate = 1
  MaxNoisy = 1
  MinSifted = 2
INVARIANTS TypeOK ErrorsHaveCause SiftsAgree KeysDifferOnlyByNoise OnEnclosingLine
CHECK_DEADLOCK FALSE
