SPECIFICATION Spec
CONSTANTS
  NumIgnitions = 4
  Durations = {8}
  Batch = 3
  MaxRuns = 3
INVARIANTS
  TypeOK
  SingleRun
  MarkerMeansComplete
  WindsByPosition
CHECK_DEADLOCK FALSE
