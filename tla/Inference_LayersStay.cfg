SPECIFICATION FairSpec
CONSTANTS
  MaxResample = 2
  NoArea = NoArea
  NoOutput = NoOutput
  Datasets <- AllDatasets
INVARIANT
  LayersStay
CHECK_DEADLOCK FALSE
