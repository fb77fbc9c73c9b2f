SPECIFICATION FairSpec
CONSTANTS
  MaxResample = 2
  NoArea = NoArea
  NoOutput = NoOutput
  Datasets <- AllDatasets
INVARIANTS
  TypeOK
  ItemAligned
  IgnitionsFit
  OutputCounts
  RowMeansWritten
  OneWriter
PROPERTIES
  CancelBounds
  CommandEnds
CHECK_DEADLOCK FALSE
