SPECIFICATION Spec
CONSTANTS
  NumEpochs = 5
  Losses <- SomeLosses
  MaxKills = 2
INVARIANTS
  TypeOK
  ResumePaired
  BestSurvives
PROPERTIES
  EndsTrained
CHECK_DEADLOCK FALSE
