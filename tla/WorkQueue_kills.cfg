SPECIFICATION Spec
CONSTANTS
  w1 = w1
  w2 = w2
  m1 = m1
  NoJob = NoJob
  NoFile = NoFile
  Workers = {w1, w2}
  Marks = {m1}
  Mortal = {w1, m1}
  MarkEdits = {"pending"}
  Lines = {1, 2}
  Patience = 9
  SectionPolls = 1
INVARIANTS
  QueueInv
  OneWorkerPerLine
  LiveLocksStay
PROPERTY BoardSpec
CHECK_DEADLOCK FALSE
