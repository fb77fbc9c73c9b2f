SPECIFICATION FairSpec
CONSTANTS
  w1 = w1
  w2 = w2
  m1 = m1
  NoJob = NoJob
  NoFile = NoFile
  Workers = {w1, w2}
  Marks = {m1}
  Mortal = {w1}
  MarkEdits = {"skip", "pending"}
  Lines = {1}
  Patience = 1
  SectionPolls = 1
PROPERTIES
  WaitersGetThrough
  QueueDrains
CHECK_DEADLOCK FALSE
