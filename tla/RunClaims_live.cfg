SPECIFICATION FairSpec
CONSTANTS
  r1 = r1
  r2 = r2
  r3 = r3
  q1 = q1
  p1 = p1
  p2 = p2
  NoRequest = NoRequest
  Requests = {r1, r2}
  Polls = {q1}
  Pushes = {p1}
  Faults = {"trigger", "kill", "redelivery"}
  StaleAfter = 2
  TriggerTimeout = 0
  StartDelay = 0
  RunnerTimeout = 1
PROPERTIES
  PollSettles
  ReportSettlesClaim
