SPECIFICATION Spec
CONSTANTS
  Request <- MoveRequests
  MaxRequests = 2
  Role = "WAC"
  Sleep = "DEEP"
  Id = "wac02"
  Polls = 5
  AwakePublish = TRUE
  FlushBeforeSleep = TRUE
  MaxPowerFails = 0
  MaxBreaks = 0
INVARIANT NoRequestMissed
