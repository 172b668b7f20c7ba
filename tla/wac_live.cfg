SPECIFICATION FairSpec
CONSTANTS
  Request <- LiveRequests
  MaxRequests = 2
  Role = "WAC"
  Sleep = "DEEP"
  Id = "wac02"
  Polls = 2
  AwakePublish = FALSE
  FlushBeforeSleep = TRUE
  MaxPowerFails = 1
  MaxBreaks = 1
INVARIANTS NoRequestMissed ControllersKnow
PROPERTIES EveryRequestTaken SleepsAgain TransitionEnds
CHECK_DEADLOCK FALSE
