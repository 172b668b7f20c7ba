SPECIFICATION Spec
CONSTANTS
  Request <- AllRequests
  MaxRequests = 2
  Role = "WALVOLA"
  Sleep = "DEEP"
  Id = "wac02"
  Polls = 5
  AwakePublish = TRUE
  FlushBeforeSleep = FALSE
  MaxPowerFails = 1
  MaxBreaks = 1
INVARIANTS TypeOK NeverBackwards IInv ConfirmedIsDone StatusIsActual
PROPERTY ValveImplemented
CHECK_DEADLOCK FALSE
