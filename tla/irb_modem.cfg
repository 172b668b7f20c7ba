SPECIFICATION Spec
CONSTANTS
  Request <- FaultRequests
  MaxRequests = 2
  Role = "IRB"
  Sleep = "MODEM"
  Id = "wac02"
  Polls = 2
  AwakePublish = TRUE
  FlushBeforeSleep = FALSE
  MaxPowerFails = 1
  MaxBreaks = 1
INVARIANT StatusIsActual
PROPERTY ValveImplemented
CHECK_DEADLOCK FALSE
