SPECIFICATION Spec
CONSTANTS
    Device = {"wal01"}
    InitialStates = {"OFF"}
    MaxHandlers = 2
    MaxQueue = 2
    MaxServed = 2
    MaxFaults = 1
    MaxCalls = 2
INVARIANT ShowsNewest
INVARIANT ClickIsUnderway
PROPERTY BadgeRecovers
PROPERTY ButtonsWork
CHECK_DEADLOCK FALSE
