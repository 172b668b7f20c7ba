SPECIFICATION Spec
CONSTANTS
    Written <- WrittenMessages
    Coming <- ComingMessages
    Chunk = {1, 2, 7, 120}
    MaxComing = 2
    MaxSessions = 2
INVARIANT FramesMessages
INVARIANT ServerUnderstands
CHECK_DEADLOCK FALSE
