SPECIFICATION Spec
CONSTANTS
    QoS <- MCQoS
    MqttVersion = 4
    Message = {"p1","p2"}
    Arriving = {"a2"}
    Subscription = {}
    Unsubscription = {}
    Timed = {}
    Throwing = {}
    SubscribeFirst = FALSE
    CleanSession = FALSE
    KeepAlive = FALSE
    Hosts = 0
    MaxMessageId = 8
    FrameSize = 2
    MaxFaults = 2
    MaxReloads = 1
    MaxQuits = 1
    EarlyQuit = FALSE
    MaxCalls = 4
INVARIANT TypeOK
INVARIANT StorageMirrors
INVARIANT AtMostOnce
INVARIANT NothingLost
INVARIANT InSentOrder
PROPERTY LinkImplemented
CHECK_DEADLOCK FALSE
