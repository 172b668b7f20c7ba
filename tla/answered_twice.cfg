SPECIFICATION Spec
CONSTANTS
    QoS <- MCQoS
    MqttVersion = 0
    Message = {"p2"}
    Arriving = {"a1"}
    Subscription = {"s"}
    Unsubscription = {"u"}
    Timed = {"s"}
    Throwing = {"a1"}
    SubscribeFirst = TRUE
    CleanSession = TRUE
    KeepAlive = TRUE
    Hosts = 0
    MaxMessageId = 8
    FrameSize = 2
    MaxFaults = 1
    MaxReloads = 0
    MaxQuits = 1
    EarlyQuit = TRUE
    MaxCalls = 3
INVARIANT AnsweredOnce
CHECK_DEADLOCK FALSE
