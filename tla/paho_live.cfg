SPECIFICATION FairSpec
CONSTANTS
    QoS <- MCQoS
    MqttVersion = 0
    Message = {"p2"}
    Arriving = {"a1"}
    Subscription = {"s"}
    Unsubscription = {}
    Timed = {}
    Throwing = {}
    SubscribeFirst = TRUE
    CleanSession = FALSE
    KeepAlive = TRUE
    Hosts = 2
    MaxMessageId = 8
    FrameSize = 2
    MaxFaults = 2
    MaxReloads = 0
    MaxQuits = 0
    EarlyQuit = FALSE
    MaxCalls = 3
PROPERTY NoFalseAlarm
PROPERTY DeadLinkNoticed
PROPERTY AllDelivered
PROPERTY AllArrive
CHECK_DEADLOCK FALSE
