\* What each session is given, in which order, and what is left of it, whatever fails.
SPECIFICATION Spec
CONSTANTS
    Clients = {c1, c2}
    Topics = {t1}
    NoTopic = NoTopic
    Requests <- PubSubRequests
    SockCap = 1
    MaxLines = 3
    Disturbances = {"close", "reset", "stop"}
SYMMETRY Interchangeable
INVARIANTS
    OneWriteWhileQueued
    StreamMatchesDelivered
    DeliveredInPublishOrder
    OnlyWhileSubscribed
    SubscribersMissNothing
    NoLeakedSession
    ActiveSessionsCounted
PROPERTIES
    ImplementsService
    SilentAfterDisconnect
CHECK_DEADLOCK FALSE
