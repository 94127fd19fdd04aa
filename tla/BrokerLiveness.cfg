\* Two topics; what must happen eventually.  No symmetry, which is unsound for liveness.
SPECIFICATION FairSpec
CONSTANTS
    Clients = {c1, c2}
    Topics = {t1, t2}
    NoTopic = NoTopic
    Requests <- NoUnsubscribe
    SockCap = 1
    MaxLines = 2
    Disturbances = {"close", "reset"}
INVARIANT TypeOK
PROPERTIES
    DeliveredIsReceived
    RequestsAreTaken
    DisconnectedIsForgotten
CHECK_DEADLOCK FALSE
