\* A connection reset while it waits in the backlog ends the broker.
SPECIFICATION Spec
CONSTANTS
    Clients = {c1, c2}
    Topics = {t1}
    NoTopic = NoTopic
    Requests <- PingOnly
    SockCap = 1
    MaxLines = 2
    Disturbances = {"reset"}
INVARIANT BrokerSurvivesConnections
CHECK_DEADLOCK FALSE
