\* A write that has to wait for the socket sends from a destroyed string.
SPECIFICATION Spec
CONSTANTS
    Clients = {c1, c2}
    Topics = {t1}
    NoTopic = NoTopic
    Requests <- PubAndSub
    SockCap = 1
    MaxLines = 3
    Disturbances = {}
INVARIANT LinesArriveIntact
CHECK_DEADLOCK FALSE
