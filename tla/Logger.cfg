\* A thread that logs unasked, as simple_app, and also calls reconnect, and one that asks
\* is_connected first, as robust_app; the broker crashes, restarts and stalls.
SPECIFICATION FairLoggerSpec
CONSTANTS
    Threads = {t1, t2}
    Guarded = {t2}
    Reconnecting = {t1}
    Conns = {c1, c2}
    WireCap = 3
    NoConn = NoConn
    NoOne = NoOne
INVARIANTS
    OneConnection
    ConnectedHasSocket
    NoInterleaving
PROPERTIES
    CallsReturn
    LoggerComesBack
CHECK_DEADLOCK FALSE
