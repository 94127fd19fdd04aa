\* Every thread asks is_connected first, as those of robust_app, and none reconnects.
SPECIFICATION FairLoggerSpec
CONSTANTS
    Threads = {t1, t2}
    Guarded = {t1, t2}
    Reconnecting = {}
    Conns = {c1, c2}
    WireCap = 3
    NoConn = NoConn
    NoOne = NoOne
PROPERTY LoggerComesBack
CHECK_DEADLOCK FALSE
