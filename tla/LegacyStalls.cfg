\* A client that only publishes and never reads, as producer_legacy.cpp does.
SPECIFICATION FairLegacySpec
CONSTANTS
    Clients = {c1, c2}
    Readers = {}
    Fds <- TwoNumbers
    NoOne = NoOne
    SockCap = 1
    MaxSent = 2
    Fragments = 1
    Closing = {}
    MayStop = FALSE
PROPERTY StoredIsBroadcast
CHECK_DEADLOCK FALSE
