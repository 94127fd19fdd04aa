\* Everybody reads; two clients publish at once, in pieces; one may close its connection
\* and leave its descriptor to the other; the broker may stop.
SPECIFICATION FairLegacySpec
CONSTANTS
    Clients = {c1, c2}
    Readers = {c1, c2}
    Fds <- TwoNumbers
    NoOne = NoOne
    SockCap = 1
    MaxSent = 2
    Fragments = 2
    Closing = {c1}
    MayStop = TRUE
INVARIANTS
    ConnectedAreHandled
    AgreeOnOrder
    StoredAsSent
PROPERTIES
    StoredIsBroadcast
    ClosedIsReleased
    StopReturnsOnConnection
CHECK_DEADLOCK FALSE
