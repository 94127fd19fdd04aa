\* Two signals at any time, on either thread; clients may stay for ever.
SPECIFICATION FairMainSpec
CONSTANTS
    Clients = {c1, c2}
    MaxSignals = 2
INVARIANT NoHandlerOnDeadBroker
PROPERTIES
    SignalEndsBroker
    GracefulShutdown
CHECK_DEADLOCK FALSE
