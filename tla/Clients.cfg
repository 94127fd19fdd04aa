\* A consumer with three topics, or one whose user types up to two, and a producer whose
\* user types up to two lines.
SPECIFICATION FairClientsSpec
CONSTANTS
    t1 = t1
    t2 = t2
    t3 = t3
    Topics = {t1, t2, t3}
    NoTopic = NoTopic
    Clients = {k, p}
    Consumers = {k}
    Producers = {p}
    Arguments <- ThreeOrNone
    Entries = {t1}
    MaxEntered = 2
    Console <- Requests
    MaxTyped = 2
    Losing = {k}
INVARIANTS
    RepliesMatchWithoutMessages
    ShownIsStream
    ShownWithoutGap
PROPERTIES
    CallsAreAnswered
    AllSubscribed
    SignalEnds
CHECK_DEADLOCK FALSE
