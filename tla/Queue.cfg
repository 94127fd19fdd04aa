\* Four threads: two may sleep while two others push, pop and clear.  No symmetry,
\* which is unsound for liveness.
SPECIFICATION FairQueueSpec
CONSTANTS
    Threads = {t1, t2, t3, t4}
    MaxPushed = 4
INVARIANTS
    NoLostWakeup
    FirstInFirstOut
PROPERTY SleepersAreServed
CHECK_DEADLOCK FALSE
