\* Four threads, so that a message can be stolen from one that was woken.
CONSTANTS
    Threads = {t1, t2, t3, t4}
    Limits = {0, 1, 2}
    MaxPushes = 5
SPECIFICATION FairSpec
INVARIANTS
    TypeOK
    InOrder
    NoSleeperForgotten
PROPERTY SleepersWake
CHECK_DEADLOCK FALSE
