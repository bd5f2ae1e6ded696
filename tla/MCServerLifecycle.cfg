\* Any order of starts, stops and unload, with the event loop, the port
\* and thread creation failing; two requests at once, a third still notifying.
SPECIFICATION FairSpec
CONSTANTS
    Clients = {c1, c2}
    Workers = {w1, w2, w3}
    MaxConcurrentRequests = 2
    RunningAtConstruction = {FALSE}
    IoMayFail = TRUE
    ThreadsMayFail = TRUE
    PortMayBeTaken = TRUE
\* A destroyed server does nothing, and Stop may block for good.
CHECK_DEADLOCK FALSE
INVARIANTS
    TypeOK
    WorkerCap
    Quiescent
    NeverCrashes
    EveryWorkerCounted
    RunningIsTruthful
PROPERTY StopEndsUnlessWakeupLost
