\* Nothing fails; a worker ends while Stop is about to block.
SPECIFICATION FairSpec
CONSTANTS
    Clients = {c1}
    Workers = {w1, w2, w3}
    MaxConcurrentRequests = 2
    RunningAtConstruction = {FALSE}
    IoMayFail = FALSE
    ThreadsMayFail = FALSE
    PortMayBeTaken = FALSE
\* A destroyed server does nothing, and Stop may block for good.
CHECK_DEADLOCK FALSE
PROPERTY StopReturns
