\* The event loop dies, then the owner stops the server.
SPECIFICATION Spec
CONSTANTS
    Clients = {c1}
    Workers = {w1, w2, w3}
    MaxConcurrentRequests = 2
    RunningAtConstruction = {FALSE}
    IoMayFail = TRUE
    ThreadsMayFail = FALSE
    PortMayBeTaken = FALSE
SYMMETRY WorkerSymmetry
\* A destroyed server does nothing, and Stop may block for good.
CHECK_DEADLOCK FALSE
INVARIANT ReadyAfterStop
