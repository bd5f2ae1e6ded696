\* Two clients, three requests in all: two in workers, a third refused as busy.
SPECIFICATION BridgeSpec
CONSTANTS
    Handles = {h1, h2}
    ClientIds = {c1, c2}
    Events = {radar}
    MaxClients = 2
    MaxHandshakes = 1
    Workers = {w1, w2}
    MaxConcurrentRequests = 2
    MaxBuffered = 1
    MaxRequests = 3
    NoClient = NoClient
    HandlerMayThrow = TRUE
    Pipelining = FALSE
SYMMETRY BridgeSymmetry
\* Clients have sent all their requests and closed.
CHECK_DEADLOCK FALSE
INVARIANTS
    BridgeTypeOK
    AnswersGoHome
    ViewIsTruth
    PushesAreExpected
    GuardedFramesBounded
    RequestsAccounted
