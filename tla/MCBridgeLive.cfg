\* Two clients, two requests in all and one worker: the second may be refused.
SPECIFICATION FairBridgeSpec
CONSTANTS
    Handles = {h1, h2}
    ClientIds = {c1, c2}
    Events = {radar}
    MaxClients = 2
    MaxHandshakes = 1
    Workers = {w1}
    MaxConcurrentRequests = 1
    MaxBuffered = 1
    MaxRequests = 2
    NoClient = NoClient
    HandlerMayThrow = TRUE
    Pipelining = FALSE
\* Clients have sent all their requests and closed.
CHECK_DEADLOCK FALSE
PROPERTY RequestsSettle
