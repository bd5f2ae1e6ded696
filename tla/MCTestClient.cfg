\* Two connections, four requests and two places for pending ones.
CONSTANTS
    Tables = {"flightplans", "controllers"}
    MaxPendingRequests = 2
    MaxConnects = 2
    MaxRequests = 4
SPECIFICATION Spec
INVARIANTS
    TypeOK
    StatusTellsTheTruth
    TablesNotMixed
PROPERTY IgnoredForAReason
CHECK_DEADLOCK FALSE
