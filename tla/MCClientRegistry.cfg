\* Three connections over the life of the server, a cap of one client and two
\* handshakes at once: the cap is reached, passed, and left again.
SPECIFICATION Spec
CONSTANTS
    Handles = {h1, h2, h3}
    ClientIds = {c1, c2, c3}
    Events = {radar, flightplan}
    MaxClients = 1
    MaxHandshakes = 2
SYMMETRY Symmetry
CHECK_DEADLOCK TRUE
INVARIANTS
    TypeOK
    IdsMirrorSessions
    CountsExact
    SessionsAreOpen
    OvershootBounded
PROPERTIES
    IdsNeverReassigned
    ImplementsPubSub
