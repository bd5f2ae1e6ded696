\* Routes of up to three points, four radar positions.  A call ends.
CONSTANTS
    MaxLength = 3
    MaxTime = 4
SPECIFICATION FairSpec
INVARIANTS
    TypeOK
    FailuresStayLocal
    PointsMatchNumber
    HistoryDescends
PROPERTY SerializationEnds
CHECK_DEADLOCK FALSE
