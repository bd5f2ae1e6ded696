\* Every request type, its objects coming and going at every point.  The
\* worker ends with its answer.
CONSTANTS
    Items <- MCItems
    ElementType <- MCElementType
    Unserializable = {1}
SPECIFICATION FairSpec
INVARIANTS
    TypeOK
    NotFoundMeansAbsent
    ErrorsLeaveNoTrace
    SuccessMeansFound
    ListsAreBracketed
PROPERTY EveryRequestReturns
CHECK_DEADLOCK FALSE
