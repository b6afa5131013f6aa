SPECIFICATION FairSpec
CONSTANTS
    MaxLines = 3
    BoundCounts = {0, 1, 2}
    Newline = {TRUE, FALSE}
    Junk = {41, 42}
    Body <- MCBody
    Lines <- MCLines
CHECK_DEADLOCK FALSE
INVARIANTS
    TypeOK
    MarkedAsRead
PROPERTIES
    WellFormedEnds
    StuckForever
