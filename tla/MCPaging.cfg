SPECIFICATION FairSpec
CONSTANTS
    Kinds = {"position", "transaction", "log", "error", "curve"}
    PageSize = 2
    Limit = 3
    MaxInt = 3
    MaxRows = 4
    MaxRecords = 2
    MaxDate = 2
    MaxFailures = 1
INVARIANTS
    TypeOK
    NoGapNoRepeat
    Complete
    CursorAccepted
PROPERTIES
    ReadsFeed
    ReadingAdvances
    ReadingEnds
CHECK_DEADLOCK FALSE
