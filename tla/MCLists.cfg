SPECIFICATION FairSpec
VIEW WalkState
CONSTANTS
    r = r
    d = d
    e = e
    x = x
    y = y
    z = z
    Kinds = {"algorithms", "history", "account"}
    Items = {x, y, z}
    Folders = {r, d, e}
    Root = r
    Start <- MCStart
    Limits <- MCLimits
    DefaultLimit = 2
    HtmlRows = 2
    MaxInt = 3
    MaxMoves = 2
    MaxFailures = 1
INVARIANTS
    TypeOK
    NothingSkipped
    OneMissedPerMove
    OnceEach
    PagesAccepted
PROPERTIES
    WalkAdvances
    WalkEnds
CHECK_DEADLOCK FALSE
