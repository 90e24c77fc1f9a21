SPECIFICATION SessionSpec
CONSTANTS
    me = me
    other = other
    far = far
    ann = ann
    bob = bob
    p = p
    q = q
    sid = sid
    sidElsewhere = sidElsewhere
    v = v
    w = w
    Threads = {me, other, far}
    Accounts = {ann, bob}
    Account <- MCAccount
    Processes = {p, q}
    Process <- MCProcess
    States <- MCStates
    NoRow = NoRow
    NoCall = NoCall
    None = None
    NoFile = NoFile
    Torn = Torn
    Slots = {sid, sidElsewhere}
    Own = {sid}
    Becomes <- MCBecomes
    Behind <- MCBehind
    Values = {v, w}
    NoValue = NoValue
    Forever = 5
    Me = me
    SetCookies <- MCSetCookies
    OtherStates <- MCOtherStates
    MaxTime = 2
    MaxCalls = 3
INVARIANTS
    SessionTypeOK
    Readable
    NoLitter
    Resumes
PROPERTIES
    Implements
CHECK_DEADLOCK FALSE
