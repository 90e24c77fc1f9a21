SPECIFICATION FairSpec
CONSTANTS
    p = p
    q = q
    p1 = p1
    p2 = p2
    q1 = q1
    Clients = {p, q}
    Callers = {p1, p2, q1}
    Owner <- BothKinds
    NoCaller = NoCaller
    Providers = {p, q}
    Seeded = {}
    Operations <- WaitingUses
    Stored = TRUE
    Guarded = TRUE
    RefreshCookies = FALSE
    Cooldown = 1
    MaxTime = 0
    MaxSessions = 1
    MaxGeneration = 1
VIEW CallState
INVARIANTS
    NoDeadlock
PROPERTIES
    CallsReturn
