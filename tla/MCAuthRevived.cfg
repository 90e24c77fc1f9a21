SPECIFICATION Spec
CONSTANTS
    p = p
    q = q
    p1 = p1
    p2 = p2
    q1 = q1
    Clients = {p}
    Callers = {p1, p2}
    Owner <- OneProcess
    NoCaller = NoCaller
    Providers = {p}
    Seeded = {}
    Operations <- RevivedUses
    Stored = TRUE
    Guarded = FALSE
    RefreshCookies = TRUE
    Cooldown = 1
    MaxTime = 1
    MaxSessions = 2
    MaxGeneration = 2
VIEW LiveState
INVARIANTS
    ClearedStaysCleared
