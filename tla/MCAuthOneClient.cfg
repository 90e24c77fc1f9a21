SPECIFICATION Spec
CONSTANTS
    p = p
    q = q
    p1 = p1
    p2 = p2
    q1 = q1
    Clients = {p}
    Callers = {p1, p2}
    Owner <- OneProcess
    NoCaller = NoCaller
    Providers = {p}
    Seeded = {}
    Operations <- OneClientUses
    Stored = TRUE
    Guarded = FALSE
    RefreshCookies = FALSE
    Cooldown = 1
    MaxTime = 3
    MaxSessions = 2
    MaxGeneration = 2
VIEW LiveState
INVARIANTS
    LoginExclusive
    ClearedStaysCleared
PROPERTIES
    NoRedundantLogin
    LiveSessionReused
