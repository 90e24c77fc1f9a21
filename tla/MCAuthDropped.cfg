SPECIFICATION Spec
CONSTANTS
    p = p
    q = q
    p1 = p1
    p2 = p2
    q1 = q1
    Clients = {p, q}
    Callers = {p1, q1}
    Owner <- TwoProcesses
    NoCaller = NoCaller
    Providers = {p, q}
    Seeded = {}
    Operations <- DroppedUses
    Stored = TRUE
    Guarded = TRUE
    RefreshCookies = FALSE
    Cooldown = 1
    MaxTime = 1
    MaxSessions = 2
    MaxGeneration = 1
VIEW LiveState
PROPERTIES
    LiveSessionReused
