SPECIFICATION Spec
CONSTANTS
    p = p
    q = q
    p1 = p1
    p2 = p2
    q1 = q1
    Clients = {p, q}
    Callers = {p1, q1}
    Owner <- TwoProcesses
    NoCaller = NoCaller
    Providers = {p, q}
    Seeded = {q}
    Operations <- GuardUses
    Stored = TRUE
    Guarded = TRUE
    RefreshCookies = TRUE
    Cooldown = 1
    MaxTime = 3
    MaxSessions = 1
    MaxGeneration = 1
VIEW GuardState
INVARIANTS
    TypeOK
    LoginBudget
    DurableIntent
    LoginExclusive
PROPERTIES
    CooldownKept
    LimitsLogins
    CallsAreShort
