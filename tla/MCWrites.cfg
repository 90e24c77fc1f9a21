SPECIFICATION Spec
CONSTANTS
    Operations = {"build", "cancel", "create", "folder", "move", "export"}
    SaveFails = TRUE
    Structured408 = FALSE
    MaxCalls = 2
INVARIANTS
    TypeOK
    OneRequest
    RefusalIsDefinite
    OneTask
    SuccessIsReal
    KnownIdKept
CHECK_DEADLOCK FALSE
