SPECIFICATION Spec
CONSTANTS
    Operations = {"build", "folder", "export"}
    SaveFails = TRUE
    Structured408 = FALSE
    MaxCalls = 1
INVARIANTS
    MissingIdIsUnknown
CHECK_DEADLOCK FALSE
