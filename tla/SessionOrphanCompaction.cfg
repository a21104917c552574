SPECIFICATION Spec
CONSTANTS
    Persist = FALSE
    Sessions <- SummarizedSession
    Kinds = {"user"}
    Operations = {"compact", "userCurates"}
    Outcomes = {"ok"}
    MaxClock = 8
INVARIANT NoOrphanToolResult
CHECK_DEADLOCK FALSE
