SPECIFICATION Spec
CONSTANTS
    Persist = FALSE
    Sessions <- TreeSessions
    Kinds = {"user"}
    Operations = {"read", "omit", "cancel", "branch", "compact", "extract"}
    Outcomes = {"ok"}
    MaxClock = 7
INVARIANTS
    CacheNeverStale
    CurationOnOwnBranch
PROPERTIES
    ExtractionPreservesContext
