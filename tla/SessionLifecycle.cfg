SPECIFICATION Spec
CONSTANTS
    Persist = TRUE
    Sessions <- PromptSession
    Kinds = {"user", "assistant"}
    Operations = {"label", "branch", "replace", "branchSummary", "extract", "fork", "new"}
    Outcomes = {"ok", "throw", "crash"}
    MaxClock = 3
INVARIANTS
    TreeWellFormed
    AcknowledgedEntriesSurvive
    IndexMatchesLog
