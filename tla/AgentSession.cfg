SPECIFICATION Spec
CONSTANTS
    Prompts <- Inputs
    Behavior <- InputKinds
    Others = {"abort", "compact", "navigate"}
    Overlap = FALSE
    SettleHandlers = TRUE
    MaxRetries = 1
    MaxTurns = 2
    MaxOthers = 1
    MaxNotes = 1
    None = "none"
INVARIANTS
    TypeOK
    NothingLeftPending
    OneRecovery
PROPERTIES
    EveryCallReturns
    SettledMeansDone
    NotesOutsideExchanges
    OwnBranch
CHECK_DEADLOCK FALSE
