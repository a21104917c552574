SPECIFICATION Spec
CONSTANTS
    Prompts <- Inputs
    Behavior <- InputKinds
    Others = {}
    Overlap = TRUE
    SettleHandlers = FALSE
    MaxRetries = 1
    MaxTurns = 1
    MaxOthers = 0
    MaxNotes = 0
    None = "none"
PROPERTY SettledMeansDone
CHECK_DEADLOCK FALSE
