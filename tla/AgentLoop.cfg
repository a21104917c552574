SPECIFICATION Spec
CONSTANTS
    SteeringMode = "one-at-a-time"
    FollowUpMode = "one-at-a-time"
    ToolModes = {"sequential", "parallel"}
    Hooks = {"throw", "end", "continue", "status", "system", "terminate"}
    MaxMessages = 3
    MaxPrompts = 2
    MaxCalls = 2
    MaxLeft = 3
INVARIANTS
    TypeOK
    DeliveredOnceInOrder
    OneAtATime
    ResultsFollowTheirCalls
    NoUnrequestedTurn
PROPERTIES
    AbortEndsRun
    SteeringPickedUp
    ImplementsRun
CHECK_DEADLOCK FALSE
