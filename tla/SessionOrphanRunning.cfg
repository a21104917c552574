SPECIFICATION Spec
CONSTANTS
    Persist = FALSE
    Sessions <- ExchangeSessions
    Kinds = {"toolCall", "toolResult"}
    Operations = {"userCurates", "userCuratesRunning"}
    Outcomes = {"ok"}
    MaxClock = 9
INVARIANT ExchangesStayTogether
CHECK_DEADLOCK FALSE
