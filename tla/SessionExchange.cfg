SPECIFICATION Spec
CONSTANTS
    Persist = TRUE
    Sessions <- ExchangeSessions
    Kinds = {"user", "toolCall", "toolResult"}
    Operations = {"agentCurates", "userCurates", "branch", "compact", "exit"}
    Outcomes = {"ok"}
    MaxClock = 8
INVARIANTS
    TypeOK
    ExchangesStayTogether
PROPERTIES
    PastContextsImmutable
