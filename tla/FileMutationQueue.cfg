SPECIFICATION Spec
CONSTANTS
    Ops <- Calls
    Kind <- Tool
    Paths <- Names
    PathOf <- NameOf
    Real <- Link
    Volatile = {"b"}
    None = "none"
INVARIANTS
    TypeOK
    OneMutationPerFile
    NoLostEdit
PROPERTIES
    EveryCallSettles
    ImplementsMutex
CHECK_DEADLOCK FALSE
