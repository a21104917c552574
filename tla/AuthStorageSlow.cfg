SPECIFICATION Spec
CONSTANTS
    Procs <- TwoProcs
    Ops <- Calls
    Proc <- CallProc
    Kind <- CallKind
    Providers = {"a", "b"}
    Provider <- CallProv
    Killable = {"p1"}
    Abortable = {"r2"}
    SyncStale = 2
    UpdateEvery = 3
    Stale = 6
    Deadline = 6
    Longest <- SlowBoth
    None = None
INVARIANTS
    RefreshedOnce
CHECK_DEADLOCK FALSE
