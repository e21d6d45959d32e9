CONSTANTS
    Process = {"p1", "p2"}
    Script <- Additive
    Object <- MCObject
    RowsOf <- MCRowsOf
    MaxDeaths = 2
    Caller = {"t1", "t2", "t3"}
    FailureThreshold = 3
    CoolDown = 2
    MaxRetries = 1
SPECIFICATION DependenciesSpec
INVARIANTS
    RecordedIsApplied
    ClosedBelowThreshold
PROPERTIES
    ComesUpUndisturbed
    Heals
