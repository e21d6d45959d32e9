CONSTANTS
    w1 = w1
    w2 = w2
    k1 = k1
    kbad = kbad
    Worker = {w1, w2}
    Key = {k1, kbad}
    Unrunnable = {kbad}
    MaxJobs = 2
    MaxRetryAttempts = 2
    PoisonThreshold = 1
    PoisonWindow = 1
    ZombieAge <- MCZombieAge
    PurgeAge = 1
    AgeCap = 2
SPECIFICATION Spec
INVARIANTS
    NoDoubleExecution
    RetriesCounted
PROPERTY ImplementsLifecycle
SYMMETRY WorkerSymmetry
CHECK_DEADLOCK FALSE
