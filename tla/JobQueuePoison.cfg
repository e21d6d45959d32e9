CONSTANTS
    w1 = w1
    w2 = w2
    k1 = k1
    kbad = kbad
    Worker = {w1, w2}
    Key = {k1, kbad}
    Unrunnable = {kbad}
    MaxJobs = 3
    MaxRetryAttempts = 1
    PoisonThreshold = 1
    PoisonWindow = 0
    ZombieAge <- MCZombieAge
    PurgeAge = 0
    AgeCap = 1
SPECIFICATION Spec
INVARIANT PoisonBrakeBounds
SYMMETRY WorkerSymmetry
CHECK_DEADLOCK FALSE
