CONSTANTS
    c1 = c1
    c2 = c2
    c3 = c3
    Content = {c1, c2, c3}
    Kind <- EveryKind
    LastSecond = 1
    MaxRequests = 2
    MaxAttempts = 2
SPECIFICATION CaptureFairSpec
PROPERTY CaptureEnds
INVARIANTS
    AcceptedIsKept
CHECK_DEADLOCK FALSE
