CONSTANTS
    c1 = c1
    c2 = c2
    c3 = c3
    Content = {c1}
    Kind <- OneText
    LastSecond = 0
    MaxRequests = 1
    MaxAttempts = 2
SPECIFICATION CaptureSpec
INVARIANT ProcessedIsEmbedded
CHECK_DEADLOCK FALSE
