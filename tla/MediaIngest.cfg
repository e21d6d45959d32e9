CONSTANTS
    Job = {j1, j2}
    Captured = {j2}
    MaxRunning = 2
    MaxAttempts = 2
    Transcript = {t1, t2}
    Published = published
SPECIFICATION MediaFairSpec
PROPERTIES
    MediaJobEnds
    ImplementsPromise
INVARIANTS
    NoRework
    TranscriptIsUsed
    CheckpointNamesOwnDocument
    DocumentHasVaultFile
CHECK_DEADLOCK FALSE
