CONSTANTS
    s1 = s1
    s2 = s2
    Source = {s1, s2}
    Kinds <- TwoKinds
    MaxVersion = 2
    MaxId = 2
SPECIFICATION RepairSpec
INVARIANTS
    ChunksMatchDocument
    DeletedHasJob
PROPERTIES
    RepairSparesChunks
    ChunkKeepsItsVector
CHECK_DEADLOCK FALSE
