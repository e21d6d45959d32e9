CONSTANTS
    Request = {r1}
    MaxTypes = 3
SPECIFICATION SurfaceFairSpec
PROPERTY CallEnds
INVARIANTS
    OneRowPerRequest
    OrphanRowsExplained
    BoundedLateWork
PROPERTY FirstVerdictStands
CHECK_DEADLOCK FALSE
