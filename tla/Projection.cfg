CONSTANTS
    Fallbacks <- OneName
    Paths = {p1, p2}
    Objects = {o1, o2}
    Values = {v1}
    Absent = Absent
    NoPath = NoPath
    NoObject = NoObject
    Never = Never
    Legacy = FALSE
    MaxTime = 2
    MaxOps = 1
    p1 = p1
    p2 = p2
    o1 = o1
    o2 = o2

SPECIFICATION Spec
SYMMETRY ObjectSymmetry
INVARIANTS ProjectionCurrent IndexedProjection
PROPERTY IdentityRespected
CHECK_DEADLOCK FALSE
