\* A copy that shares its data, jagged rows accepted, a write from a NULL pointer,
\* an offset that is not applied (run with -continue).
CONSTANTS
    W8 = 3
    W16 = 4
    W32 = 5
    W64 = 6
    Arrays = {a1, a2}
    Buffers = {1, 2, 3}
    Files = {"in", "out"}
    Paths = {"block", "inline"}
    Null = Null
    Free = Free
    Starts <- MCStarts
    Shapes <- MCShapes
    Types <- MCTypes
    Fills <- MCFills
    Targets <- MCTargets
    Calls = 6
    MaxBlocks = 2
    Liberties = {"copy outlives", "set unreadable"}
SYMMETRY Symmetry
SPECIFICATION Spec
CHECK_DEADLOCK FALSE
INVARIANTS
    CopyIndependent
    NoJagged
    NoWildRead
    OffsetApplied
