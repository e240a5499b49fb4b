\* A buffer is allocated for an array whose data is a view of a file's block.
CONSTANTS
    W8 = 3
    W16 = 4
    W32 = 5
    W64 = 6
    Arrays = {a1, a2}
    Buffers = {1, 2, 3}
    Files = {"in", "out"}
    Paths = {"block", "inline"}
    Null = Null
    Free = Free
    Starts <- MCStarts
    Shapes <- MCShapes
    Types <- MCTypes
    Fills <- MCFills
    Targets <- MCTargets
    Calls = 6
    MaxBlocks = 2
    Liberties = {"fill view"}
SYMMETRY Symmetry
SPECIFICATION Spec
CHECK_DEADLOCK FALSE
INVARIANT OneOwner
