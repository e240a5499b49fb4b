CONSTANTS
    W8 = 3
    W16 = 4
    W32 = 5
    W64 = 6
    Arrays = {a1, a2}
    Buffers = {1, 2, 3}
    Files = {"in", "out"}
    Paths = {"block", "inline"}
    Null = Null
    Free = Free
    Starts <- MCStarts
    Shapes <- MCShapes
    Types <- MCTypes
    Fills <- MCFills
    Targets <- MCTargets
    Calls = 6
    MaxBlocks = 2
    Liberties = {}
SYMMETRY Symmetry
SPECIFICATION Spec
INVARIANTS OneOwner InlineRight
PROPERTY Implements
CHECK_DEADLOCK FALSE
