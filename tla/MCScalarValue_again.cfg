SPECIFICATION Spec
CONSTANTS
    W8 = 2
    W16 = 3
    W32 = 4
    W64 = 5
    Nodes <- MCNodes
    Numbers <- MCNumbers
    Values = {v1, v2}
SYMMETRY MCSymmetry
CHECK_DEADLOCK FALSE
INVARIANTS
    OverflowReported
