SPECIFICATION Spec
CONSTANTS
    W8 = 2
    W16 = 3
    W32 = 4
    W64 = 5
    Arrays <- MCArrays
    Origins <- MCOrigins
    Extents <- MCExtents
    DstTypes <- MCDstTypes
INVARIANTS
    OdometerRight
    TileRight
CHECK_DEADLOCK FALSE
