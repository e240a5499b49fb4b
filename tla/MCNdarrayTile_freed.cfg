\* What becomes of an overflow, and of a request whose sums exceed 64 bits (run with
\* -continue).
SPECIFICATION Spec
CONSTANTS
    W8 = 2
    W16 = 3
    W32 = 4
    W64 = 5
    Arrays <- MCFewArrays
    Origins <- MCOrigins
    Extents = {0, 1, 2}
    DstTypes = {"INT8"}
INVARIANTS
    DstNotFreed
    OverflowReported
    OutOfBoundsRefused
CHECK_DEADLOCK FALSE
