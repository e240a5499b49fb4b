CONSTANTS
    Handles = {h1}
    Buffers = {b1, b2}
    Caller = {c1}
    Null = Null
    Garbage = Garbage
    Inputs <- MCInputs
    MaxBlocks = 2
    Sizes = {2}
    Packings = {TRUE}
    Rebuild = FALSE
    Reuse = FALSE
    Page = 2
    BufSizes = {9}
    MaxWrites = 1
SPECIFICATION Spec
INVARIANT NothingCut
