\* Characters that the scan of a component gets wrong (run with -continue).
SPECIFICATION Spec
CONSTANT Paths <- MCPaths
INVARIANTS
    EscapeRead
    LengthRight
    EscapeOutside
CHECK_DEADLOCK FALSE
