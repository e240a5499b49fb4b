SPECIFICATION Spec
CONSTANT Paths <- MCPaths
INVARIANT InBounds
INVARIANT SplitRight
PROPERTY Ends
CHECK_DEADLOCK FALSE
