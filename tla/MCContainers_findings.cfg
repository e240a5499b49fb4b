\* The copy of a value that is in the document is not a deep copy; a style once
\* set to flow cannot be set to block again (run with -continue).
CONSTANTS
    Nodes <- MCNodes
    Handles = {h1, h2, h3}
    Keys = {"a", "b"}
    Vals = {1, 2}
    Null = Null
    Starts <- MCStarts
    Liberties = {}
    MaxCalls = 5
SPECIFICATION Spec
SYMMETRY Symmetry
INVARIANTS
    CopyDetached
    StyleTaken
CHECK_DEADLOCK FALSE
