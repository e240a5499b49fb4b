\* A client with three values at a time, in a tree of up to seven nodes.
CONSTANTS
    Nodes <- MCNodes
    Handles = {h1, h2, h3}
    Keys = {"a", "b"}
    Vals = {1, 2}
    Null = Null
    Starts <- MCStarts
    Liberties = {}
    MaxCalls = 5
SPECIFICATION Spec
SYMMETRY Symmetry
INVARIANTS
    OneOwner
    EmptyShown
PROPERTY UpdateRight
CHECK_DEADLOCK FALSE
