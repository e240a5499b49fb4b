SPECIFICATION Spec
CONSTANTS
    NodeCount = 4
    Trees <- MCTrees
    Preds <- MCPreds
    MaxDepths <- MCMaxDepths
INVARIANTS
    NoDangling
    OrderRight
    FreedButRefused
PROPERTY
    CallReturns
CHECK_DEADLOCK FALSE
