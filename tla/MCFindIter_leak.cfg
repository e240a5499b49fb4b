SPECIFICATION Spec
CONSTANTS
    NodeCount = 3
    Trees <- MCTrees
    Preds <- MCPreds
    MaxDepths <- MCMaxDepths
INVARIANT
    AllFreed
CHECK_DEADLOCK FALSE
