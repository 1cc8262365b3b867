CONSTANTS
    NodeNum = 5
    MaxCalls = 4
    MaxRepl = 3
    Ranks = {0, 1, 2}
    ForceDistMatmul = TRUE
    NodeGraphs <- MCNodeGraphs
    Params <- MCParams
SPECIFICATION Spec
\* the helper lives for one doRunDpComm; the explored steps end at MaxCalls
\* and the slices at one per rank and parameter
CHECK_DEADLOCK FALSE
INVARIANTS TypeOK CompositesExact MergedOnce RewriteWellFormed
