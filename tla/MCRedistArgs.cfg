CONSTANTS
    Ranks = {0, 1, 2, 3}
    MaxRankSize = 2
SPECIFICATION Spec
\* one redistribution: after the exchange the call returns
CHECK_DEADLOCK FALSE
INVARIANTS TypeOK CountsMatch Delivered
