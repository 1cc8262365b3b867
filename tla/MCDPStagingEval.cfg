CONSTANTS
    LayerNum = 3
    DevNumPerGroup = 3
    StageNums = {1, 2, 3}
    ReplicaNum = 1
    PipelineNum = 1
    BatchSize = 4
    MinPipelineBs = 1
    LimitDevNumPot = FALSE
    LimitDevNumMoreThanBs = TRUE
    ProfileByAcc = TRUE
    DevMem = 3
    ErrorVal = 1000
    LongMax = 10000
    Graphs <- MCGraphs
SPECIFICATION Spec
CHECK_DEADLOCK FALSE

PROPERTIES CellEvalNeverRises
