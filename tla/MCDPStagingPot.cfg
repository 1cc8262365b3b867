CONSTANTS
    LayerNum = 4
    DevNumPerGroup = 4
    StageNums = {2, 3, 4}
    ReplicaNum = 1
    PipelineNum = 1
    BatchSize = 4
    MinPipelineBs = 1
    LimitDevNumPot = TRUE
    LimitDevNumMoreThanBs = TRUE
    ProfileByAcc = TRUE
    DevMem = 3
    ErrorVal = 1000
    LongMax = 10000
    Graphs <- MCGraphs4
SPECIFICATION Spec
CHECK_DEADLOCK FALSE
INVARIANTS TypeOK SolutionDeployable
PROPERTIES Termination RefinesDPSolve
