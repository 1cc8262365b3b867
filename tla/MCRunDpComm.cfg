CONSTANTS
    DevNum = 4
    CudaDeviceCount = 1
    NodeCount = 3
    BatchSize = 4
    MinPipelineNum = 0
    MaxPipelineNum = 4
    CfgStageNum = 0
    CfgPipelineNum = 0
    DpSearchAll = FALSE
    Dry = FALSE
    IntBits = 5
    Launches <- MCSaveThenLoad
    MinPipelineBs = 1
    LimitDevNumPot = FALSE
    LimitDevNumMoreThanBs = TRUE
    DevMem = 3
    ErrorVal = 1000
    Graphs <- MCGraphs
SPECIFICATION Spec
\* the sweep returns or throws once
CHECK_DEADLOCK FALSE
INVARIANTS TypeOK FirstFastest EstimateMatchesSchedule RoundTrip
PROPERTY SweepProgresses
