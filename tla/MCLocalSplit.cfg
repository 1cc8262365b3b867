CONSTANTS
    PipelineNum = 4
    MaxLocalBs = 2
SPECIFICATION Spec
\* one walk over the splits of an iteration; it ends
CHECK_DEADLOCK FALSE
INVARIANTS TypeOK ForwardWalkExact
