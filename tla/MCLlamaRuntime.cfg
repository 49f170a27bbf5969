CONSTANTS
    LayerCount = 8
    MaxTokens = 3
    MaxCalls = 3
    Options <- MCOptions
SPECIFICATION Spec
INVARIANTS TypeOK AttentionReadsCommitted PositionCountsSteps TraceIsOnePass ReadyRecordIsOnePass
PROPERTIES ImplementsSession
CHECK_DEADLOCK FALSE
