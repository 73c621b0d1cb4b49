SPECIFICATION LiveSpec
CONSTANTS
    Candle <- MCCandle
    Capacity = 2
    MaxReceived = 4
    MaxRuns = 3
CHECK_DEADLOCK FALSE
INVARIANTS
    InOrder
    CauseIsReported
    EveryCandleTakenIsApplied
PROPERTIES
    RunAndStreamEndTogether
