SPECIFICATION LoopSpec
CONSTANTS
    None = None
    Candle <- MCCandle
    Draft <- MCDraft
    Interval = 2
    Spacing <- MCSpacing
    GapPolicy = "mark"
    DayLength = 5
    InitialCash = 355
    TickSize = 50
    CommissionPercent = 2
    SlippageBPS = 1000
    MaxRows = 3
    MaxSignals = 2
    MaxOrders = 2
    MaxDailyLoss = 104
    MaxPositionValue = 400
    Mode = "total"
CHECK_DEADLOCK FALSE
INVARIANTS
    LedgersAgree
    TouchedMeansFilled
PROPERTIES
    LossEndsTrading
