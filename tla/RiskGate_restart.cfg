SPECIFICATION Spec
CONSTANTS
    None = None
    Price <- MCPrice
    Lots <- MCLots
    Action <- MCAction
    MaxDailyLoss = 16
    MaxPositionValue = 48
    Mode = "total"
    Fee = 0
    DayLength = 2
    MaxTime = 3
    MaxOpen = 1
    MaxPosition = 2
    MaxFills = 4
    MaxRestarts = 1
CHECK_DEADLOCK FALSE
PROPERTIES
    PausedUntilResumed
