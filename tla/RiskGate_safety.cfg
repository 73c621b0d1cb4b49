SPECIFICATION Spec
CONSTANTS
    None = None
    Price <- MCPrice
    Lots <- MCLots
    Action <- MCCloseToo
    MaxDailyLoss = 16
    MaxPositionValue = 48
    Mode = "total"
    Fee = 1
    DayLength = 2
    MaxTime = 3
    MaxOpen = 2
    MaxPosition = 2
    MaxFills = 4
    MaxRestarts = 1
CHECK_DEADLOCK FALSE
INVARIANTS
    ProfitIsMoney
PROPERTIES
    PauseEndsTrading
    NoOrderBeyondTheLimits
