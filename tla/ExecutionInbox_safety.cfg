SPECIFICATION Spec
CONSTANTS
    buy = buy
    sell = sell
    t1 = t1
    t2 = t2
    t3 = t3
    book = book
    None = None
    Order <- MCOrder
    Trade <- MCTrade
    Book <- MCBook
    OrderOf <- MCOrderOf
    BookOfOrder <- MCBookOf
    Side <- MCSide
    Quantity <- MCQuantity
    Hash <- MCSellFirst
    Overlap = 1
    Bootstrap = 2
    VisibilityDelay = 1
    Lag = 2
    Micros = 4
    MaxTime = 5
    MaxFaults = 2
CHECK_DEADLOCK FALSE
INVARIANTS
    NoExecutionIsForgotten
    TradingOnTheTruePosition
PROPERTIES
    KeepsTheLedger
    CheckpointFollowsTheScan
