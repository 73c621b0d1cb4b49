SPECIFICATION LiveSpec
CONSTANTS
    buy = buy
    sell = sell
    t1 = t1
    t2 = t2
    t3 = t3
    book = book
    None = None
    Order <- MCBuyOnly
    Trade <- MCBuyTrades
    Book <- MCBook
    OrderOf <- MCBuyOrderOf
    BookOfOrder <- MCBuyBookOf
    Side <- MCBuySide
    Quantity <- MCBuyQuantity
    Hash <- MCBuyHash
    Overlap = 1
    Bootstrap = 2
    VisibilityDelay = 1
    Lag = 2
    Micros = 4
    MaxTime = 4
    MaxFaults = 1
CHECK_DEADLOCK FALSE
PROPERTIES
    EveryExecutionIsApplied
