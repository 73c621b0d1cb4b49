SPECIFICATION LedgerSpec
CONSTANTS
    o1 = o1
    o2 = o2
    t1 = t1
    t2 = t2
    t3 = t3
    t4 = t4
    Nothing = Nothing
    OrderID <- MCOrderID
    Trade <- MCTrade
    Day <- MCDay
    OrderOf <- MCOrderOf
    DayOf <- MCDayOf
    Rate <- MCRate
    MaxFaults = 2
CHECK_DEADLOCK FALSE
INVARIANTS
    BooksAgree
    BookedAsCharged
PROPERTIES
    AmountIsReported
