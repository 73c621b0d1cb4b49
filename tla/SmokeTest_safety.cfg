SPECIFICATION SmokeLiveSpec
CONSTANTS
    Quantity = 2
    Resting = {"buy", "sell", "cleanup"}
    Unreliable = TRUE
CHECK_DEADLOCK FALSE
INVARIANTS
    CleanReportIsFlat
    NothingIsDoneTwice
PROPERTIES
    Ends
