SPECIFICATION LiveSpec
CONSTANTS
    s1 = s1
    s2 = s2
    s3 = s3
    k1 = k1
    k2 = k2
    None = None
    Signal <- MCSignal
    Strategy <- MCStrategy
    Owner <- MCOwner
INVARIANTS
    AtMostOneOrder
    ReadyNeverCrossedTheAPI
    ConclusionsAreTrue
    OneOpenIntent
    NothingOpenWhileTrading
PROPERTIES
    IsolatedStrategySendsNothing
    ImplementsPromise
    ExecutedOrderIsRecorded
