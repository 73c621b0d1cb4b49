SPECIFICATION Spec
CONSTANTS
    w1 = w1
    w2 = w2
    p1 = p1
    p2 = p2
    a = a
    b = b
    c = c
    d = d
    None = None
    Worker <- MCWorker
    Port <- MCPort
    PortOf <- MCOwnPort
    Event <- MCEvent
    Instant <- MCInstant
    At <- MCAt
    Rank <- MCRank
    Micros <- MCMicros
    Emits <- MCEmits
    Digest <- MCDigest
    MaxRevision = 4
INVARIANTS
    AppliedOnceInOrder
    OutboxMatchesState
    AcknowledgedIsApplied
PROPERTIES
    NoLostUpdate
