SPECIFICATION Spec
CONSTANTS
    p1 = p1
    p2 = p2
    r1 = r1
    r2 = r2
    d1 = d1
    d2 = d2
    here = here
    Nothing = Nothing
    Partial = Partial
    Process = {p1, p2}
    Data = {d1, d2}
    Trades <- MCTrades
    Plan <- MCPlan
    Config <- MCConfig
    Directory <- MCDirectory
    Kinds <- MCKinds
    HasManifest = {r1}
    Instant = {1, 2}
    Exact = {1}
    MaxDownloads = 1
    MaxFaults = 1
    MaxCrashes = 1
    MaxCancels = 1
CHECK_DEADLOCK FALSE
INVARIANTS
    ArtifactsWithTheirRun
    
    CompletedOnDescribedData
PROPERTIES
    TerminalIsFinal
