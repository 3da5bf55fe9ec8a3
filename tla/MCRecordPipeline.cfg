SPECIFICATION FairSpec
CONSTANTS
    MaxLine = 3
    Recordable = {2, 3}
    MaxQueued = 2
    MaxBatch = 1
    MaxInFlight = 1
    Clears = 2
    Replacements = 1
    Rotations = 1
    Breaks = 1
    Stops = 1
    Ends = 1
    MaxTotal = 2
    Text <- MCText
    MaxFaults <- MCMaxFaults
INVARIANTS
    PassedOnce
PROPERTIES
    KeepsTrail
    LinesReachCloud
