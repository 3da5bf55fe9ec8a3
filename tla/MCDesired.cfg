SPECIFICATION FairSpec
CONSTANTS
    k1 = k1
    Key = {k1}
    Versions = 3
    Breaks = 1
    Crashes = 1
    ApplyFaults = 1
    MaxVersion <- MCMaxVersion
    MaxFaults <- MCMaxFaults
INVARIANTS
    RetiredIsClean
    NoLostWake
PROPERTIES
    RemovesOnlyRetired
    NodeConverges
    StatusReachesUnbroken
