SPECIFICATION FairSpec
CONSTANTS
    k1 = k1
    Key = {k1}
    Versions = 1
    Breaks = 1
    Crashes = 0
    ApplyFaults = 0
    MaxVersion <- MCMaxVersion
    MaxFaults <- MCMaxFaults
PROPERTY StatusReachesCloud
