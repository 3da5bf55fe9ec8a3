SPECIFICATION FairSpec
CONSTANTS
    i1 = i1
    a = a
    b = b
    f = f
    s1 = s1
    s2 = s2
    s3 = s3
    Inbound = {i1}
    Owned = {a}
    Foreign = {f}
    Secret = {s1, s2, s3}
    ForeignSecret = {s1, s3}
    MaxTraffic = 1
    MaxSeq = 1
    MaxChanges = 2
    Refused = 1
    Lost = 1
    Saves = 1
    Late = 1
    MaxTotal = 2
    Crashes = 1
    Home <- MCHome
    Wish <- MCWish
    MaxFaults <- MCMaxFaults
INVARIANTS
    ResetOnce
    LabelIsHonest
    StatusIsTrue
PROPERTIES
    ForeignUntouched
    PanelConverges
