SPECIFICATION Spec
CONSTANTS
    c1 = c1
    c2 = c2
    q1 = q1
    network = network
    runner = runner
    ok = ok
    Command = {c1, c2}
    Group = {network, runner}
    NoCommand = NoCommand
    RunResult = {ok}
    RecentLimit = 1
    MaxOffers = 1
    Breaks = 1
    Crashes = 1
    SaveFaults = 1
    Updates = 0
    GroupOf <- MCGroupOf
    Declinable <- MCDeclinable
    MaxFaults <- MCMaxFaults
SYMMETRY MCSymmetry
INVARIANTS
    AtMostOnce
    GroupExclusive
    LeaseAccounting
    ToldIsDurable
    OnlyAuthorisedRuns
CHECK_DEADLOCK FALSE
