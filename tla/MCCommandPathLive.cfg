SPECIFICATION FairSpec
CONSTANTS
    c1 = c1
    c2 = c2
    q1 = q1
    network = network
    runner = runner
    ok = ok
    Command = {c1}
    Group = {network, runner}
    NoCommand = NoCommand
    RunResult = {ok}
    RecentLimit = 1
    MaxOffers = 2
    Breaks = 1
    Crashes = 1
    SaveFaults = 1
    Updates = 2
    GroupOf <- MCGroupOf
    Declinable <- MCDeclinable
    MaxFaults <- MCMaxFaults
INVARIANTS
    UpdateExcludesWork
PROPERTIES
    AcceptedResolves
CHECK_DEADLOCK FALSE
