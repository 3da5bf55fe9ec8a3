SPECIFICATION FairSpec
CONSTANTS
    alice = 1
    bob = 2
    Group = {1, 2}
    Client = {1, 2}
    Flow = {1, 2}
    Dev = {1}
    Nobody = 0
    Unusable = Unusable
    Absent = Absent
    Foreign = {}
    MaxUsers = 2
    MaxFilters = 1
    Targets = 3
    Flows = 2
    Routes = 1
    Logs = 1
    Hands = 1
    Failures = 2
    Stops = 1
    Crashes = 1
    MaxTotal = 4
    Target <- MCTarget
    MaxFaults <- MCMaxFaults
PROPERTIES
    PolicesOnlyLimited
    ReportIsTrue
    NodeLimits
CHECK_DEADLOCK FALSE
