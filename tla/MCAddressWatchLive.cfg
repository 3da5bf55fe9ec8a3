SPECIFICATION FairSpec
CONSTANTS
    c1 = c1
    c2 = c2
    a1 = a1
    a2 = a2
    Command = {c1}
    Address = {a1, a2}
    Nobody = Nobody
    MaxReports = 12
    MaxInFlight = 1
    NaturalChanges = 1
    Breaks = 0
    Crashes = 1
    SaveFaults = 0
    MaxFaults <- MCMaxFaults
PROPERTIES
    CloudLearnsAddress
    CommandsEnd
