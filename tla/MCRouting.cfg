SPECIFICATION FairSpec
CONSTANTS
    o1 = o1
    o2 = o2
    bad = bad
    Tag = {o1, o2, bad}
    Refused = {bad}
    Lost = Lost
    Targets = 1
    TemplateEdits = 1
    Inbounds = 1
    Restarts = 1
    PanelFaults = 1
    ApiFaults = 2
    Crashes = 1
    MaxTotal = 5
    Document <- MCDocument
    Edits <- MCEdits
    MaxFaults <- MCMaxFaults
INVARIANTS
    RulesResolve
PROPERTIES
    ReportIsTrue
    NodeRoutesUnlessLost
CHECK_DEADLOCK FALSE
