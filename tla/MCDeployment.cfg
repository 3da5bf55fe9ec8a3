SPECIFICATION FairSpec
CONSTANTS
    MaxTarget = 3
    Bad = {2}
    Crashes = 1
    Fails = 2
    Installs = 2
    InstallFailures = 1
    MaxFaults <- MCMaxFaults
INVARIANTS
    CurrentIsBootable
    RunningIsCurrent
    NoRestartLoop
PROPERTIES
    ActiveUntouched
    NodeServes
    UpdateConverges
CHECK_DEADLOCK FALSE
