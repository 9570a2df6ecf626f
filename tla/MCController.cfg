SPECIFICATION Spec
CONSTANTS
    Good = {g1, g2}
    Bad = {b1}
    Unloadable = {u1}
    Interval = 2
    Timeout = 1
    Threshold = 2
    RestartTime = 1
    RestartWait = 2
    Poll = 1
    BackupInterval = 7
    Retention = 2
    ContainerName = gw
    AllowedContainers = {gw}
    MaxChanges = 2
    Cooldown = 4
    Window = 10
    MaxRecoveries = 2
    MaxTime = 22
SYMMETRY GoodSymmetry
CHECK_DEADLOCK FALSE
INVARIANTS
    RateLimited
    IncidentTracksChecks
    BackupsAreGood
    RecoversInTime
    NoDrift
    BackupsKeepUp
PROPERTIES
    GivesUpForGood
    InstallsOnlyGood
    RepairsSurvive
    HandsOff
