SPECIFICATION Spec
CONSTANTS
    Good = {g1}
    Bad = {b1}
    Unloadable = {}
    Interval = 2
    Timeout = 1
    Threshold = 3
    RestartTime = 2
    RestartWait = 6
    Poll = 1
    BackupInterval = 12
    Retention = 10
    ContainerName = gw
    AllowedContainers = {gw}
    MaxChanges = 1
    Cooldown = 12
    Window = 120
    MaxRecoveries = 3
    MaxTime = 40
CHECK_DEADLOCK FALSE
INVARIANTS
    BackupErrorsStayInside
