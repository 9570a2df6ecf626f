SPECIFICATION Spec
CONSTANT Tasks = {t1, t2, t3}
CHECK_DEADLOCK FALSE
INVARIANTS
    ShutdownDrains
PROPERTIES
    NotificationsEnd
    ShutdownEnds
