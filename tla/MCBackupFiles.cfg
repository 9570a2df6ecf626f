CONSTANTS
    Good = {g1, g2}
    Bad = {b1}
    None = None
    MaxClock = 3
    MaxAdvance = 2
    Retention = 2
    MaxStepBacks = 1
    MaxCrashes = 1
    MaxErrors = 2
    MaxOutside = 2
SPECIFICATION Spec
CHECK_DEADLOCK FALSE
SYMMETRY Symmetry
INVARIANTS ManifestTellsRetained LitterAccounted
PROPERTIES InstallsSnapshots ImplementsVault
