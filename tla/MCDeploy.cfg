SPECIFICATION Spec
CONSTANTS
    MaxRuns = 3
    MaxNonce = 6
CHECK_DEADLOCK FALSE
INVARIANTS
    VaultsAreGuarded
    EvidenceIsReal
