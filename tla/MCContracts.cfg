SPECIFICATION Spec
CONSTANTS
    Accounts = {owner, k1, k2, zero}
    ZeroAddress = zero
    Owner = owner
    InitialKeeper = k1
    Refs = {r1, r2, none}
    ZeroHash = none
    Severities = {0, 3, 4}
    MaxLog = 6
    MaxUint = 3
    Amounts = {0, 2, 3}
CHECK_DEADLOCK FALSE
SYMMETRY RefSymmetry
INVARIANTS
    PausesAreAuthorised
    UnpausesAreHuman
    LogTellsState
    PauseStopsWithdrawals
    LedgerBalances
