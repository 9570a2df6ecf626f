SPECIFICATION Spec
CONSTANTS
    Txs = {t1, t2}
    LogsPerBlock = 2
    MaxBlocks = 4
SYMMETRY TxSymmetry
CHECK_DEADLOCK FALSE
INVARIANTS
    EntitiesMirrorChain
    SequenceIsPosition
