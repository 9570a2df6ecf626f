SPECIFICATION Spec
CONSTANTS
    Sources = {s1, s2}
    EventIds = {e1, e2, e3}
    Payloads = {x, y}
    Positions <- MCPositions
    Blocks = {1, 2}
    IntentIds = {i1, i2, i3}
    IncidentIds = {c1, c2, c3}
    Nonces <- MCNonces
    Hashes = {h1, h2}
    Null = Null
    MaxInteger = 1
    MaxAudit = 10
SYMMETRY Symmetry
CHECK_DEADLOCK FALSE
INVARIANTS
    TypeOK
    CursorIsNewest
    OneUnfinished
    EventsOwnedOnce
    UncertaintyFreezes
    ReceiptNeedsBroadcast
    AuditIsLifecycle
    OutboxMirrorsAudit
