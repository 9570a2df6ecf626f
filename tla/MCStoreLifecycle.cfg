SPECIFICATION FairSpec
CONSTANTS
    s1 = s1
    e1 = e1
    e2 = e2
    x = x
    y = y
    i1 = i1
    i2 = i2
    c1 = c1
    c2 = c2
    h1 = h1
    Sources = {s1}
    EventIds = {e1, e2}
    Payloads = {x, y}
    Positions <- MCPositions
    Blocks = {1, 2}
    IntentIds = {i1, i2}
    IncidentIds = {c1, c2}
    Nonces = {0, 2}
    Hashes = {h1}
    Null = Null
    MaxInteger = 1
    MaxAudit = 9
    Callers = {p1, p2}
    Requests <- Lifecycle
    FileVersions = {0, 1, 2}
    MaxCalls = 5
CHECK_DEADLOCK FALSE
INVARIANTS
    TransitionsAccounted
PROPERTIES
    ImplementsStore
    LockIsFreed
