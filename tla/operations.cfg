SPECIFICATION OperationsSpec
CONSTANTS
    Users = {u1, u2}
    Studies = {st1}
    Agents = {g1}
    CondIds = {1, 2}
    NullAgent = NullAgent
    Gone = Gone
    MaxParticipants = 0
    AutoDropout = FALSE
    MaxRemoved = 1
    Requests = {q1, q2}
    Writes = {w1, w2}
    Bad = Bad
    None = None
    MaxCrashes = 1
    web = web
    celery = celery
    r1 = r1
    r2 = r2
    r3 = r3
    Processes = {web, celery}
    Clients = {r1, r2, r3}
    ProcessOf <- OwnerOf
    Texts = {on, off, blank}
    Default = off
    Blank = blank
    Null = Null
    NoRow = NoRow
    NoEntry = NoEntry
    Ttl = 3
    Failures = TRUE
    Behind = TRUE
SYMMETRY Symmetry
CHECK_DEADLOCK FALSE
INVARIANTS
    ServedByCondition Balanced
    DiscardsNothing
    StalenessBounded
PROPERTIES
    RemovedForGood WholeUnlessReplaced
