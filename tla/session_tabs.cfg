SPECIFICATION Spec
CONSTANTS
    Users = {u1}
    Anon = anon
    Sids = {s1, s2}
    Turns = {t1, t2}
    Xmls = {x1}
    Backend = "redis"
    Delegant = TRUE
    FullApi = FALSE
    MaxMsgs = 3
    MaxSubs = 2
    NoUser = NoUser
    NoSid = NoSid
    NoCell = NoCell
    NoXml = NoXml
SYMMETRY Symmetry
CHECK_DEADLOCK FALSE
INVARIANTS TypeOK OneOpenSubmission
PROPERTIES LateAutosaveIsDropped KeepsSubmissions SaveLeavesNothingOpen
