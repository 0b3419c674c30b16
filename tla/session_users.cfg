SPECIFICATION Spec
CONSTANTS
    Users = {u1, anon}
    Anon = anon
    Sids = {s1, s2}
    Turns = {t1}
    Xmls = {x1}
    Backend = "memory"
    Delegant = FALSE
    FullApi = TRUE
    MaxMsgs = 2
    MaxSubs = 2
    NoUser = NoUser
    NoSid = NoSid
    NoCell = NoCell
    NoXml = NoXml
SYMMETRY Symmetry
CHECK_DEADLOCK FALSE
INVARIANTS ChatIsolation

