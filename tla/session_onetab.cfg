SPECIFICATION Spec
CONSTANTS
    Users = {u1}
    Anon = anon
    Sids = {s1}
    Turns = {t1, t2}
    Xmls = {x1}
    Backend = "memory"
    Delegant = TRUE
    FullApi = FALSE
    MaxMsgs = 5
    MaxSubs = 2
    NoUser = NoUser
    NoSid = NoSid
    NoCell = NoCell
    NoXml = NoXml
SYMMETRY Symmetry
CHECK_DEADLOCK FALSE
INVARIANTS StatsFollowSession
PROPERTIES ChatLogExtends
