SPECIFICATION Spec
CONSTANTS
    Users = {u1, u2}
    Anon = anon
    Sids = {s1, s2}
    Turns = {t1}
    Xmls = {x1}
    Backend = "memory"
    Delegant = FALSE
    FullApi = FALSE
    MaxMsgs = 2
    MaxSubs = 2
    NoUser = NoUser
    NoSid = NoSid
    NoCell = NoCell
    NoXml = NoXml
SYMMETRY Symmetry
CHECK_DEADLOCK FALSE
PROPERTIES CompletedByItsUser
