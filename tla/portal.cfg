SPECIFICATION PortalSpec
CONSTANTS
    Addresses = {root, a1}
    AdminAddr = root
    Browsers = {b1, b2}
    NoAddr = NoAddr
    MaxId = 2
    MaxBorn = 3
    MaxEdits = 1
    Tasks = {k1, k2}
    NoTask = NoTask
    MaxLevels = 2
    MaxSubs = 2
    MaxKills = 1
    System = {s1, s2}
    Custom = {c1}
    Assigned = {t1}
    NoAgent = NoAgent
    Codes = {"en", "de", "fr"}
    ListTTL = 1
    MaxAge = 2
    Interval = 2
    MaxKeep = 3
    MaxHours = 5
    MaxRuns = 5
    MaxFaults = 1
SYMMETRY Symmetry
CHECK_DEADLOCK FALSE
INVARIANTS
    NothingInherited
    OneGapPerDeath
    AlwaysAnAgent
    
    ABackupSurvives NoLongGap
PROPERTIES
    AdminRemains OpenStays OwnTextsStay
