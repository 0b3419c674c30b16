SPECIFICATION WalkSpec
CONSTANTS
    sv1 = sv1
    sv2 = sv2
    tk1 = tk1
    u1 = u1
    Users = {u1, u2, u3, u4, u5}
    Surveys = {sv1, sv2}
    Tasks = {tk1}
    Empty = {}
    Inactive = {}
    Conds = {1, 2}
    Plans <- WalkPlans
    EnrollSurvey = sv2
    MaxParticipants = 4
    Admin = {}
    MaxIds = 3
    MaxCur = 4
    NoSurvey = NoSurvey
CHECK_DEADLOCK FALSE
INVARIANTS Balanced
PROPERTIES Finishes
