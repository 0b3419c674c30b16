SPECIFICATION Spec
CONSTANTS
    sv1 = sv1
    sv2 = sv2
    tk1 = tk1
    u1 = u1
    Users = {u1}
    Surveys = {sv1, sv2}
    Tasks = {}
    Empty = {}
    Inactive = {sv2}
    Conds = {1, 2}
    Plans <- MixedPlans
    EnrollSurvey = NoSurvey
    MaxParticipants = 1
    Admin = {"add", "remove", "reset", "condition", "archive", "edit"}
    MaxIds = 2
    MaxCur = 2
    NoSurvey = NoSurvey
CHECK_DEADLOCK FALSE
INVARIANTS TypeOK RecordsResolve
