SPECIFICATION Spec
CONSTANTS
    sv1 = sv1
    sv2 = sv2
    tk1 = tk1
    u1 = u1
    Users = {u1}
    Surveys = {sv1, sv2}
    Tasks = {tk1}
    Empty = {}
    Inactive = {}
    Conds = {}
    Plans <- HandInPlans
    EnrollSurvey = sv2
    MaxParticipants = 0
    Admin = {"add", "reset", "archive"}
    MaxIds = 3
    MaxCur = 4
    NoSurvey = NoSurvey
CHECK_DEADLOCK FALSE
INVARIANTS ProgressBacked Throughout EnrollSurveyFirst
