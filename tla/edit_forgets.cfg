SPECIFICATION Spec
CONSTANTS
    sv1 = sv1
    sv2 = sv2
    tk1 = tk1
    u1 = u1
    Users = {u1}
    Surveys = {sv1, sv2}
    Tasks = {tk1}
    Empty = {}
    Inactive = {}
    Conds = {}
    Plans <- OneTask
    EnrollSurvey = NoSurvey
    MaxParticipants = 0
    Admin = {"edit"}
    MaxIds = 2
    MaxCur = 3
    NoSurvey = NoSurvey
CHECK_DEADLOCK FALSE
PROPERTIES CompletionsKept
