SPECIFICATION PeopleSpec
CONSTANTS
    Parts = {"crm", "invitations", "portal", "assessments", "reports"}
    s1 = s1  s2 = s2  A = A  B = B
    Leads = {l1, l2}
    Prospects = {p1, p2}
    TrialSessions = {s1, s2}
    TrialClassOf <- MCTrialClassOf
    Clerks = {k1, k2}
    Idle = Idle
    MaxTrials = 2
    MaxPlaces = 3
    Guardians = {guardian}
    Pupils = {pupil}
    Emails = {l1, l2}
    Handlers = {k1, k2}
    NoOne = NoOne
    MaxInvitations = 2
    Assessments = {test}
    Modes = {"SIMPLE", "RUBRIC"}
    Gradees = {p1, p2}
    ReportPeriods = {"spring", "autumn"}
    MaxScores = {1, 2}
    NoScore = NoScore
    MaxCriteria = 2
    MaxRevisions = 2
    MaxReports = 3
SYMMETRY Symmetry
PROPERTIES
    CrmSafe
    PortalSafe
    ProgressSafe
CHECK_DEADLOCK FALSE
