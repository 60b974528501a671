SPECIFICATION EnrollmentsSpec
CONSTANTS
    Parts = {"transactions", "register"}
    Students = {s1, s2}
    Classes = {A, B}
    Capacities = {1}
    Unlimited = Unlimited
    Settings <- OpenSettings
    A = A
    Rows = {e1, e2, e3}
    Connections = {c1, c2}
    Requests <- SeatRequests
    Absent = Absent
    NoSource = NoSource
    NoRequest = NoRequest
    Writers = {c1, c2}
    MaxTime = 3
    Learners = {l1}
    Groups = {s1, s2}
    Stays = {e1, e2, e3}
SYMMETRY Symmetry
INVARIANTS
    EnrollmentsSafe
PROPERTIES
    AdmissionsHold
    RegisterSafe
