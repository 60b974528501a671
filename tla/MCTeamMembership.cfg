SPECIFICATION RunSpec
CONSTANTS
    Parts = {"commands", "invitations"}
    Users = {Ann, Bao, Chi}
    Founder = Ann
    Guest = Chi
    Accounts = {Ann}
    NewOwners = {Ann, Bao, Chi}
    OWNER = OWNER
    ADMIN = ADMIN
    TEACHER = TEACHER
    Roles = {OWNER, ADMIN, TEACHER}
    Managing = {OWNER, ADMIN}
    Invitations = {i1, i2}
    Connections = {c1, c2}
    Requests <- RunRequests
    Nobody = Nobody
    Unissued = Unissued
    NoRequest = NoRequest
INVARIANTS
    TeamSafe
PROPERTIES
    MembershipsAreGranted
    RequestsEnd
