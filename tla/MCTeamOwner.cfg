SPECIFICATION RunSpec
CONSTANTS
    Parts = {"everything"}
    Users = {Ann, Bao, Chi}
    Founder = Ann
    Guest = Chi
    Accounts = {Ann}
    NewOwners = {}
    OWNER = OWNER
    ADMIN = ADMIN
    TEACHER = TEACHER
    Roles = {OWNER, ADMIN, TEACHER}
    Managing = {OWNER, ADMIN}
    Invitations = {i1, i2}
    Connections = {c1, c2}
    Requests <- AllRequests
    Nobody = Nobody
    Unissued = Unissued
    NoRequest = NoRequest
INVARIANT AlwaysAnOwner
