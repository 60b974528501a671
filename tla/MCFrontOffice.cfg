SPECIFICATION OfficeSpec
CONSTANTS
    Parts = {"lead", "cash desk", "workbench", "pipeline", "rows"}
    Salespeople = {k1, k2}
    NoView = NoView
    MaxPeople = 2
    MaxVisits = 1
    Cashiers = {k1, k2}
    Targets = {d1, d2}
    Terms = {b1, b2}
    NoDetails = NoDetails
    MaxEntries = 2
    MaxOpenings = 2
    Browsers = {k1, k2}
    Blank = Blank
    MaxCorrections = 3
    Writers = {k1, k2}
    MaxTime = 6
    Inquiries = {inquiry1}
    Tryouts = {d1, d2}
    Branches = {b1, b2}
    CourseCodes = {k1, k2}
    BranchCodes = {b1, b2}
    TeacherCodes = {teacher}
    ClassCodes = {class}
    LevelCodes = {level1}
    RoomCodes = {room1}
    LevelIds = {d1, d2}
    RoomIds = {d3, d4}
    Empty = Empty
SYMMETRY Symmetry
INVARIANTS
    DirectorySafe
PROPERTIES
    LeadPageSafe
    CashDeskSafe
    WorkbenchSafe
    PipelineSafe
CHECK_DEADLOCK FALSE
