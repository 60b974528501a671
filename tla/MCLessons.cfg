SPECIFICATION LessonsSpec
CONSTANTS
    Parts = {"makeups", "calendar", "lists"}
    s1 = s1  s2 = s2  s3 = s3  p1 = p1  p2 = p2  c1 = c1  c2 = c2  t1 = t1  r1 = r1  fourth = e4
    Sessions = {s1, s2, s3}
    Pupils = {p1, p2}
    Bookings = {b1, b2}
    Roster <- MCRoster
    Capacity <- MCCapacity
    Trial = {}
    Unplanned = {s3}
    NoRecord = NoRecord
    NoBooking = NoBooking
    Patterns = {P1}
    Entries = {e1, e2, e3, e4}
    Dates = {1, 2}
    WeekdayOf <- MCWeekdayOf
    BranchOf <- MCBranchOf
    Lifecycle <- MCLifecycle
    Overlapping <- MCOverlapping
    PatternForms <- MCPatternForms
    SessionForms <- MCSessionForms
    Changes <- MCChanges
    Scopes <- MCScopes
    AllBranches = AllBranches
    Nobody = Nobody
    None = None
    Lists = {"audit", "history", "roster"}
    Topics = {b1, b2}
    AllTopics = AllTopics
    NoPosition = NoPosition
    PageSizes = {2}
    MaxRows = 3
    LastTick = 2
    PerMillisecond = 2
SYMMETRY Symmetry
PROPERTIES
    MakeupsSafe
    MadeUpOnce
    CalendarSafe
    ListingsSafe
CHECK_DEADLOCK FALSE
