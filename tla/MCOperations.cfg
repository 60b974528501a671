SPECIFICATION OperationsSpec
CONSTANTS
    Parts = {"compensation", "academy", "families", "imports", "databases"}
    c1 = c1  c2 = c2  t1 = t1  l1 = l1  l2 = l2  a1 = a1  a2 = a2  j1 = j1
    b1 = b1  b2 = b2  r1 = r1  v1 = v1  o1 = o1  k1 = k1  m1 = m1
    q1 = q1  q2 = q2  g3 = g3  u1 = u1  m2 = m2  d1 = d1  d2 = d2  e1 = e1  e2 = e2  e3 = e3  e4 = e4
    Lessons = {l1, l2}
    LessonOf <- MCLessonOf
    PaidClasses = {c1}
    Closing <- MCClosing
    Agreements = {a1, a2}
    AgreementForms <- MCAgreementForms
    Periods <- MCPeriods
    Adjustments = {j1}
    Amounts <- MCAmounts
    EveryClass = EveryClass
    NoTeacher = NoTeacher
    Open = Open
    Unset = Unset
    Clerks = {q1, q2}
    Branches = {b1, b2}
    Rooms = {r1}
    Courses = {o1}
    Levels = {v1}
    CourseOf <- MCCourseOf
    Teachers = {t1}
    Classes = {k1}
    SessionIds = {m1, m2}
    SchoolDays = {1, 2}
    Nothing = Nothing
    Editors = {q1, q2}
    Relatives = {b1, b2, g3}
    Keep = Keep
    Absent = Absent
    Importers = {q1, q2}
    Batches = {b1, b2}
    Files = {1, 2, 3, 4}
    Mappings = {m1, m2}
    Staged <- MCStaged
    Keys = {e1, e2, e3, e4, d1, d2}
    ClassOf <- MCImportClassOf
    Capacity <- MCImportCapacity
    Referred = {u1}
    NoClass = NoClass
    Missing = Missing
    Codes = {b1, b2}
    Emails = {a1, a2}
    Operators = {q1, q2}
    Latest = 2
    Nobody = Nobody
SYMMETRY Symmetry
INVARIANTS
    CompensationSafe
PROPERTIES
    PayStands
    AcademySafe
    FamiliesSafe
    ImportsSafe
    DatabasesSafe
CHECK_DEADLOCK FALSE
