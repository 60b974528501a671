SPECIFICATION MCSpec
CONSTANTS
    i1 = i1  i2 = i2
    p1 = p1  p2 = p2
    n1 = n1  n2 = n2
    k1 = k1  k2 = k2
    c1 = c1  c2 = c2
    o1 = o1
    anna = anna
    NoKey = NoKey
    NoInvoice = NoInvoice
    NoStudent = NoStudent
    NoRequest = NoRequest
    Invoices = {i1, i2}
    Payments = {p1, p2}
    Notes = {n1, n2}
    Keys = {k1, k2}
    Students = {anna}
    StudentOf <- MCStudentOf
    Total <- MCTotal
    Requests <- MCRequests
    Connections = {c1, c2}
    MaxRank = 2
    Rank <- MCRank
    Writers = {c1, c2}
    DueDate <- MCDueDate
    Branch <- MCBranch
    Commands <- HistoryRequests
    MaxTime = 5
    Clerks = {c1, c2}
    Bills = {n1, n2}
    Offers = {o1}
    Prices = {2}
    Grants <- MCGrants
    Most <- MCMost
    Orders <- MCOrders
    Parts = {"documents"}
SYMMETRY Ids
CHECK_DEADLOCK FALSE
INVARIANT NetDueCoversPaid
