SPECIFICATION ConnectionsSpec
CONSTANTS
    Parts = {"pools", "delivery", "notices"}
    r1 = r1  t3 = t3
    k1 = k1  k2 = k2  x1 = x1  x2 = x2  p1 = p1  p2 = p2
    g1 = g1  g2 = g2  lead = lead  m1 = m1  m2 = m2
    Tenants = {t1, t2, t3}
    Requests = {r1, r2}
    PoolIds = {p1, p2, p3}
    MaxPools = 2
    IdleAge = 1
    AgeCap = 1
    Sweep = Sweep
    NoPool = NoPool
    NoTenant = NoTenant
    Commands = {k1, k2}
    Outbox <- MCOutbox
    Clicks = {r1, r2}
    PoolSize = 2
    MaxFaults = 2
    Students = {p1, p2}
    Guardians = {g1, g2}
    Leads = {lead}
    Mailboxes = {m1, m2}
    NoMail = NoMail
    NoPerson = NoPerson
    Families <- MCFamilies
    Events <- MCEvents
INVARIANTS
    PoolsSafe
PROPERTIES
    GetConnectionSettles
    ShutdownClosesPools
    DeliverySafe
    EndsUnlessStarved
    NoticesSafe
    EveryoneNamed
CHECK_DEADLOCK FALSE
