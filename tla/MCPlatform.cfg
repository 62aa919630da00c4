SPECIFICATION PlatformSpec
CONSTANTS
    None = None
    Crawls = {c1, c2}
    PoolSize = 2
    MaxSaves = 3
    Urls <- WalkUrls
    Leads <- WalkLeads
    LinksOf <- WalkLinks
    Base <- WalkBase
    Origin <- WalkOrigin
    StartsWith <- WalkStartsWith
    Tiles <- WalkTiles
    Calls = {t1, t2}
    MaxLinks = 1
    MaxTurns = 3
    InviteTokens = {i1, i2}
    Milestones = {"has_team_member", "has_system"}
    JoinRequests = {j1, j2}
    MaxJoins = 4
    Managers = {u1, u2, u3}
    SystemRequests = {y1, y2}
    MaxSystemEdits = 3
    Plans = {p1, p2}
    FanJob = p1
    PlanLimit = 1
    FanScripts = {"s1", "s2"}
    FanConfigs <- PlanConfigs
    FanLimit = 2
    PlanRequests = {q1, q2}
    MaxPlanRequests = 3
    MaxAttempts = 3
    Day = 60
    FireTicks = {0, 10, 20, 30, 45, 50}
    MinInterval = 15
    Checkouts = {k1, k2}
    BillRequests = {b1, b2}
    MaxBills = 3
SYMMETRY Alike
INVARIANTS
    PlatformTypeOK
    BrowserInOnePlace
    CrawlAccounted
    JoiningSettles
    ManagerHoldsRole
    ActiveJobsLimited
    FanOutAccounted
    EvenSchedulesAccepted
    BillingAgrees
\* The bounded counters let every component stop.
CHECK_DEADLOCK FALSE
