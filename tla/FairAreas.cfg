SPECIFICATION AreasSpec
CONSTANTS
    l1 = l1
    l2 = l2
    l3 = l3
    w1 = w1
    w2 = w2
    s1 = s1
    s2 = s2
    c1 = c1
    c2 = c2
    r1 = r1
    r2 = r2
    r3 = r3
    own = own
    foreign = foreign
    shared = shared
    t1 = t1
    t2 = t2
    t3 = t3
    t4 = t4
    None = None
    Ticker = Ticker
    Servers <- MCServers
    Names <- MCNames
    name <- MCName
    project <- MCProject
    Tasks <- MCTasks
    Workloads <- MCWorkloads
    MaxRestarts = 1
INVARIANTS
    CallsOwnServer
PROPERTIES
    CacheFollowsRows
    HangsOnlyCrossed
    OverdueRotatedOnce
    EventsExported
    AlertsArrive
CHECK_DEADLOCK FALSE
