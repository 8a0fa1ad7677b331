SPECIFICATION FairSpec
CONSTANTS
    a = a
    b = b
    aPath = aPath
    bPath = bPath
    svc = svc
    r1 = r1
    r2 = r2
    Urls <- MCSoleUrls
    Upstreams <- MCSingle
    finalUrl <- MCSame
    ServiceUrls = {}
    Supported <- MCFirst
    Requests <- MCRequests
    FailureThreshold = 2
    HalfOpenMax = 1
    RateMode = TRUE
    RatePercent = 50
    MinSamples = 2
    WindowCap = 10
    CounterCap = 2
    Memory = 2
PROPERTIES
    Recovers
