SPECIFICATION Spec
CONSTANTS
    r1 = r1  r2 = r2  t1 = t1  t2 = t2  m1 = m1  m2 = m2  b1 = b1  b2 = b2  x = x  y = y
    Missing = Missing  None = None
    MaxDepth = 2
    Requests = {r1, r2}
    Tokens = {t1, t2}
    Models = {m1, m2}
    Texts = {x, y}
    Bases = {b1, b2}
    Arrivals <- MCArrivals
    Grants <- MCGrants
    MaxRetries = 1
    MaxLoop = 2
    Window = 2
    MaxTime = 2
    MaxEdits = 1
INVARIANTS
    DeniedNeverSent ModelPermittedWhenSent RateLimitHolds InFlightCounts
    UnkeyedSentOnce CacheServesOwnAnswers AnswersCharged AuditedOnce
CHECK_DEADLOCK FALSE
