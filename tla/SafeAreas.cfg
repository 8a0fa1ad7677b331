SPECIFICATION AreasSpec
CONSTANTS
    r1 = r1
    r2 = r2
    production = production
    k1 = k1
    k2 = k2
    q1 = q1
    q2 = q2
    q3 = q3
    c1 = c1
    c2 = c2
    Jwt = Jwt
    NoCap = NoCap
    Junk = Junk
    None = None
    Bodies <- MCBodies
    Outgoing <- MCOutgoing
    Incoming <- MCIncoming
    Answers <- MCAnswers
    ToolTexts <- MCToolTexts
    MaxLoops = 1
    SessionRequests = {r1, r2}
    sessionCost <- MCCost
    Admins = {"a1", "a2"}
    SpendCaps = {3}
    MaxStatusChanges = 2
    Publishers = {"p1", "p2"}
    Deployers = {"d1", "d2"}
    Labels = {production}
    ApiKeyNames = {k1, k2}
    KeyRequests = {q1, q2, q3}
    kindOf <- MCKind
    KeyJobs <- MCKeyJobs
    Logins = {"l1", "l2"}
    SigningKeys = {k1, k2}
    Ttl = 1
    ReplyDelay = 1
    LoginClock = 2
    LoginStarts <- MCLoginStarts
    TokenCalls = {"c1"}
    Reauths = {"a1"}
    Lifetime = 3
    TokenMargin = 2
    TokenDelay = 1
    Lag = 1
    MaxRetries = 2
    TokenClock = 4
    SecretCalls = {c1, c2}
    Credentials <- MCCredentials
    Contents <- MCContents
    Lease = 4
    LeaseMargin = 2
    StoreDelay = 1
    SecretClock = 5
    SecretStarts <- MCSecretStarts
    TokenNames = {"t", "t2"}
    PolicyNames = {"p"}
    Periods = {"daily"}
    Upstreams = {"u0", "u1", "bad"}
    Levels = {"redacted", "full"}
    Amounts = {1, 2}
    Rules = {"old", "new"}
    Retries = {"retry"}
    Files <- MCFiles
    ConfigProjects <- MCProjects
    BlockedUrls = {"bad"}
    MaxRuns = 2
    MaxEdits = 1
    MaxConfigFailures = 1
    PolicyRequests = {q1, q2}
    PolicyJobs <- MCPolicyJobs
    PolicyTables <- MCTables
    PhaseChecks <- MCPhaseChecks
    ToolTasks = {q1, q2, q3}
    ToolWorkloads <- MCToolWorkloads
    Offers <- MCOffers
    MaxSwitches = 1
    MaxReboots = 1
    Instances = {"i1", "i2"}
    PriceTasks = {q1, q2, q3}
    PriceWorkloads <- MCPriceWorkloads
    Order <- MCOrder
    Within <- MCWithin
    PriceStarts <- MCPriceStarts
    MaxOutages = 1
    TenantTasks = {q1, q2, q3}
    TenantWorkloads <- MCTenantWorkloads
    People = {"u", "bob"}
    Org = "o"
    ProjectOf <- MCProjectOf
    Founder = "u"
    MaxBreaks = 1
    TrialTasks = {q1, q2, q3, c1, c2}
    TrialWorkloads <- MCTrialWorkloads
    Wrap = 8
    ListLimit = 1
    Transmissions <- MCTransmissions
    StrayLengths = {0, 2, 9}
    EventLimit = 4
    VoiceSessions = {"s1", "s2"}
    ReachableSessions = {"s1"}
    SessionLimit = 1
    MaxVoiceWindows = 1
    SideWords <- MCSideWords
INVARIANTS
    ChangesLive
    TokensOutliveCalls
    SentIsClean
    CopiesClean
    CopiesKept
    AsConfigured
    StreamsCarried
PROPERTIES
    BrokenOnlyByRace
    LoginsHold
    AnswersHold
CHECK_DEADLOCK FALSE
