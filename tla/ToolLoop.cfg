SPECIFICATION Spec
CONSTANTS
    claude = claude
    gpt = gpt
    converse = converse
    custom = custom
    google = google
    post = post
    find = find
    own = own
    None = None
    Text = Text
    Family <- MCFamily
    Hosted <- MCHosted
    Models <- MCModels
    Hosts = {google}
    McpTools <- MCMcpTools
    OwnTools <- MCOwnTools
    Answers <- MCAnswers
    Openings <- MCOpenings
    Allowed <- MCAllowed
    Blocked <- MCBlocked
    MaxIterations = 2
    MaxRequests = 3
INVARIANTS
    ResultsAnswerCalls
    BlockedNeverRuns
    StreamAgrees
CHECK_DEADLOCK FALSE
