SPECIFICATION PluginsSpec
CONSTANTS
    c1 = c1
    c2 = c2
    u1 = u1
    k1 = k1
    k2 = k2
    n1 = n1
    n2 = n2
    m1 = m1
    key1 = key1
    Conversations <- MCConversations
    sessionId <- MCSessionId
    blockMode = "block"
    sessionTokenBudget = 4
    perTurnPromptInputThreshold = 4
    rewriteThreshold = 1
    Sizes <- MCSizes
    SentinelSize = 1
    MaxMessages = 2
    MaxRefused = 0
    Uuids <- MCUuids
    Clients <- MCClients
    NoClient = NoClient
    Ttl = 2
    windowMs = 2
    maxRequests = 1
    MaxEntries = 1
    MaxNow = 3
    MaxAsked = 3
    Notices <- MCNotices
    Members <- MCMembers
    AgentKeys <- MCAgentKeys
    MaxRetries = 1
    MaxPending = 1
    Backends <- MCBackends
    long = long
    short = short
    secret = secret
    Roles <- MCRoles
    IngestRoles <- MCIngestRoles
    Texts <- MCTexts
    NoText = NoText
    SkipTexts <- MCSkipTexts
    ChunkCount <- MCChunkCount
    ChunkTokens = 2
    UPSERT_BATCH_SIZE = 2
    MAX_RETRIES = 1
    Budget = 4
    CoreTokens <- MCCoreTokens
    MaxTurns = 2
    MaxForgotten = 1
    p1 = p1
    p2 = p2
    page = page
    pageOfPort = pageOfPort
    agentsFile = agentsFile
    memoryFile = memoryFile
    turn1 = turn1
    Commands <- MCCommands
    Files <- MCFiles
    CommandOf <- MCCommandOf
    Extensions <- MCExtensions
    Turns <- MCTurns
    MaxChunks = 2
    BatchSize = 1
    TopK = 1
    MaxVersion = 2
    MaxEdited = 1
    o1 = o1
    o2 = o2
    i1 = i1
    i2 = i2
    Operators <- MCOperators
    Config <- MCConfig
    MaxCommits = 2
SYMMETRY MCSymmetry
INVARIANTS
    PluginsTypeOK
    AdmittedWithinBudget
    AnswersKept
    RemainsExplained
    NotifiedOnce
    OutcomeHonest
    CompactAnswersTrue
    PromptFits
    SuccessMeansWhole
    CountedIsDone
CHECK_DEADLOCK FALSE
