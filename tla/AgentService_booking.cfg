SPECIFICATION AgentSpec
CONSTANTS
    s1 = s1
    s2 = s2
    t1 = t1
    t2 = t2
    r1 = r1
    v1 = v1
    v2 = v2
    q1 = q1
    SessionIds <- MCSessions2
    Tasks <- MCTasks
    References <- MCReferences
    Contents <- Conversation
    NewContents <- MCNewContents
    Step <- MCStep
    Values <- MCValues
    Prices <- MCPrices
    MaxMessages = 1
    Questions <- MCQuestions
    Objections <- MCObjections
    NoteLimit = 10
    Instants <- MidnightInstants
    Start <- MidnightStart
    Ttl <- MCTtl
    MaxSessions = 2
    UnavailableSlots <- MidnightUnavailable
    Malformed = Malformed
    Naive = Naive
    None = None
    Absent = Absent
    NoTask = NoTask
    NoSession = NoSession
    Messages <- BookingMessages
    ProviderTurns <- BookingTurns
    FallbackEnabled = TRUE
SYMMETRY SessionSymmetry
INVARIANTS
    AskedFor
    BookedVisitIsClaimed
    ClaimsAreShown
    SuccessesCounted
