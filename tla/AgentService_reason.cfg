SPECIFICATION AgentSpec
CONSTANTS
    s1 = s1
    s2 = s2
    t1 = t1
    t2 = t2
    r1 = r1
    v1 = v1
    v2 = v2
    q1 = q1
    SessionIds <- MCSession1
    Tasks <- MCTasks
    References <- MCReferences
    Contents <- Conversation
    NewContents <- MCNewContents
    Step <- MCStep
    Values <- MCValues
    Prices <- MCPrices
    MaxMessages = 2
    Questions <- MCQuestions
    Objections <- MCObjections
    NoteLimit = 10
    Instants <- MCInstants
    Start <- MCStart
    Ttl <- MCTtl
    MaxSessions = 1
    UnavailableSlots <- MCUnavailable
    Malformed = Malformed
    Naive = Naive
    None = None
    Absent = Absent
    NoTask = NoTask
    NoSession = NoSession
    Messages <- LifecycleMessages
    ProviderTurns <- LifecycleTurns
    FallbackEnabled = FALSE
INVARIANTS
    BookedReasonIsEarned
