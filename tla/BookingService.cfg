SPECIFICATION Spec
CONSTANTS
    s1 = s1
    s2 = s2
    r1 = r1
    r2 = r2
    Sessions <- MCSessions
    References <- MCReferences
    Requests <- MCRequests
    Instants <- MCInstants
    Start <- MCStart
    UnavailableSlots <- MCUnavailable
    Malformed = Malformed
    None = None
INVARIANTS
    OnlyVisitSlotsBooked
    AnswerMatchesBooking
    AlternativesAreNext
PROPERTIES
    ImplementsContract
