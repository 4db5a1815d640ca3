SPECIFICATION AgeSpec
CONSTANTS
    t1 = t1
    t2 = t2
    t3 = t3
    s1 = s1
    s2 = s2
    Tasks <- MCTasks3
    SessionIds <- MCSessions2
    Contents <- MCContents
    NewContents <- MCNewContents
    Step <- MCStep
    Ttl = 1
    MaxSessions = 1
    Instants <- MCInstants3
    Start = 0
    Absent = Absent
    NoTask = NoTask
    NoSession = NoSession
SYMMETRY StoreSymmetry
INVARIANTS
    TypeOK
    MutualExclusion
    WorkingCopyCurrent
    QueueExact
    LocksWithinCapacity
PROPERTIES
    OrphanFrozen
    ExpiredServesEarlierOnly
    ImplementsAtomicStore
