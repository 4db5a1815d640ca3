SPECIFICATION AgeSpec
CONSTANTS
    t1 = t1
    t2 = t2
    t3 = t3
    s1 = s1
    s2 = s2
    Tasks <- MCTasks2
    SessionIds <- MCSession1
    Contents <- MCContents
    NewContents <- MCNewContents
    Step <- MCStep
    Ttl = 2
    MaxSessions = 1
    Instants <- MCInstants2
    Start = 0
    Absent = Absent
    NoTask = NoTask
    NoSession = NoSession
PROPERTIES
    RemovedStaysRemoved
