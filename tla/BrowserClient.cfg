\* The customer may stop at any moment, and must when MaxCalls calls are made:
\* a page with nothing on its way is not stuck.
SPECIFICATION FairSpec
CONSTANTS
    s1 = s1
    s2 = s2
    s3 = s3
    SessionIds <- MCSessions
    NoSession = NoSession
    MaxCalls = 5
    MaxMishaps = 2
INVARIANTS
    AnswersInPlace
    EndedIsTrue
    EndedIsTold
    OrphansNeedAMishap
PROPERTIES
    EveryCallSettles
CHECK_DEADLOCK FALSE
