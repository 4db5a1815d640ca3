SPECIFICATION LimiterSpec
CONSTANTS
    a1 = a1
    a2 = a2
    Addresses <- MCAddresses
    Requests = 2
    WindowSeconds = 3
    TicksPerSecond = 4
    Instants <- MCInstants
    Start = 0
SYMMETRY AddressSymmetry
INVARIANTS
    WindowRespected
PROPERTIES
    RefusedOnlyWhenFull
    RetryAfterIsEnough
