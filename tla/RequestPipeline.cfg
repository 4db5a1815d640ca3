SPECIFICATION Spec
CONSTANTS
    a1 = a1
    h1 = h1
    h2 = h2
    Addresses <- MCAddresses
    Handlers <- MCHandlers
    Requests = 1
    WindowSeconds = 1
    TicksPerSecond = 4
    Instants <- MCInstants
    Start = 0
    MaxSamples = 3
    ReportsPerSecond = 3
    MaxRequests = 4
SYMMETRY PipelineSymmetry
INVARIANTS
    RequestsAccounted
    SnapshotIsOrdered
