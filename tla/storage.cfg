SPECIFICATION FairSpec
CONSTANTS
    r1 = r1
    r2 = r2
    r3 = r3
    r4 = r4
    p = p
    q = q
    t = t
    w = w
    v = v
    edge = edge
    cloud = cloud
    east = east
    west = west
    A = A
    B = B
    D = D
    F = F
    X = X
    Y = Y
    None = None
    Nodes = {edge, cloud}
    Requests = {r1, r2, r3, r4}
    Stages = {p, q}
    Artifacts = {A, B, D, F, X}
    HasDeadline = {r3}
    Cacheable = {A, D, X}
    Instant = {}
    ZeroWork = {q}
    External = FALSE
    Votes = {TRUE}
    Overheads = {FALSE}
    Boundaries = {FALSE}
    Truncates = FALSE
    MaxBatch = 1
    MaxTogether = 2
    RequestOf <- StageRequests1
    Dependencies <- NoDependencies
    Inputs <- Inputs1
    Outputs <- Outputs1
    Deliverables <- Deliverables1
    Receiver <- Receivers1
    Size <- UnitSizes
    Origins <- Origins1
    Routes <- BothWays
    Storage <- Storage1
    Memory <- OneEach
    Cores <- OneEach
    MemoryOf <- UnitMemory
    Eligible <- OnEdge
INVARIANTS
    NothingLeft
PROPERTIES
    RunEnds
