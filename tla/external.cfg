SPECIFICATION Spec
CONSTANTS
    r1 = r1
    r2 = r2
    r3 = r3
    r4 = r4
    p = p
    q = q
    t = t
    w = w
    v = v
    edge = edge
    cloud = cloud
    east = east
    west = west
    A = A
    B = B
    D = D
    F = F
    X = X
    Y = Y
    None = None
    Nodes = {cloud, east, west}
    Requests = {r1, r2, r3}
    Stages = {p, q, t, w, v}
    Artifacts = {A, B, F, X, Y}
    HasDeadline = {r1}
    Cacheable = {A}
    ZeroWork = {}
    External = TRUE
    Votes = {TRUE, FALSE}
    Overheads = {TRUE, FALSE}
    Boundaries = {TRUE, FALSE}
    Truncates = TRUE
    MaxBatch = 2
    MaxTogether = 1
    RequestOf <- StageRequests2
    Dependencies <- Dependencies2
    Inputs <- Inputs2
    Outputs <- Outputs2
    Deliverables <- Deliverables2
    Receiver <- Receivers2
    Size <- Sizes2
    Origins <- Origins2
    Routes <- OneWay
    Storage <- TwoEach
    Memory <- OneEach
    Cores <- OneEach
    MemoryOf <- Memory2
    Eligible <- Eligible2
    Instant <- NoLatency
INVARIANTS
    LedgersSound
    TransfersSound
PROPERTIES
    OffersStand
    InputsStay
