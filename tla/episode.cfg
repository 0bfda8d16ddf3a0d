SPECIFICATION EnvSpec
CONSTANTS
    r1 = r1
    r2 = r2
    r3 = r3
    artX = artX
    artY = artY
    c1 = c1
    c2 = c2
    s1 = s1
    s2 = s2
    None = None
    Requests = {r1, r2, r3}
    Artifacts = {artX, artY}
    Caches = {c1, c2}
    Clusters = {s1, s2}
    ArtifactOf <- WantsXYX
    HomeOf <- TwoAndOne
    ArrivalAt <- Arrivals001
    DeadlineAt <- Deadlines
    ClusterOf <- CachePerCluster
    Size <- Sizes
    Storage <- StorageTwo
    MaxActive <- OneSlot
    MaxWaiting <- NoPlaceToDeliver
    QueueLimit <- QueueOfOne
    ServiceTime <- UnitService
    MaxRetries = 1
    RetryDelay = 1
    Coalesce = FALSE
    Release = "window"
    Policies = {"direct", "forward"}
    WindowLengths = {1}
    Horizon = 20
    Cycles = 2
    Period = 1
    RelativeDeadline = 5
INVARIANTS
    WithinLimits
    CacheSound
    WorkConserving
    AttemptsSound
    ControlFits
    CountedOnce
    DrainComplete
PROPERTIES
    DeliveryWinsTie
    KeepsLedger
