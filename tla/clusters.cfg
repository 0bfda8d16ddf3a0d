SPECIFICATION FairSpec
CONSTANTS
    r1 = r1
    r2 = r2
    r3 = r3
    r4 = r4
    r5 = r5
    artX = artX
    artY = artY
    c1 = c1
    c2 = c2
    s1 = s1
    s2 = s2
    None = None
    Requests = {r1, r2, r3, r4, r5}
    Artifacts = {artX, artY}
    Caches = {c1, c2}
    Clusters = {s1, s2}
    ArtifactOf <- WantsXYXXX
    HomeOf <- ThreeAndTwo
    ArrivalAt <- Arrivals00102
    DeadlineAt <- Deadlines42442
    ClusterOf <- CachePerCluster
    Size <- Sizes
    Storage <- StorageThreeTwo
    MaxActive <- OneSlot
    MaxWaiting <- TwoPlaces
    QueueLimit <- QueueOfOne
    ServiceTime <- UnitService
    MaxRetries = 1
    RetryDelay = 0
    Coalesce = TRUE
    Release = "continuous"
    Policies = {"threshold", "forward"}
    WindowLengths = {2}
    Horizon = 8
INVARIANTS
    CountersExact
    HeldOnce
    ReportExact
PROPERTIES
    NoOvertaking
    ForwardedOnce
    RejectedOnlyWhenFull
    EventuallyResolved
