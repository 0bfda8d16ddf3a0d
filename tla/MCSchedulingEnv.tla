-------------------------- MODULE MCSchedulingEnv --------------------------
(* An episode over two clusters, and functions over its sets. *)
EXTENDS SchedulingEnv

CONSTANTS r1, r2, r3, artX, artY, c1, c2, s1, s2

\* Two requests of one cluster share an artifact, one of the other wants another.
WantsXYX == r1 :> artX @@ r2 :> artY @@ r3 :> artX
TwoAndOne == r1 :> s1 @@ r2 :> s2 @@ r3 :> s1
CachePerCluster == c1 :> s1 @@ c2 :> s2
Arrivals001 == r1 :> 0 @@ r2 :> 0 @@ r3 :> 1
Deadlines == [r \in Requests |-> Arrivals001[r] + RelativeDeadline]
Sizes == artX :> 1 @@ artY :> 2
StorageTwo == [c \in Caches |-> 2]
OneSlot == [p \in Pools |-> 1]
NoPlaceToDeliver == [p \in Pools |-> IF p[2] = "delivery" THEN 0 ELSE 1]
QueueOfOne == [s \in Clusters |-> 1]
UnitService == [s \in Clusters |-> 1]
=============================================================================
