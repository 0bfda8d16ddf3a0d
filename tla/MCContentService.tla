-------------------------- MODULE MCContentService --------------------------
(* Instances of ContentService for TLC: functions over its sets. *)
EXTENDS ContentService

CONSTANTS r1, r2, r3, r4, r5, artX, artY, c1, c2, s1, s2

\* Three requests of one cluster share an artifact, one of the other wants a
\* larger one; the last is due when it arrives.
WantsXYXXX == r1 :> artX @@ r2 :> artY @@ r3 :> artX @@ r4 :> artX @@ r5 :> artX
ThreeAndTwo == r1 :> s1 @@ r2 :> s2 @@ r3 :> s1 @@ r4 :> s1 @@ r5 :> s2
CachePerCluster == c1 :> s1 @@ c2 :> s2

Arrivals00102 == r1 :> 0 @@ r2 :> 0 @@ r3 :> 1 @@ r4 :> 0 @@ r5 :> 2
Deadlines42442 == r1 :> 4 @@ r2 :> 2 @@ r3 :> 4 @@ r4 :> 4 @@ r5 :> 2

\* Both artifacts fit into the first cache, one of them into the second.
Sizes == artX :> 1 @@ artY :> 2
StorageThreeTwo == c1 :> 3 @@ c2 :> 2
OneSlot == [p \in Pools |-> 1]
TwoPlaces == [p \in Pools |-> 2]
QueueOfOne == [s \in Clusters |-> 1]
UnitService == [s \in Clusters |-> 1]
=============================================================================
