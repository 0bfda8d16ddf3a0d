--------------------------- MODULE MCEventRuntime ---------------------------
(* Instances of EventRuntime for TLC: two scenarios. *)
EXTENDS EventRuntime, TLC

CONSTANTS r1, r2, r3, r4, p, q, t, w, v, edge, cloud, east, west, A, B, D, F, X, Y

UnitSizes == [a \in Artifacts |-> 1]
UnitMemory == [s \in Stages |-> 1]
OneEach == [n \in Nodes |-> 1]
TwoEach == [n \in Nodes |-> 2]

\* "storage": p (inputs A and B, output X) and q (inputs D and F) share an edge
\* with storage for three artifacts; X is delivered to the cloud, A to the edge;
\* r4 wants more artifacts than the edge can store.
StageRequests1 == p :> r1 @@ q :> r2
NoDependencies == [s \in Stages |-> {}]
Inputs1 == p :> {A, B} @@ q :> {D, F}
Outputs1 == p :> {X} @@ q :> {}
Deliverables1 == r1 :> {X} @@ r2 :> {} @@ r3 :> {A} @@ r4 :> {A, B, D, F}
Receivers1 == r1 :> cloud @@ r2 :> edge @@ r3 :> edge @@ r4 :> edge
Origins1 == {A, B, D, F} \X {cloud}
BothWays == {<<edge, cloud>>, <<cloud, edge>>}
Storage1 == edge :> 3 @@ cloud :> 5
OnEdge == [s \in Stages |-> {edge}]

\* "external": routes lead from the cloud, and from west to east.  p makes X in
\* the cloud, q consumes it in the east and t in the east or west, where its
\* output F is delivered, out of reach from the east.  w contends with p for the
\* cloud's core, memory and storage and delivers B and the empty Y to the east; v
\* fits nowhere.
StageRequests2 == p :> r1 @@ q :> r1 @@ t :> r1 @@ w :> r2 @@ v :> r3
Dependencies2 == p :> {} @@ q :> {p} @@ t :> {p} @@ w :> {} @@ v :> {}
Inputs2 == p :> {A} @@ q :> {X} @@ t :> {X} @@ w :> {} @@ v :> {}
Outputs2 == p :> {X} @@ q :> {} @@ t :> {F} @@ w :> {B, Y} @@ v :> {}
Deliverables2 == r1 :> {F} @@ r2 :> {B, Y} @@ r3 :> {}
Receivers2 == r1 :> west @@ r2 :> east @@ r3 :> west
Sizes2 == [a \in Artifacts |-> IF a = Y THEN 0 ELSE 1]
Origins2 == {<<A, cloud>>}
OneWay == {<<cloud, east>>, <<cloud, west>>, <<west, east>>}
NoLatency == {<<cloud, east>>}
Eligible2 == p :> {cloud} @@ q :> {east} @@ t :> {east, west} @@ w :> {cloud} @@ v :> Nodes
Memory2 == [s \in Stages |-> IF s = v THEN 2 ELSE 1]
=============================================================================
