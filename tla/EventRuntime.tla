---------------------------- MODULE EventRuntime ----------------------------
(***************************************************************************)
(* The event-mode runtime (class Runtime): requests run workflows of       *)
(* stages on nodes; a placed stage fetches its input artifacts, waits for  *)
(* a core, memory and storage for its outputs, and runs; when every stage  *)
(* of a request has succeeded its deliverables travel to the receiver.     *)
(*                                                                         *)
(* The runtime is single threaded: advance settles everything that happens *)
(* at the current time, waits for SimGrid or for a date, and repeats.      *)
(* `pc` names the loop that runs next and `round` the part of settle it    *)
(* belongs to; one step is one iteration of a loop.  Time is abstract: a   *)
(* wait ends with some events, whichever the scenario's numbers bring.     *)
(* Where policies order or choose (placement, replica, scheduling and      *)
(* cache plug-ins, or the built-in orders) any order or choice is allowed. *)
(***************************************************************************)
EXTENDS Integers, FiniteSets

CONSTANTS
    Nodes, Requests, Stages, Artifacts,
    RequestOf,     \* [Stages -> Requests]
    Dependencies,  \* [Stages -> SUBSET Stages], by data or explicit
    Inputs,        \* [Stages -> SUBSET Artifacts]
    Outputs,       \* [Stages -> SUBSET Artifacts]
    Deliverables,  \* [Requests -> SUBSET Artifacts], outputs of a request
    Receiver,      \* [Requests -> Nodes]
    HasDeadline,   \* the requests with a deadline
    Size,          \* [Artifacts -> Nat]
    Cacheable,     \* the artifacts kept when nobody needs them
    Origins,       \* the replicas there are at the start, pinned for ever
    Routes,        \* the pairs of nodes with a route
    Instant,       \* the routes without latency
    Storage,       \* [Nodes -> Nat]
    Memory,        \* [Nodes -> Nat]
    Cores,         \* [Nodes -> Nat]
    MemoryOf,      \* [Stages -> Nat], working memory
    Eligible,      \* [Stages -> SUBSET Nodes]
    ZeroWork,      \* the stages of no FLOPs
    External,      \* is the policy outside the worker?
    Votes,         \* what the admission plug-in may answer
    Overheads,     \* may a resumed stage have to wait: a subset of BOOLEAN
    Boundaries,    \* does the client give advance a time limit: likewise
    Truncates,     \* has the run a time limit (until_s)?
    MaxBatch,      \* bound: commands in a batch
    MaxTogether,   \* bound: events at one instant
    None           \* no node, no job

ASSUME SetsAssumption ==
    /\ IsFiniteSet(Nodes) /\ IsFiniteSet(Requests)
    /\ IsFiniteSet(Stages) /\ IsFiniteSet(Artifacts)
    /\ None \notin Nodes \cup Requests \cup Stages
    /\ Stages \cap Requests = {}
ASSUME WorkflowAssumption ==
    /\ RequestOf \in [Stages -> Requests]
    /\ Dependencies \in [Stages -> SUBSET Stages]
    /\ Inputs \in [Stages -> SUBSET Artifacts]
    /\ Outputs \in [Stages -> SUBSET Artifacts]
    /\ Deliverables \in [Requests -> SUBSET Artifacts]
    /\ Receiver \in [Requests -> Nodes]
    /\ HasDeadline \subseteq Requests
    /\ ZeroWork \subseteq Stages
    \* _build and validate_graph: outputs are scoped by request and have one
    \* producer, which its consumers depend on, and no origin.
    /\ \A s, t \in Stages : s # t => Outputs[s] \cap Outputs[t] = {}
    /\ \A s, t \in Stages :
          Outputs[s] \cap Inputs[t] # {} =>
             /\ s \in Dependencies[t]
             /\ RequestOf[s] = RequestOf[t]
    /\ \A s \in Stages : \A d \in Dependencies[s] : RequestOf[d] = RequestOf[s]
    /\ \A o \in Origins, s \in Stages : o[1] \notin Outputs[s]
    \* What the stages of a request make and none of them reads is delivered;
    \* what a request without stages delivers is made by no stage.
    /\ \A r \in Requests : \A a \in Deliverables[r] :
          \/ /\ \E s \in Stages : RequestOf[s] = r /\ a \in Outputs[s]
             /\ \A s \in Stages : RequestOf[s] = r => a \notin Inputs[s]
          \/ ~\E s \in Stages : RequestOf[s] = r \/ a \in Outputs[s]
ASSUME PlatformAssumption ==
    /\ Size \in [Artifacts -> Nat]
    /\ Cacheable \subseteq Artifacts
    /\ Origins \subseteq Artifacts \X Nodes
    /\ Routes \subseteq Nodes \X Nodes /\ Instant \subseteq Routes
    /\ Storage \in [Nodes -> Nat] /\ Memory \in [Nodes -> Nat]
    /\ Cores \in [Nodes -> Nat \ {0}]
    /\ MemoryOf \in [Stages -> Nat]
    /\ Eligible \in [Stages -> SUBSET Nodes]
ASSUME ControlAssumption ==
    /\ External \in BOOLEAN /\ Truncates \in BOOLEAN
    /\ Votes \subseteq BOOLEAN /\ Overheads \subseteq BOOLEAN
    /\ Boundaries \subseteq BOOLEAN
    /\ MaxBatch \in Nat /\ MaxTogether \in Nat \ {0}

Keys == Artifacts \X Nodes    \* of replicas and of transfers

VARIABLES
    pc, round,      \* the loop that runs next, the part of settle it is in
    requests,       \* request_states: the status of each request
    come, late,     \* requests whose arrival, whose deadline is reached
    stages, node,   \* the status of each stage, the node it was placed on
    delayed,        \* resumed stages whose ready_after_s is not reached
    replicas,       \* the replicas: artifact and node
    source,         \* the node a transfer comes from, None: no transfer
    waiters,        \* the stages and requests a transfer is for
    landed,         \* transfers SimGrid has ended, not reaped yet
    execs, ended,   \* stages with an activity, those SimGrid has ended
    storage,        \* ledger: artifacts with storage on a node
    memory,         \* ledger: stages with memory on a node
    todo,           \* what the running loop has still to visit
    job,            \* the visit it is in the middle of
    changed, passes, expired,
    placements,     \* placements collected by the running pass
    pending,        \* is a decision waiting for the external policy?
    batch,          \* commands of the batch not applied yet
    dirty, since,   \* decision_dirty, changed_since_decision
    wake, boundary, horizon,  \* wake_s, until_time and until_s
    reason          \* finished_reason

requestVars == <<requests, come, late>>
stageVars == <<stages, node, delayed>>
dataVars == <<replicas, source, waiters, storage>>
execVars == <<execs, memory>>
engineVars == <<landed, ended>>
loopVars == <<round, todo, job, changed, passes, expired, placements>>
clientVars == <<pending, batch, dirty, wake, boundary, horizon, reason>>
\* What only the loops of settle change, and `since`, is left to Next.
vars == <<pc, requestVars, stageVars, dataVars, execVars, engineVars, loopVars,
          clientVars, since>>

Active(r) == requests[r] = "ACTIVE"
Unresolved == {"PENDING", "ACTIVE"}
Over == {"SUCCEEDED", "FAILED", "CANCELLED"}
StagesOf(r) == {s \in Stages : RequestOf[s] = r}
Having(status) == {s \in Stages : stages[s] = status}
Copies(a) == {n \in Nodes : <<a, n>> \in replicas}
Reaches(m, n) == m = n \/ <<m, n>> \in Routes

\* The sum of the sizes of a set of artifacts, of the memory of a set of stages.
Used(S) == Cardinality(UNION {{a} \X (1 .. Size[a]) : a \in S})
MemoryUsed(S) == Cardinality(UNION {{s} \X (1 .. MemoryOf[s]) : s \in S})

\* validate_references: the initial artifacts do not exceed the storage of a node.
ASSUME OriginsAssumption ==
    \A n \in Nodes : Used({a \in Artifacts : <<a, n>> \in Origins}) <= Storage[n]

-----------------------------------------------------------------------------
(***************************************************************************)
(* Replicas: what may go, and room for what comes.                         *)
(***************************************************************************)

\* Where a stage can ever run.
Feasible(s) ==
    {n \in Eligible[s] : /\ MemoryOf[s] <= Memory[n]
                         /\ Used(Inputs[s] \cup Outputs[s]) <= Storage[n]}

\* _candidates: where it can run now, its inputs being where they are.
Candidates(s) ==
    {n \in Feasible(s) : \A a \in Inputs[s] :
        Copies(a) = {} \/ \E m \in Copies(a) : Reaches(m, n)}

\* Where an artifact is still needed: by unfinished stages and by receivers.
DestinationsOfUnplaced(a, rq, st) == \* variant
    (UNION {IF node[s] # None THEN {} ELSE Feasible(s) :
             s \in {u \in Stages : /\ rq[RequestOf[u]] = "ACTIVE"
                                   /\ st[u] \notin Over /\ a \in Inputs[u]}})
    \cup {Receiver[r] : r \in {q \in Requests : rq[q] = "ACTIVE" /\ a \in Deliverables[q]}}
Destinations(a, rq, st) ==
    (UNION {IF node[s] # None THEN {node[s]} ELSE Feasible(s) :
             s \in {u \in Stages : /\ rq[RequestOf[u]] = "ACTIVE"
                                   /\ st[u] \notin Over /\ a \in Inputs[u]}})
    \cup {Receiver[r] : r \in {q \in Requests : rq[q] = "ACTIVE" /\ a \in Deliverables[q]}}

\* Is the replica of a on n the only one that reaches d?
NeededUnlessCopied(a, n, d, R) == Reaches(n, d) /\ ~\E m \in Nodes \ {n} : <<a, m>> \in R \* variant
NeededNowhere(a, n, d, R) == FALSE \* variant
NeededAt(a, n, d, R) ==
    /\ Reaches(n, d)
    /\ ~\E m \in Nodes \ {n} : <<a, m>> \in R /\ Reaches(m, d)

ReadNowhere(a, n, src) == FALSE \* variant
Read(a, n, src) == \E k \in Keys : k[1] = a /\ src[k] = n

\* _pin, in a state given by its replicas, requests, stages and transfers.
Pinned(k, R, rq, st, src) ==
    \/ k \in Origins
    \/ Read(k[1], k[2], src)
    \/ \E d \in Destinations(k[1], rq, st) :
          k[2] = d \/ NeededAt(k[1], k[2], d, R)

\* _collect_data: the replicas left when the uncacheable ones nobody needs are
\* gone, whatever the order they are looked at in.
Collected(R, rq, st, src) ==
    {K \in {R \ S : S \in SUBSET {k \in R : k[1] \notin Cacheable}} :
        \A k \in R : k[1] \notin Cacheable =>
            (k \in K <=> Pinned(k, K \cup {k}, rq, st, src))}

\* _reserve_data: evictions go on until the artifact fits or nothing is left.
\* Replicas of one node do not pin each other, so any set will do of which some
\* member was evicted last, while the artifact did not fit yet.
Evictable(n) ==
    {a \in Artifacts : /\ <<a, n>> \in replicas
                       /\ ~Pinned(<<a, n>>, replicas, requests, stages, source)}
Fits(a, n, E) == Used(storage[n] \ E) + Size[a] <= Storage[n]
Evictions(a, n) ==
    IF Fits(a, n, {}) THEN {{}}
    ELSE {E \in SUBSET Evictable(n) :
             /\ Fits(a, n, E) \/ E = Evictable(n)
             /\ E # {} => \E e \in E : ~Fits(a, n, E \ {e})}

\* The evictions of a reservation and whether it succeeds.
Reservations(a, n) ==
    IF a \in storage[n] THEN {[evicted |-> {}, ok |-> TRUE]}
    ELSE IF Size[a] > Storage[n] THEN {[evicted |-> {}, ok |-> FALSE]}
    ELSE {[evicted |-> E, ok |-> Fits(a, n, E)] : E \in Evictions(a, n)}

-----------------------------------------------------------------------------
(***************************************************************************)
(* Handlers.                                                               *)
(***************************************************************************)
NoJob == [for |-> None, rest |-> {}, ok |-> TRUE, taken |-> {}]
JobFor(w, artifacts) == [for |-> w, rest |-> artifacts, ok |-> TRUE, taken |-> {}]
At(w) == IF w \in Requests THEN Receiver[w] ELSE node[w]

\* _finish_request: the stages that have not ended are cancelled and give back
\* what they hold; a transfer nobody waits for any more is cancelled.
FreedOutputs(s, n) == IF node[s] = n THEN {a \in Outputs[s] : <<a, n>> \notin replicas} ELSE {}
Finish(r, outcome) ==
    LET mine == {s \in StagesOf(r) : stages[s] \notin Over}
        rq == [requests EXCEPT ![r] = outcome]
        st == [s \in Stages |-> IF s \in mine THEN "CANCELLED" ELSE stages[s]]
        left == [k \in Keys |-> waiters[k] \ ({r} \cup StagesOf(r))]
        dropped == {k \in Keys : source[k] # None /\ left[k] = {}}
        src == [k \in Keys |-> IF k \in dropped THEN None ELSE source[k]]
    IN /\ requests[r] \in Unresolved
       /\ requests' = rq
       /\ stages' = st
       /\ waiters' = left
       /\ source' = src
       /\ landed' = landed \ dropped
       /\ execs' = execs \ mine
       /\ ended' = ended \ mine
       /\ memory' = [n \in Nodes |-> memory[n] \ mine]
       /\ \E R \in Collected(replicas, rq, st, src) :
            /\ replicas' = R
            /\ storage' = [n \in Nodes |->
                 storage[n] \ ((UNION {FreedOutputs(s, n) : s \in mine})
                               \cup {a \in Artifacts : \/ <<a, n>> \in dropped
                                                       \/ <<a, n>> \in replicas \ R})]
       /\ UNCHANGED <<come, late, node, delayed>>

\* The states Finish changes.
finishVars == <<requestVars, stageVars, dataVars, execVars, engineVars>>

Loop(phase, items) == pc' = phase /\ todo' = items
Visit(x) == x \in todo /\ job.for = None /\ todo' = todo \ {x}

-----------------------------------------------------------------------------
(***************************************************************************)
(* settle: completions, deliveries, deadlines, arrivals.                   *)
(***************************************************************************)

\* _reap: a transfer that has ended is a replica, a stage that has ended gives
\* back its memory and leaves its outputs.
WaitersAfter(k, K) == IF k \in K THEN {} ELSE waiters[k]
Reap ==
    LET done == {s \in ended : stages[s] # "SUSPENDED"}
    IN /\ pc = "reap"
       /\ replicas' = replicas \cup landed
                      \cup UNION {Outputs[s] \X {node[s]} : s \in done}
       /\ source' = [k \in Keys |-> IF k \in landed THEN None ELSE source[k]]
       /\ waiters' = [k \in Keys |-> WaitersAfter(k, landed)]
       /\ landed' = {}
       /\ stages' = [s \in Stages |-> IF s \in done THEN "SUCCEEDED" ELSE stages[s]]
       /\ execs' = execs \ done
       /\ ended' = ended \ done
       /\ memory' = [n \in Nodes |-> memory[n] \ done]
       /\ changed' = (changed \/ landed # {} \/ done # {})
       /\ Loop("deliver", Requests)
       /\ UNCHANGED <<requestVars, node, delayed, storage, round, job, passes,
                      expired, placements, clientVars>>

\* _deliver_completed, for a request whose stages have all succeeded: it fetches
\* the deliverables, and when all are there the request is done.
AllSucceeded(r) == \A s \in StagesOf(r) : stages[s] = "SUCCEEDED"
Deliver(r) ==
    /\ pc = "deliver"
    /\ Visit(r)
    /\ Active(r) /\ AllSucceeded(r)
    /\ job' = JobFor(r, Deliverables[r])
    /\ UNCHANGED <<pc, finishVars, round, changed, passes, expired, placements,
                   clientVars>>

Delivered(r) ==
    /\ pc = "deliver"
    /\ job.for = r /\ job.rest = {}
    /\ job' = NoJob
    /\ IF job.ok
       THEN Finish(r, "SUCCEEDED") /\ changed' = TRUE
       ELSE UNCHANGED <<finishVars, changed>>
    /\ UNCHANGED <<pc, round, todo, passes, expired, placements, clientVars>>

\* _ensure_data, one artifact of a visit.
Fetch(a) == pc \in {"deliver", "data"} /\ a \in job.rest
Fetched(a) == job' = [job EXCEPT !.rest = @ \ {a}]
NotFetched(a) == job' = [job EXCEPT !.rest = @ \ {a}, !.ok = FALSE]
fetchFrame == <<pc, requestVars, stageVars, execVars, engineVars, round, todo,
                changed, passes, expired, placements, clientVars>>

HaveReplica(a) ==
    /\ Fetch(a)
    /\ <<a, At(job.for)>> \in replicas
    /\ Fetched(a)
    /\ UNCHANGED <<dataVars, fetchFrame>>

JoinTransfer(a) ==
    LET k == <<a, At(job.for)>>
    IN /\ Fetch(a)
       /\ k \notin replicas
       /\ source[k] # None
       /\ waiters' = [waiters EXCEPT ![k] = @ \cup {job.for}]
       /\ NotFetched(a)
       /\ UNCHANGED <<replicas, source, storage, fetchFrame>>

Sources(a, n) == {m \in Copies(a) : <<m, n>> \in Routes}
Wanted(a) ==
    LET k == <<a, At(job.for)>>
    IN Fetch(a) /\ k \notin replicas /\ source[k] = None

NoSource(a) ==
    /\ Wanted(a)
    /\ Sources(a, At(job.for)) = {}
    /\ NotFetched(a)
    /\ UNCHANGED <<dataVars, fetchFrame>>

Evicted(n, E) == replicas' = replicas \ (E \X {n})

NoRoom(a) ==
    LET n == At(job.for)
    IN /\ Wanted(a)
       /\ Sources(a, n) # {}
       /\ \E v \in Reservations(a, n) :
            /\ ~v.ok
            /\ Evicted(n, v.evicted)
            /\ storage' = [storage EXCEPT ![n] = @ \ v.evicted]
       /\ NotFetched(a)
       /\ UNCHANGED <<source, waiters, fetchFrame>>

StartTransfer(a) ==
    LET n == At(job.for)
        k == <<a, n>>
    IN /\ Wanted(a)
       /\ \E m \in Sources(a, n), v \in Reservations(a, n) :
            /\ v.ok
            /\ storage' = [storage EXCEPT ![n] = (@ \ v.evicted) \cup {a}]
            /\ IF Size[a] = 0 /\ <<m, n>> \in Instant
               THEN /\ replicas' = (replicas \ (v.evicted \X {n})) \cup {k}
                    /\ Fetched(a)
                    /\ UNCHANGED <<source, waiters>>
               ELSE /\ Evicted(n, v.evicted)
                    /\ source' = [source EXCEPT ![k] = m]
                    /\ waiters' = [waiters EXCEPT ![k] = {job.for}]
                    /\ NotFetched(a)
       /\ UNCHANGED fetchFrame

\* _expire_deadlines.
Expire(r) ==
    /\ pc = "expire"
    /\ Active(r) /\ r \in late
    /\ Finish(r, "TIMED_OUT")
    /\ expired' = TRUE
    /\ UNCHANGED <<pc, round, todo, job, changed, passes, placements, clientVars>>

\* A request arrives; one without stages is refused at once when its receiver
\* can never have the content, any one when the admission plug-in says so.
ReceiverInfeasible(r) ==
    /\ StagesOf(r) = {}
    /\ \/ Used(Deliverables[r]) > Storage[Receiver[r]]
       \/ \E a \in Deliverables[r] : ~\E m \in Nodes :
             <<a, m>> \in Origins /\ Reaches(m, Receiver[r])
Arrive(r) ==
    /\ pc = "arrive"
    /\ requests[r] = "PENDING" /\ r \in come
    /\ ~ReceiverInfeasible(r) /\ TRUE \in Votes
    /\ requests' = [requests EXCEPT ![r] = "ACTIVE"]
    /\ UNCHANGED <<pc, come, late, stageVars, dataVars, execVars, engineVars,
                   loopVars, clientVars>>
Refuse(r) ==
    /\ pc = "arrive"
    /\ requests[r] = "PENDING" /\ r \in come
    /\ ReceiverInfeasible(r) \/ FALSE \in Votes
    /\ Finish(r, "REJECTED")
    /\ UNCHANGED <<pc, loopVars, clientVars>>

-----------------------------------------------------------------------------
(***************************************************************************)
(* _settle_active, one pass: ready stages, placements, data, dispatch.     *)
(***************************************************************************)

\* A stage whose predecessors have succeeded is ready; unless the policy is
\* external it is placed on a candidate, and its request is rejected without one.
MayBeReady(s) ==
    /\ Active(RequestOf[s])
    /\ \/ stages[s] = "READY"
       \/ /\ stages[s] = "WAITING_DEPENDENCIES"
          /\ \A d \in Dependencies[s] : stages[d] = "SUCCEEDED"
MakeReady(s) ==
    /\ pc = "ready"
    /\ Visit(s)
    /\ MayBeReady(s)
    /\ \/ /\ Candidates(s) = {}
          /\ Finish(RequestOf[s], "REJECTED")
          /\ changed' = TRUE
          /\ UNCHANGED placements
       \/ /\ stages' = [stages EXCEPT ![s] = "READY"]
          /\ IF External
             THEN /\ Candidates(s) # {}
                  /\ changed' = (changed \/ stages[s] # "READY")
                  /\ UNCHANGED placements
             ELSE /\ \E n \in Candidates(s) : placements' = [placements EXCEPT ![s] = n]
                  /\ changed' = TRUE
          /\ UNCHANGED <<requestVars, node, delayed, dataVars, execVars, engineVars>>
    /\ UNCHANGED <<pc, round, job, passes, expired, clientVars>>

\* The placements of requests still active are applied: apply refuses one whose
\* node is no candidate any more.
PlaceAll ==
    LET placed == {s \in Stages : placements[s] # None /\ Active(RequestOf[s])}
    IN /\ pc = "ready"
       /\ ~\E s \in todo : MayBeReady(s)
       /\ \A s \in placed : stages[s] = "READY" /\ placements[s] \in Candidates(s)
       /\ stages' = [s \in Stages |-> IF s \in placed THEN "WAITING_DATA" ELSE stages[s]]
       /\ node' = [s \in Stages |-> IF s \in placed THEN placements[s] ELSE node[s]]
       /\ placements' = [s \in Stages |-> None]
       /\ Loop("data", Stages)
       /\ UNCHANGED <<requestVars, delayed, dataVars, execVars, engineVars, round,
                      job, changed, passes, expired, clientVars>>

\* A placed stage fetches its inputs and queues when it has them all.
Gather(s) ==
    /\ pc = "data"
    /\ Visit(s)
    /\ Active(RequestOf[s]) /\ stages[s] = "WAITING_DATA"
    /\ job' = JobFor(s, Inputs[s])
    /\ UNCHANGED <<pc, finishVars, round, changed, passes, expired, placements,
                   clientVars>>

Gathered(s) ==
    /\ pc = "data"
    /\ job.for = s /\ job.rest = {}
    /\ job' = NoJob
    /\ IF job.ok
       THEN stages' = [stages EXCEPT ![s] = "QUEUED"] /\ changed' = TRUE
       ELSE UNCHANGED <<stages, changed>>
    /\ UNCHANGED <<pc, requestVars, node, delayed, dataVars, execVars, engineVars,
                   round, todo, passes, expired, placements, clientVars>>

\* _dispatch: a queued stage starts, or resumes, when it has a core, its memory
\* and room for its outputs.
Running(n) == {s \in Stages : stages[s] = "RUNNING" /\ node[s] = n}
MemoryFits(s, n) == s \in memory[n] \/ MemoryUsed(memory[n]) + MemoryOf[s] <= Memory[n]
Dispatchable(s) ==
    /\ stages[s] = "QUEUED" /\ s \notin delayed
    /\ Cardinality(Running(node[s])) < Cores[node[s]]
    /\ MemoryFits(s, node[s])
Dispatch(s) ==
    /\ pc = "dispatch"
    /\ Visit(s)
    /\ Dispatchable(s)
    /\ job' = JobFor(s, Outputs[s] \ storage[node[s]])
    /\ UNCHANGED <<pc, finishVars, round, changed, passes, expired, placements,
                   clientVars>>
SkipStage(s) ==
    /\ pc = "dispatch"
    /\ Visit(s)
    /\ ~Dispatchable(s)
    /\ UNCHANGED <<pc, finishVars, round, job, changed, passes, expired,
                   placements, clientVars>>

\* One output is reserved; if it does not fit those before it are given back.
GiveBackNothing == {} \* variant
GiveBack == job.taken
ReserveOutput(a) ==
    LET n == node[job.for]
    IN /\ pc = "dispatch"
       /\ a \in job.rest
       /\ \E v \in Reservations(a, n) :
            /\ Evicted(n, v.evicted)
            /\ IF v.ok
               THEN /\ storage' = [storage EXCEPT ![n] = (@ \ v.evicted) \cup {a}]
                    /\ job' = [job EXCEPT !.rest = @ \ {a}, !.taken = @ \cup {a}]
               ELSE /\ storage' = [storage EXCEPT ![n] = @ \ (v.evicted \cup GiveBack)]
                    /\ job' = NoJob
       /\ UNCHANGED <<source, waiters, fetchFrame>>

StartStage(s) ==
    /\ pc = "dispatch"
    /\ job.for = s /\ job.rest = {}
    /\ job' = NoJob
    /\ stages' = [stages EXCEPT ![s] = "RUNNING"]
    /\ memory' = [memory EXCEPT ![node[s]] = @ \cup {s}]
    /\ execs' = execs \cup {s}
    /\ ended' = IF s \in ZeroWork THEN ended \cup {s} ELSE ended
    /\ changed' = TRUE
    /\ UNCHANGED <<pc, requestVars, node, delayed, dataVars, landed, round, todo,
                   passes, expired, placements, clientVars>>

-----------------------------------------------------------------------------
(***************************************************************************)
(* The ends of the loops.                                                  *)
(***************************************************************************)
restFrame == <<finishVars, job, placements, clientVars>>
OnePass == 1 \* variant
MaxPasses == Cardinality(Stages) + Cardinality(Artifacts) + 2

\* A pass of _settle_active begins.
Pass(number) ==
    /\ Loop("ready", Stages)
    /\ passes' = number
    /\ changed' = FALSE

EndDeliver ==
    /\ pc = "deliver"
    /\ job.for = None
    /\ ~\E r \in todo : Active(r) /\ AllSucceeded(r)
    /\ UNCHANGED <<round, expired>>
    /\ CASE changed /\ round = "first" ->
              Loop("reap", {}) /\ changed' = FALSE /\ UNCHANGED passes
         [] changed /\ round # "first" /\ passes < MaxPasses ->
              Pass(passes + 1)
         [] OTHER ->
              /\ Loop(IF round = "again" THEN "collect" ELSE "expire", {})
              /\ changed' = FALSE /\ passes' = 0
    /\ UNCHANGED restFrame

\* Deadlines are looked at after the completions and again after the first
\* fixed point; when one has passed the passes are run again.
EndExpire ==
    /\ pc = "expire"
    /\ ~\E r \in Requests : Active(r) /\ r \in late
    /\ expired' = FALSE
    /\ IF round = "active" /\ expired
       THEN round' = "again" /\ Pass(1)
       ELSE /\ Loop(IF round = "first" THEN "arrive" ELSE "collect", {})
            /\ UNCHANGED <<round, changed, passes>>
    /\ UNCHANGED restFrame

EndArrive ==
    /\ pc = "arrive"
    /\ ~\E r \in Requests : requests[r] = "PENDING" /\ r \in come
    /\ round' = "active"
    /\ Pass(1)
    /\ UNCHANGED <<expired, restFrame>>

EndData ==
    /\ pc = "data"
    /\ job.for = None
    /\ ~\E s \in todo : Active(RequestOf[s]) /\ stages[s] = "WAITING_DATA"
    /\ Loop("dispatch", Having("QUEUED"))
    /\ UNCHANGED <<round, changed, passes, expired, restFrame>>

EndDispatch ==
    /\ pc = "dispatch"
    /\ job.for = None /\ todo = {}
    /\ Loop("reap", {})
    /\ UNCHANGED <<round, changed, passes, expired, restFrame>>

\* settle ends with _collect_data.
Collect ==
    /\ pc = "collect"
    /\ \E R \in Collected(replicas, requests, stages, source) :
         /\ replicas' = R
         /\ storage' = [n \in Nodes |->
                          storage[n] \ {a \in Artifacts : <<a, n>> \in replicas \ R}]
    /\ pc' = "return"
    /\ UNCHANGED <<requestVars, stageVars, source, waiters, execVars, engineVars,
                   loopVars, clientVars>>

-----------------------------------------------------------------------------
(***************************************************************************)
(* advance, apply and close.                                               *)
(***************************************************************************)
Settling == round' = "first" /\ Loop("reap", {}) /\ changed' = FALSE

\* A client asks for the next decision, boundary or end.  With a decision
\* pending it gets that one again.
Advance(limit) ==
    /\ pc = "idle"
    /\ ~pending /\ reason = "none"
    /\ boundary' \in IF limit THEN {"set", "due"} ELSE {"none"}
    /\ since' = dirty
    /\ dirty' = FALSE
    /\ Settling
    /\ UNCHANGED <<finishVars, job, passes, expired, placements, pending, batch,
                   wake, horizon, reason>>

Completed == \A r \in Requests : requests[r] \notin Unresolved
Decides == /\ External
           /\ wake = "due" \/ (since /\ wake = "none")
           /\ \E r \in Requests : Active(r)

\* _decision: what the policy may place where.
Offer == [s \in Having("READY") |-> Candidates(s)]

\* What advance does once everything is settled.
Return ==
    /\ pc = "return"
    /\ UNCHANGED <<finishVars, loopVars, batch, dirty, boundary, horizon>>
    /\ wake' = IF wake = "due" /\ reason = "none" /\ ~Completed /\ horizon # "due"
               THEN "none" ELSE wake
    /\ CASE reason # "none" \/ Completed \/ horizon = "due" ->
              /\ reason' = IF reason # "none" THEN reason
                           ELSE IF Completed THEN "completed" ELSE "truncated"
              /\ pc' = "idle" /\ UNCHANGED pending
         [] reason = "none" /\ ~Completed /\ horizon # "due" /\ Decides ->
              pending' = TRUE /\ pc' = "idle" /\ UNCHANGED reason
         [] reason = "none" /\ ~Completed /\ horizon # "due" /\ ~Decides ->
              /\ pc' = IF boundary = "due" THEN "idle" ELSE "wait"
              /\ UNCHANGED <<pending, reason>>

\* What a wait may end with.
Transferring == {k \in Keys : source[k] # None}
Computing == Having("RUNNING")
Events ==
    {<<"landed", k>> : k \in Transferring}
    \cup {<<"ended", s>> : s \in Computing}
    \cup {<<"arrival", r>> : r \in {q \in Requests : requests[q] = "PENDING"}}
    \cup {<<"deadline", r>> : r \in {q \in HasDeadline : requests[q] \in Unresolved}}
    \cup {<<"resume", s>> : s \in Having("QUEUED") \cap delayed}
    \cup {<<x, None>> : x \in {"wake", "boundary", "horizon"}}
Possible(e) ==
    /\ e[1] = "wake" => wake = "set"
    /\ e[1] = "boundary" => boundary = "set"
    /\ e[1] = "horizon" => horizon = "set"
Occasions == {e \in Events : Possible(e)}
Of(E, tag) == {e[2] : e \in {f \in E : f[1] = tag}}
Reached(timer, E, tag) == IF <<tag, None>> \in E THEN "due" ELSE timer

\* _wait: SimGrid and the dates; deadlines come after arrivals.
Wait(E) ==
    /\ pc = "wait"
    /\ E # {} /\ Cardinality(E) <= MaxTogether
    /\ \A r \in Of(E, "deadline") : Active(r) \/ r \in Of(E, "arrival")
    /\ landed' = Of(E, "landed")
    /\ ended' = ended \cup Of(E, "ended")
    /\ come' = come \cup Of(E, "arrival")
    /\ late' = late \cup Of(E, "deadline")
    /\ delayed' = delayed \ Of(E, "resume")
    /\ wake' = Reached(wake, E, "wake")
    /\ boundary' = Reached(boundary, E, "boundary")
    /\ horizon' = Reached(horizon, E, "horizon")
    /\ Settling
    /\ UNCHANGED <<requests, stages, node, dataVars, execVars, job, passes,
                   expired, placements, pending, batch, dirty, reason>>

\* Nothing runs and no date is left: the run is deadlocked.
Deadlock ==
    /\ pc = "wait"
    /\ Occasions = {}
    /\ reason' = "deadlock"
    /\ pc' = "fail"
    /\ UNCHANGED <<finishVars, loopVars, pending, batch, dirty, wake, boundary,
                   horizon>>
Fail(r) ==
    /\ pc = "fail"
    /\ Active(r)
    /\ Finish(r, "FAILED")
    /\ UNCHANGED <<pc, loopVars, clientVars>>
EndFail ==
    /\ pc = "fail"
    /\ ~\E r \in Requests : Active(r)
    /\ Settling
    /\ UNCHANGED <<finishVars, job, passes, expired, placements, clientVars>>

\* apply: a batch of commands, each valid on its own and with the others.
Commands ==
    {<<"place", s, n>> : s \in Having("READY"), n \in Nodes}
    \cup {<<"suspend", s, None>> : s \in Having("RUNNING")}
    \cup {<<"resume", s, None>> : s \in Having("SUSPENDED")}
    \cup {<<"reject", r, None>> : r \in {q \in Requests : Active(q)}}
    \cup {<<"defer", None, None>>}
Valid(c, B) ==
    /\ c[1] = "place" => c[3] \in Candidates(c[2])
    /\ c[1] \in {"place", "suspend", "resume"} =>
          <<"reject", RequestOf[c[2]], None>> \notin B
    /\ \A d \in B \ {c} : d[2] # c[2]
Apply(B) ==
    /\ pc = "idle"
    /\ pending
    /\ B # {} /\ Cardinality(B) <= MaxBatch
    /\ \A c \in B : Valid(c, B)
    /\ batch' = B
    /\ pc' = "apply"
    /\ UNCHANGED <<finishVars, loopVars, pending, dirty, wake, boundary, horizon,
                   reason>>

\* One command of the batch.
ApplyCommand(c) ==
    LET s == c[2]
    IN /\ pc = "apply"
       /\ c \in batch
       /\ batch' = batch \ {c}
       /\ \/ /\ c[1] = "place"
             /\ stages' = [stages EXCEPT ![s] = "WAITING_DATA"]
             /\ node' = [node EXCEPT ![s] = c[3]]
             /\ UNCHANGED <<delayed, wake>>
          \/ /\ c[1] = "suspend"
             /\ stages' = [stages EXCEPT ![s] = "SUSPENDED"]
             /\ UNCHANGED <<node, delayed, wake>>
          \/ /\ c[1] = "resume"
             /\ stages' = [stages EXCEPT ![s] = "QUEUED"]
             /\ \E wait \in Overheads :
                  delayed' = IF wait THEN delayed \cup {s} ELSE delayed
             /\ UNCHANGED <<node, wake>>
          \/ /\ c[1] = "reject"
             /\ Finish(s, "REJECTED")
             /\ UNCHANGED wake
          \/ /\ c[1] = "defer"
             /\ wake' = "set"
             /\ UNCHANGED stageVars
       /\ c[1] # "reject" => UNCHANGED <<requestVars, dataVars, execVars, engineVars>>
       /\ UNCHANGED <<pc, loopVars, pending, dirty, boundary, horizon, reason>>

EndApply ==
    /\ pc = "apply"
    /\ batch = {}
    /\ pending' = FALSE
    /\ dirty' = TRUE
    /\ pc' = "idle"
    /\ UNCHANGED <<finishVars, loopVars, batch, wake, boundary, horizon, reason>>

Close ==
    /\ pc = "idle"
    /\ pc' = "closed"
    /\ execs' = {} /\ ended' = {} /\ landed' = {}
    /\ UNCHANGED <<requestVars, stageVars, dataVars, memory, loopVars, clientVars>>

Closed == pc = "closed" /\ UNCHANGED vars

-----------------------------------------------------------------------------
Init ==
    /\ pc = "idle" /\ round = "first"
    /\ requests = [r \in Requests |-> "PENDING"]
    /\ come \in SUBSET Requests /\ late \in SUBSET (come \cap HasDeadline)
    /\ stages = [s \in Stages |-> "WAITING_DEPENDENCIES"]
    /\ node = [s \in Stages |-> None] /\ delayed = {}
    /\ replicas = Origins
    /\ source = [k \in Keys |-> None] /\ waiters = [k \in Keys |-> {}]
    /\ landed = {} /\ execs = {} /\ ended = {}
    /\ storage = [n \in Nodes |-> {a \in Artifacts : <<a, n>> \in Origins}]
    /\ memory = [n \in Nodes |-> {}]
    /\ todo = {} /\ job = NoJob
    /\ changed = FALSE /\ passes = 0 /\ expired = FALSE
    /\ placements = [s \in Stages |-> None]
    /\ pending = FALSE /\ batch = {} /\ dirty = FALSE /\ since = FALSE
    /\ wake = "none" /\ boundary = "none"
    /\ horizon = IF Truncates THEN "set" ELSE "none"
    /\ reason = "none"

\* The steps of settle emit events, and so raise `revision`, exactly when one
\* of these changes; _collect_data alone is silent.
Emits == pc # "collect" /\ <<requests, stages, source, replicas>>'
                           # <<requests, stages, source, replicas>>
Settle ==
    /\ \/ Reap \/ PlaceAll
       \/ \E r \in Requests : \/ Deliver(r) \/ Delivered(r) \/ Expire(r)
                              \/ Arrive(r) \/ Refuse(r) \/ Fail(r)
       \/ \E a \in Artifacts : \/ HaveReplica(a) \/ JoinTransfer(a) \/ NoSource(a)
                               \/ NoRoom(a) \/ StartTransfer(a) \/ ReserveOutput(a)
       \/ \E s \in Stages : \/ MakeReady(s) \/ Gather(s) \/ Gathered(s)
                            \/ Dispatch(s) \/ SkipStage(s) \/ StartStage(s)
       \/ EndDeliver \/ EndExpire \/ EndArrive \/ EndData \/ EndDispatch
       \/ Collect \/ Return \/ Deadlock \/ EndFail
    /\ since' = (External /\ (since \/ Emits))
Sleep == \E E \in SUBSET Occasions : Wait(E) /\ since' = External
Decision ==
    /\ \/ \E B \in SUBSET Commands : Apply(B)
       \/ \E c \in batch : ApplyCommand(c)
       \/ EndApply
    /\ UNCHANGED since

Next == \/ Settle \/ Sleep \/ Decision
        \/ \E limit \in Boundaries : Advance(limit)
        \/ Close /\ UNCHANGED since
        \/ Closed

Spec == Init /\ [][Next]_vars

\* The worker executes its loop, SimGrid ends what it runs, and the client of a
\* run with a built-in policy calls advance until the run has finished.
FairSpec == Spec /\ WF_vars(Settle) /\ WF_vars(Sleep) /\ WF_vars(Advance(FALSE))

-----------------------------------------------------------------------------
(***************************************************************************)
(* Properties.                                                             *)
(***************************************************************************)
StageStatuses == {"WAITING_DEPENDENCIES", "READY", "WAITING_DATA", "QUEUED",
                  "RUNNING", "SUSPENDED"} \cup Over
RequestStatuses == Unresolved \cup {"SUCCEEDED", "REJECTED", "FAILED", "TIMED_OUT"}
Phases == {"idle", "reap", "deliver", "expire", "arrive", "ready", "data",
           "dispatch", "collect", "return", "wait", "fail", "apply", "closed"}
Timers == {"none", "set", "due"}

\* The type of every variable; a transfer has waiters exactly while it lasts.
TypeOK ==
    /\ pc \in Phases /\ round \in {"first", "active", "again"}
    /\ requests \in [Requests -> RequestStatuses]
    /\ come \subseteq Requests /\ late \subseteq come \cap HasDeadline
    /\ stages \in [Stages -> StageStatuses]
    /\ node \in [Stages -> Nodes \cup {None}] /\ delayed \subseteq Stages
    /\ replicas \subseteq Keys
    /\ source \in [Keys -> Nodes \cup {None}]
    /\ waiters \in [Keys -> SUBSET (Stages \cup Requests)]
    /\ \A k \in Keys : source[k] = None <=> waiters[k] = {}
    /\ landed \subseteq Transferring
    /\ execs \subseteq Stages /\ ended \subseteq execs
    /\ storage \in [Nodes -> SUBSET Artifacts]
    /\ memory \in [Nodes -> SUBSET Stages]
    /\ todo \subseteq Stages \cup Requests
    /\ job \in [for : Stages \cup Requests \cup {None}, rest : SUBSET Artifacts,
                ok : BOOLEAN, taken : SUBSET Artifacts]
    /\ changed \in BOOLEAN /\ passes \in 0 .. MaxPasses /\ expired \in BOOLEAN
    /\ placements \in [Stages -> Nodes \cup {None}]
    /\ pending \in BOOLEAN /\ batch \subseteq Commands
    /\ dirty \in BOOLEAN /\ since \in BOOLEAN
    /\ wake \in Timers /\ boundary \in Timers /\ horizon \in Timers
    /\ reason \in {"none", "completed", "truncated", "deadlock"}

\* The ledgers say exactly what is held, whatever was cancelled, suspended,
\* evicted or rolled back: storage by replicas, transfers and the outputs of
\* stages that have started (or are being started), memory by stages with an
\* activity, suspended ones included.
LedgersExact ==
    pc # "closed" =>
        \A n \in Nodes :
            /\ storage[n] =
                 {a \in Artifacts : <<a, n>> \in replicas \/ source[<<a, n>>] # None}
                 \cup (UNION {Outputs[s] : s \in {u \in execs : node[u] = n}})
                 \cup (IF job.for \in Stages /\ node[job.for] = n THEN job.taken ELSE {})
            /\ memory[n] = {s \in execs : node[s] = n}

\* No node stores, remembers or computes more than it can.
WithinCapacity ==
    \A n \in Nodes : /\ Used(storage[n]) <= Storage[n]
                     /\ MemoryUsed(memory[n]) <= Memory[n]
                     /\ Cardinality(Running(n)) <= Cores[n]

\* What is held is accounted for, and is never more than there is.
LedgersSound == TypeOK /\ LedgersExact /\ WithinCapacity

\* From the moment a stage has gathered its inputs until it ends they are on its
\* node, suspended or not.
InputsHeld ==
    \A s \in Stages : stages[s] \in {"QUEUED", "RUNNING", "SUSPENDED"} =>
        \A a \in Inputs[s] : <<a, node[s]>> \in replicas

\* While a stage has not ended, an input of which a copy reaches the node it is
\* on (or a node it may still be placed on) goes on having one after every step;
\* and so has what an active request delivers.
Reachable(a, n) == \E m \in Copies(a) : Reaches(m, n)
Seats(s) == IF node[s] # None THEN {node[s]} ELSE Feasible(s)
Unfinished(s) == Active(RequestOf[s]) /\ stages[s] \notin Over
SourcesStay ==
    [][/\ \A s \in Stages : Unfinished(s) /\ Unfinished(s)' =>
             \A a \in Inputs[s], n \in Seats(s) : Reachable(a, n) => Reachable(a, n)'
       /\ \A r \in Requests : Active(r) /\ Active(r)' =>
             \A a \in Deliverables[r] :
                Reachable(a, Receiver[r]) => Reachable(a, Receiver[r])']_vars

\* "Other replicas preserve local active inputs and the last reachable source
\* for future consumers" (docs/architecture.md): whatever is evicted, collected
\* or given up with other requests, no gathered input leaves its stage and no
\* step takes the last copy within reach of those who still need it.
InputsStay == []InputsHeld /\ SourcesStay

\* A transfer reads a replica that stays where it is, brings one that is not
\* there yet, and serves only stages and requests that still wait for it.
WaitsAt(w, k) ==
    IF w \in Requests
    THEN Active(w) /\ k[1] \in Deliverables[w] /\ k[2] = Receiver[w]
    ELSE stages[w] = "WAITING_DATA" /\ k[1] \in Inputs[w] /\ k[2] = node[w]
TransfersSound ==
    \A k \in Transferring :
        /\ <<k[1], source[k]>> \in replicas
        /\ k \notin replicas
        /\ \A w \in waiters[k] : WaitsAt(w, k)

\* When the runtime sleeps nothing is left that it could do at once: the bound
\* on passes is never reached before the fixed point, and no request is failed
\* for a deadlock while some stage could go on.
RoomFor(S, n) == Used(storage[n] \ Evictable(n)) + Used(S) <= Storage[n]
CouldFetch(w, a, n) ==
    /\ <<a, n>> \notin replicas /\ source[<<a, n>>] = None
    /\ Sources(a, n) # {} /\ RoomFor({a}, n)
NothingLeft ==
    pc = "wait" =>
        /\ \A s \in Stages : Active(RequestOf[s]) =>
              /\ stages[s] = "READY" => External
              /\ stages[s] = "WAITING_DEPENDENCIES" => ~MayBeReady(s)
              /\ stages[s] = "WAITING_DATA" =>
                    /\ \E a \in Inputs[s] : <<a, node[s]>> \notin replicas
                    /\ ~\E a \in Inputs[s] : CouldFetch(s, a, node[s])
              /\ stages[s] = "QUEUED" /\ Dispatchable(s) =>
                    ~RoomFor(Outputs[s] \ storage[node[s]], node[s])
        /\ \A r \in Requests : Active(r) /\ AllSucceeded(r) =>
              /\ \E a \in Deliverables[r] : <<a, Receiver[r]>> \notin replicas
              /\ ~\E a \in Deliverables[r] : CouldFetch(r, a, Receiver[r])

\* A placement offered to the policy stays possible until it is made: neither
\* evictions, collections nor rejections take a candidate node away.
OffersStand ==
    [][\A s \in Stages :
          stages[s] = "READY" /\ stages'[s] \in {"READY", "WAITING_DATA"} =>
             Offer[s] \subseteq Candidates(s)']_vars

\* A run with a built-in policy ends, in a deadlock at worst: replicas are not
\* evicted and fetched again for ever.
RunEnds == <>(reason # "none" \/ pc = "closed")
=============================================================================
