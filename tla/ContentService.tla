--------------------------- MODULE ContentService ---------------------------
(***************************************************************************)
(* The windowed content-service runtime (class ContentRuntime): clients'   *)
(* requests queue at cluster schedulers, are forwarded or sent to a cache, *)
(* fetch a missing artifact over the cache's backhaul pool and leave       *)
(* through its delivery pool; a failed attempt is retried after a delay.   *)
(*                                                                         *)
(* The runtime is single threaded.  advance_window runs _settle, waits for *)
(* the next date or native transfer completion, and repeats; `pc` is the   *)
(* loop of _settle (or the handler it calls) that runs next, so one step   *)
(* of this module is one iteration of one of those loops.  SimGrid is the  *)
(* environment: it decides which started transfers have ended at a wait.   *)
(***************************************************************************)
EXTENDS Integers, FiniteSets, Sequences, SequencesExt

CONSTANTS
    Requests,       \* the original requests of the run
    Artifacts,      \* what they ask for
    Caches,         \* cache nodes
    Clusters,       \* one scheduler each
    ArtifactOf,     \* [Requests -> Artifacts]
    HomeOf,         \* [Requests -> Clusters], cluster_id of a request
    ArrivalAt,      \* [Requests -> Nat], arrival_s
    DeadlineAt,     \* [Requests -> Nat], deadline_s of the first attempt
    ClusterOf,      \* [Caches -> Clusters]
    Size,           \* [Artifacts -> Nat], size_bytes
    Storage,        \* [Caches -> Nat], storage_bytes of the node
    MaxActive,      \* [Pools -> Nat], slots of a transfer pool
    MaxWaiting,     \* [Pools -> Nat], waiting places of a transfer pool
    QueueLimit,     \* [Clusters -> Nat], max_waiting of a scheduler
    ServiceTime,    \* [Clusters -> Nat], service_s of a scheduler
    MaxRetries,     \* retries after the first attempt
    RetryDelay,     \* retry_delay_s
    Coalesce,       \* coalesce_backhaul
    Release,        \* scheduler_release: "continuous" or "window"
    Policies,       \* the forwarding policies clients use
    WindowLengths,  \* the lengths of the windows clients ask for
    Horizon,        \* until_s of the run
    None            \* no attempt, no transfer, no cache

Kinds == {"backhaul", "delivery"}
Pools == Caches \X Kinds
Attempts == Requests \X (0 .. MaxRetries)   \* <<original, attempt_index>>
Terminal == {"SUCCEEDED", "TIMED_OUT", "REJECTED"}
AllPolicies == {"threshold", "local", "forward", "random", "direct"}

ASSUME SetsAssumption ==
    /\ IsFiniteSet(Requests) /\ IsFiniteSet(Artifacts)
    /\ IsFiniteSet(Caches) /\ IsFiniteSet(Clusters)
    /\ None \notin Attempts \cup Caches \cup Clusters
ASSUME RequestsAssumption ==
    /\ ArtifactOf \in [Requests -> Artifacts]
    /\ HomeOf \in [Requests -> Clusters]
    /\ ArrivalAt \in [Requests -> Nat]
    /\ DeadlineAt \in [Requests -> Nat]
    /\ \A r \in Requests : ArrivalAt[r] <= DeadlineAt[r]
ASSUME PlatformAssumption ==
    /\ ClusterOf \in [Caches -> Clusters]
    /\ \A s \in Clusters : \E c \in Caches : ClusterOf[c] = s
    /\ Size \in [Artifacts -> Nat \ {0}]
    /\ Storage \in [Caches -> Nat]
    /\ MaxActive \in [Pools -> Nat \ {0}]
    /\ MaxWaiting \in [Pools -> Nat]
    /\ QueueLimit \in [Clusters -> Nat]
    /\ ServiceTime \in [Clusters -> Nat \ {0}]
ASSUME ControlAssumption ==
    /\ MaxRetries \in Nat /\ RetryDelay \in Nat /\ Horizon \in Nat
    /\ Coalesce \in BOOLEAN
    /\ Release \in {"continuous", "window"}
    /\ Policies \subseteq AllPolicies
    /\ WindowLengths \subseteq Nat \ {0}
ASSUME NoneAssumption ==
    \A c \in Caches, k \in Kinds, x \in Artifacts, o \in Attempts \cup {None} :
        None # [cache |-> c, kind |-> k, artifact |-> x, owner |-> o]

\* A transfer is named by what makes it unique: a delivery by its attempt, a
\* backhaul by its fetch key, (cache, artifact) or (cache, artifact, attempt).
Transfers == [cache : Caches, kind : Kinds, artifact : Artifacts,
              owner : Attempts \cup {None}]
PoolOf(t) == <<t.cache, t.kind>>

VARIABLES
    now,              \* the simulation clock
    pc,               \* the loop of _settle, or the handler, that runs next
    unarrived,        \* originals arrival_index has not reached
    live,             \* attempts that arrived and have no outcome
    changed,          \* attempts that got an outcome in this window
    counts,           \* arrivals and outcomes since the start
    status, arrival, finished, cluster, cache, forwarded,  \* per attempt
    retry_arrivals,   \* scheduled retries, earliest first
    queues, busy,     \* per scheduler: who waits, who is in service
    transfers,        \* every unfinished transfer
    active, waiting,  \* per pool: started transfers, queued transfers
    request_transfer, \* the transfer an attempt waits for
    replicas,         \* per cache: stored artifacts, least recently used first
    reserved,         \* per cache: artifacts with space reserved
    pins,             \* per cache and artifact: deliveries that read it
    fetch_counts,     \* per cache and artifact: backhauls that write it
    until, policy, window_requests, direct_decisions, forward_targets, before,
    completed, delivered, landed, toDeliver, ready, current

requestVars == <<unarrived, live, changed, counts, status, arrival, finished,
                 retry_arrivals>>
placeVars == <<cluster, cache, forwarded>>
schedulerVars == <<queues, busy>>
transferVars == <<transfers, active, waiting, pins, fetch_counts, reserved>>
windowVars == <<until, policy, window_requests, direct_decisions,
                forward_targets, before>>
\* What the running _settle has collected and not handled yet.
settleVars == <<completed, delivered, landed, toDeliver, ready, current>>
vars == <<now, pc, requestVars, placeVars, schedulerVars, transferVars,
          request_transfer, replicas, windowVars, settleVars>>

Idle == [request |-> None, finish |-> 0]
Artifact(a) == ArtifactOf[a[1]]
Deadline(a) == arrival[a] + (DeadlineAt[a[1]] - ArrivalAt[a[1]])
Waiters(t) == {a \in Attempts : request_transfer[a] = t}
OutcomesSince(s) == {a \in changed : status[a] = s}

\* The sequence s without one occurrence of e (RemoveFirst takes a LAMBDA, which
\* the provers cannot expand).
Without(s, e) ==
    IF Contains(s, e)
    THEN RemoveAt(s, CHOOSE i \in 1 .. Len(s) : s[i] = e)
    ELSE s

-----------------------------------------------------------------------------
(***************************************************************************)
(* Handlers.  Each stands for a method of the class with the calls it      *)
(* makes.                                                                  *)
(***************************************************************************)

\* May this attempt take a service slot in the running window?
Eligible(a) == Release = "continuous" \/ forwarded[a] \/ a \in window_requests

Busy(s) == busy[s].request # None
Serving(a, s) == [request |-> a, finish |-> now + ServiceTime[s]]
HeadMayStart(s) == ~Busy(s) /\ queues[s] # <<>> /\ Eligible(Head(queues[s]))

\* What a cache's storage holds or has promised, in units of size.
Space(S) == UNION {{x} \X (1 .. Size[x]) : x \in S}
Used(S) == Cardinality(Space(S))
Claimed(c) == ToSet(replicas[c]) \cup reserved[c]
Fits(c, x) == Used(Claimed(c)) + Size[x] <= Storage[c]
Evictable(c, x) == pins[c][x] = 0 /\ x \notin reserved[c]

LastFetchAlways(c, x) == TRUE \* variant
LastFetch(c, x) == fetch_counts[c][x] = 1

\* _remove_transfer without its callers' bookkeeping of waiters: the transfer
\* leaves its pool, a delivery unpins its source, and the last backhaul of an
\* artifact gives its reservation back.
RemoveTransfer(t) ==
    LET c == t.cache
        x == t.artifact
    IN /\ transfers' = transfers \ {t}
       /\ active' = [active EXCEPT ![PoolOf(t)] = Without(@, t)]
       /\ waiting' = [waiting EXCEPT ![PoolOf(t)] = Without(@, t)]
       /\ IF t.kind = "delivery"
          THEN /\ pins' = [pins EXCEPT ![c][x] = @ - 1]
               /\ UNCHANGED <<fetch_counts, reserved>>
          ELSE /\ fetch_counts' = [fetch_counts EXCEPT ![c][x] = @ - 1]
               /\ reserved' = IF LastFetch(c, x)
                              THEN [reserved EXCEPT ![c] = @ \ {x}]
                              ELSE reserved
               /\ UNCHANGED pins

\* The part of _finish that records an outcome and schedules the retry.
Retries(a, outcome) == outcome # "SUCCEEDED" /\ a[2] < MaxRetries
ReportOriginals(a) == changed' = IF a[2] = 0 THEN changed \cup {a} ELSE changed \* variant
Report(a) == changed' = changed \cup {a}
Conclude(a, outcome) ==
    LET again == <<a[1], a[2] + 1>>
    IN /\ live' = live \ {a}
       /\ Report(a)
       /\ finished' = [finished EXCEPT ![a] = now]
       /\ counts' = [counts EXCEPT ![outcome] = @ + 1]
       /\ UNCHANGED unarrived
       /\ IF Retries(a, outcome)
          THEN /\ status' = [status EXCEPT ![a] = outcome, ![again] = "PENDING"]
               /\ arrival' = [arrival EXCEPT ![again] = now + RetryDelay]
               /\ retry_arrivals' = Append(retry_arrivals, again)
          ELSE /\ status' = [status EXCEPT ![a] = outcome]
               /\ UNCHANGED <<arrival, retry_arrivals>>

\* The part of _finish that takes an attempt out of the queue or the service
\* slot of its scheduler.
LeaveQueueOnly(a) == \* variant
    /\ queues' = [queues EXCEPT ![cluster[a]] = Without(@, a)]
    /\ UNCHANGED busy
LeaveScheduler(a) ==
    LET s == cluster[a]
    IN /\ queues' = [queues EXCEPT ![s] = Without(@, a)]
       /\ busy' = IF busy[s].request = a THEN [busy EXCEPT ![s] = Idle] ELSE busy

LeaveSlotOnly(a) == \* variant
    LET t == request_transfer[a]
    IN /\ request_transfer' = [request_transfer EXCEPT ![a] = None]
       /\ IF t # None /\ Waiters(t) = {a}
          THEN /\ transfers' = transfers \ {t}
               /\ active' = [active EXCEPT ![PoolOf(t)] = Without(@, t)]
               /\ waiting' = [waiting EXCEPT ![PoolOf(t)] = Without(@, t)]
               /\ UNCHANGED <<pins, fetch_counts, reserved>>
          ELSE UNCHANGED transferVars
\* The part of _finish that gives up the transfer an attempt waits for; the
\* last waiter takes the transfer with it.
LeaveTransfer(a) ==
    LET t == request_transfer[a]
    IN /\ request_transfer' = [request_transfer EXCEPT ![a] = None]
       /\ IF t # None /\ Waiters(t) = {a}
          THEN RemoveTransfer(t)
          ELSE UNCHANGED transferVars

Finish(a, outcome) ==
    /\ Conclude(a, outcome)
    /\ LeaveScheduler(a)
    /\ LeaveTransfer(a)

\* _admit: queued transfers take free slots before the new one does.
LinedAhead(t) == <<t>> \o waiting[PoolOf(t)] \* variant
Lined(t) == Append(waiting[PoolOf(t)], t)
Startable(t) ==
    LET free == MaxActive[PoolOf(t)] - Len(active[PoolOf(t)])
    IN IF free < Len(Lined(t)) THEN free ELSE Len(Lined(t))
RoomBeforeLining(t) == Len(waiting[PoolOf(t)]) <= MaxWaiting[PoolOf(t)] \* variant
Room(t) == Len(Lined(t)) - Startable(t) <= MaxWaiting[PoolOf(t)]
Admit(t) ==
    LET p == PoolOf(t)
        k == Startable(t)
    IN /\ active' = [active EXCEPT ![p] = @ \o SubSeq(Lined(t), 1, k)]
       /\ waiting' = [waiting EXCEPT ![p] = SubSeq(Lined(t), k + 1, Len(Lined(t)))]

\* _new_transfer and _admit for a pool that can take the transfer.  A full pool
\* has no waiting transfer to start and drops the new one again: see Reject.
Begin(t, a) ==
    /\ Room(t)
    /\ transfers' = transfers \cup {t}
    /\ request_transfer' = [request_transfer EXCEPT ![a] = t]
    /\ Admit(t)
    /\ IF t.kind = "delivery"
       THEN /\ pins' = [pins EXCEPT ![t.cache][t.artifact] = @ + 1]
            /\ UNCHANGED <<fetch_counts, reserved>>
       ELSE /\ fetch_counts' = [fetch_counts EXCEPT ![t.cache][t.artifact] = @ + 1]
            /\ reserved' = [reserved EXCEPT ![t.cache] = @ \cup {t.artifact}]
            /\ UNCHANGED pins

\* An attempt waits for data or for its delivery: a status, nothing else.
SetStatus(a, s) ==
    /\ status' = [status EXCEPT ![a] = s]
    /\ UNCHANGED <<unarrived, live, changed, counts, arrival, finished,
                   retry_arrivals>>

DeliveryOf(a) == [cache |-> cache[a], kind |-> "delivery",
                  artifact |-> Artifact(a), owner |-> a]
BackhaulOf(a) == [cache |-> cache[a], kind |-> "backhaul",
                  artifact |-> Artifact(a),
                  owner |-> IF Coalesce THEN None ELSE a]

\* _delivery: the artifact becomes the most recently used of its cache and a
\* delivery, which is never shared, is admitted or rejected on overflow.
Deliver(a) ==
    LET c == cache[a]
        x == Artifact(a)
    IN /\ replicas' = [replicas EXCEPT ![c] = Append(Without(@, x), x)]
       /\ \/ /\ Begin(DeliveryOf(a), a)
             /\ SetStatus(a, "DELIVERING")
             /\ UNCHANGED schedulerVars
          \/ /\ ~Room(DeliveryOf(a))
             /\ Finish(a, "REJECTED")

-----------------------------------------------------------------------------
(***************************************************************************)
(* The client: advance_window and close.                                   *)
(***************************************************************************)

\* The requests a "direct" control must decide: those its scheduler shows,
\* queued or in service, that were not forwarded yet.
Visible ==
    {a \in live : /\ ~forwarded[a]
                  /\ \/ a \in ToSet(queues[cluster[a]])
                     \/ busy[cluster[a]].request = a}

Targets(s) == IF Clusters = {s} THEN {None} ELSE Clusters \ {s}

\* advance_window up to its loop.  Loads are abstracted, so the least loaded
\* other cluster is any of them.
AdvanceWindow(length, p, divert) ==
    /\ pc = "idle"
    /\ now < Horizon
    /\ p = "direct" => Release = "window"
    /\ divert \subseteq IF p = "direct" THEN Visible ELSE {}
    /\ until' = IF now + length < Horizon THEN now + length ELSE Horizon
    /\ policy' = p
    /\ window_requests' = live
    /\ direct_decisions' =
         [a \in Attempts |-> IF p # "direct" \/ a \notin Visible THEN "none"
                             ELSE IF a \in divert THEN "forward" ELSE "local"]
    /\ \E targets \in [Clusters -> Clusters \cup {None}] :
         /\ \A s \in Clusters : targets[s] \in Targets(s)
         /\ forward_targets' = targets
    /\ before' = counts
    /\ changed' = {}
    /\ pc' = "collect"
    /\ UNCHANGED <<now, unarrived, live, counts, status, arrival, finished,
                   retry_arrivals, placeVars, schedulerVars, transferVars,
                   request_transfer, replicas, settleVars>>

\* close cancels every transfer; Cancel is one iteration of its loop.
Close ==
    /\ pc = "idle"
    /\ pc' = "closing"
    /\ UNCHANGED <<now, requestVars, placeVars, schedulerVars, transferVars,
                   request_transfer, replicas, windowVars, settleVars>>

Detach(t) ==
    request_transfer' = [a \in Attempts |-> IF request_transfer[a] = t THEN None
                                            ELSE request_transfer[a]]

Cancel(t) ==
    /\ pc = "closing"
    /\ t \in transfers
    /\ RemoveTransfer(t)
    /\ Detach(t)
    /\ UNCHANGED <<now, pc, requestVars, placeVars, schedulerVars, replicas,
                   windowVars, settleVars>>

-----------------------------------------------------------------------------
(***************************************************************************)
(* _settle, loop by loop.                                                  *)
(***************************************************************************)

\* Remove a completed transfer: those of one pool in the order they were made.
Collect(p) ==
    /\ pc = "collect"
    /\ \E i \in 1 .. Len(active[p]) :
         LET t == active[p][i]
         IN /\ t \in completed \cap transfers
            /\ \A j \in 1 .. i - 1 : active[p][j] \notin completed
            /\ RemoveTransfer(t)
            /\ Detach(t)
            /\ completed' = completed \ {t}
            /\ IF t.kind = "delivery"
               THEN /\ delivered' = delivered \cup Waiters(t)
                    /\ UNCHANGED landed
               ELSE /\ landed' = Append(landed, [cache |-> t.cache,
                                                 artifact |-> t.artifact,
                                                 waiters |-> Waiters(t)])
                    /\ UNCHANGED delivered
    /\ UNCHANGED <<now, pc, requestVars, placeVars, schedulerVars, replicas,
                   windowVars, toDeliver, ready, current>>

\* A finished delivery is a success.
Succeed(a) ==
    /\ pc = "succeed"
    /\ a \in delivered
    /\ delivered' = delivered \ {a}
    /\ Finish(a, "SUCCEEDED")
    /\ UNCHANGED <<now, pc, placeVars, replicas, windowVars, completed, landed,
                   toDeliver, ready, current>>

\* Expire the live attempts that are due, earliest deadline first.
DueTooLate == {a \in live : Deadline(a) < now} \* variant
DueWithoutTransfer == {a \in live : Deadline(a) <= now /\ request_transfer[a] = None} \* variant
Due == {a \in live : Deadline(a) <= now}
Expire(a) ==
    /\ pc = "expire"
    /\ a \in Due
    /\ \A b \in Due : Deadline(a) <= Deadline(b)
    /\ Finish(a, "TIMED_OUT")
    /\ UNCHANGED <<now, pc, placeVars, replicas, windowVars, settleVars>>

\* A finished backhaul stores its artifact, then serves its live waiters.
Stored(s, x) == IF Contains(s, x) THEN s ELSE Append(s, x)
AllWaiters(landing) == landing.waiters \* variant
LiveWaiters(landing) == landing.waiters \cap live
Land ==
    /\ pc = "land"
    /\ toDeliver = {}
    /\ landed # <<>>
    /\ LET arrived == Head(landed)
       IN /\ replicas' = [replicas EXCEPT ![arrived.cache] =
                             Stored(@, arrived.artifact)]
          /\ toDeliver' = LiveWaiters(arrived)
    /\ landed' = Tail(landed)
    /\ UNCHANGED <<now, pc, requestVars, placeVars, schedulerVars, transferVars,
                   request_transfer, windowVars, completed, delivered, ready,
                   current>>

ServeWaiter(a) ==
    /\ pc = "land"
    /\ a \in toDeliver
    /\ toDeliver' = toDeliver \ {a}
    /\ Deliver(a)
    /\ UNCHANGED <<now, pc, placeVars, windowVars, completed, delivered, landed,
                   ready, current>>

\* Every scheduler whose service time is over releases its slot, before any of
\* the released requests is scheduled.
Over(s) == Busy(s) /\ busy[s].finish <= now
OneReleased == {s \in Clusters : Over(s) /\ s = CHOOSE u \in Clusters : Over(u)} \* variant
Released == {s \in Clusters : Over(s)}
ReleaseServices ==
    /\ pc = "release"
    /\ ready' = {busy[s].request : s \in Released} \cap live
    /\ busy' = [s \in Clusters |-> IF s \in Released THEN Idle ELSE busy[s]]
    /\ pc' = "schedule"
    /\ UNCHANGED <<now, requestVars, placeVars, queues, transferVars,
                   request_transfer, replicas, windowVars, completed, delivered,
                   landed, toDeliver, current>>

\* What the policy may decide for an attempt.  threshold compares loads, which
\* are abstracted, with weights the client may choose at will.
Wishes(a) ==
    CASE policy = "direct" -> {~forwarded[a] /\ direct_decisions[a] = "forward"}
      [] policy = "local" -> {FALSE}
      [] policy = "forward" -> {TRUE}
      [] OTHER -> BOOLEAN
CanForwardAgain(a) == forward_targets[cluster[a]] # None \* variant
CanForward(a) == ~forwarded[a] /\ forward_targets[cluster[a]] # None

\* _schedule, forwarding: on to another scheduler, once.
Forward(a) ==
    /\ pc = "schedule"
    /\ a \in ready
    /\ TRUE \in Wishes(a)
    /\ CanForward(a)
    /\ forwarded' = [forwarded EXCEPT ![a] = TRUE]
    /\ cluster' = [cluster EXCEPT ![a] = forward_targets[cluster[a]]]
    /\ ready' = ready \ {a}
    /\ current' = a
    /\ pc' = "place"
    /\ UNCHANGED <<now, requestVars, cache, schedulerVars, transferVars,
                   request_transfer, replicas, windowVars, completed, delivered,
                   landed, toDeliver>>

\* _schedule, locally: any cache of the cluster (the smooth weighted round
\* robin that picks one depends on nothing the properties tell apart).
ChooseCache(a, c) ==
    /\ pc = "schedule"
    /\ a \in ready
    /\ CanForward(a) => FALSE \in Wishes(a)
    /\ ClusterOf[c] = cluster[a]
    /\ cache' = [cache EXCEPT ![a] = c]
    /\ ready' = ready \ {a}
    /\ current' = a
    /\ pc' = "serve"
    /\ UNCHANGED <<now, requestVars, cluster, forwarded, schedulerVars,
                   transferVars, request_transfer, replicas, windowVars,
                   completed, delivered, landed, toDeliver>>

\* serve, for the attempt in hand: a hit delivers at once.
Hit ==
    /\ pc = "serve"
    /\ Artifact(current) \in ToSet(replicas[cache[current]])
    /\ Deliver(current)
    /\ current' = None
    /\ pc' = "schedule"
    /\ UNCHANGED <<now, placeVars, windowVars, completed, delivered, landed,
                   toDeliver, ready>>

\* A miss needs the backhaul named by its fetch key.
Miss ==
    /\ pc = "serve"
    /\ Artifact(current) \notin ToSet(replicas[cache[current]])
Fetching(a) == BackhaulOf(a) \in transfers

\* serve: the artifact is already on its way under the same key.
JoinFetch ==
    /\ Miss
    /\ Fetching(current)
    /\ request_transfer' = [request_transfer EXCEPT ![current] = BackhaulOf(current)]
    /\ SetStatus(current, "WAITING_DATA")
    /\ current' = None
    /\ pc' = "schedule"
    /\ UNCHANGED <<now, placeVars, schedulerVars, transferVars, replicas,
                   windowVars, completed, delivered, landed, toDeliver, ready>>

\* _reserve, one round of its loop: while the artifact does not fit, the least
\* recently used replica nobody reads or writes goes.
NeedsSpace(a) == Artifact(a) \notin Claimed(cache[a]) /\ ~Fits(cache[a], Artifact(a))
Evict ==
    LET c == cache[current]
    IN /\ Miss
       /\ ~Fetching(current)
       /\ NeedsSpace(current)
       /\ \E i \in 1 .. Len(replicas[c]) :
            /\ Evictable(c, replicas[c][i])
            /\ \A j \in 1 .. i - 1 : ~Evictable(c, replicas[c][j])
            /\ replicas' = [replicas EXCEPT ![c] = RemoveAt(@, i)]
       /\ UNCHANGED <<now, pc, requestVars, placeVars, schedulerVars,
                      transferVars, request_transfer, windowVars, settleVars>>

\* serve: the space is reserved and the backhaul admitted or, the evictions
\* notwithstanding, rejected on overflow.
StartFetch ==
    /\ Miss
    /\ ~Fetching(current)
    /\ ~NeedsSpace(current)
    /\ \/ /\ Begin(BackhaulOf(current), current)
          /\ SetStatus(current, "WAITING_DATA")
          /\ UNCHANGED schedulerVars
       \/ /\ ~Room(BackhaulOf(current))
          /\ Finish(current, "REJECTED")
    /\ current' = None
    /\ pc' = "schedule"
    /\ UNCHANGED <<now, placeVars, replicas, windowVars, completed, delivered,
                   landed, toDeliver, ready>>

\* serve: nothing is left to evict.
RejectStorage ==
    /\ Miss
    /\ ~Fetching(current)
    /\ NeedsSpace(current)
    /\ \A x \in ToSet(replicas[cache[current]]) : ~Evictable(cache[current], x)
    /\ Finish(current, "REJECTED")
    /\ current' = None
    /\ pc' = "schedule"
    /\ UNCHANGED <<now, placeVars, replicas, windowVars, completed, delivered,
                   landed, toDeliver, ready>>

\* An original arrives, the earliest first.
Arrived(r) == ArrivalAt[r] <= now
Arrive(r) ==
    /\ pc = "arrive"
    /\ r \in unarrived
    /\ Arrived(r)
    /\ \A q \in unarrived : ArrivalAt[r] <= ArrivalAt[q]
    /\ unarrived' = unarrived \ {r}
    /\ live' = live \cup {<<r, 0>>}
    /\ counts' = [counts EXCEPT !["arrived"] = @ + 1]
    /\ current' = <<r, 0>>
    /\ pc' = "place"
    /\ UNCHANGED <<now, changed, status, arrival, finished, retry_arrivals,
                   placeVars, schedulerVars, transferVars, request_transfer,
                   replicas, windowVars, completed, delivered, landed,
                   toDeliver, ready>>

\* A scheduled retry arrives, after every original that is due.
RetryDue == retry_arrivals # <<>> /\ arrival[Head(retry_arrivals)] <= now
ArriveRetry ==
    /\ pc = "retry"
    /\ RetryDue
    /\ retry_arrivals' = Tail(retry_arrivals)
    /\ live' = live \cup {Head(retry_arrivals)}
    /\ counts' = [counts EXCEPT !["arrived"] = @ + 1]
    /\ current' = Head(retry_arrivals)
    /\ pc' = "place"
    /\ UNCHANGED <<now, unarrived, changed, status, arrival, finished,
                   placeVars, schedulerVars, transferVars, request_transfer,
                   replicas, windowVars, completed, delivered, landed,
                   toDeliver, ready>>

\* After its _enqueue a forwarded attempt returns to _schedule, an arrival to
\* the loops of arrivals.
Placed(a) ==
    /\ current' = None
    /\ pc' = IF forwarded[a] THEN "schedule" ELSE "arrive"
    /\ UNCHANGED <<now, placeVars, replicas, windowVars, completed, delivered,
                   landed, toDeliver, ready>>

\* An attempt that arrives too late never queues.
ExpireOnArrival ==
    /\ pc = "place"
    /\ ~forwarded[current]
    /\ Deadline(current) <= now
    /\ Finish(current, "TIMED_OUT")
    /\ Placed(current)

\* _enqueue.  A head that may start does so first.
Enqueue(a, s) ==
    LET rest == IF HeadMayStart(s) THEN Tail(queues[s]) ELSE queues[s]
        free == ~Busy(s) /\ queues[s] = <<>> /\ Eligible(a)
    IN \/ /\ free
          /\ busy' = [busy EXCEPT ![s] = Serving(a, s)]
          /\ SetStatus(a, "SCHEDULING")
          /\ UNCHANGED <<queues, transferVars, request_transfer>>
       \/ /\ ~free
          /\ Len(rest) < QueueLimit[s]
          /\ queues' = [queues EXCEPT ![s] = Append(rest, a)]
          /\ IF HeadMayStart(s)
             THEN /\ busy' = [busy EXCEPT ![s] = Serving(Head(queues[s]), s)]
                  /\ status' = [status EXCEPT ![a] = "WAITING_SCHEDULER",
                                              ![Head(queues[s])] = "SCHEDULING"]
             ELSE /\ UNCHANGED busy
                  /\ status' = [status EXCEPT ![a] = "WAITING_SCHEDULER"]
          /\ UNCHANGED <<unarrived, live, changed, counts, arrival, finished,
                         retry_arrivals, transferVars, request_transfer>>
       \/ /\ ~free
          /\ Len(rest) >= QueueLimit[s]
          /\ Finish(a, "REJECTED")

Place ==
    /\ pc = "place"
    /\ forwarded[current] \/ Deadline(current) > now
    /\ Enqueue(current, cluster[current])
    /\ Placed(current)

\* The last two loops of _settle: free schedulers take their eligible heads,
\* free pool slots their queued transfers.
FreeSlotsOfDeliveries(p) == \* variant
    IF p[2] = "delivery" /\ waiting[p] # <<>> THEN MaxActive[p] - Len(active[p]) ELSE 0
FreeSlots(p) == IF MaxActive[p] - Len(active[p]) < Len(waiting[p])
                THEN MaxActive[p] - Len(active[p]) ELSE Len(waiting[p])
StartWaiting ==
    LET heads == {Head(queues[s]) : s \in {u \in Clusters : HeadMayStart(u)}}
    IN /\ pc = "start"
       /\ queues' = [s \in Clusters |-> IF HeadMayStart(s) THEN Tail(queues[s])
                                        ELSE queues[s]]
       /\ busy' = [s \in Clusters |-> IF HeadMayStart(s)
                                      THEN Serving(Head(queues[s]), s)
                                      ELSE busy[s]]
       /\ status' = [a \in Attempts |-> IF a \in heads THEN "SCHEDULING"
                                        ELSE status[a]]
       /\ active' = [p \in Pools |->
                       active[p] \o SubSeq(waiting[p], 1, FreeSlots(p))]
       /\ waiting' = [p \in Pools |->
                        SubSeq(waiting[p], FreeSlots(p) + 1, Len(waiting[p]))]
       /\ pc' = IF now < until THEN "wait" ELSE "idle"
       /\ UNCHANGED <<now, unarrived, live, changed, counts, arrival, finished,
                      retry_arrivals, placeVars, transfers, pins, fetch_counts,
                      reserved, request_transfer, replicas, windowVars,
                      settleVars>>

\* The loops of _settle in order, and when each is through.  Arrivals at the
\* window's end are left to the next window.
ExpiryFirst(phase) == \* variant
    CASE phase = "collect" -> "expire"
      [] phase = "expire" -> "succeed"
      [] phase = "succeed" -> "land"
      [] phase = "land" -> "release"
      [] phase = "schedule" -> IF now < until THEN "arrive" ELSE "start"
      [] phase = "arrive" -> "retry"
      [] phase = "retry" -> "start"
      [] phase = "closing" -> "closed"
PhaseAfter(phase) ==
    CASE phase = "collect" -> "succeed"
      [] phase = "succeed" -> "expire"
      [] phase = "expire" -> "land"
      [] phase = "land" -> "release"
      [] phase = "schedule" -> IF now < until THEN "arrive" ELSE "start"
      [] phase = "arrive" -> "retry"
      [] phase = "retry" -> "start"
      [] phase = "closing" -> "closed"
Through(phase) ==
    CASE phase = "collect" -> completed = {}
      [] phase = "succeed" -> delivered = {}
      [] phase = "expire" -> Due = {}
      [] phase = "land" -> toDeliver = {} /\ landed = <<>>
      [] phase = "schedule" -> ready = {}
      [] phase = "arrive" -> \A r \in unarrived : ~Arrived(r)
      [] phase = "retry" -> ~RetryDue
      [] phase = "closing" -> transfers = {}
      [] OTHER -> FALSE
EndPhase ==
    /\ Through(pc)
    /\ pc' = PhaseAfter(pc)
    /\ UNCHANGED <<now, requestVars, placeVars, schedulerVars, transferVars,
                   request_transfer, replicas, windowVars, settleVars>>

\* _wait: sleep to the next date, or less when started transfers end before it
\* (SimGrid tells which; a transfer has positive length and takes time).
Dates ==
    {until} \cup {busy[s].finish : s \in {u \in Clusters : Busy(u)}}
            \cup {ArrivalAt[r] : r \in unarrived}
            \cup {arrival[a] : a \in ToSet(retry_arrivals)}
            \cup {Deadline(a) : a \in live}
NextDate == Min({d \in Dates : d > now})
Started == UNION {ToSet(active[p]) : p \in Pools}
Wait(t, ended) ==
    /\ pc = "wait"
    /\ t \in now + 1 .. NextDate
    /\ ended \subseteq Started
    /\ t = NextDate \/ ended # {}
    /\ now' = t
    /\ completed' = ended
    /\ pc' = "collect"
    /\ UNCHANGED <<requestVars, placeVars, schedulerVars, transferVars,
                   request_transfer, replicas, windowVars, delivered, landed,
                   toDeliver, ready, current>>

\* The worker has left; nothing happens any more.
Closed == pc = "closed" /\ UNCHANGED vars

Init ==
    /\ now = 0 /\ pc = "idle"
    /\ unarrived = Requests
    /\ live = {} /\ changed = {}
    /\ counts = [k \in Terminal \cup {"arrived"} |-> 0]
    /\ status = [a \in Attempts |-> IF a[2] = 0 THEN "PENDING" ELSE "ABSENT"]
    /\ arrival = [a \in Attempts |-> IF a[2] = 0 THEN ArrivalAt[a[1]] ELSE 0]
    /\ finished = [a \in Attempts |-> 0]
    /\ cluster = [a \in Attempts |-> HomeOf[a[1]]]
    /\ cache = [a \in Attempts |-> None]
    /\ forwarded = [a \in Attempts |-> FALSE]
    /\ retry_arrivals = <<>>
    /\ queues = [s \in Clusters |-> <<>>]
    /\ busy = [s \in Clusters |-> Idle]
    /\ transfers = {}
    /\ active = [p \in Pools |-> <<>>] /\ waiting = [p \in Pools |-> <<>>]
    /\ request_transfer = [a \in Attempts |-> None]
    /\ replicas = [c \in Caches |-> <<>>]
    /\ reserved = [c \in Caches |-> {}]
    /\ pins = [c \in Caches |-> [x \in Artifacts |-> 0]]
    /\ fetch_counts = [c \in Caches |-> [x \in Artifacts |-> 0]]
    /\ until = 0 /\ policy = "threshold" /\ window_requests = {}
    /\ direct_decisions = [a \in Attempts |-> "none"]
    /\ forward_targets = [s \in Clusters |-> None]
    /\ before = counts
    /\ completed = {} /\ delivered = {} /\ landed = <<>> /\ toDeliver = {}
    /\ ready = {} /\ current = None

\* One step of the runtime, inside a call of advance_window.
Settle ==
    \/ \E p \in Pools : Collect(p)
    \/ \E a \in Attempts : Succeed(a) \/ Expire(a) \/ ServeWaiter(a) \/ Forward(a)
    \/ \E a \in Attempts, c \in Caches : ChooseCache(a, c)
    \/ Land \/ ReleaseServices
    \/ Hit \/ JoinFetch \/ Evict \/ StartFetch \/ RejectStorage
    \/ \E r \in Requests : Arrive(r)
    \/ ArriveRetry \/ ExpireOnArrival \/ Place
    \/ StartWaiting \/ EndPhase
    \/ pc = "wait" /\ \E t \in now + 1 .. Horizon, ended \in SUBSET Started : Wait(t, ended)
Advance == \E w \in WindowLengths, p \in Policies, d \in SUBSET live : AdvanceWindow(w, p, d)

Next == Settle \/ Advance \/ Close \/ (\E t \in transfers : Cancel(t)) \/ Closed

Spec == Init /\ [][Next]_vars

\* The worker's loop keeps running, and the client keeps asking for windows
\* until the run's time limit (drain does, the tests do).
FairSpec == Spec /\ WF_vars(Settle) /\ WF_vars(Advance)

-----------------------------------------------------------------------------
(***************************************************************************)
(* Properties.                                                             *)
(***************************************************************************)
Phases == {"idle", "collect", "succeed", "expire", "land", "release",
           "schedule", "serve", "arrive", "retry", "place", "start", "wait",
           "closing", "closed"}
Statuses == Terminal \cup {"ABSENT", "PENDING", "WAITING_SCHEDULER",
                           "SCHEDULING", "WAITING_DATA", "DELIVERING"}
Landings == [cache : Caches, artifact : Artifacts, waiters : SUBSET Attempts]

RequestTypeOK ==
    /\ unarrived \in SUBSET Requests
    /\ live \in SUBSET Attempts /\ changed \in SUBSET Attempts
    /\ counts \in [Terminal \cup {"arrived"} -> Nat]
    /\ status \in [Attempts -> Statuses]
    /\ arrival \in [Attempts -> Nat] /\ finished \in [Attempts -> Nat]
    /\ retry_arrivals \in Seq(Attempts)
PlaceTypeOK ==
    /\ cluster \in [Attempts -> Clusters]
    /\ cache \in [Attempts -> Caches \cup {None}]
    /\ forwarded \in [Attempts -> BOOLEAN]
SchedulerTypeOK ==
    /\ queues \in [Clusters -> Seq(Attempts)]
    /\ busy \in [Clusters -> [request : Attempts \cup {None}, finish : Nat]]
TransferTypeOK ==
    /\ transfers \in SUBSET Transfers
    /\ active \in [Pools -> Seq(Transfers)]
    /\ waiting \in [Pools -> Seq(Transfers)]
    /\ reserved \in [Caches -> SUBSET Artifacts]
    /\ pins \in [Caches -> [Artifacts -> Int]]
    /\ fetch_counts \in [Caches -> [Artifacts -> Int]]
WaiterTypeOK == request_transfer \in [Attempts -> Transfers \cup {None}]
CacheTypeOK == replicas \in [Caches -> Seq(Artifacts)]
WindowTypeOK ==
    /\ until \in Nat /\ policy \in AllPolicies
    /\ window_requests \in SUBSET Attempts
    /\ direct_decisions \in [Attempts -> {"none", "local", "forward"}]
    /\ forward_targets \in [Clusters -> Clusters \cup {None}]
    /\ before \in [Terminal \cup {"arrived"} -> Nat]
SettleTypeOK ==
    /\ completed \in SUBSET Transfers
    /\ delivered \in SUBSET Attempts /\ toDeliver \in SUBSET Attempts
    /\ ready \in SUBSET Attempts /\ current \in Attempts \cup {None}
    /\ landed \in Seq(Landings)

\* The type of every variable (that pins and fetch counts are never negative is
\* part of CountersExact).
TypeOK ==
    /\ now \in Nat /\ pc \in Phases
    /\ RequestTypeOK /\ PlaceTypeOK /\ SchedulerTypeOK
    /\ TransferTypeOK /\ WaiterTypeOK /\ CacheTypeOK
    /\ WindowTypeOK /\ SettleTypeOK

\* A cache never holds and promises more than its storage, the artifacts that
\* have landed and are not stored yet included: evictions, shared reservations
\* and cancelled fetches never leave it over capacity.
Landed(c) == {landed[i].artifact : i \in {j \in 1 .. Len(landed) : landed[j].cache = c}}
StorageBound == \A c \in Caches : Used(Claimed(c) \cup Landed(c)) <= Storage[c]

\* The counters agree with the transfers they count: a pin for each delivery
\* that reads an artifact, and a reservation exactly while some backhaul (one
\* or, uncoalesced, several) writes it.
Using(c, k, x) == {t \in transfers : t.cache = c /\ t.kind = k /\ t.artifact = x}
CountersExact ==
    /\ TypeOK
    /\ \A c \in Caches, x \in Artifacts :
          /\ pins[c][x] = Cardinality(Using(c, "delivery", x))
          /\ fetch_counts[c][x] = Cardinality(Using(c, "backhaul", x))
          /\ x \in reserved[c] <=> Using(c, "backhaul", x) # {}

\* A delivery, queued or running, always finds its artifact in the cache it
\* reads: no eviction takes a replica a delivery still needs.
SourcesKept ==
    \A t \in transfers : t.kind = "delivery" => t.artifact \in ToSet(replicas[t.cache])

\* A cache is sound: within its storage, and complete for those who read it.
CacheSound == StorageBound /\ SourcesKept

\* Every live attempt is in exactly one place: queued or in service at its
\* scheduler, waiting for a transfer that exists, or in the hands of _settle.
\* None is lost between two handlers and none is held twice, until the client
\* closes the runtime.
InHand(a) == \/ a = current \/ a \in ready \cup delivered \cup toDeliver
             \/ \E i \in 1 .. Len(landed) : a \in landed[i].waiters
Places(a) == {p \in {"queue", "service", "transfer", "hand"} :
    CASE p = "queue" -> a \in ToSet(queues[cluster[a]])
      [] p = "service" -> busy[cluster[a]].request = a
      [] p = "transfer" -> request_transfer[a] \in transfers
      [] p = "hand" -> InHand(a)}
Open == pc \notin {"closing", "closed"}
InOnePlace == Open => \A a \in live : Cardinality(Places(a)) = 1

\* Pools and schedulers stay within their limits, whoever starts, queues, leaves
\* or is cancelled.
WithinLimits ==
    /\ \A p \in Pools : Len(active[p]) <= MaxActive[p] /\ Len(waiting[p]) <= MaxWaiting[p]
    /\ \A s \in Clusters : Len(queues[s]) <= QueueLimit[s]

\* Only live attempts hold a queue place, a service slot or a transfer.
OnlyLiveHold ==
    /\ \A s \in Clusters :
        /\ ToSet(queues[s]) \subseteq live
        /\ Busy(s) => busy[s].request \in live
    /\ Open =>
        \A t \in transfers \ completed : Waiters(t) # {} /\ Waiters(t) \subseteq live

\* Attempts and what they hold belong together, one to one: no handler loses an
\* attempt, holds it twice, or keeps a place for one that has ended.
HeldOnce == InOnePlace /\ OnlyLiveHold

\* When the runtime sleeps or answers the client, nothing that could run waits:
\* a pool with a queue has no free slot, an eligible head no free scheduler.
AtRest == pc \in {"idle", "wait"}
WorkConserving ==
    AtRest => /\ \A p \in Pools : waiting[p] # <<>> => Len(active[p]) = MaxActive[p]
              /\ \A s \in Clusters : ~HeadMayStart(s)

\* No attempt outlives its deadline: at rest every live deadline lies ahead,
\* and a success was never late.
DeadlinesKept ==
    /\ AtRest => \A a \in live : Deadline(a) > now
    /\ \A a \in Attempts : status[a] = "SUCCEEDED" => finished[a] <= Deadline(a)

\* The attempts of an original form one chain: attempt k + 1 exists exactly
\* when attempt k failed, arrives RetryDelay after that failure, and every
\* attempt before the last one has failed.
RetryChain ==
    \A r \in Requests : \A k \in 1 .. MaxRetries :
        LET last == <<r, k - 1>>
            next == <<r, k>>
        IN /\ status[next] # "ABSENT" <=> status[last] \in {"TIMED_OUT", "REJECTED"}
           /\ status[next] # "ABSENT" => arrival[next] = finished[last] + RetryDelay


\* Every request to be scheduled under direct control has its decision, so the
\* lookup in _schedule finds one: those in service when the window began, those
\* queued then, and the forwarded, which need none.
DecisionsCover ==
    policy = "direct" => \A a \in ready : forwarded[a] \/ direct_decisions[a] # "none"

\* Attempts follow one another, their deadlines and their decisions.
AttemptsSound == DeadlinesKept /\ RetryChain /\ DecisionsCover

\* The counters conserve attempts, what arrived is live or has one outcome; and
\* what a window's answer counts is what it lists: the outcomes counted since
\* the window began are those of the attempts in `changed`.
ReportExact ==
    /\ counts["arrived"] = Cardinality(live) + counts["SUCCEEDED"]
                           + counts["TIMED_OUT"] + counts["REJECTED"]
    /\ \A s \in Terminal : counts[s] - before[s] = Cardinality(OutcomesSince(s))

Resolved == unarrived = {} /\ live = {} /\ retry_arrivals = <<>>

\* "Completed delivery wins an exact deadline tie" (_settle): a delivery that
\* has ended is a success even when its deadline is now.
DeliveryWinsTie ==
    [][\A a \in delivered : status'[a] # status[a] => status'[a] = "SUCCEEDED"]_vars

\* An attempt is forwarded at most once: then it stays with its scheduler.
ForwardedOnce ==
    [][\A a \in Attempts : forwarded[a] =>
          forwarded'[a] /\ cluster'[a] = cluster[a]]_vars

\* First come, first served, in a pool: no transfer starts ahead of one that
\* was queued before it and stays queued.
NoOvertaking ==
    [][\A p \in Pools : \A i \in 1 .. Len(waiting[p]) :
          waiting[p][i] \in ToSet(waiting'[p]) =>
             \A t \in ToSet(active'[p]) \ ToSet(active[p]) :
                \E j \in 1 .. i - 1 : waiting[p][j] = t]_vars

\* "Release all simultaneous completions before admitting anything new"
\* (_settle): when an attempt is rejected no transfer that has ended holds a
\* pool slot, and when a scheduler rejects it no service that is over holds one.
RejectedOnlyWhenFull ==
    [][\A a \in Attempts : status'[a] = "REJECTED" /\ status[a] # "REJECTED" =>
          /\ completed = {}
          /\ pc = "place" => \A s \in Clusters : ~Over(s)]_vars

\* Every original is eventually resolved when clients advance far enough.
EventuallyResolved == <>[](Open => Resolved)

\* The abstract view of the attempts of an original (module RequestLedger).
LastAttempt(r) == CHOOSE k \in 0 .. MaxRetries :
    /\ status[<<r, k>>] # "ABSENT"
    /\ \A m \in k + 1 .. MaxRetries : status[<<r, m>>] = "ABSENT"
Stage(r) ==
    LET last == <<r, LastAttempt(r)>>
    IN CASE r \in unarrived -> "future"
         [] \E k \in 0 .. MaxRetries : status[<<r, k>>] = "SUCCEEDED" -> "succeeded"
         [] last \in live -> "live"
         [] status[last] \in {"TIMED_OUT", "REJECTED"} -> "failed"
         [] OTHER -> "retrying"

Ledger == INSTANCE RequestLedger WITH
    stage <- [r \in Requests |-> Stage(r)],
    attempt <- [r \in Requests |-> LastAttempt(r)]

\* The runtime keeps the promise of the ledger: no original is resolved twice,
\* revived after a success or attempted again before its attempt has failed.
KeepsLedger == Ledger!LedgerSpec
=============================================================================
