------------------------ MODULE ContentServiceProofs ------------------------
(***************************************************************************)
(* Proofs about ContentService, for any platform, workload and control,    *)
(* and about SchedulingEnv, which is one of its clients.                   *)
(* First types, limits and what happens at one instant; then who holds     *)
(* what, with what follows for the windows' reports and the ledger of the  *)
(* originals; then the transfers, the counters that guard the caches, the  *)
(* order in which pools serve, and the storage of caches; and last the     *)
(* episodes: what the learner is shown, what it counts, and the drain.     *)
(***************************************************************************)
EXTENDS SchedulingEnv, SequenceSets

-----------------------------------------------------------------------------
(* Sequences. *)

\* A sequence keeps its type when the element at a position leaves it.
LEMMA RemoveAtType ==
    ASSUME NEW S, NEW s \in Seq(S), NEW i \in 1 .. Len(s)
    PROVE  RemoveAt(s, i) \in Seq(S) /\ Len(RemoveAt(s, i)) = Len(s) - 1
<1>1. SubSeq(s, 1, i - 1) \in Seq(S) /\ Len(SubSeq(s, 1, i - 1)) = i - 1
  <2>1. \A j \in 1 .. i - 1 : s[j] \in S
    BY ElementOfSeq, LenProperties
  <2>2. QED
    BY <2>1, SubSeqProperties, LenProperties
<1>2. SubSeq(s, i + 1, Len(s)) \in Seq(S) /\ Len(SubSeq(s, i + 1, Len(s))) = Len(s) - i
  <2>1. \A j \in i + 1 .. Len(s) : s[j] \in S
    BY ElementOfSeq, LenProperties
  <2>2. QED
    BY <2>1, SubSeqProperties, LenProperties
<1>3. Len(s) \in Nat /\ i \in Nat
  BY LenProperties
<1> DEFINE l == SubSeq(s, 1, i - 1)
           r == SubSeq(s, i + 1, Len(s))
<1>4. RemoveAt(s, i) = l \o r
  BY DEF RemoveAt
<1> HIDE DEF l, r
<1>5. l \o r \in Seq(S) /\ Len(l \o r) = Len(l) + Len(r)
  BY <1>1, <1>2, ConcatProperties DEF l, r
<1>6. Len(l) = i - 1 /\ Len(r) = Len(s) - i
  BY <1>1, <1>2 DEF l, r
<1>7. QED
  BY <1>3, <1>4, <1>5, <1>6

\* A sequence keeps its type when an element leaves it.
LEMMA WithoutType ==
    ASSUME NEW S, NEW s \in Seq(S), NEW e
    PROVE  Without(s, e) \in Seq(S) /\ Len(Without(s, e)) <= Len(s)
<1>1. CASE Contains(s, e)
  <2> DEFINE i == CHOOSE j \in 1 .. Len(s) : s[j] = e
  <2>1. i \in 1 .. Len(s)
    BY <1>1 DEF Contains
  <2>2. QED
    BY <1>1, <2>1, RemoveAtType, LenProperties DEF Without
<1>2. CASE ~Contains(s, e)
  BY <1>2, LenProperties DEF Without
<1>3. QED
  BY <1>1, <1>2

\* The prefix and the rest of a sequence have its type.
LEMMA SplitType ==
    ASSUME NEW S, NEW s \in Seq(S), NEW k \in Nat, k <= Len(s)
    PROVE  /\ SubSeq(s, 1, k) \in Seq(S) /\ Len(SubSeq(s, 1, k)) = k
           /\ SubSeq(s, k + 1, Len(s)) \in Seq(S)
           /\ Len(SubSeq(s, k + 1, Len(s))) = Len(s) - k
<1>1. \A j \in 1 .. k : s[j] \in S
  BY ElementOfSeq, LenProperties
<1>2. \A j \in k + 1 .. Len(s) : s[j] \in S
  BY ElementOfSeq, LenProperties
<1>3. QED
  BY <1>1, <1>2, SubSeqProperties, LenProperties

-----------------------------------------------------------------------------
(***************************************************************************)
(* Types.                                                                  *)
(***************************************************************************)

\* Who has been sent to a cache has one.
HasCache(a) == cache[a] \in Caches
HandType ==
    /\ pc \in {"serve", "place"} => current \in Attempts
    /\ pc = "serve" => HasCache(current)
    /\ \A a \in Attempts : request_transfer[a] # None => HasCache(a)
    /\ \A a \in toDeliver : HasCache(a)
    /\ \A i \in 1 .. Len(landed) : \A a \in landed[i].waiters : HasCache(a)

\* The slots and places of the pools are never overbooked.
PoolLimits ==
    \A p \in Pools : Len(active[p]) <= MaxActive[p] /\ Len(waiting[p]) <= MaxWaiting[p]

TypeInv == TypeOK /\ HandType /\ PoolLimits

LEMMA NoneIsNoTransfer == None \notin Transfers
  BY NoneAssumption DEF Transfers

LEMMA InitType == Init => TypeInv
<1> SUFFICES ASSUME Init PROVE TypeInv
  OBVIOUS
<1>1. TypeOK
  BY SetsAssumption, RequestsAssumption, PlatformAssumption, ControlAssumption
  DEF Init, TypeOK, RequestTypeOK, PlaceTypeOK, SchedulerTypeOK,
      TransferTypeOK, WaiterTypeOK, CacheTypeOK, WindowTypeOK, SettleTypeOK,
      Idle, Attempts, Phases, Statuses, Terminal, AllPolicies
<1>2. HandType
  BY DEF Init, HandType
<1>3. PoolLimits
  BY PlatformAssumption DEF Init, PoolLimits
<1>4. QED
  BY <1>1, <1>2, <1>3 DEF TypeInv

LEMMA ConcludeType ==
    ASSUME RequestTypeOK, now \in Nat, NEW a \in Attempts, NEW o \in Terminal,
           Conclude(a, o)
    PROVE  RequestTypeOK'
<1> DEFINE again == <<a[1], a[2] + 1>>
<1>1. /\ unarrived' \in SUBSET Requests
      /\ live' \in SUBSET Attempts /\ changed' \in SUBSET Attempts
  BY DEF Conclude, Report, RequestTypeOK
<1>2. counts' \in [Terminal \cup {"arrived"} -> Nat]
  BY DEF Conclude, RequestTypeOK
<1>3. finished' \in [Attempts -> Nat]
  BY DEF Conclude, RequestTypeOK
<1>4. "PENDING" \in Statuses /\ o \in Statuses
  BY DEF Statuses
<1>5. status' \in [Attempts -> Statuses]
  BY <1>4 DEF Conclude, RequestTypeOK
<1>6. now + RetryDelay \in Nat
  BY ControlAssumption
<1>7. arrival' \in [Attempts -> Nat]
  BY <1>6 DEF Conclude, RequestTypeOK
<1>8. retry_arrivals' \in Seq(Attempts)
  <2>1. CASE Retries(a, o)
    <3>1. again \in Attempts
      BY <2>1, ControlAssumption DEF Retries, Attempts
    <3>2. Append(retry_arrivals, again) \in Seq(Attempts)
      BY <3>1 DEF RequestTypeOK
    <3>3. QED
      BY <2>1, <3>2 DEF Conclude
  <2>2. CASE ~Retries(a, o)
    BY <2>2 DEF Conclude, RequestTypeOK
  <2>3. QED
    BY <2>1, <2>2
<1>9. QED
  BY <1>1, <1>2, <1>3, <1>5, <1>7, <1>8 DEF RequestTypeOK

LEMMA LeaveSchedulerType ==
    ASSUME SchedulerTypeOK, PlaceTypeOK, NEW a \in Attempts, LeaveScheduler(a)
    PROVE  SchedulerTypeOK'
<1>1. cluster[a] \in Clusters
  BY DEF PlaceTypeOK
<1>2. Without(queues[cluster[a]], a) \in Seq(Attempts)
  BY <1>1, WithoutType DEF SchedulerTypeOK
<1>3. Idle \in [request : Attempts \cup {None}, finish : Nat]
  BY DEF Idle
<1>4. QED
  BY <1>1, <1>2, <1>3 DEF LeaveScheduler, SchedulerTypeOK

LEMMA NestedUpdate ==
    ASSUME NEW A, NEW B, NEW f \in [A -> [B -> Int]],
           NEW x \in A, NEW y \in B, NEW v \in Int
    PROVE  [f EXCEPT ![x][y] = v] \in [A -> [B -> Int]]
<1>1. [f[x] EXCEPT ![y] = v] \in [B -> Int]
  OBVIOUS
<1>2. QED
  BY <1>1

LEMMA TransferParts ==
    ASSUME NEW t \in Transfers
    PROVE  PoolOf(t) \in Pools /\ t.cache \in Caches /\ t.artifact \in Artifacts
  BY DEF Transfers, Pools, PoolOf

LEMMA RemoveTransferType ==
    ASSUME TransferTypeOK, NEW t \in Transfers, RemoveTransfer(t)
    PROVE  TransferTypeOK'
<1>1. /\ PoolOf(t) \in Pools /\ t.cache \in Caches /\ t.artifact \in Artifacts
  BY TransferParts
<1>2. /\ Without(active[PoolOf(t)], t) \in Seq(Transfers)
      /\ Without(waiting[PoolOf(t)], t) \in Seq(Transfers)
  BY <1>1, WithoutType DEF TransferTypeOK
<1>3. active' \in [Pools -> Seq(Transfers)] /\ waiting' \in [Pools -> Seq(Transfers)]
  BY <1>1, <1>2 DEF TransferTypeOK, RemoveTransfer
<1>4. transfers' \in SUBSET Transfers
  BY DEF TransferTypeOK, RemoveTransfer
<1>5. pins' \in [Caches -> [Artifacts -> Int]]
  <2>1. pins[t.cache][t.artifact] - 1 \in Int
    BY <1>1 DEF TransferTypeOK
  <2>2. [pins EXCEPT ![t.cache][t.artifact] = @ - 1] \in [Caches -> [Artifacts -> Int]]
    BY <1>1, <2>1, NestedUpdate DEF TransferTypeOK
  <2>3. QED
    BY <2>2 DEF TransferTypeOK, RemoveTransfer
<1>6. fetch_counts' \in [Caches -> [Artifacts -> Int]]
  <2>1. fetch_counts[t.cache][t.artifact] - 1 \in Int
    BY <1>1 DEF TransferTypeOK
  <2>2. [fetch_counts EXCEPT ![t.cache][t.artifact] = @ - 1] \in [Caches -> [Artifacts -> Int]]
    BY <1>1, <2>1, NestedUpdate DEF TransferTypeOK
  <2>3. QED
    BY <2>2 DEF TransferTypeOK, RemoveTransfer
<1>7. reserved' \in [Caches -> SUBSET Artifacts]
  <2>1. \/ reserved' = reserved
        \/ reserved' = [reserved EXCEPT ![t.cache] = @ \ {t.artifact}]
    BY DEF RemoveTransfer
  <2>2. reserved[t.cache] \ {t.artifact} \in SUBSET Artifacts
    BY <1>1 DEF TransferTypeOK
  <2>3. QED
    BY <2>1, <2>2 DEF TransferTypeOK
<1>8. QED
  BY <1>3, <1>4, <1>5, <1>6, <1>7 DEF TransferTypeOK

LEMMA LeaveTransferType ==
    ASSUME TransferTypeOK, WaiterTypeOK, NEW a \in Attempts, LeaveTransfer(a)
    PROVE  TransferTypeOK' /\ WaiterTypeOK'
<1>1. WaiterTypeOK'
  BY DEF LeaveTransfer, WaiterTypeOK
<1>2. CASE UNCHANGED transferVars
  BY <1>1, <1>2 DEF transferVars, TransferTypeOK
<1>3. CASE request_transfer[a] # None /\ RemoveTransfer(request_transfer[a])
  <2>1. request_transfer[a] \in Transfers
    BY <1>3 DEF WaiterTypeOK
  <2>2. QED
    BY <1>1, <1>3, <2>1, RemoveTransferType
<1>4. QED
  BY <1>2, <1>3 DEF LeaveTransfer

-----------------------------------------------------------------------------
(* Starting transfers: the slots of a pool are never overbooked. *)

LEMMA PoolNumbers ==
    ASSUME TransferTypeOK, NEW p \in Pools
    PROVE  /\ MaxActive[p] \in Nat /\ MaxWaiting[p] \in Nat
           /\ Len(active[p]) \in Nat /\ Len(waiting[p]) \in Nat
<1>1. active[p] \in Seq(Transfers) /\ waiting[p] \in Seq(Transfers)
  BY DEF TransferTypeOK
<1>2. QED
  BY <1>1, LenProperties, PlatformAssumption

LEMMA RemoveTransferLimits ==
    ASSUME TransferTypeOK, PoolLimits, NEW t \in Transfers, RemoveTransfer(t)
    PROVE  PoolLimits'
<1> SUFFICES ASSUME NEW p \in Pools
             PROVE  /\ Len(active'[p]) <= MaxActive[p]
                    /\ Len(waiting'[p]) <= MaxWaiting[p]
  BY DEF PoolLimits
<1>1. Len(active[p]) <= MaxActive[p] /\ Len(waiting[p]) <= MaxWaiting[p]
  BY DEF PoolLimits
<1>2. active[p] \in Seq(Transfers) /\ waiting[p] \in Seq(Transfers)
  BY DEF TransferTypeOK
<1>3. CASE p # PoolOf(t)
  BY <1>1, <1>3 DEF RemoveTransfer, TransferTypeOK
<1>4. CASE p = PoolOf(t)
  <2>1. active'[p] = Without(active[p], t) /\ waiting'[p] = Without(waiting[p], t)
    BY <1>4 DEF RemoveTransfer, TransferTypeOK
  <2>2. /\ Without(active[p], t) \in Seq(Transfers)
        /\ Len(Without(active[p], t)) <= Len(active[p])
        /\ Without(waiting[p], t) \in Seq(Transfers)
        /\ Len(Without(waiting[p], t)) <= Len(waiting[p])
    BY <1>2, WithoutType
  <2>3. Len(Without(active[p], t)) \in Nat /\ Len(Without(waiting[p], t)) \in Nat
    BY <2>2, LenProperties
  <2>4. QED
    BY <1>1, <2>1, <2>2, <2>3, PoolNumbers
<1>5. QED
  BY <1>3, <1>4

LEMMA LeaveTransferLimits ==
    ASSUME TransferTypeOK, WaiterTypeOK, PoolLimits,
           NEW a \in Attempts, LeaveTransfer(a)
    PROVE  PoolLimits'
<1>1. CASE UNCHANGED transferVars
  BY <1>1 DEF transferVars, PoolLimits
<1>2. CASE request_transfer[a] # None /\ RemoveTransfer(request_transfer[a])
  <2>1. request_transfer[a] \in Transfers
    BY <1>2 DEF WaiterTypeOK
  <2>2. QED
    BY <1>2, <2>1, RemoveTransferLimits
<1>3. QED
  BY <1>1, <1>2 DEF LeaveTransfer

LEMMA StartableBounds ==
    ASSUME TransferTypeOK, PoolLimits, NEW t \in Transfers
    PROVE  LET p == PoolOf(t) IN
           /\ Lined(t) \in Seq(Transfers)
           /\ Len(Lined(t)) \in Nat
           /\ Startable(t) \in Nat
           /\ Startable(t) <= Len(Lined(t))
           /\ Len(active[p]) + Startable(t) <= MaxActive[p]
<1> DEFINE p == PoolOf(t)
<1>1. p \in Pools
  BY TransferParts
<1>2. waiting[p] \in Seq(Transfers)
  BY <1>1 DEF TransferTypeOK
<1>3. Lined(t) \in Seq(Transfers) /\ Len(Lined(t)) = Len(waiting[p]) + 1
  BY <1>2 DEF Lined
<1>4. /\ MaxActive[p] \in Nat /\ Len(active[p]) \in Nat
      /\ Len(waiting[p]) \in Nat /\ Len(active[p]) <= MaxActive[p]
  BY <1>1, PoolNumbers DEF PoolLimits
<1>5. QED
  BY <1>3, <1>4 DEF Startable

LEMMA AdmitType ==
    ASSUME TransferTypeOK, PoolLimits, NEW t \in Transfers, Room(t), Admit(t)
    PROVE  /\ active' \in [Pools -> Seq(Transfers)]
           /\ waiting' \in [Pools -> Seq(Transfers)]
           /\ PoolLimits'
<1> DEFINE p == PoolOf(t)
           k == Startable(t)
           started == SubSeq(Lined(t), 1, k)
           rest == SubSeq(Lined(t), k + 1, Len(Lined(t)))
<1>1. p \in Pools
  BY TransferParts
<1>2. /\ Lined(t) \in Seq(Transfers) /\ Len(Lined(t)) \in Nat
      /\ k \in Nat /\ k <= Len(Lined(t))
      /\ Len(active[p]) + k <= MaxActive[p]
  BY StartableBounds
<1>3. /\ started \in Seq(Transfers) /\ Len(started) = k
      /\ rest \in Seq(Transfers) /\ Len(rest) = Len(Lined(t)) - k
  BY <1>2, SplitType
<1>4. active[p] \in Seq(Transfers)
  BY <1>1 DEF TransferTypeOK
<1>5. /\ active[p] \o started \in Seq(Transfers)
      /\ Len(active[p] \o started) = Len(active[p]) + k
  BY <1>3, <1>4, ConcatProperties
<1>6. /\ active' = [active EXCEPT ![p] = active[p] \o started]
      /\ waiting' = [waiting EXCEPT ![p] = rest]
  BY DEF Admit
<1>7. /\ active' \in [Pools -> Seq(Transfers)]
      /\ waiting' \in [Pools -> Seq(Transfers)]
  BY <1>3, <1>5, <1>6 DEF TransferTypeOK
<1>8. ASSUME NEW q \in Pools
      PROVE  Len(active'[q]) <= MaxActive[q] /\ Len(waiting'[q]) <= MaxWaiting[q]
  <2>1. CASE q # p
    BY <2>1, <1>6 DEF PoolLimits, TransferTypeOK
  <2>2. CASE q = p
    <3>1. active'[q] = active[p] \o started /\ waiting'[q] = rest
      BY <1>1, <1>6, <2>2 DEF TransferTypeOK
    <3>2. Len(rest) <= MaxWaiting[p]
      BY <1>3 DEF Room
    <3>3. QED
      BY <1>2, <1>5, <2>2, <3>1, <3>2
  <2>3. QED
    BY <2>1, <2>2
<1>9. QED
  BY <1>7, <1>8 DEF PoolLimits

LEMMA BeginType ==
    ASSUME TransferTypeOK, WaiterTypeOK, PoolLimits,
           NEW t \in Transfers, NEW a \in Attempts, Begin(t, a)
    PROVE  TransferTypeOK' /\ WaiterTypeOK' /\ PoolLimits'
<1>1. t.cache \in Caches /\ t.artifact \in Artifacts
  BY TransferParts
<1>2. /\ active' \in [Pools -> Seq(Transfers)]
      /\ waiting' \in [Pools -> Seq(Transfers)]
      /\ PoolLimits'
  BY AdmitType DEF Begin
<1>3. transfers' \in SUBSET Transfers
  BY DEF Begin, TransferTypeOK
<1>4. WaiterTypeOK'
  BY DEF Begin, WaiterTypeOK
<1>5. pins' \in [Caches -> [Artifacts -> Int]]
  <2>1. pins[t.cache][t.artifact] + 1 \in Int
    BY <1>1 DEF TransferTypeOK
  <2>2. [pins EXCEPT ![t.cache][t.artifact] = @ + 1] \in [Caches -> [Artifacts -> Int]]
    BY <1>1, <2>1, NestedUpdate DEF TransferTypeOK
  <2>3. QED
    BY <2>2 DEF TransferTypeOK, Begin
<1>6. fetch_counts' \in [Caches -> [Artifacts -> Int]]
  <2>1. fetch_counts[t.cache][t.artifact] + 1 \in Int
    BY <1>1 DEF TransferTypeOK
  <2>2. [fetch_counts EXCEPT ![t.cache][t.artifact] = @ + 1] \in [Caches -> [Artifacts -> Int]]
    BY <1>1, <2>1, NestedUpdate DEF TransferTypeOK
  <2>3. QED
    BY <2>2 DEF TransferTypeOK, Begin
<1>7. reserved' \in [Caches -> SUBSET Artifacts]
  <2>1. \/ reserved' = reserved
        \/ reserved' = [reserved EXCEPT ![t.cache] = @ \cup {t.artifact}]
    BY DEF Begin
  <2>2. reserved[t.cache] \cup {t.artifact} \in SUBSET Artifacts
    BY <1>1 DEF TransferTypeOK
  <2>3. QED
    BY <2>1, <2>2 DEF TransferTypeOK
<1>8. QED
  BY <1>2, <1>3, <1>4, <1>5, <1>6, <1>7 DEF TransferTypeOK

-----------------------------------------------------------------------------
(***************************************************************************)
(* Handlers shared by several actions keep the invariant's parts.          *)
(***************************************************************************)

\* The parts of the invariant that handlers change.
Handled ==
    /\ RequestTypeOK /\ SchedulerTypeOK /\ TransferTypeOK /\ WaiterTypeOK
    /\ PoolLimits
    /\ \A a \in Attempts : request_transfer[a] # None => HasCache(a)

LEMMA TypeInvHandled == TypeInv => Handled
  BY DEF TypeInv, TypeOK, HandType, Handled

LEMMA FinishHandled ==
    ASSUME TypeInv, NEW a \in Attempts, NEW o \in Terminal, Finish(a, o),
           UNCHANGED cache
    PROVE  Handled'
<1>1. RequestTypeOK' /\ SchedulerTypeOK'
  BY ConcludeType, LeaveSchedulerType DEF TypeInv, TypeOK, Finish
<1>2. TransferTypeOK' /\ WaiterTypeOK' /\ PoolLimits'
  BY LeaveTransferType, LeaveTransferLimits DEF TypeInv, TypeOK, Finish
<1>3. \A b \in Attempts : request_transfer'[b] # None => request_transfer[b] # None
  BY DEF TypeInv, TypeOK, WaiterTypeOK, Finish, LeaveTransfer
<1>4. QED
  BY <1>1, <1>2, <1>3 DEF TypeInv, HandType, HasCache, Handled

LEMMA NewTransferType ==
    ASSUME TypeInv, NEW a \in Attempts, HasCache(a)
    PROVE  DeliveryOf(a) \in Transfers /\ BackhaulOf(a) \in Transfers
<1>1. Artifact(a) \in Artifacts
  BY RequestsAssumption DEF Artifact, Attempts
<1>2. QED
  BY <1>1 DEF HasCache, DeliveryOf, BackhaulOf, Transfers, Kinds

LEMMA BeginHandled ==
    ASSUME TypeInv, NEW a \in Attempts, HasCache(a), NEW t \in Transfers,
           NEW s \in Statuses, Begin(t, a), SetStatus(a, s),
           UNCHANGED <<schedulerVars, cache>>
    PROVE  Handled'
<1>1. TransferTypeOK' /\ WaiterTypeOK' /\ PoolLimits'
  BY BeginType DEF TypeInv, TypeOK
<1>2. RequestTypeOK'
  BY DEF TypeInv, TypeOK, RequestTypeOK, SetStatus
<1>3. SchedulerTypeOK'
  BY DEF TypeInv, TypeOK, SchedulerTypeOK, schedulerVars
<1>4. \A b \in Attempts : request_transfer'[b] # None => b = a \/ request_transfer[b] # None
  BY DEF TypeInv, TypeOK, WaiterTypeOK, Begin
<1>5. QED
  BY <1>1, <1>2, <1>3, <1>4 DEF TypeInv, HandType, HasCache, Handled

LEMMA DeliverHandled ==
    ASSUME TypeInv, NEW a \in Attempts, HasCache(a), Deliver(a), UNCHANGED cache
    PROVE  Handled' /\ CacheTypeOK'
<1>1. DeliveryOf(a) \in Transfers
  BY NewTransferType
<1>2. "DELIVERING" \in Statuses /\ "REJECTED" \in Terminal
  BY DEF Statuses, Terminal
<1>3. Handled'
  BY <1>1, <1>2, BeginHandled, FinishHandled DEF Deliver
<1>4. CacheTypeOK'
  <2>1. Artifact(a) \in Artifacts
    BY RequestsAssumption DEF Artifact, Attempts
  <2>2. replicas[cache[a]] \in Seq(Artifacts)
    BY DEF TypeInv, TypeOK, CacheTypeOK, HasCache
  <2>3. Without(replicas[cache[a]], Artifact(a)) \in Seq(Artifacts)
    BY <2>2, WithoutType
  <2>4. Append(Without(replicas[cache[a]], Artifact(a)), Artifact(a)) \in Seq(Artifacts)
    BY <2>1, <2>3
  <2>5. QED
    BY <2>4 DEF TypeInv, TypeOK, CacheTypeOK, Deliver
<1>5. QED
  BY <1>3, <1>4

LEMMA ServingType ==
    ASSUME TypeInv, NEW a \in Attempts, NEW s \in Clusters
    PROVE  Serving(a, s) \in [request : Attempts \cup {None}, finish : Nat]
  BY PlatformAssumption DEF TypeInv, TypeOK, Serving

LEMMA EnqueueHandled ==
    ASSUME TypeInv, NEW a \in Attempts, NEW s \in Clusters, Enqueue(a, s),
           UNCHANGED cache
    PROVE  Handled'
<1> DEFINE Slots == [request : Attempts \cup {None}, finish : Nat]
<1>1. queues[s] \in Seq(Attempts)
  BY DEF TypeInv, TypeOK, SchedulerTypeOK
<1>2. HeadMayStart(s) => Head(queues[s]) \in Attempts /\ Tail(queues[s]) \in Seq(Attempts)
  BY <1>1, HeadTailProperties DEF HeadMayStart
<1>3. {"SCHEDULING", "WAITING_SCHEDULER"} \subseteq Statuses /\ "REJECTED" \in Terminal
  BY DEF Statuses, Terminal
<1>4. ASSUME RequestTypeOK', SchedulerTypeOK',
             UNCHANGED <<transferVars, request_transfer>>
      PROVE  Handled'
  BY <1>4 DEF TypeInv, TypeOK, HandType, HasCache, Handled, PoolLimits,
              transferVars, TransferTypeOK, WaiterTypeOK
<1>5. CASE /\ busy' = [busy EXCEPT ![s] = Serving(a, s)]
           /\ SetStatus(a, "SCHEDULING")
           /\ UNCHANGED <<queues, transferVars, request_transfer>>
  <2>1. RequestTypeOK'
    BY <1>3, <1>5 DEF TypeInv, TypeOK, RequestTypeOK, SetStatus
  <2>2. SchedulerTypeOK'
    BY <1>5, ServingType DEF TypeInv, TypeOK, SchedulerTypeOK
  <2>3. QED
    BY <1>4, <1>5, <2>1, <2>2
<1>6. ASSUME NEW rest \in Seq(Attempts),
             queues' = [queues EXCEPT ![s] = Append(rest, a)],
             \/ /\ HeadMayStart(s)
                /\ busy' = [busy EXCEPT ![s] = Serving(Head(queues[s]), s)]
                /\ status' = [status EXCEPT ![a] = "WAITING_SCHEDULER",
                                            ![Head(queues[s])] = "SCHEDULING"]
             \/ /\ UNCHANGED busy
                /\ status' = [status EXCEPT ![a] = "WAITING_SCHEDULER"],
             UNCHANGED <<unarrived, live, changed, counts, arrival, finished,
                         retry_arrivals, transferVars, request_transfer>>
      PROVE  Handled'
  <2>1. status' \in [Attempts -> Statuses]
    BY <1>2, <1>3, <1>6 DEF TypeInv, TypeOK, RequestTypeOK
  <2>2. RequestTypeOK'
    BY <1>6, <2>1 DEF TypeInv, TypeOK, RequestTypeOK
  <2>3. busy' \in [Clusters -> Slots]
    <3>1. HeadMayStart(s) => Serving(Head(queues[s]), s) \in Slots
      BY <1>2, ServingType
    <3>2. busy \in [Clusters -> Slots]
      BY DEF TypeInv, TypeOK, SchedulerTypeOK
    <3>3. QED
      BY <1>6, <3>1, <3>2
  <2>4. Append(rest, a) \in Seq(Attempts)
    OBVIOUS
  <2>5. SchedulerTypeOK'
    BY <1>6, <2>3, <2>4 DEF TypeInv, TypeOK, SchedulerTypeOK
  <2>6. QED
    BY <1>4, <1>6, <2>2, <2>5
<1>7. CASE Finish(a, "REJECTED")
  BY <1>3, <1>7, FinishHandled
<1> DEFINE behind == IF HeadMayStart(s) THEN Tail(queues[s]) ELSE queues[s]
<1>8. behind \in Seq(Attempts)
  BY <1>1, <1>2
<1>9. QED
  BY <1>5, <1>6, <1>7, <1>8 DEF Enqueue

-----------------------------------------------------------------------------
(***************************************************************************)
(* Every action keeps the invariant.                                       *)
(***************************************************************************)

\* What the handlers do not touch keeps its type when it does not change.
LEMMA Assemble ==
    ASSUME Handled', CacheTypeOK', PlaceTypeOK', WindowTypeOK', SettleTypeOK',
           now' \in Nat, pc' \in Phases,
           pc' \in {"serve", "place"} => current' \in Attempts,
           pc' = "serve" => cache'[current'] \in Caches,
           \A a \in toDeliver' : cache'[a] \in Caches,
           \A i \in 1 .. Len(landed') : \A a \in landed'[i].waiters : cache'[a] \in Caches
    PROVE  TypeInv'
  BY DEF Handled, TypeInv, TypeOK, HandType, HasCache

LEMMA AdvanceWindowType ==
    ASSUME TypeInv, NEW w \in WindowLengths, NEW p \in Policies, NEW d \in SUBSET live,
           AdvanceWindow(w, p, d)
    PROVE  TypeInv'
<1>1. Handled'
  <2>1. RequestTypeOK'
    BY DEF TypeInv, TypeOK, RequestTypeOK, AdvanceWindow
  <2>2. QED
    BY <2>1 DEF TypeInv, TypeOK, Handled, HandType, HasCache, AdvanceWindow,
           placeVars, schedulerVars, transferVars, SchedulerTypeOK,
           TransferTypeOK, WaiterTypeOK, PoolLimits
<1>2. WindowTypeOK'
  <2>1. until' \in Nat /\ policy' \in AllPolicies
    BY ControlAssumption DEF TypeInv, TypeOK, AdvanceWindow
  <2>2. direct_decisions' \in [Attempts -> {"none", "local", "forward"}]
    BY DEF AdvanceWindow
  <2>3. forward_targets' \in [Clusters -> Clusters \cup {None}]
    BY DEF AdvanceWindow
  <2>4. window_requests' \in SUBSET Attempts /\ before' \in [Terminal \cup {"arrived"} -> Nat]
    BY DEF TypeInv, TypeOK, RequestTypeOK, AdvanceWindow
  <2>5. QED
    BY <2>1, <2>2, <2>3, <2>4 DEF WindowTypeOK
<1>3. CacheTypeOK' /\ PlaceTypeOK' /\ SettleTypeOK'
  BY DEF TypeInv, TypeOK, CacheTypeOK, PlaceTypeOK, SettleTypeOK, AdvanceWindow,
         placeVars, settleVars
<1>4. QED
  BY <1>1, <1>2, <1>3, Assemble
  DEF TypeInv, TypeOK, HandType, HasCache, AdvanceWindow, Phases, placeVars, settleVars

\* Leaving a transfer without its bookkeeping of waiters: each waiter forgets it.
LEMMA DetachHandled ==
    ASSUME TypeInv, NEW t \in Transfers, RemoveTransfer(t), Detach(t),
           UNCHANGED <<requestVars, placeVars, schedulerVars>>
    PROVE  Handled'
<1>1. TransferTypeOK' /\ PoolLimits'
  BY RemoveTransferType, RemoveTransferLimits DEF TypeInv, TypeOK
<1>2. WaiterTypeOK' /\ \A a \in Attempts : request_transfer'[a] # None => request_transfer[a] # None
  BY DEF TypeInv, TypeOK, WaiterTypeOK, Detach
<1>3. RequestTypeOK' /\ SchedulerTypeOK'
  BY DEF TypeInv, TypeOK, RequestTypeOK, SchedulerTypeOK, requestVars, schedulerVars
<1>4. QED
  BY <1>1, <1>2, <1>3 DEF TypeInv, HandType, HasCache, Handled, placeVars

LEMMA CancelType ==
    ASSUME TypeInv, NEW t \in transfers, Cancel(t)
    PROVE  TypeInv'
<1>1. t \in Transfers
  BY DEF TypeInv, TypeOK, TransferTypeOK
<1>2. Handled'
  BY <1>1, DetachHandled DEF Cancel
<1>3. CacheTypeOK' /\ PlaceTypeOK' /\ SettleTypeOK' /\ WindowTypeOK'
  BY DEF TypeInv, TypeOK, CacheTypeOK, PlaceTypeOK, SettleTypeOK, WindowTypeOK,
         Cancel, placeVars, settleVars, windowVars
<1>4. QED
  BY <1>2, <1>3, Assemble
  DEF TypeInv, TypeOK, HandType, HasCache, Cancel, placeVars, settleVars

LEMMA CollectType ==
    ASSUME TypeInv, NEW p \in Pools, Collect(p)
    PROVE  TypeInv'
<1>1. PICK i \in 1 .. Len(active[p]) :
         LET t == active[p][i]
         IN /\ t \in completed \cap transfers
            /\ RemoveTransfer(t)
            /\ Detach(t)
            /\ completed' = completed \ {t}
            /\ \/ /\ delivered' = delivered \cup Waiters(t)
                  /\ UNCHANGED landed
               \/ /\ landed' = Append(landed, [cache |-> t.cache,
                                               artifact |-> t.artifact,
                                               waiters |-> Waiters(t)])
                  /\ UNCHANGED delivered
  BY DEF Collect
<1> DEFINE t == active[p][i]
           land == [cache |-> t.cache, artifact |-> t.artifact, waiters |-> Waiters(t)]
<1>2. t \in Transfers
  BY <1>1 DEF TypeInv, TypeOK, TransferTypeOK
<1>3. Handled'
  BY <1>1, <1>2, DetachHandled DEF Collect
<1>4. CacheTypeOK' /\ PlaceTypeOK' /\ WindowTypeOK'
  BY DEF TypeInv, TypeOK, CacheTypeOK, PlaceTypeOK, WindowTypeOK, Collect,
         placeVars, windowVars
<1>5. Waiters(t) \in SUBSET Attempts
  BY DEF Waiters
<1>6. land \in Landings
  BY <1>2, <1>5, TransferParts DEF Landings
<1>7. landed \in Seq(Landings)
  BY DEF TypeInv, TypeOK, SettleTypeOK
<1>8. /\ Append(landed, land) \in Seq(Landings)
      /\ Len(Append(landed, land)) = Len(landed) + 1
      /\ \A j \in 1 .. Len(landed) : Append(landed, land)[j] = landed[j]
      /\ Append(landed, land)[Len(landed) + 1] = land
  BY <1>6, <1>7
<1>9. SettleTypeOK'
  BY <1>1, <1>5, <1>8 DEF TypeInv, TypeOK, SettleTypeOK, Collect
<1>10. \A a \in Waiters(t) : HasCache(a)
  BY <1>2, NoneIsNoTransfer DEF Waiters, TypeInv, HandType
<1>11. ASSUME NEW j \in 1 .. Len(landed'), NEW a \in landed'[j].waiters
       PROVE  HasCache(a)
  <2>1. CASE landed' = landed
    BY <1>11, <2>1 DEF TypeInv, HandType
  <2>2. CASE landed' = Append(landed, land)
    <3>1. Len(landed) \in Nat
      BY <1>7, LenProperties
    <3>2. CASE j \in 1 .. Len(landed)
      BY <1>8, <1>11, <2>2, <3>2 DEF TypeInv, HandType
    <3>3. CASE j = Len(landed) + 1
      BY <1>8, <1>10, <1>11, <2>2, <3>3
    <3>4. QED
      BY <1>8, <2>2, <3>1, <3>2, <3>3
  <2>3. QED
    BY <1>1, <2>1, <2>2
<1>12. QED
  BY <1>3, <1>4, <1>9, <1>11, Assemble
  DEF TypeInv, TypeOK, HandType, HasCache, Collect, placeVars

\* What most actions leave alone.
LEMMA Untouched ==
    ASSUME TypeInv
    PROVE  /\ UNCHANGED placeVars => PlaceTypeOK'
           /\ UNCHANGED windowVars => WindowTypeOK'
           /\ UNCHANGED replicas => CacheTypeOK'
           /\ UNCHANGED settleVars => SettleTypeOK'
           /\ UNCHANGED <<requestVars, cache, schedulerVars, transferVars,
                          request_transfer>> => Handled'
<1>1. /\ UNCHANGED placeVars => PlaceTypeOK'
      /\ UNCHANGED windowVars => WindowTypeOK'
      /\ UNCHANGED replicas => CacheTypeOK'
      /\ UNCHANGED settleVars => SettleTypeOK'
  BY DEF TypeInv, TypeOK, CacheTypeOK, PlaceTypeOK, SettleTypeOK, WindowTypeOK,
         placeVars, settleVars, windowVars
<1>2. ASSUME UNCHANGED <<requestVars, cache, schedulerVars, transferVars,
                         request_transfer>>
      PROVE  Handled'
  BY <1>2 DEF TypeInv, TypeOK, HandType, HasCache, Handled, RequestTypeOK,
     SchedulerTypeOK, TransferTypeOK, WaiterTypeOK, PoolLimits,
     requestVars, schedulerVars, transferVars
<1>3. QED
  BY <1>1, <1>2

LEMMA SucceedType ==
    ASSUME TypeInv, NEW a \in Attempts, Succeed(a)
    PROVE  TypeInv'
<1>1. Handled'
  BY FinishHandled DEF Succeed, placeVars, Terminal
<1>2. CacheTypeOK' /\ PlaceTypeOK' /\ WindowTypeOK'
  BY Untouched DEF Succeed
<1>3. SettleTypeOK'
  BY DEF TypeInv, TypeOK, SettleTypeOK, Succeed
<1>4. QED
  BY <1>1, <1>2, <1>3, Assemble
  DEF TypeInv, TypeOK, HandType, HasCache, Succeed, placeVars

LEMMA ExpireType ==
    ASSUME TypeInv, NEW a \in Attempts, Expire(a)
    PROVE  TypeInv'
<1>1. Handled'
  BY FinishHandled DEF Expire, placeVars, Terminal
<1>2. CacheTypeOK' /\ PlaceTypeOK' /\ WindowTypeOK' /\ SettleTypeOK'
  BY Untouched DEF Expire
<1>3. QED
  BY <1>1, <1>2, Assemble
  DEF TypeInv, TypeOK, HandType, HasCache, Expire, placeVars, settleVars

LEMMA LandType ==
    ASSUME TypeInv, Land
    PROVE  TypeInv'
<1> DEFINE first == Head(landed)
<1>1. landed \in Seq(Landings) /\ landed # <<>>
  BY DEF TypeInv, TypeOK, SettleTypeOK, Land
<1>2. /\ first \in Landings /\ first = landed[1] /\ 1 \in 1 .. Len(landed)
      /\ Tail(landed) \in Seq(Landings)
      /\ Len(Tail(landed)) = Len(landed) - 1
      /\ \A i \in 1 .. Len(Tail(landed)) : Tail(landed)[i] = landed[i + 1]
  BY <1>1, HeadTailProperties, LenProperties
<1>3. Handled'
  BY Untouched DEF Land, placeVars
<1>4. PlaceTypeOK' /\ WindowTypeOK'
  BY Untouched DEF Land
<1>5. CacheTypeOK'
  <2>1. first.cache \in Caches /\ first.artifact \in Artifacts
    BY <1>2 DEF Landings
  <2>2. replicas[first.cache] \in Seq(Artifacts)
    BY <2>1 DEF TypeInv, TypeOK, CacheTypeOK
  <2>3. Stored(replicas[first.cache], first.artifact) \in Seq(Artifacts)
    BY <2>1, <2>2 DEF Stored
  <2>4. QED
    BY <2>3 DEF TypeInv, TypeOK, CacheTypeOK, Land
<1>6. toDeliver' \subseteq first.waiters
  BY DEF Land, LiveWaiters
<1>7. first.waiters \in SUBSET Attempts
  BY <1>2 DEF Landings
<1>8. SettleTypeOK'
  BY <1>2, <1>6, <1>7 DEF TypeInv, TypeOK, SettleTypeOK, Land
<1>9. \A a \in toDeliver' : cache[a] \in Caches
  BY <1>2, <1>6 DEF TypeInv, HandType, HasCache
<1>10. \A i \in 1 .. Len(landed') : \A a \in landed'[i].waiters : cache[a] \in Caches
  <2> SUFFICES ASSUME NEW i \in 1 .. Len(landed'), NEW a \in landed'[i].waiters
               PROVE  cache[a] \in Caches
    OBVIOUS
  <2>1. Len(landed) \in Nat
    BY <1>1, LenProperties
  <2>2. i + 1 \in 1 .. Len(landed) /\ landed'[i] = landed[i + 1]
    BY <1>2, <2>1 DEF Land
  <2>3. QED
    BY <2>2 DEF TypeInv, HandType, HasCache
<1>11. QED
  BY <1>3, <1>4, <1>5, <1>8, <1>9, <1>10, Assemble
  DEF TypeInv, TypeOK, Land, placeVars

LEMMA ServeWaiterType ==
    ASSUME TypeInv, NEW a \in Attempts, ServeWaiter(a)
    PROVE  TypeInv'
<1>1. HasCache(a)
  BY DEF TypeInv, HandType, ServeWaiter
<1>2. Handled' /\ CacheTypeOK'
  BY <1>1, DeliverHandled DEF ServeWaiter, placeVars
<1>3. PlaceTypeOK' /\ WindowTypeOK'
  BY Untouched DEF ServeWaiter
<1>4. SettleTypeOK'
  BY DEF TypeInv, TypeOK, SettleTypeOK, ServeWaiter
<1>5. QED
  BY <1>2, <1>3, <1>4, Assemble
  DEF TypeInv, TypeOK, HandType, HasCache, ServeWaiter, placeVars

LEMMA ReleaseServicesType ==
    ASSUME TypeInv, ReleaseServices
    PROVE  TypeInv'
<1>1. SchedulerTypeOK'
  BY DEF TypeInv, TypeOK, SchedulerTypeOK, ReleaseServices, Idle
<1>2. Handled'
  BY <1>1 DEF TypeInv, TypeOK, HandType, HasCache, Handled, RequestTypeOK,
     TransferTypeOK, WaiterTypeOK, PoolLimits, requestVars, transferVars,
     placeVars, ReleaseServices
<1>3. CacheTypeOK' /\ PlaceTypeOK' /\ WindowTypeOK'
  BY Untouched DEF ReleaseServices
<1>4. SettleTypeOK'
  BY DEF TypeInv, TypeOK, RequestTypeOK, SettleTypeOK, ReleaseServices, requestVars
<1>5. QED
  BY <1>2, <1>3, <1>4, Assemble
  DEF TypeInv, TypeOK, HandType, HasCache, ReleaseServices, placeVars, Phases

LEMMA ForwardType ==
    ASSUME TypeInv, NEW a \in Attempts, Forward(a)
    PROVE  TypeInv'
<1>1. cluster[a] \in Clusters
  BY DEF TypeInv, TypeOK, PlaceTypeOK
<1>2. forward_targets[cluster[a]] \in Clusters
  BY <1>1 DEF TypeInv, TypeOK, WindowTypeOK, Forward, CanForward
<1>3. PlaceTypeOK'
  BY <1>2 DEF TypeInv, TypeOK, PlaceTypeOK, Forward
<1>4. Handled' /\ CacheTypeOK' /\ WindowTypeOK'
  BY Untouched DEF Forward
<1>5. SettleTypeOK'
  BY DEF TypeInv, TypeOK, SettleTypeOK, Forward
<1>6. QED
  BY <1>3, <1>4, <1>5, Assemble
  DEF TypeInv, TypeOK, HandType, HasCache, Forward, Phases

LEMMA ChooseCacheType ==
    ASSUME TypeInv, NEW a \in Attempts, NEW c \in Caches, ChooseCache(a, c)
    PROVE  TypeInv'
<1>1. PlaceTypeOK'
  BY DEF TypeInv, TypeOK, PlaceTypeOK, ChooseCache
<1>2. \A b \in Attempts : cache'[b] = IF b = a THEN c ELSE cache[b]
  BY DEF TypeInv, TypeOK, PlaceTypeOK, ChooseCache
<1>3. \A b \in Attempts : HasCache(b) => cache'[b] \in Caches
  BY <1>2 DEF HasCache
<1>4. Handled'
  <2>1. \A b \in Attempts : request_transfer'[b] # None => HasCache(b)'
    BY <1>3 DEF TypeInv, HandType, HasCache, ChooseCache
  <2>2. QED
    BY <2>1 DEF TypeInv, TypeOK, Handled, RequestTypeOK, SchedulerTypeOK,
       TransferTypeOK, WaiterTypeOK, PoolLimits, requestVars, schedulerVars,
       transferVars, ChooseCache
<1>5. CacheTypeOK' /\ WindowTypeOK'
  BY Untouched DEF ChooseCache
<1>6. SettleTypeOK'
  BY DEF TypeInv, TypeOK, SettleTypeOK, ChooseCache
<1>7. \A b \in toDeliver : cache'[b] \in Caches
  BY <1>3 DEF TypeInv, TypeOK, SettleTypeOK, HandType
<1>8. \A i \in 1 .. Len(landed) : landed[i].waiters \subseteq Attempts
  <2>1. \A i \in 1 .. Len(landed) : landed[i] \in Landings
    BY ElementOfSeq DEF TypeInv, TypeOK, SettleTypeOK
  <2>2. QED
    BY <2>1 DEF Landings
<1>9. \A i \in 1 .. Len(landed) : \A b \in landed[i].waiters : cache'[b] \in Caches
  BY <1>3, <1>8 DEF TypeInv, HandType
<1>10. now' \in Nat /\ pc' \in Phases /\ current' \in Attempts /\ cache'[current'] \in Caches
  BY <1>2 DEF TypeInv, TypeOK, ChooseCache, Phases
<1>11. QED
  BY <1>1, <1>4, <1>5, <1>6, <1>7, <1>9, <1>10, Assemble DEF ChooseCache

\* The attempt in hand while serve or _enqueue runs.
LEMMA CurrentType ==
    ASSUME TypeInv
    PROVE  /\ pc \in {"serve", "place"} => current \in Attempts
           /\ pc = "serve" => HasCache(current)
  BY DEF TypeInv, HandType

LEMMA HitType ==
    ASSUME TypeInv, Hit
    PROVE  TypeInv'
<1>1. current \in Attempts /\ HasCache(current)
  BY CurrentType DEF Hit
<1>2. Handled' /\ CacheTypeOK'
  BY <1>1, DeliverHandled DEF Hit, placeVars
<1>3. PlaceTypeOK' /\ WindowTypeOK'
  BY Untouched DEF Hit
<1>4. SettleTypeOK'
  BY DEF TypeInv, TypeOK, SettleTypeOK, Hit
<1>5. QED
  BY <1>2, <1>3, <1>4, Assemble
  DEF TypeInv, TypeOK, HandType, HasCache, Hit, placeVars, Phases

LEMMA JoinFetchType ==
    ASSUME TypeInv, JoinFetch
    PROVE  TypeInv'
<1>1. current \in Attempts /\ HasCache(current)
  BY CurrentType DEF JoinFetch, Miss
<1>2. BackhaulOf(current) \in Transfers
  BY <1>1, NewTransferType
<1>3. Handled'
  <2>1. RequestTypeOK'
    BY DEF TypeInv, TypeOK, RequestTypeOK, Statuses, JoinFetch, SetStatus
  <2>2. SchedulerTypeOK' /\ TransferTypeOK' /\ PoolLimits'
    BY DEF TypeInv, TypeOK, SchedulerTypeOK, TransferTypeOK, PoolLimits,
           schedulerVars, transferVars, JoinFetch
  <2>3. WaiterTypeOK'
    BY <1>2 DEF TypeInv, TypeOK, WaiterTypeOK, JoinFetch
  <2>4. \A b \in Attempts : request_transfer'[b] # None => b = current \/ request_transfer[b] # None
    BY DEF TypeInv, TypeOK, WaiterTypeOK, JoinFetch
  <2>5. \A b \in Attempts : request_transfer'[b] # None => cache[b] \in Caches
    BY <1>1, <2>4 DEF TypeInv, HandType, HasCache
  <2>6. QED
    BY <2>1, <2>2, <2>3, <2>5 DEF HasCache, Handled, JoinFetch, placeVars
<1>4. CacheTypeOK' /\ PlaceTypeOK' /\ WindowTypeOK'
  BY Untouched DEF JoinFetch
<1>5. SettleTypeOK'
  BY DEF TypeInv, TypeOK, SettleTypeOK, JoinFetch
<1>6. QED
  BY <1>3, <1>4, <1>5, Assemble
  DEF TypeInv, TypeOK, HandType, HasCache, JoinFetch, placeVars, Phases

LEMMA EvictType ==
    ASSUME TypeInv, Evict
    PROVE  TypeInv'
<1> DEFINE c == cache[current]
<1>1. current \in Attempts /\ c \in Caches
  BY CurrentType DEF Evict, Miss, HasCache
<1>2. PICK i \in 1 .. Len(replicas[c]) :
         replicas' = [replicas EXCEPT ![c] = RemoveAt(replicas[c], i)]
  BY DEF Evict
<1>3. RemoveAt(replicas[c], i) \in Seq(Artifacts)
  BY <1>1, RemoveAtType DEF TypeInv, TypeOK, CacheTypeOK
<1>4. CacheTypeOK'
  BY <1>2, <1>3 DEF TypeInv, TypeOK, CacheTypeOK
<1>5. Handled' /\ PlaceTypeOK' /\ WindowTypeOK' /\ SettleTypeOK'
  BY Untouched DEF Evict, placeVars
<1>6. QED
  BY <1>4, <1>5, Assemble
  DEF TypeInv, TypeOK, HandType, HasCache, Evict, placeVars, settleVars

LEMMA StartFetchType ==
    ASSUME TypeInv, StartFetch
    PROVE  TypeInv'
<1>1. current \in Attempts /\ HasCache(current)
  BY CurrentType DEF StartFetch, Miss
<1>2. BackhaulOf(current) \in Transfers
  BY <1>1, NewTransferType
<1>3. "WAITING_DATA" \in Statuses /\ "REJECTED" \in Terminal
  BY DEF Statuses, Terminal
<1>4. Handled'
  <2>1. CASE /\ Begin(BackhaulOf(current), current)
             /\ SetStatus(current, "WAITING_DATA")
             /\ UNCHANGED schedulerVars
    BY <1>1, <1>2, <1>3, <2>1, BeginHandled DEF StartFetch, placeVars
  <2>2. CASE Finish(current, "REJECTED")
    BY <1>1, <1>3, <2>2, FinishHandled DEF StartFetch, placeVars
  <2>3. QED
    BY <2>1, <2>2 DEF StartFetch
<1>5. CacheTypeOK' /\ PlaceTypeOK' /\ WindowTypeOK'
  BY Untouched DEF StartFetch
<1>6. SettleTypeOK'
  BY DEF TypeInv, TypeOK, SettleTypeOK, StartFetch
<1>7. QED
  BY <1>4, <1>5, <1>6, Assemble
  DEF TypeInv, TypeOK, HandType, HasCache, StartFetch, placeVars, Phases

LEMMA RejectStorageType ==
    ASSUME TypeInv, RejectStorage
    PROVE  TypeInv'
<1>1. current \in Attempts
  BY CurrentType DEF RejectStorage, Miss
<1>2. Handled'
  BY <1>1, FinishHandled DEF RejectStorage, placeVars, Terminal
<1>3. CacheTypeOK' /\ PlaceTypeOK' /\ WindowTypeOK'
  BY Untouched DEF RejectStorage
<1>4. SettleTypeOK'
  BY DEF TypeInv, TypeOK, SettleTypeOK, RejectStorage
<1>5. QED
  BY <1>2, <1>3, <1>4, Assemble
  DEF TypeInv, TypeOK, HandType, HasCache, RejectStorage, placeVars, Phases

LEMMA ArriveType ==
    ASSUME TypeInv, NEW r \in Requests, Arrive(r)
    PROVE  TypeInv'
<1>1. <<r, 0>> \in Attempts
  BY ControlAssumption DEF Attempts
<1>2. RequestTypeOK'
  <2>1. live' \in SUBSET Attempts /\ unarrived' \in SUBSET Requests
    BY <1>1 DEF TypeInv, TypeOK, RequestTypeOK, Arrive
  <2>2. counts' \in [Terminal \cup {"arrived"} -> Nat]
    BY DEF TypeInv, TypeOK, RequestTypeOK, Arrive
  <2>3. QED
    BY <2>1, <2>2 DEF TypeInv, TypeOK, RequestTypeOK, Arrive
<1>3. Handled'
  BY <1>2 DEF TypeInv, TypeOK, HandType, HasCache, Handled, SchedulerTypeOK,
     TransferTypeOK, WaiterTypeOK, PoolLimits, schedulerVars, transferVars,
     placeVars, Arrive
<1>4. CacheTypeOK' /\ PlaceTypeOK' /\ WindowTypeOK'
  BY Untouched DEF Arrive
<1>5. SettleTypeOK'
  BY <1>1 DEF TypeInv, TypeOK, SettleTypeOK, Arrive
<1>6. QED
  BY <1>1, <1>3, <1>4, <1>5, Assemble
  DEF TypeInv, TypeOK, HandType, HasCache, Arrive, placeVars, Phases

LEMMA ArriveRetryType ==
    ASSUME TypeInv, ArriveRetry
    PROVE  TypeInv'
<1>1. retry_arrivals \in Seq(Attempts) /\ retry_arrivals # <<>>
  BY DEF TypeInv, TypeOK, RequestTypeOK, ArriveRetry, RetryDue
<1>2. Head(retry_arrivals) \in Attempts /\ Tail(retry_arrivals) \in Seq(Attempts)
  BY <1>1, HeadTailProperties
<1>3. RequestTypeOK'
  BY <1>2 DEF TypeInv, TypeOK, RequestTypeOK, ArriveRetry
<1>4. Handled'
  BY <1>3 DEF TypeInv, TypeOK, HandType, HasCache, Handled, SchedulerTypeOK,
     TransferTypeOK, WaiterTypeOK, PoolLimits, schedulerVars, transferVars,
     placeVars, ArriveRetry
<1>5. CacheTypeOK' /\ PlaceTypeOK' /\ WindowTypeOK'
  BY Untouched DEF ArriveRetry
<1>6. SettleTypeOK'
  BY <1>2 DEF TypeInv, TypeOK, SettleTypeOK, ArriveRetry
<1>7. QED
  BY <1>2, <1>4, <1>5, <1>6, Assemble
  DEF TypeInv, TypeOK, HandType, HasCache, ArriveRetry, placeVars, Phases

LEMMA PlacedType ==
    ASSUME TypeInv, NEW a \in Attempts, Placed(a), Handled'
    PROVE  TypeInv'
<1>1. CacheTypeOK' /\ PlaceTypeOK' /\ WindowTypeOK'
  BY Untouched DEF Placed
<1>2. SettleTypeOK'
  BY DEF TypeInv, TypeOK, SettleTypeOK, Placed
<1>3. pc' \in {"schedule", "arrive"}
  BY DEF Placed
<1>4. QED
  BY <1>1, <1>2, <1>3, Assemble
  DEF TypeInv, TypeOK, HandType, HasCache, Placed, placeVars, Phases

LEMMA ExpireOnArrivalType ==
    ASSUME TypeInv, ExpireOnArrival
    PROVE  TypeInv'
<1>1. current \in Attempts
  BY CurrentType DEF ExpireOnArrival
<1>2. Handled'
  BY <1>1, FinishHandled DEF ExpireOnArrival, Placed, placeVars, Terminal
<1>3. QED
  BY <1>1, <1>2, PlacedType DEF ExpireOnArrival

LEMMA PlaceType ==
    ASSUME TypeInv, Place
    PROVE  TypeInv'
<1>1. current \in Attempts
  BY CurrentType DEF Place
<1>2. cluster[current] \in Clusters
  BY <1>1 DEF TypeInv, TypeOK, PlaceTypeOK
<1>3. Handled'
  BY <1>1, <1>2, EnqueueHandled DEF Place, Placed, placeVars
<1>4. QED
  BY <1>1, <1>3, PlacedType DEF Place

LEMMA StartWaitingType ==
    ASSUME TypeInv, StartWaiting
    PROVE  TypeInv'
<1> DEFINE k(p) == FreeSlots(p)
<1>1. RequestTypeOK'
  BY DEF TypeInv, TypeOK, RequestTypeOK, Statuses, StartWaiting
<1>2. SchedulerTypeOK'
  <2>1. \A s \in Clusters : HeadMayStart(s) =>
           Head(queues[s]) \in Attempts /\ Tail(queues[s]) \in Seq(Attempts)
    BY HeadTailProperties DEF TypeInv, TypeOK, SchedulerTypeOK, HeadMayStart
  <2>2. queues' \in [Clusters -> Seq(Attempts)]
    BY <2>1 DEF TypeInv, TypeOK, SchedulerTypeOK, StartWaiting
  <2>3. \A s \in Clusters : HeadMayStart(s) =>
           Serving(Head(queues[s]), s) \in [request : Attempts \cup {None}, finish : Nat]
    BY <2>1, ServingType
  <2>4. busy' \in [Clusters -> [request : Attempts \cup {None}, finish : Nat]]
    BY <2>3 DEF TypeInv, TypeOK, SchedulerTypeOK, StartWaiting
  <2>5. QED
    BY <2>2, <2>4 DEF SchedulerTypeOK
<1>3. ASSUME NEW p \in Pools
      PROVE  /\ active'[p] \in Seq(Transfers) /\ waiting'[p] \in Seq(Transfers)
             /\ Len(active'[p]) <= MaxActive[p] /\ Len(waiting'[p]) <= MaxWaiting[p]
  <2>1. active[p] \in Seq(Transfers) /\ waiting[p] \in Seq(Transfers)
    BY DEF TypeInv, TypeOK, TransferTypeOK
  <2>2. /\ MaxActive[p] \in Nat /\ MaxWaiting[p] \in Nat
        /\ Len(active[p]) \in Nat /\ Len(waiting[p]) \in Nat
        /\ Len(active[p]) <= MaxActive[p] /\ Len(waiting[p]) <= MaxWaiting[p]
    BY PoolNumbers DEF TypeInv, TypeOK, PoolLimits
  <2>3. k(p) \in Nat /\ k(p) <= Len(waiting[p]) /\ Len(active[p]) + k(p) <= MaxActive[p]
    BY <2>2 DEF FreeSlots
  <2>4. /\ SubSeq(waiting[p], 1, k(p)) \in Seq(Transfers)
        /\ Len(SubSeq(waiting[p], 1, k(p))) = k(p)
        /\ SubSeq(waiting[p], k(p) + 1, Len(waiting[p])) \in Seq(Transfers)
        /\ Len(SubSeq(waiting[p], k(p) + 1, Len(waiting[p]))) = Len(waiting[p]) - k(p)
    BY <2>1, <2>3, SplitType
  <2>5. /\ active[p] \o SubSeq(waiting[p], 1, k(p)) \in Seq(Transfers)
        /\ Len(active[p] \o SubSeq(waiting[p], 1, k(p))) = Len(active[p]) + k(p)
    BY <2>1, <2>4, ConcatProperties
  <2>6. /\ active'[p] = active[p] \o SubSeq(waiting[p], 1, k(p))
        /\ waiting'[p] = SubSeq(waiting[p], k(p) + 1, Len(waiting[p]))
    BY DEF StartWaiting
  <2>7. QED
    BY <2>2, <2>3, <2>4, <2>5, <2>6
<1>4. TransferTypeOK' /\ PoolLimits'
  <2>1. active' = [p \in Pools |-> active'[p]] /\ waiting' = [p \in Pools |-> waiting'[p]]
    BY DEF StartWaiting
  <2>2. active' \in [Pools -> Seq(Transfers)] /\ waiting' \in [Pools -> Seq(Transfers)]
    BY <1>3, <2>1
  <2>3. QED
    BY <1>3, <2>2 DEF TypeInv, TypeOK, TransferTypeOK, PoolLimits, StartWaiting
<1>5. Handled'
  BY <1>1, <1>2, <1>4 DEF TypeInv, TypeOK, HandType, HasCache, Handled,
     WaiterTypeOK, StartWaiting, placeVars
<1>6. CacheTypeOK' /\ PlaceTypeOK' /\ WindowTypeOK' /\ SettleTypeOK'
  BY Untouched DEF StartWaiting
<1>7. pc' \in {"wait", "idle"}
  BY DEF StartWaiting
<1>8. QED
  BY <1>5, <1>6, <1>7, Assemble
  DEF TypeInv, TypeOK, HandType, HasCache, StartWaiting, placeVars, settleVars, Phases

LEMMA EndPhaseType ==
    ASSUME TypeInv, EndPhase
    PROVE  TypeInv'
<1>1. Handled' /\ CacheTypeOK' /\ PlaceTypeOK' /\ WindowTypeOK' /\ SettleTypeOK'
  BY Untouched DEF EndPhase, placeVars
<1>2. pc' \in Phases \ {"serve", "place"}
  BY DEF EndPhase, Through, PhaseAfter, Phases
<1>3. QED
  BY <1>1, <1>2, Assemble
  DEF TypeInv, TypeOK, HandType, HasCache, EndPhase, placeVars, settleVars

LEMMA WaitType ==
    ASSUME TypeInv, NEW t \in now + 1 .. Horizon, NEW ended \in SUBSET Started,
           Wait(t, ended)
    PROVE  TypeInv'
<1>1. ended \subseteq Transfers
  <2>1. \A p \in Pools : ToSet(active[p]) \subseteq Transfers
    BY LenProperties DEF TypeInv, TypeOK, TransferTypeOK, ToSet
  <2>2. QED
    BY <2>1 DEF Started
<1>2. Handled' /\ CacheTypeOK' /\ PlaceTypeOK' /\ WindowTypeOK'
  BY Untouched DEF Wait, placeVars
<1>3. SettleTypeOK'
  BY <1>1 DEF TypeInv, TypeOK, SettleTypeOK, Wait
<1>4. now' \in Nat /\ pc' = "collect"
  BY ControlAssumption DEF TypeInv, TypeOK, Wait
<1>5. QED
  BY <1>2, <1>3, <1>4, Assemble
  DEF TypeInv, TypeOK, HandType, HasCache, Wait, placeVars, Phases

LEMMA CloseType ==
    ASSUME TypeInv, Close
    PROVE  TypeInv'
<1>1. Handled' /\ CacheTypeOK' /\ PlaceTypeOK' /\ WindowTypeOK' /\ SettleTypeOK'
  BY Untouched DEF Close, placeVars
<1>2. QED
  BY <1>1, Assemble
  DEF TypeInv, TypeOK, HandType, HasCache, Close, placeVars, settleVars, Phases

LEMMA StutterType ==
    ASSUME TypeInv, UNCHANGED vars
    PROVE  TypeInv'
<1>1. Handled' /\ CacheTypeOK' /\ PlaceTypeOK' /\ WindowTypeOK' /\ SettleTypeOK'
  BY Untouched DEF vars, placeVars
<1>2. QED
  BY <1>1, Assemble
  DEF TypeInv, TypeOK, HandType, HasCache, vars, placeVars, settleVars

LEMMA SettleTypeStep ==
    ASSUME TypeInv, Settle
    PROVE  TypeInv'
<1>1. CASE \E p \in Pools : Collect(p)
  BY <1>1, CollectType
<1>2. CASE \E a \in Attempts : Succeed(a) \/ Expire(a) \/ ServeWaiter(a) \/ Forward(a)
  BY <1>2, SucceedType, ExpireType, ServeWaiterType, ForwardType
<1>3. CASE \E a \in Attempts, c \in Caches : ChooseCache(a, c)
  BY <1>3, ChooseCacheType
<1>4. CASE Land \/ ReleaseServices
  BY <1>4, LandType, ReleaseServicesType
<1>5. CASE Hit \/ JoinFetch \/ Evict \/ StartFetch \/ RejectStorage
  BY <1>5, HitType, JoinFetchType, EvictType, StartFetchType, RejectStorageType
<1>6. CASE \E r \in Requests : Arrive(r)
  BY <1>6, ArriveType
<1>7. CASE ArriveRetry \/ ExpireOnArrival \/ Place
  BY <1>7, ArriveRetryType, ExpireOnArrivalType, PlaceType
<1>8. CASE StartWaiting \/ EndPhase
  BY <1>8, StartWaitingType, EndPhaseType
<1>9. CASE \E t \in now + 1 .. Horizon, ended \in SUBSET Started : Wait(t, ended)
  BY <1>9, WaitType
<1>10. QED
  BY <1>1, <1>2, <1>3, <1>4, <1>5, <1>6, <1>7, <1>8, <1>9 DEF Settle

LEMMA NextType == TypeInv /\ [Next]_vars => TypeInv'
<1> SUFFICES ASSUME TypeInv, [Next]_vars PROVE TypeInv'
  OBVIOUS
<1>1. CASE Settle
  BY <1>1, SettleTypeStep
<1>2. CASE Advance
  BY <1>2, AdvanceWindowType DEF Advance
<1>3. CASE Close
  BY <1>3, CloseType
<1>4. CASE \E t \in transfers : Cancel(t)
  BY <1>4, CancelType
<1>5. CASE Closed \/ UNCHANGED vars
  BY <1>5, StutterType DEF Closed
<1>6. QED
  BY <1>1, <1>2, <1>3, <1>4, <1>5 DEF Next

LEMMA TypeInvariant == Spec => []TypeInv
  BY InitType, NextType, PTL DEF Spec

-----------------------------------------------------------------------------
(***************************************************************************)
(* Limits.  The pools' part is in TypeInv; the queues' part needs only the *)
(* types, because every handler that lengthens a queue checks its limit.   *)
(***************************************************************************)
QueueLimits == \A s \in Clusters : Len(queues[s]) <= QueueLimit[s]

LEMMA QueueNumbers ==
    ASSUME TypeInv, NEW s \in Clusters
    PROVE  queues[s] \in Seq(Attempts) /\ Len(queues[s]) \in Nat /\ QueueLimit[s] \in Nat
  BY LenProperties, PlatformAssumption DEF TypeInv, TypeOK, SchedulerTypeOK

LEMMA LeaveSchedulerLimits ==
    ASSUME TypeInv, QueueLimits, NEW a \in Attempts, LeaveScheduler(a)
    PROVE  QueueLimits'
<1> SUFFICES ASSUME NEW s \in Clusters PROVE Len(queues'[s]) <= QueueLimit[s]
  BY DEF QueueLimits
<1>1. cluster[a] \in Clusters
  BY DEF TypeInv, TypeOK, PlaceTypeOK
<1>2. CASE s # cluster[a]
  BY <1>2 DEF LeaveScheduler, QueueLimits, TypeInv, TypeOK, SchedulerTypeOK
<1>3. CASE s = cluster[a]
  <2>1. queues'[s] = Without(queues[s], a)
    BY <1>3 DEF LeaveScheduler, TypeInv, TypeOK, SchedulerTypeOK
  <2>2. /\ Without(queues[s], a) \in Seq(Attempts)
        /\ Len(Without(queues[s], a)) <= Len(queues[s])
    BY QueueNumbers, WithoutType
  <2>3. Len(Without(queues[s], a)) \in Nat
    BY <2>2, LenProperties
  <2>4. QED
    BY <2>1, <2>2, <2>3, QueueNumbers DEF QueueLimits
<1>4. QED
  BY <1>2, <1>3

LEMMA EnqueueLimits ==
    ASSUME TypeInv, QueueLimits, NEW a \in Attempts, NEW s \in Clusters, Enqueue(a, s)
    PROVE  QueueLimits'
<1>1. CASE queues' = queues
  BY <1>1 DEF QueueLimits
<1>2. CASE Finish(a, "REJECTED")
  BY <1>2, LeaveSchedulerLimits DEF Finish
<1>3. ASSUME NEW rest \in Seq(Attempts), Len(rest) < QueueLimit[s],
             queues' = [queues EXCEPT ![s] = Append(rest, a)]
      PROVE  QueueLimits'
  <2> SUFFICES ASSUME NEW u \in Clusters PROVE Len(queues'[u]) <= QueueLimit[u]
    BY DEF QueueLimits
  <2>1. CASE u # s
    BY <1>3, <2>1 DEF QueueLimits, TypeInv, TypeOK, SchedulerTypeOK
  <2>2. CASE u = s
    <3>1. queues'[u] = Append(rest, a)
      BY <1>3, <2>2 DEF TypeInv, TypeOK, SchedulerTypeOK
    <3>2. Len(Append(rest, a)) = Len(rest) + 1 /\ Len(rest) \in Nat
      BY LenProperties
    <3>3. QED
      BY <1>3, <2>2, <3>1, <3>2, QueueNumbers
  <2>3. QED
    BY <2>1, <2>2
<1> DEFINE behind == IF HeadMayStart(s) THEN Tail(queues[s]) ELSE queues[s]
<1>4. behind \in Seq(Attempts)
  BY QueueNumbers, HeadTailProperties DEF HeadMayStart
<1>5. QED
  BY <1>1, <1>2, <1>3, <1>4 DEF Enqueue

LEMMA StartWaitingLimits ==
    ASSUME TypeInv, QueueLimits, StartWaiting
    PROVE  QueueLimits'
<1> SUFFICES ASSUME NEW s \in Clusters PROVE Len(queues'[s]) <= QueueLimit[s]
  BY DEF QueueLimits
<1>1. queues'[s] = IF HeadMayStart(s) THEN Tail(queues[s]) ELSE queues[s]
  BY DEF StartWaiting
<1>2. HeadMayStart(s) => Len(Tail(queues[s])) = Len(queues[s]) - 1
  BY QueueNumbers, HeadTailProperties DEF HeadMayStart
<1>3. QED
  BY <1>1, <1>2, QueueNumbers DEF QueueLimits

LEMMA NextQueueLimits == TypeInv /\ QueueLimits /\ [Next]_vars => QueueLimits'
<1> SUFFICES ASSUME TypeInv, QueueLimits, [Next]_vars PROVE QueueLimits'
  OBVIOUS
<1>1. CASE UNCHANGED queues
  BY <1>1 DEF QueueLimits
<1>2. ASSUME NEW a \in Attempts, LeaveScheduler(a)
      PROVE  QueueLimits'
  BY <1>2, LeaveSchedulerLimits
<1>3. CASE \E a \in Attempts : Succeed(a) \/ Expire(a)
  BY <1>2, <1>3 DEF Succeed, Expire, Finish
<1>4. CASE \E a \in Attempts : ServeWaiter(a)
  BY <1>1, <1>2, <1>4 DEF ServeWaiter, Deliver, Finish, schedulerVars
<1>5. CASE Hit \/ StartFetch \/ RejectStorage
  <2>1. current \in Attempts
    BY <1>5, CurrentType DEF Hit, StartFetch, RejectStorage, Miss
  <2>2. QED
    BY <1>1, <1>2, <1>5, <2>1
    DEF Hit, StartFetch, RejectStorage, Deliver, Finish, schedulerVars
<1>6. CASE ExpireOnArrival
  BY <1>2, <1>6, CurrentType DEF ExpireOnArrival, Finish
<1>7. CASE Place
  <2>1. current \in Attempts /\ cluster[current] \in Clusters
    BY <1>7, CurrentType DEF Place, TypeInv, TypeOK, PlaceTypeOK
  <2>2. QED
    BY <1>7, <2>1, EnqueueLimits DEF Place
<1>8. CASE StartWaiting
  BY <1>8, StartWaitingLimits
<1>9. CASE Advance \/ Close \/ Closed \/ UNCHANGED vars
  BY <1>1, <1>9 DEF Advance, AdvanceWindow, Close, Closed, vars, schedulerVars
<1>10. CASE \E t \in transfers : Cancel(t)
  BY <1>1, <1>10 DEF Cancel, schedulerVars
<1>11. CASE \E p \in Pools : Collect(p)
  BY <1>1, <1>11 DEF Collect, schedulerVars
<1>12. CASE \E a \in Attempts : Forward(a) \/ \E c \in Caches : ChooseCache(a, c)
  BY <1>1, <1>12 DEF Forward, ChooseCache, schedulerVars
<1>13. CASE Land \/ ReleaseServices \/ JoinFetch \/ Evict
  BY <1>1, <1>13 DEF Land, ReleaseServices, JoinFetch, Evict, schedulerVars
<1>14. CASE (\E r \in Requests : Arrive(r)) \/ ArriveRetry \/ EndPhase
  BY <1>1, <1>14 DEF Arrive, ArriveRetry, EndPhase, schedulerVars
<1>15. CASE \E t \in now + 1 .. Horizon, ended \in SUBSET Started : Wait(t, ended)
  BY <1>1, <1>15 DEF Wait, schedulerVars
<1>16. QED
  BY <1>3, <1>4, <1>5, <1>6, <1>7, <1>8, <1>9, <1>10, <1>11, <1>12, <1>13,
     <1>14, <1>15 DEF Next, Settle

\* No pool and no scheduler ever holds more than its limits, whatever is
\* started, promoted, cancelled, expired or retried.
THEOREM LimitsHold == Spec => []WithinLimits
<1>1. Init => QueueLimits
  BY PlatformAssumption DEF Init, QueueLimits
<1>2. TypeInv /\ QueueLimits => WithinLimits
  BY DEF TypeInv, PoolLimits, QueueLimits, WithinLimits
<1>3. QED
  BY <1>1, <1>2, TypeInvariant, NextQueueLimits, PTL DEF Spec

-----------------------------------------------------------------------------
(* Forwarding. *)

ForwardedStays ==
    \A a \in Attempts : forwarded[a] => forwarded'[a] /\ cluster'[a] = cluster[a]

LEMMA ForwardStays ==
    ASSUME TypeInv, NEW a \in Attempts, Forward(a)
    PROVE  ForwardedStays
<1>1. ~forwarded[a]
  BY DEF Forward, CanForward
<1>2. QED
  BY <1>1 DEF ForwardedStays, Forward, TypeInv, TypeOK, PlaceTypeOK

LEMMA NextForwardedStays == TypeInv /\ [Next]_vars => ForwardedStays
<1> SUFFICES ASSUME TypeInv, [Next]_vars PROVE ForwardedStays
  OBVIOUS
<1>1. CASE UNCHANGED <<cluster, forwarded>>
  BY <1>1 DEF ForwardedStays
<1>2. CASE \E a \in Attempts : Forward(a)
  BY <1>2, ForwardStays
<1>3. CASE \E a \in Attempts : \/ Succeed(a) \/ Expire(a) \/ ServeWaiter(a)
                               \/ \E c \in Caches : ChooseCache(a, c)
  BY <1>1, <1>3 DEF Succeed, Expire, ServeWaiter, ChooseCache, placeVars
<1>4. CASE Hit \/ JoinFetch \/ Evict \/ StartFetch \/ RejectStorage
  BY <1>1, <1>4 DEF Hit, JoinFetch, Evict, StartFetch, RejectStorage, placeVars
<1>5. CASE ArriveRetry \/ ExpireOnArrival \/ Place \/ \E r \in Requests : Arrive(r)
  BY <1>1, <1>5 DEF ArriveRetry, ExpireOnArrival, Place, Arrive, Placed, placeVars
<1>6. CASE Land \/ ReleaseServices \/ StartWaiting \/ EndPhase
  BY <1>1, <1>6 DEF Land, ReleaseServices, StartWaiting, EndPhase, placeVars
<1>7. CASE \E t \in now + 1 .. Horizon, ended \in SUBSET Started : Wait(t, ended)
  BY <1>1, <1>7 DEF Wait, placeVars
<1>8. CASE (\E p \in Pools : Collect(p)) \/ (\E t \in transfers : Cancel(t))
  BY <1>1, <1>8 DEF Collect, Cancel, placeVars
<1>9. CASE Advance \/ Close \/ Closed \/ UNCHANGED vars
  BY <1>1, <1>9 DEF Advance, AdvanceWindow, Close, Closed, vars, placeVars
<1>10. QED
  BY <1>2, <1>3, <1>4, <1>5, <1>6, <1>7, <1>8, <1>9 DEF Next, Settle

\* No attempt is forwarded a second time, and none leaves the scheduler it was
\* forwarded to.
THEOREM ForwardedAtMostOnce == Spec => ForwardedOnce
<1>1. TypeInv /\ [Next]_vars =>
        [\A a \in Attempts : forwarded[a] =>
            forwarded'[a] /\ cluster'[a] = cluster[a]]_vars
  BY NextForwardedStays DEF ForwardedStays
<1>2. QED
  BY <1>1, TypeInvariant, PTL DEF Spec, ForwardedOnce

-----------------------------------------------------------------------------
(***************************************************************************)
(* One instant.  What has ended is dealt with before anything new is       *)
(* admitted: completions in the first loop, successes in the second,       *)
(* services before the schedulers look at an attempt.                      *)
(***************************************************************************)
Emptied ==
    /\ pc # "collect" => completed = {}
    /\ pc \notin {"collect", "succeed"} => delivered = {}

Scheduling == {"schedule", "serve", "place", "arrive", "retry"}
NoneOver == pc \in Scheduling => \A s \in Clusters : ~Over(s)

LEMMA NextEmptied == Emptied /\ [Next]_vars => Emptied'
<1> SUFFICES ASSUME Emptied, [Next]_vars PROVE Emptied'
  OBVIOUS
<1>1. CASE (\E p \in Pools : Collect(p)) \/ (\E a \in Attempts : Succeed(a))
  BY <1>1 DEF Emptied, Collect, Succeed
<1>2. CASE \E a \in Attempts : \/ Expire(a) \/ ServeWaiter(a) \/ Forward(a)
                               \/ \E c \in Caches : ChooseCache(a, c)
  BY <1>2 DEF Emptied, Expire, ServeWaiter, Forward, ChooseCache, settleVars
<1>3. CASE Land \/ ReleaseServices \/ StartWaiting
  BY <1>3 DEF Emptied, Land, ReleaseServices, StartWaiting, settleVars
<1>4. CASE Hit \/ JoinFetch \/ Evict \/ StartFetch \/ RejectStorage
  BY <1>4 DEF Emptied, Hit, JoinFetch, Evict, StartFetch, RejectStorage, Miss,
              settleVars
<1>5. CASE ArriveRetry \/ ExpireOnArrival \/ Place \/ \E r \in Requests : Arrive(r)
  BY <1>5 DEF Emptied, ArriveRetry, ExpireOnArrival, Place, Arrive, Placed
<1>6. CASE EndPhase
  <2>1. completed' = completed /\ delivered' = delivered
    BY <1>6 DEF EndPhase, settleVars
  <2>2. CASE pc = "collect"
    BY <1>6, <2>1, <2>2 DEF EndPhase, Through, PhaseAfter, Emptied
  <2>3. CASE pc = "succeed"
    BY <1>6, <2>1, <2>3 DEF EndPhase, Through, Emptied
  <2>4. CASE pc \notin {"collect", "succeed"}
    BY <2>1, <2>4 DEF Emptied
  <2>5. QED
    BY <2>2, <2>3, <2>4
<1>7. CASE \E t \in now + 1 .. Horizon, ended \in SUBSET Started :
             pc = "wait" /\ Wait(t, ended)
  BY <1>7 DEF Emptied, Wait
<1>8. CASE Advance \/ Close \/ Closed \/ UNCHANGED vars
  BY <1>8 DEF Emptied, Advance, AdvanceWindow, Close, Closed, vars, settleVars
<1>9. CASE \E t \in transfers : Cancel(t)
  BY <1>9 DEF Emptied, Cancel, settleVars
<1>10. QED
  BY <1>1, <1>2, <1>3, <1>4, <1>5, <1>6, <1>7, <1>8, <1>9 DEF Next, Settle

\* Only a service that starts now can break NoneOver, and it takes time.
LEMMA LeaveKeepsNoneOver ==
    ASSUME TypeInv, NEW a \in Attempts, LeaveScheduler(a), now' = now,
           \A s \in Clusters : ~Over(s)
    PROVE  \A s \in Clusters : ~Over(s)'
<1> SUFFICES ASSUME NEW s \in Clusters PROVE ~Over(s)'
  OBVIOUS
<1>1. busy'[s] \in {busy[s], Idle}
  BY DEF LeaveScheduler, TypeInv, TypeOK, SchedulerTypeOK
<1>2. QED
  BY <1>1 DEF Over, Busy, Idle

LEMMA EnqueueKeepsNoneOver ==
    ASSUME TypeInv, NEW a \in Attempts, NEW u \in Clusters, Enqueue(a, u),
           now' = now, \A s \in Clusters : ~Over(s)
    PROVE  \A s \in Clusters : ~Over(s)'
<1> SUFFICES ASSUME NEW s \in Clusters PROVE ~Over(s)'
  OBVIOUS
<1>1. CASE Finish(a, "REJECTED")
  BY <1>1, LeaveKeepsNoneOver DEF Finish
<1>2. CASE busy' = busy
  BY <1>2 DEF Over, Busy
<1>3. ASSUME NEW b, busy' = [busy EXCEPT ![u] = Serving(b, u)]
      PROVE  ~Over(s)'
  <2>1. CASE s = u
    <3>1. busy'[s].finish = now + ServiceTime[s]
      BY <1>3, <2>1 DEF Serving, TypeInv, TypeOK, SchedulerTypeOK
    <3>2. now \in Nat /\ ServiceTime[s] \in Nat \ {0}
      BY PlatformAssumption DEF TypeInv, TypeOK
    <3>3. QED
      BY <3>1, <3>2 DEF Over
  <2>2. CASE s # u
    BY <1>3, <2>2 DEF Over, Busy, TypeInv, TypeOK, SchedulerTypeOK
  <2>3. QED
    BY <2>1, <2>2
<1>4. QED
  BY <1>1, <1>2, <1>3 DEF Enqueue

LEMMA NextNoneOver == TypeInv /\ NoneOver /\ [Next]_vars => NoneOver'
<1> SUFFICES ASSUME TypeInv, NoneOver, [Next]_vars, pc' \in Scheduling,
                    NEW s \in Clusters
             PROVE  ~Over(s)'
  BY DEF NoneOver
<1>1. CASE pc \in Scheduling /\ UNCHANGED <<busy, now>>
  BY <1>1 DEF NoneOver, Over, Busy
<1>2. ASSUME NEW a \in Attempts, pc \in Scheduling, LeaveScheduler(a), now' = now
      PROVE  ~Over(s)'
  BY <1>2, LeaveKeepsNoneOver DEF NoneOver
<1>3. CASE \E a \in Attempts : \/ Succeed(a) \/ Expire(a) \/ ServeWaiter(a)
  BY <1>3 DEF Succeed, Expire, ServeWaiter, Scheduling
<1>4. CASE \E a \in Attempts : Forward(a) \/ \E c \in Caches : ChooseCache(a, c)
  BY <1>1, <1>4 DEF Forward, ChooseCache, schedulerVars, Scheduling
<1>5. CASE Hit \/ StartFetch \/ RejectStorage
  <2>1. current \in Attempts /\ pc \in Scheduling
    BY <1>5, CurrentType DEF Hit, StartFetch, RejectStorage, Miss, Scheduling
  <2>2. QED
    BY <1>1, <1>2, <1>5, <2>1
    DEF Hit, StartFetch, RejectStorage, Deliver, Finish, schedulerVars
<1>6. CASE JoinFetch \/ Evict
  BY <1>1, <1>6 DEF JoinFetch, Evict, Miss, schedulerVars, Scheduling
<1>7. CASE ExpireOnArrival
  <2>1. current \in Attempts /\ pc \in Scheduling
    BY <1>7, CurrentType DEF ExpireOnArrival, Scheduling
  <2>2. QED
    BY <1>2, <1>7, <2>1 DEF ExpireOnArrival, Finish, Placed
<1>8. CASE Place
  <2>1. current \in Attempts /\ cluster[current] \in Clusters /\ pc \in Scheduling
    BY <1>8, CurrentType DEF Place, TypeInv, TypeOK, PlaceTypeOK, Scheduling
  <2>2. now' = now /\ Enqueue(current, cluster[current])
    BY <1>8 DEF Place, Placed
  <2>3. QED
    BY <2>1, <2>2, EnqueueKeepsNoneOver DEF NoneOver
<1>9. CASE (\E r \in Requests : Arrive(r)) \/ ArriveRetry
  BY <1>1, <1>9 DEF Arrive, ArriveRetry, schedulerVars, Scheduling
<1>10. CASE ReleaseServices
  <2>1. now' = now /\ busy'[s] = IF s \in Released THEN Idle ELSE busy[s]
    BY <1>10 DEF ReleaseServices
  <2>2. s \in Released \/ ~Over(s)
    BY DEF Released
  <2>3. QED
    BY <2>1, <2>2 DEF Over, Busy, Idle
<1>11. CASE EndPhase
  <2>1. pc \in Scheduling
    BY <1>11 DEF EndPhase, Through, PhaseAfter, Scheduling
  <2>2. QED
    BY <1>1, <1>11, <2>1 DEF EndPhase, schedulerVars
<1>12. CASE Land \/ StartWaiting \/ \E p \in Pools : Collect(p)
  BY <1>12 DEF Land, StartWaiting, Collect, Scheduling
<1>13. CASE \E t \in now + 1 .. Horizon, ended \in SUBSET Started : Wait(t, ended)
  BY <1>13 DEF Wait, Scheduling
<1>14. CASE Advance \/ Close \/ Closed \/ (\E t \in transfers : Cancel(t))
  BY <1>14 DEF Advance, AdvanceWindow, Close, Closed, Cancel, vars, Scheduling
<1>15. CASE UNCHANGED vars
  BY <1>1, <1>15 DEF vars, schedulerVars
<1>16. QED
  BY <1>3, <1>4, <1>5, <1>6, <1>7, <1>8, <1>9, <1>10, <1>11, <1>12, <1>13,
     <1>14, <1>15 DEF Next, Settle

LEMMA InstantInvariant == Spec => [](Emptied /\ NoneOver)
<1>1. Init => Emptied /\ NoneOver
  BY DEF Init, Emptied, NoneOver, Scheduling
<1>2. QED
  BY <1>1, NextEmptied, NextNoneOver, TypeInvariant, PTL DEF Spec

\* While transfers that have ended are collected no attempt changes its status.
LEMMA CollectingChangesNothing ==
    [Next]_vars /\ pc = "collect" => status' = status
<1> SUFFICES ASSUME [Next]_vars, pc = "collect" PROVE status' = status
  OBVIOUS
<1>1. CASE (\E p \in Pools : Collect(p)) \/ EndPhase \/ Closed \/ UNCHANGED vars
  BY <1>1 DEF Collect, EndPhase, Closed, vars, requestVars
<1>2. CASE \E a \in Attempts : \/ Succeed(a) \/ Expire(a) \/ ServeWaiter(a) \/ Forward(a)
                               \/ \E c \in Caches : ChooseCache(a, c)
  BY <1>2 DEF Succeed, Expire, ServeWaiter, Forward, ChooseCache
<1>3. CASE \/ Land \/ ReleaseServices \/ StartWaiting
           \/ Hit \/ JoinFetch \/ Evict \/ StartFetch \/ RejectStorage
  BY <1>3 DEF Land, ReleaseServices, StartWaiting, Hit, JoinFetch, Evict,
              StartFetch, RejectStorage, Miss
<1>4. CASE ArriveRetry \/ ExpireOnArrival \/ Place \/ \E r \in Requests : Arrive(r)
  BY <1>4 DEF ArriveRetry, ExpireOnArrival, Place, Arrive
<1>5. CASE \E t \in now + 1 .. Horizon, ended \in SUBSET Started : Wait(t, ended)
  BY <1>5 DEF Wait
<1>6. CASE Advance \/ Close \/ \E t \in transfers : Cancel(t)
  BY <1>6 DEF Advance, AdvanceWindow, Close, Cancel
<1>7. QED
  BY <1>1, <1>2, <1>3, <1>4, <1>5, <1>6 DEF Next, Settle

\* Whoever is rejected was rejected after everything that ended at the same
\* instant had given its slot back, whatever the platform and the workload.
THEOREM RejectedOnlyWhenFullHolds == Spec => RejectedOnlyWhenFull
<1>1. ASSUME Emptied, NoneOver, [Next]_vars, NEW a \in Attempts,
             status'[a] = "REJECTED", status[a] # "REJECTED"
      PROVE  /\ completed = {}
             /\ pc = "place" => \A s \in Clusters : ~Over(s)
  <2>1. pc # "collect"
    BY <1>1, CollectingChangesNothing
  <2>2. QED
    BY <1>1, <2>1 DEF Emptied, NoneOver, Scheduling
<1>2. Emptied /\ NoneOver /\ [Next]_vars =>
        [\A a \in Attempts : status'[a] = "REJECTED" /\ status[a] # "REJECTED" =>
            /\ completed = {}
            /\ pc = "place" => \A s \in Clusters : ~Over(s)]_vars
  BY <1>1
<1>3. QED
  BY <1>2, InstantInvariant, PTL DEF Spec, RejectedOnlyWhenFull

\* While successes are handled every status that changes becomes SUCCEEDED: a
\* success schedules no retry, and no other handler runs.
LEMMA SucceedingSucceeds ==
    ASSUME TypeInv, [Next]_vars, pc = "succeed", NEW a \in Attempts,
           status'[a] # status[a]
    PROVE  status'[a] = "SUCCEEDED"
<1>1. CASE \E b \in Attempts : Succeed(b)
  <2>1. PICK b \in Attempts : Succeed(b)
    BY <1>1
  <2>2. ~Retries(b, "SUCCEEDED")
    BY DEF Retries
  <2>3. status' = [status EXCEPT ![b] = "SUCCEEDED"]
    BY <2>1, <2>2 DEF Succeed, Finish, Conclude
  <2>4. QED
    BY <2>3 DEF TypeInv, TypeOK, RequestTypeOK
<1>2. CASE EndPhase \/ Closed \/ UNCHANGED vars
  BY <1>2 DEF EndPhase, Closed, vars, requestVars
<1>3. CASE \E b \in Attempts : \/ Expire(b) \/ ServeWaiter(b) \/ Forward(b)
                               \/ \E c \in Caches : ChooseCache(b, c)
  BY <1>3 DEF Expire, ServeWaiter, Forward, ChooseCache
<1>4. CASE \/ Land \/ ReleaseServices \/ StartWaiting \/ (\E p \in Pools : Collect(p))
           \/ Hit \/ JoinFetch \/ Evict \/ StartFetch \/ RejectStorage
  BY <1>4 DEF Land, ReleaseServices, StartWaiting, Collect, Hit, JoinFetch,
              Evict, StartFetch, RejectStorage, Miss
<1>5. CASE ArriveRetry \/ ExpireOnArrival \/ Place \/ \E r \in Requests : Arrive(r)
  BY <1>5 DEF ArriveRetry, ExpireOnArrival, Place, Arrive
<1>6. CASE \E t \in now + 1 .. Horizon, ended \in SUBSET Started : Wait(t, ended)
  BY <1>6 DEF Wait
<1>7. CASE Advance \/ Close \/ \E t \in transfers : Cancel(t)
  BY <1>7 DEF Advance, AdvanceWindow, Close, Cancel
<1>8. QED
  BY <1>1, <1>2, <1>3, <1>4, <1>5, <1>6, <1>7 DEF Next, Settle

\* A delivery that has ended is a success, even at its deadline, whatever else
\* happens at that instant.
THEOREM DeliveryTieWon == Spec => DeliveryWinsTie
<1>1. ASSUME TypeInv, Emptied, [Next]_vars, NEW a \in delivered,
             status'[a] # status[a]
      PROVE  status'[a] = "SUCCEEDED"
  <2>1. a \in Attempts
    BY <1>1 DEF TypeInv, TypeOK, SettleTypeOK
  <2>2. pc \in {"collect", "succeed"}
    BY <1>1 DEF Emptied
  <2>3. pc # "collect"
    BY <1>1, CollectingChangesNothing
  <2>4. QED
    BY <1>1, <2>1, <2>2, <2>3, SucceedingSucceeds
<1>2. TypeInv /\ Emptied /\ [Next]_vars =>
        [\A a \in delivered : status'[a] # status[a] => status'[a] = "SUCCEEDED"]_vars
  BY <1>1
<1>3. QED
  BY <1>2, TypeInvariant, InstantInvariant, PTL DEF Spec, DeliveryWinsTie

-----------------------------------------------------------------------------
(***************************************************************************)
(* The invariant of holders.                                               *)
(***************************************************************************)
InQueues == UNION {ToSet(queues[s]) : s \in Clusters}
InService == {busy[s].request : s \in Clusters} \ {None}
Moving == {a \in Attempts : request_transfer[a] # None}
\* What the handlers of the running _settle have taken out of those places.
Taken == ready \cup delivered \cup toDeliver \cup ({current} \ {None})
LandedFor == UNION {landed[i].waiters : i \in 1 .. Len(landed)}

\* Attempts queue and are served at the scheduler they belong to, once.
AtHome ==
    \A s \in Clusters :
        /\ IsInjective(queues[s])
        /\ \A a \in ToSet(queues[s]) : cluster[a] = s
        /\ busy[s].request # None => cluster[busy[s].request] = s
Apart ==
    /\ InQueues \cap InService = {}
    /\ (InQueues \cup InService) \cap Moving = {}
    /\ (InQueues \cup InService \cup Moving) \cap (Taken \cup LandedFor) = {}
    /\ current \notin ready
    /\ (delivered \cup toDeliver) \cap LandedFor = {}
    /\ \A i, j \in 1 .. Len(landed) : i # j => landed[i].waiters \cap landed[j].waiters = {}
Alive == InQueues \cup InService \cup Moving \cup Taken \subseteq live
NoneLost == Open => live \subseteq InQueues \cup InService \cup Moving \cup Taken \cup LandedFor

\* Each transfer has somebody who waits for it, and a delivery its attempt.
Carried ==
    /\ IsFiniteSet(transfers)
    /\ \A a \in Moving :
          /\ request_transfer[a] \in transfers
          /\ request_transfer[a].kind = "delivery" => request_transfer[a].owner = a
    /\ \A t \in transfers : \E a \in Attempts : request_transfer[a] = t

\* A loop of _settle ends with nothing left of what it handles.
Phased ==
    /\ pc # "collect" => completed = {}
    /\ pc \notin {"collect", "succeed"} => delivered = {}
    /\ pc \notin {"collect", "succeed", "expire", "land"} => landed = <<>>
    /\ pc # "land" => toDeliver = {}
    /\ pc \notin {"schedule", "serve", "place"} => ready = {}
    /\ pc \notin {"serve", "place"} => current = None
    /\ pc = "place" => forwarded[current] \/ ready = {}

HoldInv == Phased /\ AtHome /\ Apart /\ Alive /\ NoneLost /\ Carried

-----------------------------------------------------------------------------
(* Handlers. *)
LEMMA WithoutSet ==
    ASSUME NEW S, NEW s \in Seq(S), IsInjective(s), NEW e
    PROVE  /\ Without(s, e) \in Seq(S) /\ IsInjective(Without(s, e))
           /\ ToSet(Without(s, e)) = ToSet(s) \ {e}
<1>1. DOMAIN s = 1 .. Len(s)
  BY LenProperties
<1>2. CASE ~Contains(s, e)
  <2>1. e \notin ToSet(s)
    BY <1>1, <1>2 DEF Contains, ToSet
  <2>2. QED
    BY <1>2, <2>1 DEF Without
<1>3. CASE Contains(s, e)
  <2> DEFINE i == CHOOSE j \in 1 .. Len(s) : s[j] = e
  <2>1. i \in 1 .. Len(s) /\ s[i] = e /\ Without(s, e) = RemoveAt(s, i)
    BY <1>3 DEF Contains, Without
  <2> HIDE DEF i
  <2>2. QED
    BY <2>1, RemoveAtSet
<1>4. QED
  BY <1>2, <1>3

LEMMA SchedulerTypes ==
    ASSUME TypeInv, NEW s \in Clusters
    PROVE  /\ queues[s] \in Seq(Attempts) /\ ToSet(queues[s]) \subseteq Attempts
           /\ busy[s].request \in Attempts \cup {None} /\ None \notin Attempts
           /\ ToSet(queues[s]) \subseteq InQueues
<1>1. queues[s] \in Seq(Attempts) /\ busy[s] \in [request : Attempts \cup {None}, finish : Nat]
  BY DEF TypeInv, TypeOK, SchedulerTypeOK
<1>2. ToSet(queues[s]) \subseteq Attempts
  BY <1>1, ElementOfSeq, LenProperties DEF ToSet
<1>3. QED
  BY <1>1, <1>2, SetsAssumption DEF InQueues

\* An attempt leaves its scheduler, and no other is affected.
LEMMA LeaveSchedulerHolds ==
    ASSUME TypeInv, AtHome, NEW a \in Attempts, LeaveScheduler(a), cluster' = cluster
    PROVE  /\ AtHome'
           /\ InQueues' = InQueues \ {a} /\ InService' = InService \ {a}
<1> DEFINE u == cluster[a]
<1>1. u \in Clusters
  BY DEF TypeInv, TypeOK, PlaceTypeOK
<1>2. /\ queues' = [queues EXCEPT ![u] = Without(queues[u], a)]
      /\ busy' = IF busy[u].request = a THEN [busy EXCEPT ![u] = Idle] ELSE busy
      /\ queues \in [Clusters -> Seq(Attempts)] /\ DOMAIN busy = Clusters
  BY DEF LeaveScheduler, TypeInv, TypeOK, SchedulerTypeOK
<1> HIDE DEF u
<1>3. /\ IsInjective(Without(queues[u], a))
      /\ ToSet(Without(queues[u], a)) = ToSet(queues[u]) \ {a}
  BY <1>1, <1>2, WithoutSet DEF AtHome
<1>4. \A s \in Clusters : /\ IsInjective(queues'[s])
                          /\ ToSet(queues'[s]) = ToSet(queues[s]) \ {a}
  <2>1. \A s \in Clusters : s # u => a \notin ToSet(queues[s])
    BY DEF AtHome, u
  <2>2. \A s \in Clusters : s # u => queues'[s] = queues[s]
    BY <1>2
  <2>3. queues'[u] = Without(queues[u], a)
    BY <1>1, <1>2
  <2>4. QED
    BY <1>3, <2>1, <2>2, <2>3 DEF AtHome
<1>5. \A s \in Clusters : busy'[s].request = IF busy[s].request = a THEN None ELSE busy[s].request
  <2>1. \A s \in Clusters : s # u => busy[s].request # a
    BY SetsAssumption DEF AtHome, u
  <2>2. QED
    BY <1>1, <1>2, <2>1 DEF Idle
<1>6. AtHome'
  BY <1>4, <1>5 DEF AtHome
<1>7. InQueues' = InQueues \ {a}
  BY <1>4 DEF InQueues
<1>8. InService' = InService \ {a}
  BY <1>5, SetsAssumption DEF InService
<1>9. QED
  BY <1>6, <1>7, <1>8

LEMMA TransferTypes ==
    ASSUME TypeInv
    PROVE  /\ transfers \subseteq Transfers /\ None \notin Transfers
           /\ request_transfer \in [Attempts -> Transfers \cup {None}]
  BY NoneIsNoTransfer DEF TypeInv, TypeOK, TransferTypeOK, WaiterTypeOK

\* The waiters of a transfer let it go, and it goes.
LEMMA RemovalCarried ==
    ASSUME TypeInv, Carried, NEW W \in SUBSET Attempts, NEW T \in SUBSET transfers,
           request_transfer' = [a \in Attempts |-> IF a \in W THEN None ELSE request_transfer[a]],
           transfers' = transfers \ T, IsFiniteSet(transfers'),
           \A t \in transfers : t \in T <=> Waiters(t) \subseteq W
    PROVE  Carried' /\ Moving' = Moving \ W
<1>1. /\ request_transfer \in [Attempts -> Transfers \cup {None}] /\ None \notin Transfers
      /\ transfers \subseteq Transfers
  BY TransferTypes
<1>2. Moving' = Moving \ W
  BY <1>1 DEF Moving
<1>3. \A a \in Moving \ W : request_transfer'[a] = request_transfer[a]
  BY DEF Moving
<1>4. \A a \in Moving \ W : request_transfer[a] \in transfers'
  <2> SUFFICES ASSUME NEW a \in Moving \ W PROVE request_transfer[a] \in transfers'
    OBVIOUS
  <2>1. a \in Waiters(request_transfer[a]) /\ request_transfer[a] \in transfers
    BY DEF Waiters, Moving, Carried
  <2>2. QED
    BY <2>1
<1>5. \A t \in transfers' : \E a \in Attempts : request_transfer'[a] = t
  <2> SUFFICES ASSUME NEW t \in transfers' PROVE \E a \in Attempts : request_transfer'[a] = t
    OBVIOUS
  <2>1. PICK a \in Waiters(t) : a \notin W
    OBVIOUS
  <2>2. QED
    BY <2>1 DEF Waiters
<1>6. QED
  BY <1>2, <1>3, <1>4, <1>5 DEF Carried

LEMMA LeaveTransferHolds ==
    ASSUME TypeInv, Carried, NEW a \in Attempts, LeaveTransfer(a)
    PROVE  Carried' /\ Moving' = Moving \ {a}
<1> DEFINE t == request_transfer[a]
           T == IF t # None /\ Waiters(t) = {a} THEN {t} ELSE {}
<1>1. /\ request_transfer \in [Attempts -> Transfers \cup {None}] /\ None \notin Transfers
      /\ transfers \subseteq Transfers
  BY TransferTypes
<1>2. transfers' = transfers \ T
  BY DEF LeaveTransfer, RemoveTransfer, transferVars
<1>3. request_transfer' = [b \in Attempts |-> IF b \in {a} THEN None ELSE request_transfer[b]]
  BY <1>1 DEF LeaveTransfer
<1>4. t # None => t \in transfers /\ a \in Waiters(t)
  BY DEF Carried, Moving, Waiters
<1>5. T \in SUBSET transfers
  BY <1>4
<1>6. \A u \in transfers : u \in T <=> Waiters(u) \subseteq {a}
  <2> SUFFICES ASSUME NEW u \in transfers PROVE u \in T <=> Waiters(u) \subseteq {a}
    OBVIOUS
  <2>1. PICK b \in Attempts : request_transfer[b] = u
    BY DEF Carried
  <2>2. Waiters(u) \subseteq {a} => u = t /\ Waiters(u) = {a}
    BY <2>1 DEF Waiters
  <2>3. QED
    BY <1>1, <2>2
<1>7. IsFiniteSet(transfers')
  BY <1>2, FS_Subset DEF Carried
<1> HIDE DEF T
<1>8. QED
  BY <1>2, <1>3, <1>5, <1>6, <1>7, RemovalCarried

LEMMA FinishHolds ==
    ASSUME TypeInv, AtHome, Carried, NEW a \in Attempts, NEW o \in Terminal, Finish(a, o),
           cluster' = cluster
    PROVE  /\ AtHome' /\ Carried' /\ live' = live \ {a}
           /\ InQueues' = InQueues \ {a} /\ InService' = InService \ {a}
           /\ Moving' = Moving \ {a}
  BY LeaveSchedulerHolds, LeaveTransferHolds DEF Finish, Conclude

LEMMA DetachHolds ==
    ASSUME TypeInv, Carried, NEW t \in transfers, RemoveTransfer(t), Detach(t)
    PROVE  /\ Carried' /\ Waiters(t) \subseteq Moving
           /\ Moving' = Moving \ Waiters(t)
<1>1. /\ request_transfer \in [Attempts -> Transfers \cup {None}] /\ None \notin Transfers
      /\ transfers \subseteq Transfers
  BY TransferTypes
<1>2. request_transfer' = [b \in Attempts |-> IF b \in Waiters(t) THEN None ELSE request_transfer[b]]
  BY <1>1 DEF Detach, Waiters
<1>3. transfers' = transfers \ {t} /\ IsFiniteSet(transfers \ {t})
  BY FS_Subset DEF RemoveTransfer, Carried
<1>4. \A u \in transfers : u \in {t} <=> Waiters(u) \subseteq Waiters(t)
  <2> SUFFICES ASSUME NEW u \in transfers PROVE u \in {t} <=> Waiters(u) \subseteq Waiters(t)
    OBVIOUS
  <2>1. PICK b \in Attempts : request_transfer[b] = u
    BY DEF Carried
  <2>2. QED
    BY <2>1 DEF Waiters
<1>5. Waiters(t) \subseteq Moving /\ Waiters(t) \in SUBSET Attempts
  BY <1>1 DEF Waiters, Moving
<1>6. {t} \in SUBSET transfers
  OBVIOUS
<1>7. QED
  BY <1>2, <1>3, <1>4, <1>5, <1>6, RemovalCarried

LEMMA BeginHolds ==
    ASSUME TypeInv, Carried, NEW a \in Attempts, a \notin Moving, NEW t \in Transfers,
           t.kind = "delivery" => t.owner = a, Begin(t, a)
    PROVE  Carried' /\ Moving' = Moving \cup {a}
<1>1. /\ request_transfer \in [Attempts -> Transfers \cup {None}] /\ None \notin Transfers
      /\ transfers \subseteq Transfers
  BY TransferTypes
<1>2. /\ request_transfer' = [request_transfer EXCEPT ![a] = t]
      /\ transfers' = transfers \cup {t}
  BY DEF Begin
<1>3. Moving' = Moving \cup {a}
  BY <1>1, <1>2 DEF Moving
<1>4. IsFiniteSet(transfers')
  BY <1>2, FS_AddElement DEF Carried
<1>5. \A b \in Moving' : /\ request_transfer'[b] \in transfers'
                         /\ request_transfer'[b].kind = "delivery" => request_transfer'[b].owner = b
  BY <1>1, <1>2, <1>3 DEF Carried, Moving
<1>6. \A u \in transfers' : \E b \in Attempts : request_transfer'[b] = u
  BY <1>1, <1>2 DEF Carried, Moving
<1>7. QED
  BY <1>3, <1>4, <1>5, <1>6 DEF Carried

-----------------------------------------------------------------------------
(***************************************************************************)
(* Steps.                                                                  *)
(***************************************************************************)
Settled == <<completed, delivered, landed, toDeliver>>

LEMMA LandedSame == landed' = landed => LandedFor' = LandedFor
  BY DEF LandedFor

\* An attempt in the hands of _settle goes, because it has ended, waits for a
\* transfer or is placed; or any other one ends.
LEMMA OneGoes ==
    ASSUME TypeInv, HoldInv, NEW a \in Attempts,
           Taken' = Taken \ {a}, current' \notin ready', landed' = landed,
           delivered' \subseteq delivered, toDeliver' \subseteq toDeliver,
           Open' => Open, Phased', AtHome', Carried',
           \/ /\ live' = live \ {a} /\ InQueues' = InQueues \ {a}
              /\ InService' = InService \ {a} /\ Moving' = Moving \ {a}
           \/ /\ a \in Taken
              /\ \/ /\ live' = live /\ InQueues' = InQueues
                    /\ InService' = InService /\ Moving' = Moving \cup {a}
                 \/ /\ live' = live /\ InQueues' = InQueues
                    /\ InService' = InService \cup {a} /\ Moving' = Moving
                 \/ /\ live' = live /\ InQueues' = InQueues \cup {a}
                    /\ InService' = InService /\ Moving' = Moving
                 \/ /\ live' = live /\ Moving' = Moving
                    /\ \E head \in InQueues : /\ InQueues' = (InQueues \ {head}) \cup {a}
                                              /\ InService' = InService \cup {head},
           a \in Taken => a \notin LandedFor
    PROVE  HoldInv'
<1>1. LandedFor' = LandedFor
  BY LandedSame
<1>2. /\ InQueues \cap InService = {}
      /\ (InQueues \cup InService) \cap Moving = {}
      /\ (InQueues \cup InService \cup Moving) \cap (Taken \cup LandedFor) = {}
  BY DEF HoldInv, Apart
<1>3. InQueues \cup InService \cup Moving \cup Taken \subseteq live
  BY DEF HoldInv, Alive
<1>4. Alive'
  BY <1>2, <1>3 DEF Alive
<1>5. NoneLost'
  BY <1>1 DEF HoldInv, NoneLost
<1>6. /\ InQueues' \cap InService' = {}
      /\ (InQueues' \cup InService') \cap Moving' = {}
      /\ (InQueues' \cup InService' \cup Moving') \cap (Taken' \cup LandedFor') = {}
  BY <1>1, <1>2
<1>7. Apart'
  BY <1>1, <1>6 DEF HoldInv, Apart
<1>8. QED
  BY <1>4, <1>5, <1>7 DEF HoldInv

\* The attempt in hand goes.
LEMMA HandGoes ==
    ASSUME TypeInv, HoldInv, pc \in {"serve", "place"}, current \in Attempts,
           current' = None, pc' \in {"schedule", "arrive"},
           pc' = "arrive" => ready = {},
           ready' = ready, UNCHANGED Settled, AtHome', Carried',
           \/ /\ live' = live \ {current} /\ InQueues' = InQueues \ {current}
              /\ InService' = InService \ {current} /\ Moving' = Moving \ {current}
           \/ /\ live' = live /\ InQueues' = InQueues
              /\ InService' = InService /\ Moving' = Moving \cup {current}
           \/ /\ live' = live /\ InQueues' = InQueues
              /\ InService' = InService \cup {current} /\ Moving' = Moving
           \/ /\ live' = live /\ InQueues' = InQueues \cup {current}
              /\ InService' = InService /\ Moving' = Moving
           \/ /\ live' = live /\ Moving' = Moving
              /\ \E head \in InQueues : /\ InQueues' = (InQueues \ {head}) \cup {current}
                                        /\ InService' = InService \cup {head}
    PROVE  HoldInv'
<1>1. /\ landed = <<>> /\ delivered = {} /\ toDeliver = {} /\ completed = {}
      /\ landed' = <<>> /\ delivered' = {} /\ toDeliver' = {} /\ completed' = {}
      /\ None \notin Attempts
  BY SetsAssumption DEF HoldInv, Phased, Settled
<1>2. LandedFor = {}
  BY <1>1 DEF LandedFor
<1>3. Taken = ready \cup {current} /\ Taken' = ready /\ current \notin ready
  BY <1>1 DEF Taken, HoldInv, Apart
<1>4. Taken' = Taken \ {current} /\ current \in Taken
  BY <1>3
<1>5. Phased' /\ (Open' => Open)
  BY <1>1 DEF HoldInv, Phased, Open
<1>6. current' \notin ready'
  BY <1>1 DEF TypeInv, TypeOK, SettleTypeOK
<1> HIDE DEF Settled
<1>7. QED
  BY <1>1, <1>2, <1>4, <1>5, <1>6, OneGoes

LEMMA SchedulersSame ==
    ASSUME UNCHANGED schedulerVars, cluster' = cluster
    PROVE  /\ AtHome => AtHome'
           /\ InQueues' = InQueues /\ InService' = InService
  BY DEF schedulerVars, AtHome, InQueues, InService

LEMMA TransfersSame ==
    ASSUME transfers' = transfers, request_transfer' = request_transfer
    PROVE  (Carried => Carried') /\ Moving' = Moving
  BY DEF Carried, Moving

LEMMA StartsHolds ==
    ASSUME TypeInv, AtHome, Carried, NEW a \in Attempts, a \notin Moving,
           NEW t \in Transfers, t.kind = "delivery" => t.owner = a,
           Begin(t, a), NEW s, SetStatus(a, s), UNCHANGED schedulerVars,
           cluster' = cluster
    PROVE  /\ AtHome' /\ Carried' /\ live' = live /\ InQueues' = InQueues
           /\ InService' = InService /\ Moving' = Moving \cup {a}
  BY SchedulersSame, BeginHolds DEF SetStatus

LEMMA DeliverHolds ==
    ASSUME TypeInv, AtHome, Carried, NEW a \in Attempts, a \notin Moving,
           HasCache(a), Deliver(a), cluster' = cluster
    PROVE  /\ AtHome' /\ Carried'
           /\ \/ /\ live' = live \ {a} /\ InQueues' = InQueues \ {a}
                 /\ InService' = InService \ {a} /\ Moving' = Moving \ {a}
              \/ /\ live' = live /\ InQueues' = InQueues
                 /\ InService' = InService /\ Moving' = Moving \cup {a}
<1>1. DeliveryOf(a) \in Transfers /\ DeliveryOf(a).owner = a /\ "REJECTED" \in Terminal
  BY NewTransferType DEF DeliveryOf, Terminal
<1>2. QED
  BY <1>1, StartsHolds, FinishHolds DEF Deliver

LEMMA ExpireHolds ==
    ASSUME TypeInv, HoldInv, NEW a \in Attempts, Expire(a)
    PROVE  HoldInv'
<1>1. pc = "expire" /\ UNCHANGED <<pc, cluster, forwarded, completed, delivered,
                                   landed, toDeliver, ready, current>>
  BY DEF Expire, settleVars, placeVars
<1>2. /\ AtHome' /\ Carried' /\ live' = live \ {a}
      /\ InQueues' = InQueues \ {a} /\ InService' = InService \ {a}
      /\ Moving' = Moving \ {a}
  BY FinishHolds, <1>1 DEF Expire, HoldInv, Terminal
<1>3. Taken = {} /\ Taken' = {}
  BY <1>1, SetsAssumption DEF HoldInv, Phased, Taken
<1>4. Phased' /\ (Open' => Open) /\ current' \notin ready'
  BY <1>1 DEF HoldInv, Phased, Open, Apart
<1>5. QED
  BY <1>1, <1>2, <1>3, <1>4, OneGoes

LEMMA SucceedHolds ==
    ASSUME TypeInv, HoldInv, NEW a \in Attempts, Succeed(a)
    PROVE  HoldInv'
<1>1. /\ pc = "succeed" /\ a \in delivered /\ delivered' = delivered \ {a}
      /\ UNCHANGED <<pc, cluster, forwarded, completed, landed, toDeliver, ready, current>>
  BY DEF Succeed, placeVars
<1>2. /\ AtHome' /\ Carried' /\ live' = live \ {a}
      /\ InQueues' = InQueues \ {a} /\ InService' = InService \ {a}
      /\ Moving' = Moving \ {a}
  BY FinishHolds, <1>1 DEF Succeed, HoldInv, Terminal
<1>3. Taken = delivered /\ Taken' = delivered \ {a} /\ a \notin LandedFor
  BY <1>1 DEF HoldInv, Phased, Taken, Apart
<1>4. Phased' /\ (Open' => Open) /\ current' \notin ready'
  BY <1>1 DEF HoldInv, Phased, Open, Apart
<1>5. QED
  BY <1>1, <1>2, <1>3, <1>4, OneGoes

LEMMA ServeWaiterHolds ==
    ASSUME TypeInv, HoldInv, NEW a \in Attempts, ServeWaiter(a)
    PROVE  HoldInv'
<1>1. /\ pc = "land" /\ a \in toDeliver /\ toDeliver' = toDeliver \ {a}
      /\ UNCHANGED <<pc, cluster, forwarded, completed, landed, delivered, ready, current>>
  BY DEF ServeWaiter, placeVars
<1>2. Taken = toDeliver /\ Taken' = toDeliver \ {a} /\ a \notin LandedFor
  BY <1>1 DEF HoldInv, Phased, Taken, Apart
<1>3. HasCache(a) /\ a \notin Moving
  BY <1>1, <1>2 DEF TypeInv, HandType, HoldInv, Apart
<1>4. /\ AtHome' /\ Carried'
      /\ \/ /\ live' = live \ {a} /\ InQueues' = InQueues \ {a}
            /\ InService' = InService \ {a} /\ Moving' = Moving \ {a}
         \/ /\ live' = live /\ InQueues' = InQueues
            /\ InService' = InService /\ Moving' = Moving \cup {a}
  BY DeliverHolds, <1>1, <1>3 DEF ServeWaiter, HoldInv
<1>5. Phased' /\ (Open' => Open) /\ current' \notin ready'
  BY <1>1 DEF HoldInv, Phased, Open, Apart
<1>6. QED
  BY <1>1, <1>2, <1>4, <1>5, OneGoes

\* The attempt in hand waits for nothing and holds no place.
LEMMA HandIsFree ==
    ASSUME TypeInv, HoldInv, pc \in {"serve", "place"}
    PROVE  /\ current \in Attempts /\ current \in live
           /\ current \notin Moving /\ current \notin InQueues /\ current \notin InService
<1>1. current \in Attempts /\ current # None
  BY CurrentType, SetsAssumption
<1>2. QED
  BY <1>1 DEF HoldInv, Apart, Alive, Taken

LEMMA HitHolds ==
    ASSUME TypeInv, HoldInv, Hit
    PROVE  HoldInv'
<1>1. /\ pc = "serve" /\ pc' = "schedule" /\ current' = None
      /\ UNCHANGED <<cluster, ready>> /\ UNCHANGED Settled
  BY DEF Hit, placeVars, Settled
<1>2. HasCache(current)
  BY <1>1, CurrentType
<1>3. /\ AtHome' /\ Carried'
      /\ \/ /\ live' = live \ {current} /\ InQueues' = InQueues \ {current}
            /\ InService' = InService \ {current} /\ Moving' = Moving \ {current}
         \/ /\ live' = live /\ InQueues' = InQueues
            /\ InService' = InService /\ Moving' = Moving \cup {current}
  BY DeliverHolds, HandIsFree, <1>1, <1>2 DEF Hit, HoldInv
<1>4. QED
  BY <1>1, <1>3, HandIsFree, HandGoes

LEMMA JoinFetchHolds ==
    ASSUME TypeInv, HoldInv, JoinFetch
    PROVE  HoldInv'
<1> DEFINE t == BackhaulOf(current)
<1>1. /\ pc = "serve" /\ pc' = "schedule" /\ current' = None /\ t \in transfers
      /\ request_transfer' = [request_transfer EXCEPT ![current] = t]
      /\ transfers' = transfers /\ live' = live
      /\ UNCHANGED <<cluster, ready>> /\ UNCHANGED Settled /\ UNCHANGED schedulerVars
  BY DEF JoinFetch, Miss, Fetching, placeVars, transferVars, Settled, SetStatus
<1>2. current \in Attempts /\ current \notin Moving
  BY <1>1, HandIsFree
<1>3. AtHome' /\ InQueues' = InQueues /\ InService' = InService
  BY <1>1, SchedulersSame DEF HoldInv
<1>4. /\ request_transfer \in [Attempts -> Transfers \cup {None}] /\ None \notin Transfers
      /\ transfers \subseteq Transfers
  BY TransferTypes
<1>5. t.kind # "delivery"
  BY DEF BackhaulOf
<1> HIDE DEF t
<1>6. Moving' = Moving \cup {current}
  BY <1>1, <1>2, <1>4 DEF Moving
<1>7. Carried'
  <2>1. \A b \in Moving' : /\ request_transfer'[b] \in transfers'
                           /\ request_transfer'[b].kind = "delivery" => request_transfer'[b].owner = b
    BY <1>1, <1>2, <1>4, <1>5, <1>6 DEF HoldInv, Carried, Moving
  <2>2. \A u \in transfers' : \E b \in Attempts : request_transfer'[b] = u
    BY <1>1, <1>2, <1>4 DEF HoldInv, Carried, Moving
  <2>3. QED
    BY <1>1, <2>1, <2>2 DEF HoldInv, Carried
<1>8. QED
  BY <1>1, <1>2, <1>3, <1>6, <1>7, HandGoes

LEMMA StartFetchHolds ==
    ASSUME TypeInv, HoldInv, StartFetch
    PROVE  HoldInv'
<1>1. /\ pc = "serve" /\ pc' = "schedule" /\ current' = None
      /\ UNCHANGED <<cluster, ready>> /\ UNCHANGED Settled
  BY DEF StartFetch, Miss, placeVars, Settled
<1>2. HasCache(current)
  BY <1>1, CurrentType
<1>3. /\ BackhaulOf(current) \in Transfers /\ BackhaulOf(current).kind # "delivery"
      /\ "REJECTED" \in Terminal
  BY <1>1, <1>2, HandIsFree, NewTransferType DEF BackhaulOf, Terminal
<1>4. /\ AtHome' /\ Carried'
      /\ \/ /\ live' = live \ {current} /\ InQueues' = InQueues \ {current}
            /\ InService' = InService \ {current} /\ Moving' = Moving \ {current}
         \/ /\ live' = live /\ InQueues' = InQueues
            /\ InService' = InService /\ Moving' = Moving \cup {current}
  BY <1>1, <1>3, StartsHolds, FinishHolds, HandIsFree DEF StartFetch, HoldInv
<1>5. QED
  BY <1>1, <1>4, HandIsFree, HandGoes

LEMMA RejectStorageHolds ==
    ASSUME TypeInv, HoldInv, RejectStorage
    PROVE  HoldInv'
<1>1. /\ pc = "serve" /\ pc' = "schedule" /\ current' = None
      /\ UNCHANGED <<cluster, ready>> /\ UNCHANGED Settled
      /\ Finish(current, "REJECTED")
  BY DEF RejectStorage, Miss, placeVars, Settled
<1>2. "REJECTED" \in Terminal
  BY DEF Terminal
<1>3. QED
  BY <1>1, <1>2, FinishHolds, HandIsFree, HandGoes DEF HoldInv

LEMMA ExpireOnArrivalHolds ==
    ASSUME TypeInv, HoldInv, ExpireOnArrival
    PROVE  HoldInv'
<1>1. /\ pc = "place" /\ pc' = "arrive" /\ current' = None /\ ~forwarded[current]
      /\ UNCHANGED <<cluster, ready>> /\ UNCHANGED Settled
      /\ Finish(current, "TIMED_OUT")
  BY DEF ExpireOnArrival, Placed, placeVars, Settled
<1>2. "TIMED_OUT" \in Terminal /\ ready = {}
  BY <1>1 DEF Terminal, HoldInv, Phased
<1>3. QED
  BY <1>1, <1>2, FinishHolds, HandIsFree, HandGoes DEF HoldInv

LEMMA EnqueueHolds ==
    ASSUME TypeInv, AtHome, Carried, NEW a \in Attempts, a \notin InQueues,
           a \notin InService, InQueues \cap InService = {},
           Enqueue(a, cluster[a]), cluster' = cluster
    PROVE  /\ AtHome' /\ Carried'
           /\ \/ /\ live' = live \ {a} /\ InQueues' = InQueues \ {a}
                 /\ InService' = InService \ {a} /\ Moving' = Moving \ {a}
              \/ /\ live' = live /\ InQueues' = InQueues /\ Eligible(a)
                 /\ InService' = InService \cup {a} /\ Moving' = Moving
              \/ /\ live' = live /\ InQueues' = InQueues \cup {a}
                 /\ InService' = InService /\ Moving' = Moving
              \/ /\ live' = live /\ Moving' = Moving
                 /\ \E head \in InQueues : /\ InQueues' = (InQueues \ {head}) \cup {a}
                                           /\ InService' = InService \cup {head}
                                           /\ Eligible(head)
<1> DEFINE s == cluster[a]
           q == queues[s]
           head == Head(q)
           rest == IF HeadMayStart(s) THEN Tail(q) ELSE q
<1>1. /\ s \in Clusters /\ None \notin Attempts
      /\ queues \in [Clusters -> Seq(Attempts)] /\ DOMAIN busy = Clusters
      /\ q \in Seq(Attempts) /\ IsInjective(q) /\ ToSet(q) \subseteq InQueues
  BY SetsAssumption DEF TypeInv, TypeOK, PlaceTypeOK, SchedulerTypeOK, AtHome, InQueues
<1>2. CASE Finish(a, "REJECTED")
  BY <1>2, FinishHolds DEF Terminal
<1>3. CASE /\ busy' = [busy EXCEPT ![s] = Serving(a, s)] /\ ~Busy(s) /\ Eligible(a)
           /\ UNCHANGED <<queues, live, transfers, request_transfer>>
  <2>1. \A u \in Clusters : busy'[u].request = IF u = s THEN a ELSE busy[u].request
    BY <1>1, <1>3 DEF Serving
  <2>2. InQueues' = InQueues /\ InService' = InService \cup {a}
    BY <1>1, <1>3, <2>1 DEF InQueues, InService, Busy
  <2>3. AtHome'
    BY <1>1, <1>3, <2>1 DEF AtHome
  <2>4. QED
    BY <1>3, <2>2, <2>3, TransfersSame
<1>4. CASE /\ queues' = [queues EXCEPT ![s] = Append(rest, a)]
           /\ busy' = IF HeadMayStart(s) THEN [busy EXCEPT ![s] = Serving(head, s)] ELSE busy
           /\ UNCHANGED <<live, transfers, request_transfer>>
  <2>1. HeadMayStart(s) => /\ Tail(q) \in Seq(Attempts) /\ head \in ToSet(q)
                           /\ IsInjective(Tail(q)) /\ ToSet(Tail(q)) = ToSet(q) \ {head}
    BY <1>1, TailSet DEF HeadMayStart
  <2>2. /\ rest \in Seq(Attempts) /\ IsInjective(rest)
        /\ ToSet(rest) = IF HeadMayStart(s) THEN ToSet(q) \ {head} ELSE ToSet(q)
    BY <1>1, <2>1
  <2> HIDE DEF rest, head
  <2>3. /\ IsInjective(Append(rest, a)) /\ ToSet(Append(rest, a)) = ToSet(rest) \cup {a}
    BY <1>1, <2>1, <2>2, AppendSet
  <2>4. \A u \in Clusters : queues'[u] = IF u = s THEN Append(rest, a) ELSE queues[u]
    BY <1>1, <1>4
  <2>5. \A u \in Clusters : busy'[u].request = IF u = s /\ HeadMayStart(s) THEN head
                                               ELSE busy[u].request
    BY <1>1, <1>4 DEF Serving
  <2>6. /\ \A b \in ToSet(q) : cluster[b] = s
        /\ \A u \in Clusters : \A b \in ToSet(queues[u]) : cluster[b] = u
    BY <1>1 DEF AtHome
  <2> HIDE DEF q
  <2>7. \A u \in Clusters :
            ToSet(queues'[u]) = IF u = s THEN ToSet(rest) \cup {a} ELSE ToSet(queues[u])
    BY <2>3, <2>4
  <2>8. AtHome'
    <3>1. \A u \in Clusters : IsInjective(queues'[u])
      BY <2>3, <2>4 DEF AtHome
    <3>2. \A u \in Clusters : \A b \in ToSet(queues'[u]) : cluster[b] = u
      BY <2>1, <2>2, <2>6, <2>7
    <3>3. \A u \in Clusters : busy'[u].request # None => cluster[busy'[u].request] = u
      BY <2>1, <2>5, <2>6 DEF AtHome
    <3>4. QED
      BY <3>1, <3>2, <3>3 DEF AtHome
  <2>9. \A b : /\ b \in InQueues' <=> \E u \in Clusters : b \in ToSet(queues'[u])
               /\ b \in InQueues <=> \E u \in Clusters : b \in ToSet(queues[u])
    BY DEF InQueues
  <2>10. CASE HeadMayStart(s)
    <3>1. /\ head \in InQueues /\ head \in Attempts /\ busy[s].request = None
          /\ Eligible(head)
      <4>1. Eligible(head)
        BY <2>10 DEF HeadMayStart, q, head
      <4>2. QED
        BY <1>1, <2>1, <2>10, <4>1, SchedulerTypes DEF HeadMayStart, Busy, q
    <3>2. InService' = InService \cup {head}
      <4>1. \A b : b \in InService' <=> b # None /\ \E u \in Clusters : b = busy'[u].request
        BY DEF InService
      <4>2. \A b : b \in InService <=> b # None /\ \E u \in Clusters : b = busy[u].request
        BY DEF InService
      <4>3. \A u \in Clusters : busy'[u].request = IF u = s THEN head ELSE busy[u].request
        BY <2>5, <2>10
      <4>4. s \in Clusters /\ head # None
        BY <1>1, <3>1
      <4> HIDE DEF s
      <4>5. \A b : b \in InService' <=> b \in InService \cup {head}
        BY <3>1, <4>1, <4>2, <4>3, <4>4
      <4>6. QED
        BY <4>5
    <3>3. \A u \in Clusters : u # s => head \notin ToSet(queues[u])
      BY <1>1, <2>1, <2>6, <2>10
    <3>4. ToSet(rest) = ToSet(queues[s]) \ {head} /\ a # head /\ s \in Clusters
      BY <1>1, <2>2, <2>10, <3>1 DEF q
    <3>5. InQueues' = (InQueues \ {head}) \cup {a}
      <4> HIDE DEF s
      <4>1. \A b : b \in InQueues' <=> b \in (InQueues \ {head}) \cup {a}
        BY <2>7, <2>9, <3>3, <3>4, SMTT(60)
      <4>2. QED
        BY <4>1
    <3>6. QED
      BY <1>4, <2>8, <3>1, <3>2, <3>5, TransfersSame
  <2>11. CASE ~HeadMayStart(s)
    <3>1. InService' = InService
      BY <1>4, <2>11 DEF InService
    <3>2. ToSet(rest) = ToSet(queues[s]) /\ s \in Clusters
      BY <1>1, <2>2, <2>11 DEF q
    <3>4. InQueues' = InQueues \cup {a}
      <4> HIDE DEF s
      <4>1. \A b : b \in InQueues' <=> b \in InQueues \cup {a}
        BY <2>7, <2>9, <3>2, SMTT(60)
      <4>2. QED
        BY <4>1
    <3>3. QED
      BY <1>4, <2>8, <3>1, <3>4, TransfersSame
  <2>12. QED
    BY <2>10, <2>11
<1>5. QED
  BY <1>2, <1>3, <1>4 DEF Enqueue, SetStatus, transferVars

LEMMA PlaceHolds ==
    ASSUME TypeInv, HoldInv, Place
    PROVE  HoldInv'
<1>1. /\ pc = "place" /\ pc' = IF forwarded[current] THEN "schedule" ELSE "arrive"
      /\ current' = None /\ UNCHANGED <<cluster, ready>> /\ UNCHANGED Settled
      /\ Enqueue(current, cluster[current])
  BY DEF Place, Placed, placeVars, Settled
<1>2. pc' = "arrive" => ready = {}
  BY <1>1 DEF HoldInv, Phased
<1>3. InQueues \cap InService = {} /\ AtHome /\ Carried
  BY DEF HoldInv, Apart
<1>4. QED
  BY <1>1, <1>2, <1>3, EnqueueHolds, HandIsFree, HandGoes

\* Forwarding: the attempt stays in the hands of _settle and changes its
\* scheduler, which does not hold it yet.
LEMMA ForwardHolds ==
    ASSUME TypeInv, HoldInv, NEW a \in Attempts, Forward(a)
    PROVE  HoldInv'
<1>1. /\ pc = "schedule" /\ pc' = "place" /\ a \in ready /\ ready' = ready \ {a}
      /\ current' = a /\ forwarded' = [forwarded EXCEPT ![a] = TRUE]
      /\ UNCHANGED <<live, queues, busy, transfers, request_transfer>> /\ UNCHANGED Settled
  BY DEF Forward, requestVars, schedulerVars, transferVars, Settled
<1>2. cluster' = [cluster EXCEPT ![a] = forward_targets[cluster[a]]]
  BY DEF Forward
<1>3. \A b \in Attempts : b # a => cluster'[b] = cluster[b]
  BY <1>2 DEF TypeInv, TypeOK, PlaceTypeOK
<1>4. /\ completed = {} /\ delivered = {} /\ landed = <<>> /\ toDeliver = {} /\ current = None
      /\ completed' = {} /\ delivered' = {} /\ landed' = <<>> /\ toDeliver' = {}
  BY <1>1 DEF HoldInv, Phased, Settled
<1>5. Taken = ready /\ Taken' = Taken /\ LandedFor = {} /\ LandedFor' = {} /\ Len(landed') = 0
  BY <1>1, <1>4, SetsAssumption DEF Taken, LandedFor
<1>6. InQueues' = InQueues /\ InService' = InService /\ Moving' = Moving
  BY <1>1 DEF InQueues, InService, Moving
<1>7. a \notin InQueues /\ a \notin InService
  BY <1>1, <1>5 DEF HoldInv, Apart
<1>8. AtHome'
  <2>1. \A s \in Clusters : \A b \in ToSet(queues[s]) : b \in Attempts /\ b # a
    BY <1>7, SchedulerTypes
  <2>2. \A s \in Clusters : busy[s].request # None =>
            busy[s].request \in Attempts /\ busy[s].request # a
    BY <1>7, SchedulerTypes DEF InService
  <2>3. QED
    BY <1>1, <1>3, <2>1, <2>2 DEF HoldInv, AtHome
<1>9. Carried'
  BY <1>1, TransfersSame DEF HoldInv
<1>10. forwarded'[current']
  BY <1>1 DEF TypeInv, TypeOK, PlaceTypeOK
<1>11. Phased'
  BY <1>1, <1>4, <1>10 DEF Phased
<1>12. Apart'
  BY <1>1, <1>4, <1>5, <1>6 DEF HoldInv, Apart
<1>13. Alive' /\ NoneLost'
  BY <1>1, <1>5, <1>6 DEF HoldInv, Alive, NoneLost, Open
<1>14. QED
  BY <1>8, <1>9, <1>11, <1>12, <1>13 DEF HoldInv

LEMMA ChooseCacheHolds ==
    ASSUME TypeInv, HoldInv, NEW a \in Attempts, NEW c \in Caches, ChooseCache(a, c)
    PROVE  HoldInv'
<1>1. /\ pc = "schedule" /\ pc' = "serve" /\ a \in ready /\ ready' = ready \ {a}
      /\ current' = a
      /\ UNCHANGED <<live, cluster, queues, busy, transfers, request_transfer>>
      /\ UNCHANGED Settled
  BY DEF ChooseCache, requestVars, schedulerVars, transferVars, Settled
<1>2. /\ completed = {} /\ delivered = {} /\ landed = <<>> /\ toDeliver = {} /\ current = None
      /\ completed' = {} /\ delivered' = {} /\ landed' = <<>> /\ toDeliver' = {}
  BY <1>1 DEF HoldInv, Phased, Settled
<1>3. Taken = ready /\ Taken' = Taken /\ LandedFor = {} /\ LandedFor' = {} /\ Len(landed') = 0
  BY <1>1, <1>2, SetsAssumption DEF Taken, LandedFor
<1>4. InQueues' = InQueues /\ InService' = InService /\ Moving' = Moving
  BY <1>1 DEF InQueues, InService, Moving
<1>5. AtHome' /\ Carried'
  BY <1>1, TransfersSame DEF HoldInv, AtHome
<1>6. Phased'
  BY <1>1, <1>2 DEF Phased
<1>7. Apart' /\ Alive' /\ NoneLost'
  BY <1>1, <1>2, <1>3, <1>4 DEF HoldInv, Apart, Alive, NoneLost, Open
<1>8. QED
  BY <1>5, <1>6, <1>7 DEF HoldInv

\* Nobody changes hands: the phase and what it has to handle are another.
LEMMA NobodyMoves ==
    ASSUME HoldInv, UNCHANGED <<live, cluster, queues, busy, transfers, request_transfer>>,
           delivered' = delivered, landed' = landed, toDeliver' = toDeliver,
           ready' = ready, current' = current, Open' => Open, Phased'
    PROVE  HoldInv'
<1>1. /\ InQueues' = InQueues /\ InService' = InService /\ Moving' = Moving
      /\ Taken' = Taken /\ LandedFor' = LandedFor
  BY DEF InQueues, InService, Moving, Taken, LandedFor
<1>2. AtHome' /\ Carried'
  BY TransfersSame DEF HoldInv, AtHome
<1>3. Apart' /\ Alive' /\ NoneLost'
  BY <1>1 DEF HoldInv, Apart, Alive, NoneLost
<1>4. QED
  BY <1>2, <1>3 DEF HoldInv

LEMMA QuietHolds ==
    ASSUME TypeInv, HoldInv,
           \/ Evict \/ EndPhase \/ Close
           \/ \E t \in now + 1 .. Horizon, ended \in SUBSET Started : Wait(t, ended)
           \/ Advance
    PROVE  HoldInv'
<1>1. CASE Evict
  BY <1>1, NobodyMoves
  DEF Evict, HoldInv, Phased, Open, requestVars, placeVars, schedulerVars,
      transferVars, settleVars
<1>2. CASE Close
  BY <1>2, NobodyMoves
  DEF Close, HoldInv, Phased, Open, requestVars, placeVars, schedulerVars,
      transferVars, settleVars
<1>3. CASE Advance
  <2>1. /\ pc = "idle" /\ pc' = "collect" /\ UNCHANGED settleVars
        /\ UNCHANGED <<live, cluster, queues, busy, transfers, request_transfer>>
    BY <1>3 DEF Advance, AdvanceWindow, placeVars, schedulerVars, transferVars
  <2>2. QED
    BY <2>1, NobodyMoves DEF HoldInv, Phased, Open, settleVars
<1>4. CASE \E t \in now + 1 .. Horizon, ended \in SUBSET Started : Wait(t, ended)
  <2>1. /\ pc = "wait" /\ pc' = "collect"
        /\ UNCHANGED <<delivered, landed, toDeliver, ready, current>>
        /\ UNCHANGED <<live, cluster, queues, busy, transfers, request_transfer>>
    BY <1>4 DEF Wait, requestVars, placeVars, schedulerVars, transferVars
  <2>2. QED
    BY <2>1, NobodyMoves DEF HoldInv, Phased, Open
<1>5. CASE EndPhase
  <2>1. /\ Through(pc) /\ pc' = PhaseAfter(pc) /\ UNCHANGED settleVars
        /\ UNCHANGED <<forwarded, live, cluster, queues, busy, transfers, request_transfer>>
    BY <1>5 DEF EndPhase, requestVars, placeVars, schedulerVars, transferVars
  <2>2. pc \in {"collect", "succeed", "expire", "land", "schedule", "arrive", "retry", "closing"}
    BY <2>1 DEF Through
  <2>3. Phased' /\ (Open' => Open)
    BY <2>1, <2>2 DEF HoldInv, Phased, Open, Through, PhaseAfter, settleVars
  <2>4. QED
    BY <2>1, <2>3, NobodyMoves DEF settleVars
<1>6. QED
  BY <1>1, <1>2, <1>3, <1>4, <1>5

\* The client gives up a transfer: its waiters are on their own.
LEMMA CancelHolds ==
    ASSUME TypeInv, HoldInv, NEW t \in transfers, Cancel(t)
    PROVE  HoldInv'
<1>1. /\ pc = "closing" /\ UNCHANGED <<pc, live, cluster, forwarded, queues, busy>>
      /\ UNCHANGED <<completed, delivered, landed, toDeliver, ready, current>>
  BY DEF Cancel, requestVars, placeVars, schedulerVars, settleVars
<1>2. Carried' /\ Moving' = Moving \ Waiters(t)
  BY DetachHolds DEF Cancel, HoldInv
<1>3. /\ InQueues' = InQueues /\ InService' = InService
      /\ Taken' = Taken /\ LandedFor' = LandedFor
  BY <1>1 DEF InQueues, InService, Taken, LandedFor
<1>4. AtHome' /\ Phased'
  BY <1>1 DEF HoldInv, AtHome, Phased
<1>5. Apart' /\ Alive' /\ NoneLost'
  BY <1>1, <1>2, <1>3 DEF HoldInv, Apart, Alive, NoneLost, Open
<1>6. QED
  BY <1>2, <1>4, <1>5 DEF HoldInv

\* A transfer has ended: _settle takes over from it those who waited.
LEMMA CollectHolds ==
    ASSUME TypeInv, HoldInv, NEW p \in Pools, Collect(p)
    PROVE  HoldInv'
<1>1. PICK t \in transfers :
         /\ RemoveTransfer(t) /\ Detach(t)
         /\ IF t.kind = "delivery"
            THEN /\ delivered' = delivered \cup Waiters(t)
                 /\ UNCHANGED landed
            ELSE /\ landed' = Append(landed, [cache |-> t.cache,
                                              artifact |-> t.artifact,
                                              waiters |-> Waiters(t)])
                 /\ UNCHANGED delivered
  BY DEF Collect
<1>2. /\ pc = "collect" /\ UNCHANGED <<pc, live, cluster, forwarded, queues, busy>>
      /\ UNCHANGED <<toDeliver, ready, current>>
  BY DEF Collect, requestVars, placeVars, schedulerVars
<1>3. Carried' /\ Moving' = Moving \ Waiters(t) /\ Waiters(t) \subseteq Moving
  BY <1>1, DetachHolds DEF HoldInv
<1>4. InQueues' = InQueues /\ InService' = InService
  BY <1>2 DEF InQueues, InService
<1>5. AtHome' /\ Phased'
  BY <1>2 DEF HoldInv, AtHome, Phased
<1>6. /\ Taken = delivered /\ toDeliver = {} /\ ready = {} /\ current = None
      /\ Taken' = delivered' /\ ready' = {} /\ toDeliver' = {}
  BY <1>2 DEF Taken, HoldInv, Phased
<1>7. Waiters(t) \cap (Taken \cup LandedFor \cup InQueues \cup InService) = {}
      /\ Waiters(t) \subseteq live
  BY <1>3 DEF HoldInv, Apart, Alive
<1>8. CASE t.kind = "delivery"
  <2>1. delivered' = delivered \cup Waiters(t) /\ landed' = landed /\ LandedFor' = LandedFor
    BY <1>1, <1>8, LandedSame
  <2>2. Apart' /\ Alive' /\ NoneLost'
    BY <1>2, <1>3, <1>4, <1>6, <1>7, <2>1 DEF HoldInv, Apart, Alive, NoneLost, Open
  <2>3. QED
    BY <1>3, <1>5, <2>2 DEF HoldInv
<1>9. CASE t.kind # "delivery"
  <2> DEFINE l == [cache |-> t.cache, artifact |-> t.artifact, waiters |-> Waiters(t)]
  <2>1. delivered' = delivered /\ landed' = Append(landed, l)
    BY <1>1, <1>9
  <2>2. landed \in Seq(Landings) /\ l \in Landings /\ l.waiters = Waiters(t)
    <3>1. t \in Transfers
      BY DEF TypeInv, TypeOK, TransferTypeOK
    <3>2. QED
      BY <3>1, TransferParts DEF TypeInv, TypeOK, SettleTypeOK, Landings, Waiters
  <2> HIDE DEF l
  <2>3. /\ Len(landed') = Len(landed) + 1 /\ Len(landed) \in Nat
        /\ \A i \in 1 .. Len(landed) : landed'[i] = landed[i]
        /\ landed'[Len(landed) + 1] = l
    BY <2>1, <2>2, AppendProperties, LenProperties
  <2>4. LandedFor' = LandedFor \cup Waiters(t)
    <3>1. ASSUME NEW b PROVE b \in LandedFor' <=> b \in LandedFor \cup Waiters(t)
      <4>1. b \in LandedFor' <=> \E i \in 1 .. Len(landed) + 1 : b \in landed'[i].waiters
        BY <2>3 DEF LandedFor
      <4>2. b \in LandedFor <=> \E i \in 1 .. Len(landed) : b \in landed[i].waiters
        BY DEF LandedFor
      <4>3. QED
        BY <2>2, <2>3, <4>1, <4>2
    <3>2. QED
      BY <3>1
  <2>5. \A i \in 1 .. Len(landed) : landed[i].waiters \cap Waiters(t) = {}
    BY <1>7 DEF LandedFor
  <2>6. \A i, j \in 1 .. Len(landed') : i # j => landed'[i].waiters \cap landed'[j].waiters = {}
    <3>1. \A i, j \in 1 .. Len(landed) : i # j => landed[i].waiters \cap landed[j].waiters = {}
      BY DEF HoldInv, Apart
    <3>2. QED
      BY <2>2, <2>3, <2>5, <3>1
  <2>7. Apart'
    BY <1>2, <1>3, <1>4, <1>6, <1>7, <2>1, <2>4, <2>6 DEF HoldInv, Apart
  <2>8. Alive' /\ NoneLost'
    BY <1>2, <1>3, <1>4, <1>6, <1>7, <2>1, <2>4 DEF HoldInv, Alive, NoneLost, Open
  <2>9. QED
    BY <1>3, <1>5, <2>7, <2>8 DEF HoldInv
<1>10. QED
  BY <1>8, <1>9

\* A backhaul has landed: its live waiters are to be served, the others have
\* left.
LEMMA LandHolds ==
    ASSUME TypeInv, HoldInv, Land
    PROVE  HoldInv'
<1> DEFINE first == Head(landed)
           rest == Tail(landed)
<1>1. /\ pc = "land" /\ toDeliver = {} /\ landed # <<>>
      /\ toDeliver' = first.waiters \cap live /\ landed' = rest
      /\ UNCHANGED <<pc, live, cluster, forwarded, queues, busy, transfers, request_transfer>>
      /\ UNCHANGED <<completed, delivered, ready, current>>
  BY DEF Land, LiveWaiters, requestVars, placeVars, schedulerVars, transferVars
<1>2. landed \in Seq(Landings)
  BY DEF TypeInv, TypeOK, SettleTypeOK
<1>3. /\ Len(landed) \in Nat /\ Len(landed) > 0 /\ Len(rest) = Len(landed) - 1
      /\ first = landed[1] /\ \A i \in 1 .. Len(rest) : rest[i] = landed[i + 1]
  BY <1>1, <1>2, HeadTailProperties, LenProperties, EmptySeq
<1> HIDE DEF first, rest
<1>4. \A i, j \in 1 .. Len(landed) : i # j => landed[i].waiters \cap landed[j].waiters = {}
  BY DEF HoldInv, Apart
<1>5. LandedFor = first.waiters \cup LandedFor'
  <2>1. ASSUME NEW b PROVE b \in LandedFor <=> b \in first.waiters \cup LandedFor'
    <3>1. b \in LandedFor <=> \E i \in 1 .. Len(landed) : b \in landed[i].waiters
      BY DEF LandedFor
    <3>2. b \in LandedFor' <=> \E i \in 1 .. Len(rest) : b \in rest[i].waiters
      BY <1>1 DEF LandedFor
    <3>3. \A i \in 1 .. Len(landed) : i = 1 \/ (i - 1 \in 1 .. Len(rest) /\ rest[i - 1] = landed[i])
      BY <1>3
    <3>4. \A i \in 1 .. Len(rest) : i + 1 \in 1 .. Len(landed) /\ rest[i] = landed[i + 1]
      BY <1>3
    <3>5. 1 \in 1 .. Len(landed)
      BY <1>3
    <3>6. b \in LandedFor => b \in first.waiters \cup LandedFor'
      BY <1>3, <3>1, <3>2, <3>3
    <3>7. b \in first.waiters \cup LandedFor' => b \in LandedFor
      BY <1>3, <3>1, <3>2, <3>4, <3>5
    <3>8. QED
      BY <3>6, <3>7
  <2>2. QED
    BY <2>1
<1>6. first.waiters \cap LandedFor' = {}
  <2>1. \A i \in 1 .. Len(rest) : i + 1 \in 1 .. Len(landed) /\ rest[i] = landed[i + 1]
    BY <1>3
  <2>2. \A i \in 1 .. Len(rest) : first.waiters \cap rest[i].waiters = {}
    BY <1>3, <1>4, <2>1
  <2>3. QED
    BY <1>1, <2>2 DEF LandedFor
<1>7. \A i, j \in 1 .. Len(landed') : i # j => landed'[i].waiters \cap landed'[j].waiters = {}
  <2>1. \A i \in 1 .. Len(rest) : i + 1 \in 1 .. Len(landed) /\ rest[i] = landed[i + 1]
    BY <1>3
  <2>2. \A i, j \in 1 .. Len(rest) : i # j => i + 1 # j + 1
    BY <1>3
  <2>3. \A i, j \in 1 .. Len(rest) : i # j => rest[i].waiters \cap rest[j].waiters = {}
    BY <1>4, <2>1, <2>2
  <2>4. QED
    BY <1>1, <2>3
<1>8. /\ Taken = {} /\ Taken' = toDeliver' /\ delivered = {} /\ delivered' = {}
      /\ ready' = {} /\ current = None /\ current' = None
  BY <1>1 DEF Taken, HoldInv, Phased
<1>9. InQueues' = InQueues /\ InService' = InService /\ Moving' = Moving
  BY <1>1 DEF InQueues, InService, Moving
<1>10. Phased' /\ AtHome' /\ Carried'
  BY <1>1, TransfersSame DEF HoldInv, Phased, AtHome
<1>11. Apart'
  BY <1>1, <1>5, <1>6, <1>7, <1>8, <1>9 DEF HoldInv, Apart
<1>12. Alive' /\ NoneLost'
  BY <1>1, <1>5, <1>8, <1>9 DEF HoldInv, Alive, NoneLost, Open
<1>13. QED
  BY <1>10, <1>11, <1>12 DEF HoldInv

\* The services that are over release their slots to the hands of _settle.
LEMMA ReleaseServicesHolds ==
    ASSUME TypeInv, HoldInv, ReleaseServices
    PROVE  HoldInv'
<1> DEFINE out == {busy[s].request : s \in Released}
<1>1. /\ pc = "release" /\ pc' = "schedule" /\ ready' = out \cap live
      /\ busy' = [s \in Clusters |-> IF s \in Released THEN Idle ELSE busy[s]]
      /\ UNCHANGED <<live, cluster, forwarded, queues, transfers, request_transfer>>
      /\ UNCHANGED <<completed, delivered, landed, toDeliver, current>>
  BY DEF ReleaseServices, requestVars, placeVars, transferVars
<1>2. Released \subseteq Clusters /\ \A s \in Released : busy[s].request # None
  BY DEF Released, Over, Busy
<1>3. /\ completed = {} /\ delivered = {} /\ landed = <<>> /\ toDeliver = {}
      /\ ready = {} /\ current = None
  BY <1>1 DEF HoldInv, Phased
<1>4. LandedFor = {} /\ LandedFor' = {} /\ Len(landed') = 0 /\ Taken' = out \cap live
  BY <1>1, <1>3 DEF LandedFor, Taken
<1>5. \A s \in Clusters : busy'[s].request = IF s \in Released THEN None ELSE busy[s].request
  BY <1>1 DEF Idle
<1>6. \A s, u \in Clusters : busy[s].request # None /\ busy[s].request = busy[u].request => s = u
  BY DEF HoldInv, AtHome
<1>7. out \subseteq InService
  BY <1>2 DEF InService
<1>8. InService' = InService \ out
  <2>1. ASSUME NEW b PROVE b \in InService' <=> b \in InService \ out
    <3>1. b \in InService' <=> b # None /\ \E s \in Clusters : b = busy'[s].request
      BY DEF InService
    <3>2. b \in InService <=> b # None /\ \E s \in Clusters : b = busy[s].request
      BY DEF InService
    <3>3. b \in out <=> \E s \in Released : b = busy[s].request
      OBVIOUS
    <3>4. QED
      BY <1>2, <1>5, <1>6, <3>1, <3>2, <3>3
  <2>2. QED
    BY <2>1
<1>9. out \subseteq live
  BY <1>7 DEF HoldInv, Alive
<1> HIDE DEF out
<1>10. InQueues' = InQueues /\ Moving' = Moving
  BY <1>1 DEF InQueues, Moving
<1>11. AtHome'
  BY <1>1, <1>5 DEF HoldInv, AtHome
<1>12. Phased' /\ Carried'
  BY <1>1, <1>3, TransfersSame DEF HoldInv, Phased
<1>13. current' \notin ready'
  BY <1>1, <1>3, SetsAssumption DEF TypeInv, TypeOK, RequestTypeOK
<1>14. Apart'
  BY <1>1, <1>3, <1>4, <1>7, <1>8, <1>10, <1>13 DEF HoldInv, Apart
<1>15. Alive' /\ NoneLost'
  <2>1. Taken = {}
    BY <1>3 DEF Taken
  <2>2. QED
    BY <1>1, <1>4, <1>7, <1>8, <1>9, <1>10, <2>1 DEF HoldInv, Alive, NoneLost, Open
<1>16. QED
  BY <1>11, <1>12, <1>14, <1>15 DEF HoldInv

\* Free schedulers take their heads into service.
LEMMA HeadsStart ==
    ASSUME TypeInv, HoldInv, StartWaiting
    PROVE  /\ AtHome'
           /\ \E Heads \in SUBSET InQueues :
                 /\ InQueues' = InQueues \ Heads /\ InService' = InService \cup Heads
                 /\ \A h \in Heads : Eligible(h)
<1> DEFINE Starting == {s \in Clusters : HeadMayStart(s)}
           Heads == {Head(queues[s]) : s \in Starting}
<1>1. /\ pc = "start" /\ pc' \in {"wait", "idle"} /\ UNCHANGED settleVars
      /\ UNCHANGED <<live, cluster, forwarded, transfers, request_transfer>>
      /\ queues' = [s \in Clusters |-> IF HeadMayStart(s) THEN Tail(queues[s])
                                       ELSE queues[s]]
      /\ busy' = [s \in Clusters |-> IF HeadMayStart(s)
                                     THEN Serving(Head(queues[s]), s)
                                     ELSE busy[s]]
  BY DEF StartWaiting, placeVars
<1>2. \A s \in Starting :
          /\ busy[s].request = None /\ s \in Clusters
          /\ IsInjective(Tail(queues[s])) /\ Head(queues[s]) \in ToSet(queues[s])
          /\ ToSet(Tail(queues[s])) = ToSet(queues[s]) \ {Head(queues[s])}
          /\ Head(queues[s]) \in Attempts /\ Eligible(Head(queues[s]))
  <2> SUFFICES ASSUME NEW s \in Starting
               PROVE  /\ busy[s].request = None /\ s \in Clusters
                      /\ IsInjective(Tail(queues[s])) /\ Head(queues[s]) \in ToSet(queues[s])
                      /\ ToSet(Tail(queues[s])) = ToSet(queues[s]) \ {Head(queues[s])}
                      /\ Head(queues[s]) \in Attempts /\ Eligible(Head(queues[s]))
    OBVIOUS
  <2>1. queues[s] \in Seq(Attempts) /\ queues[s] # <<>> /\ IsInjective(queues[s])
    BY SchedulerTypes DEF HeadMayStart, HoldInv, AtHome
  <2>2. QED
    BY <2>1, TailSet DEF HeadMayStart, Busy
<1>3. \A s \in Clusters :
          ToSet(queues'[s]) = IF s \in Starting THEN ToSet(queues[s]) \ {Head(queues[s])}
                              ELSE ToSet(queues[s])
  BY <1>1, <1>2
<1>4. \A s \in Clusters :
          busy'[s].request = IF s \in Starting THEN Head(queues[s]) ELSE busy[s].request
  BY <1>1 DEF Serving
<1>5. \A s \in Clusters : IsInjective(queues'[s])
  BY <1>1, <1>2 DEF HoldInv, AtHome
<1>6. None \notin Attempts /\ \A s \in Clusters : \A b \in ToSet(queues[s]) : cluster[b] = s
  BY SetsAssumption DEF HoldInv, AtHome
<1> HIDE DEF Starting
<1>7. Heads \subseteq InQueues /\ None \notin Heads
  BY <1>2, <1>6 DEF InQueues
<1>8. InQueues' = InQueues \ Heads
  <2>1. ASSUME NEW b PROVE b \in InQueues' <=> b \in InQueues \ Heads
    <3>1. /\ b \in InQueues' <=> \E s \in Clusters : b \in ToSet(queues'[s])
          /\ b \in InQueues <=> \E s \in Clusters : b \in ToSet(queues[s])
          /\ b \in Heads <=> \E s \in Starting : b = Head(queues[s])
      BY DEF InQueues
    <3>2. Starting \subseteq Clusters
      BY <1>2
    <3>3. \A s \in Starting, u \in Clusters : Head(queues[s]) \in ToSet(queues[u]) => s = u
      BY <1>2, <1>6
    <3>4. CASE b \in Heads
      <4>1. PICK s \in Starting : b = Head(queues[s])
        BY <3>1, <3>4
      <4>2. \A u \in Clusters : b \notin ToSet(queues'[u])
        BY <1>3, <3>2, <3>3, <4>1
      <4>3. QED
        BY <3>1, <3>4, <4>2
    <3>5. CASE b \notin Heads
      <4>1. \A u \in Clusters : b \in ToSet(queues'[u]) <=> b \in ToSet(queues[u])
        BY <1>3, <3>1, <3>5
      <4>2. QED
        BY <3>1, <3>5, <4>1
    <3>6. QED
      BY <3>4, <3>5
  <2>2. QED
    BY <2>1
<1>9. InService' = InService \cup Heads
  <2>1. ASSUME NEW b PROVE b \in InService' <=> b \in InService \cup Heads
    <3>1. /\ b \in InService' <=> b # None /\ \E s \in Clusters : b = busy'[s].request
          /\ b \in InService <=> b # None /\ \E s \in Clusters : b = busy[s].request
          /\ b \in Heads <=> \E s \in Starting : b = Head(queues[s])
      BY DEF InService
    <3>2. QED
      BY <1>2, <1>4, <1>7, <3>1
  <2>2. QED
    BY <2>1
<1>10. AtHome'
  <2>1. \A s \in Clusters : \A b \in ToSet(queues'[s]) : cluster[b] = s
    BY <1>3, <1>6
  <2>2. \A s \in Clusters : busy'[s].request # None => cluster[busy'[s].request] = s
    BY <1>2, <1>4, <1>6 DEF HoldInv, AtHome
  <2>3. QED
    BY <1>1, <1>5, <2>1, <2>2 DEF AtHome
<1>11. \A h \in Heads : Eligible(h)
  BY <1>2
<1> HIDE DEF Heads
<1>12. QED
  BY <1>7, <1>8, <1>9, <1>10, <1>11

LEMMA StartWaitingHolds ==
    ASSUME TypeInv, HoldInv, StartWaiting
    PROVE  HoldInv'
<1>1. /\ pc = "start" /\ pc' \in {"wait", "idle"} /\ UNCHANGED settleVars
      /\ UNCHANGED <<live, forwarded, transfers, request_transfer>>
  BY DEF StartWaiting, placeVars
<1>2. PICK Heads \in SUBSET InQueues :
          InQueues' = InQueues \ Heads /\ InService' = InService \cup Heads
  BY HeadsStart
<1>3. Moving' = Moving /\ Taken' = Taken /\ LandedFor' = LandedFor
  BY <1>1 DEF Moving, Taken, LandedFor, settleVars
<1>4. Phased' /\ Carried'
  BY <1>1, TransfersSame DEF HoldInv, Phased, settleVars
<1>5. Apart'
  BY <1>1, <1>2, <1>3 DEF HoldInv, Apart, settleVars
<1>6. Alive' /\ NoneLost'
  BY <1>1, <1>2, <1>3 DEF HoldInv, Alive, NoneLost, Open
<1>7. QED
  BY HeadsStart, <1>4, <1>5, <1>6 DEF HoldInv

\* An attempt arrives: nobody holds it yet.
LEMMA ArrivalHolds ==
    ASSUME TypeInv, HoldInv, NEW a \in Attempts, a \notin live,
           pc \in {"arrive", "retry"}, pc' = "place", live' = live \cup {a}, current' = a,
           UNCHANGED <<placeVars, schedulerVars, transferVars, request_transfer,
                       completed, delivered, landed, toDeliver, ready>>
    PROVE  HoldInv'
<1>1. /\ completed = {} /\ delivered = {} /\ landed = <<>> /\ toDeliver = {}
      /\ ready = {} /\ current = None
  BY DEF HoldInv, Phased
<1>2. LandedFor = {} /\ LandedFor' = {} /\ Len(landed') = 0 /\ Taken = {} /\ Taken' = {a}
  BY <1>1, SetsAssumption DEF LandedFor, Taken
<1>3. InQueues' = InQueues /\ InService' = InService /\ Moving' = Moving
  BY DEF InQueues, InService, Moving, schedulerVars
<1>4. a \notin InQueues \cup InService \cup Moving
  BY DEF HoldInv, Alive
<1>5. Phased' /\ AtHome' /\ Carried'
  BY <1>1, TransfersSame DEF HoldInv, Phased, AtHome, placeVars, schedulerVars, transferVars
<1>6. Apart' /\ Alive' /\ NoneLost'
  BY <1>1, <1>2, <1>3, <1>4 DEF HoldInv, Apart, Alive, NoneLost, Open
<1>7. QED
  BY <1>5, <1>6 DEF HoldInv

-----------------------------------------------------------------------------
(***************************************************************************)
(* The invariant of statuses: who is live, who is yet to arrive, who has   *)
(* ended, and the chain of an original's attempts.                         *)
(***************************************************************************)
Unsettled == {"PENDING", "WAITING_SCHEDULER", "SCHEDULING", "WAITING_DATA", "DELIVERING"}
Failed == {"TIMED_OUT", "REJECTED"}
\* Yet to arrive: an original no window has reached, or a scheduled retry.
Fresh(a) == (a[2] = 0 /\ a[1] \in unarrived) \/ a \in ToSet(retry_arrivals)
StatusFits(a) ==
    /\ a \in live => status[a] \in Unsettled
    /\ Fresh(a) => status[a] = "PENDING" /\ a \notin live
    /\ status[a] \in Unsettled => a \in live \/ Fresh(a)
    /\ a[2] = 0 => status[a] # "ABSENT"
    /\ Fresh(a) \/ status[a] = "ABSENT" => ~forwarded[a] /\ a \notin window_requests
Statused ==
    /\ \A a \in Attempts : StatusFits(a)
    /\ IsInjective(retry_arrivals)
    /\ \A a \in ToSet(retry_arrivals) : a[2] # 0
Chained ==
    \A r \in Requests : \A k \in 0 .. MaxRetries :
        /\ status[<<r, k>>] # "ABSENT" => \A j \in 0 .. k - 1 : status[<<r, j>>] \in Failed
        /\ k > 0 /\ status[<<r, k - 1>>] \in Failed =>
              status[<<r, k>>] # "ABSENT" /\ arrival[<<r, k>>] = finished[<<r, k - 1>>] + RetryDelay
AttemptInv == Statused /\ Chained

LEMMA StatusDisjoint ==
    /\ Unsettled \cap Terminal = {} /\ "ABSENT" \notin Unsettled \cup Terminal
    /\ Failed \subseteq Terminal /\ Failed \cap Unsettled = {} /\ "PENDING" \in Unsettled
    /\ "SUCCEEDED" \notin Failed /\ "SUCCEEDED" \in Terminal
    /\ Statuses = Terminal \cup Unsettled \cup {"ABSENT"}
    /\ Terminal = Failed \cup {"SUCCEEDED"}
  BY DEF Unsettled, Failed, Terminal, Statuses

LEMMA AttemptParts ==
    /\ \A a \in Attempts : a = <<a[1], a[2]>> /\ a[1] \in Requests /\ a[2] \in 0 .. MaxRetries
    /\ \A r \in Requests, k \in 0 .. MaxRetries : <<r, k>> \in Attempts
    /\ MaxRetries \in Nat
  BY ControlAssumption DEF Attempts

\* What is failed and what is absent does not change, so chains do not.
LEMMA ChainsSame ==
    ASSUME Chained, arrival' = arrival, finished' = finished,
           \A a \in Attempts : /\ status'[a] \in Failed <=> status[a] \in Failed
                               /\ status'[a] = "ABSENT" <=> status[a] = "ABSENT"
    PROVE  Chained'
<1> SUFFICES ASSUME NEW r \in Requests, NEW k \in 0 .. MaxRetries
             PROVE  /\ status'[<<r, k>>] # "ABSENT" =>
                          \A j \in 0 .. k - 1 : status'[<<r, j>>] \in Failed
                    /\ k > 0 /\ status'[<<r, k - 1>>] \in Failed =>
                          /\ status'[<<r, k>>] # "ABSENT"
                          /\ arrival'[<<r, k>>] = finished'[<<r, k - 1>>] + RetryDelay
  BY DEF Chained, Failed
<1>1. /\ <<r, k>> \in Attempts /\ k \in Nat
      /\ \A j \in 0 .. k - 1 : <<r, j>> \in Attempts
  BY AttemptParts
<1>2. k > 0 => <<r, k - 1>> \in Attempts
  BY <1>1
<1>3. /\ status[<<r, k>>] # "ABSENT" => \A j \in 0 .. k - 1 : status[<<r, j>>] \in Failed
      /\ k > 0 /\ status[<<r, k - 1>>] \in Failed =>
            /\ status[<<r, k>>] # "ABSENT"
            /\ arrival[<<r, k>>] = finished[<<r, k - 1>>] + RetryDelay
  BY DEF Chained
<1>4. QED
  BY <1>1, <1>2, <1>3

\* Nobody arrives or ends: live attempts change their status and are forwarded.
LEMMA NobodyEnds ==
    ASSUME TypeInv, AttemptInv,
           UNCHANGED <<unarrived, live, retry_arrivals, arrival, finished>>,
           \A a \in Attempts :
               \/ status'[a] = status[a]
               \/ a \in live /\ status'[a] \in Unsettled,
           \A a \in Attempts : forwarded'[a] = forwarded[a] \/ a \in live,
           window_requests' \subseteq window_requests \cup live
    PROVE  AttemptInv'
<1>1. \A a \in Attempts : /\ status'[a] \in Failed <=> status[a] \in Failed
                          /\ status'[a] = "ABSENT" <=> status[a] = "ABSENT"
                          /\ status'[a] \in Unsettled <=> status[a] \in Unsettled
  BY StatusDisjoint DEF AttemptInv, Statused, StatusFits
<1>2. Chained'
  BY <1>1, ChainsSame DEF AttemptInv
<1>3. ASSUME NEW a \in Attempts PROVE StatusFits(a)'
  <2>1. Fresh(a)' <=> Fresh(a)
    BY DEF Fresh
  <2>2. Fresh(a) => a \notin live /\ status'[a] = "PENDING"
    BY DEF AttemptInv, Statused, StatusFits
  <2>3. status[a] = "ABSENT" => a \notin live
    BY StatusDisjoint DEF AttemptInv, Statused, StatusFits
  <2>4. StatusFits(a)
    BY DEF AttemptInv, Statused
  <2>5. a \in live' <=> a \in live
    OBVIOUS
  <2>6. (Fresh(a) \/ status[a] = "ABSENT") => ~forwarded'[a] /\ a \notin window_requests'
    BY <2>2, <2>3, <2>4 DEF StatusFits
  <2>7. QED
    BY <1>1, <2>1, <2>2, <2>4, <2>5, <2>6 DEF StatusFits
<1>4. Statused'
  BY <1>3 DEF AttemptInv, Statused
<1>5. QED
  BY <1>2, <1>4 DEF AttemptInv

\* An attempt ends; unless it succeeded or was the last one, the next one is
\* scheduled: there was none before.
LEMMA ConcludeChains ==
    ASSUME TypeInv, AttemptInv, NEW a \in live, NEW o \in Terminal, Conclude(a, o),
           UNCHANGED <<forwarded, window_requests>>
    PROVE  AttemptInv'
<1> DEFINE again == <<a[1], a[2] + 1>>
           retried == Retries(a, o)
<1>1. /\ a \in Attempts /\ a = <<a[1], a[2]>> /\ a[1] \in Requests /\ a[2] \in 0 .. MaxRetries
      /\ status \in [Attempts -> Statuses] /\ arrival \in [Attempts -> Nat]
      /\ finished \in [Attempts -> Nat] /\ now \in Nat /\ retry_arrivals \in Seq(Attempts)
  BY AttemptParts DEF TypeInv, TypeOK, RequestTypeOK
<1>2. retried => again \in Attempts /\ again # a
  BY <1>1, AttemptParts DEF Retries
<1>3. retried <=> o \in Failed /\ a[2] < MaxRetries
  BY StatusDisjoint DEF Retries
<1>4. status[a] \in Unsettled /\ ~Fresh(a)
  BY <1>1 DEF AttemptInv, Statused, StatusFits
<1>5. retried => status[again] = "ABSENT"
  <2> SUFFICES ASSUME retried PROVE status[again] = "ABSENT"
    OBVIOUS
  <2>1. a[2] + 1 \in 0 .. MaxRetries /\ a[2] \in 0 .. (a[2] + 1) - 1
    BY <1>1, <1>3, AttemptParts
  <2>2. status[<<a[1], a[2]>>] \notin Failed
    BY <1>1, <1>4, StatusDisjoint
  <2>3. QED
    BY <1>1, <2>1, <2>2 DEF AttemptInv, Chained
<1>6. /\ live' = live \ {a} /\ unarrived' = unarrived
      /\ finished' = [finished EXCEPT ![a] = now]
      /\ retried => /\ status' = [status EXCEPT ![a] = o, ![again] = "PENDING"]
                    /\ arrival' = [arrival EXCEPT ![again] = now + RetryDelay]
                    /\ retry_arrivals' = Append(retry_arrivals, again)
      /\ ~retried => /\ status' = [status EXCEPT ![a] = o]
                     /\ arrival' = arrival /\ retry_arrivals' = retry_arrivals
  BY DEF Conclude
<1>7. \A b \in Attempts : status'[b] = IF b = a THEN o
                                       ELSE IF retried /\ b = again THEN "PENDING" ELSE status[b]
  BY <1>1, <1>2, <1>6
<1>8. \A b \in Attempts : arrival'[b] = IF retried /\ b = again THEN now + RetryDelay
                                        ELSE arrival[b]
  BY <1>1, <1>2, <1>6
<1>9. \A b \in Attempts : finished'[b] = IF b = a THEN now ELSE finished[b]
  BY <1>1, <1>6
<1>10. retried => again \notin ToSet(retry_arrivals) /\ again \notin live /\ again[2] # 0
  <2>1. retried => StatusFits(again) /\ again[2] = a[2] + 1
    BY <1>2 DEF AttemptInv, Statused
  <2>2. QED
    BY <1>1, <1>5, <2>1, StatusDisjoint DEF StatusFits, Fresh
<1>11. /\ IsInjective(retry_arrivals')
       /\ ToSet(retry_arrivals') = ToSet(retry_arrivals) \cup (IF retried THEN {again} ELSE {})
  <2>1. CASE retried
    <3> HIDE DEF again, retried
    <3>1. again \in Attempts /\ again \notin ToSet(retry_arrivals) /\ IsInjective(retry_arrivals)
      BY <1>2, <1>10, <2>1 DEF AttemptInv, Statused
    <3>2. /\ ToSet(Append(retry_arrivals, again)) = ToSet(retry_arrivals) \cup {again}
          /\ IsInjective(Append(retry_arrivals, again))
      BY <1>1, <3>1, AppendSet
    <3>3. QED
      BY <1>6, <2>1, <3>2
  <2>2. CASE ~retried
    BY <1>6, <2>2 DEF AttemptInv, Statused
  <2>3. QED
    BY <2>1, <2>2
<1> HIDE DEF retried, again
<1>12. ASSUME NEW b \in Attempts PROVE StatusFits(b)'
  <2>1. StatusFits(b)
    BY DEF AttemptInv, Statused
  <2>2. Fresh(b)' <=> Fresh(b) \/ (retried /\ b = again)
    BY <1>6, <1>11 DEF Fresh
  <2>3. forwarded' = forwarded /\ window_requests' = window_requests
    OBVIOUS
  <2>4. b \in live' <=> b \in live /\ b # a
    BY <1>6
  <2>5. CASE b = a
    <3>1. b \notin live' /\ status'[b] = o /\ ~Fresh(b)'
      BY <1>1, <1>2, <1>4, <1>7, <2>2, <2>4, <2>5
    <3>2. QED
      BY <3>1, StatusDisjoint DEF StatusFits
  <2>6. CASE retried /\ b = again
    <3>1. b \notin live' /\ status'[b] = "PENDING" /\ Fresh(b)' /\ b[2] # 0
      BY <1>2, <1>7, <1>10, <2>2, <2>4, <2>6
    <3>2. ~forwarded[b] /\ b \notin window_requests
      BY <1>5, <2>1, <2>6 DEF StatusFits
    <3>3. QED
      BY <2>3, <3>1, <3>2, StatusDisjoint DEF StatusFits
  <2>7. CASE b # a /\ ~(retried /\ b = again)
    <3>1. status'[b] = status[b]
      BY <1>7, <2>7
    <3>2. QED
      BY <2>1, <2>2, <2>3, <2>4, <2>7, <3>1 DEF StatusFits
  <2>8. QED
    BY <2>5, <2>6, <2>7
<1>13. Statused'
  BY <1>10, <1>11, <1>12 DEF AttemptInv, Statused
<1>14. Chained'
  <2> SUFFICES ASSUME NEW r \in Requests, NEW k \in 0 .. MaxRetries
               PROVE  /\ status'[<<r, k>>] # "ABSENT" =>
                            \A j \in 0 .. k - 1 : status'[<<r, j>>] \in Failed
                      /\ k > 0 /\ status'[<<r, k - 1>>] \in Failed =>
                            /\ status'[<<r, k>>] # "ABSENT"
                            /\ arrival'[<<r, k>>] = finished'[<<r, k - 1>>] + RetryDelay
    BY DEF Chained
  <2> DEFINE b == <<r, k>>
             l == <<r, k - 1>>
  <2>1. /\ b \in Attempts /\ k \in Nat
        /\ \A j \in 0 .. k - 1 : <<r, j>> \in Attempts /\ <<r, j>> # b
    BY AttemptParts
  <2>2. k > 0 => l \in Attempts /\ l # b /\ k - 1 \in 0 .. k - 1
    BY <2>1
  <2>3. /\ status[b] # "ABSENT" => \A j \in 0 .. k - 1 : status[<<r, j>>] \in Failed
        /\ k > 0 /\ status[l] \in Failed =>
              status[b] # "ABSENT" /\ arrival[b] = finished[l] + RetryDelay
    BY DEF AttemptInv, Chained
  <2>4. \A j \in 0 .. k - 1 : status[<<r, j>>] \in Failed => status'[<<r, j>>] \in Failed
    <3> SUFFICES ASSUME NEW j \in 0 .. k - 1, status[<<r, j>>] \in Failed
                 PROVE  status'[<<r, j>>] \in Failed
      OBVIOUS
    <3>1. <<r, j>> # a
      BY <1>4, StatusDisjoint
    <3>2. ~(retried /\ <<r, j>> = again)
      BY <1>5, StatusDisjoint
    <3>3. QED
      BY <1>7, <2>1, <3>1, <3>2
  <2>5. CASE retried /\ b = again
    <3>1. r = a[1] /\ k = a[2] + 1 /\ l = a
      BY <1>1, <2>5 DEF again
    <3>2. \A j \in 0 .. k - 1 : j = a[2] \/ j \in 0 .. a[2] - 1
      BY <1>1, <3>1
    <3>3. status[a] # "ABSENT" /\ a = <<r, a[2]>>
      BY <1>1, <1>4, <3>1, StatusDisjoint
    <3>4. \A j \in 0 .. a[2] - 1 : status[<<r, j>>] \in Failed
      BY <1>1, <3>1, <3>3 DEF AttemptInv, Chained
    <3>5. status'[<<r, a[2]>>] \in Failed
      BY <1>1, <1>3, <1>7, <2>5, <3>3
    <3>6. \A j \in 0 .. k - 1 : status'[<<r, j>>] \in Failed
      BY <2>4, <3>2, <3>4, <3>5
    <3>7. /\ status'[b] = "PENDING" /\ arrival'[b] = now + RetryDelay /\ finished'[a] = now
      BY <1>1, <1>2, <1>7, <1>8, <1>9, <2>1, <2>5
    <3>8. QED
      BY <3>1, <3>6, <3>7
  <2>6. CASE ~(retried /\ b = again)
    <3>1. status'[b] # "ABSENT" => status[b] # "ABSENT"
      BY <1>4, <1>7, <2>1, <2>6, StatusDisjoint
    <3>2. arrival'[b] = arrival[b]
      BY <1>8, <2>1, <2>6
    <3>3. CASE l = a /\ k > 0
      <4>1. a[1] = r /\ a[2] = k - 1
        BY <3>3
      <4>2. b = again /\ a[2] < MaxRetries
        BY <1>1, <2>1, <4>1, AttemptParts DEF again
      <4>3. o \notin Failed /\ status'[a] = o
        BY <1>1, <1>3, <1>7, <2>6, <4>2
      <4>4. QED
        BY <2>3, <2>4, <3>1, <3>3, <4>3
    <3>4. CASE l # a /\ k > 0
      <4>1. finished'[l] = finished[l]
        BY <1>9, <2>2, <3>4
      <4>2. status'[l] \in Failed => status[l] \in Failed
        BY <1>7, <2>2, <3>4, StatusDisjoint
      <4>3. status[b] # "ABSENT" => status'[b] # "ABSENT"
        BY <1>7, <2>1, StatusDisjoint
      <4>4. QED
        BY <2>3, <2>4, <3>1, <3>2, <4>1, <4>2, <4>3
    <3>5. QED
      BY <2>1, <2>3, <2>4, <3>1, <3>3, <3>4
  <2>7. QED
    BY <2>5, <2>6
<1>15. QED
  BY <1>13, <1>14 DEF AttemptInv

LEMMA ArrivalChains ==
    ASSUME TypeInv, AttemptInv, NEW a \in Attempts, Fresh(a), live' = live \cup {a},
           \A b \in Attempts : Fresh(b)' <=> Fresh(b) /\ b # a,
           IsInjective(retry_arrivals'), ToSet(retry_arrivals') \subseteq ToSet(retry_arrivals),
           UNCHANGED <<status, arrival, finished, forwarded, window_requests>>
    PROVE  AttemptInv'
<1>1. ASSUME NEW b \in Attempts PROVE StatusFits(b)'
  <2>1. StatusFits(b) /\ StatusFits(a)
    BY DEF AttemptInv, Statused
  <2>2. status[a] \in Unsettled
    BY <2>1, StatusDisjoint DEF StatusFits
  <2>3. Fresh(b)' <=> Fresh(b) /\ b # a
    OBVIOUS
  <2>4. b \in live' <=> b \in live \/ b = a
    OBVIOUS
  <2>5. /\ status' = status /\ forwarded' = forwarded /\ window_requests' = window_requests
    OBVIOUS
  <2>6. QED
    BY <2>1, <2>2, <2>3, <2>4, <2>5 DEF StatusFits
<1>2. Statused'
  BY <1>1 DEF AttemptInv, Statused
<1>3. Chained'
  BY ChainsSame DEF AttemptInv
<1>4. QED
  BY <1>2, <1>3 DEF AttemptInv

LEMMA ArriveChains ==
    ASSUME TypeInv, AttemptInv, NEW r \in Requests, Arrive(r)
    PROVE  AttemptInv' /\ <<r, 0>> \in Attempts /\ <<r, 0>> \notin live
<1> DEFINE a == <<r, 0>>
<1>1. a \in Attempts /\ a[1] = r /\ a[2] = 0
  BY AttemptParts
<1>2. /\ r \in unarrived /\ unarrived' = unarrived \ {r} /\ live' = live \cup {a}
      /\ UNCHANGED <<status, arrival, finished, retry_arrivals, forwarded, window_requests>>
  BY DEF Arrive, placeVars, windowVars
<1> HIDE DEF a
<1>3. Fresh(a)
  BY <1>1, <1>2 DEF Fresh
<1>4. ASSUME NEW b \in Attempts PROVE Fresh(b)' <=> Fresh(b) /\ b # a
  <2>1. b[2] = 0 /\ b[1] = r <=> b = a
    BY AttemptParts DEF a
  <2>2. b \in ToSet(retry_arrivals) => b[2] # 0
    BY DEF AttemptInv, Statused
  <2>3. QED
    BY <1>1, <1>2, <2>1, <2>2 DEF Fresh
<1>5. IsInjective(retry_arrivals)
  BY DEF AttemptInv, Statused
<1>6. a \notin live
  BY <1>1, <1>3 DEF AttemptInv, Statused, StatusFits
<1>7. AttemptInv'
  BY <1>1, <1>2, <1>3, <1>4, <1>5, ArrivalChains
<1>8. QED
  BY <1>1, <1>6, <1>7 DEF a

LEMMA ArriveRetryChains ==
    ASSUME TypeInv, AttemptInv, ArriveRetry
    PROVE  LET a == Head(retry_arrivals) IN AttemptInv' /\ a \in Attempts /\ a \notin live
<1> DEFINE a == Head(retry_arrivals)
<1>1. /\ retry_arrivals \in Seq(Attempts) /\ retry_arrivals # <<>>
      /\ retry_arrivals' = Tail(retry_arrivals) /\ live' = live \cup {a}
      /\ UNCHANGED <<status, arrival, finished, unarrived, forwarded, window_requests>>
  BY DEF ArriveRetry, RetryDue, placeVars, windowVars, TypeInv, TypeOK, RequestTypeOK
<1>2. IsInjective(retry_arrivals)
  BY DEF AttemptInv, Statused
<1>3. /\ a \in Attempts /\ a \in ToSet(retry_arrivals) /\ IsInjective(retry_arrivals')
      /\ ToSet(retry_arrivals') = ToSet(retry_arrivals) \ {a}
  BY <1>1, <1>2, TailSet
<1> HIDE DEF a
<1>4. Fresh(a) /\ a[2] # 0
  BY <1>3 DEF Fresh, AttemptInv, Statused
<1>5. a \notin live
  BY <1>3, <1>4 DEF AttemptInv, Statused, StatusFits
<1>6. \A b \in Attempts : Fresh(b)' <=> Fresh(b) /\ b # a
  BY <1>1, <1>3, <1>4 DEF Fresh
<1>7. AttemptInv'
  BY <1>1, <1>3, <1>4, <1>6, ArrivalChains
<1>8. QED
  BY <1>3, <1>5, <1>7 DEF a

\* The handlers of _settle end a live attempt or give it another status.
LEMMA SetStatusChains ==
    ASSUME TypeInv, AttemptInv, NEW a \in live, NEW s \in Unsettled, SetStatus(a, s),
           UNCHANGED <<forwarded, window_requests>>
    PROVE  AttemptInv'
<1>1. a \in Attempts /\ status \in [Attempts -> Statuses]
  BY DEF TypeInv, TypeOK, RequestTypeOK
<1>2. status' = [status EXCEPT ![a] = s]
      /\ UNCHANGED <<unarrived, live, retry_arrivals, arrival, finished>>
  BY DEF SetStatus
<1>3. QED
  BY <1>1, <1>2, NobodyEnds

LEMMA DeliverChains ==
    ASSUME TypeInv, AttemptInv, NEW a \in live, Deliver(a),
           UNCHANGED <<forwarded, window_requests>>
    PROVE  AttemptInv'
  BY SetStatusChains, ConcludeChains DEF Deliver, Finish, Terminal, Unsettled

LEMMA EnqueueChains ==
    ASSUME TypeInv, AttemptInv, Alive, NEW a \in live, NEW s \in Clusters, Enqueue(a, s),
           UNCHANGED <<forwarded, window_requests>>
    PROVE  AttemptInv'
<1>1. a \in Attempts /\ status \in [Attempts -> Statuses] /\ live \subseteq Attempts
  BY DEF TypeInv, TypeOK, RequestTypeOK
<1>2. CASE Finish(a, "REJECTED")
  BY <1>2, ConcludeChains DEF Finish, Terminal
<1>3. CASE SetStatus(a, "SCHEDULING")
  BY <1>3, SetStatusChains DEF Unsettled
<1>4. CASE /\ UNCHANGED <<unarrived, live, arrival, finished, retry_arrivals>>
           /\ status' = [status EXCEPT ![a] = "WAITING_SCHEDULER"]
  BY <1>1, <1>4, NobodyEnds DEF Unsettled
<1>5. CASE /\ UNCHANGED <<unarrived, live, arrival, finished, retry_arrivals>>
           /\ HeadMayStart(s)
           /\ status' = [status EXCEPT ![a] = "WAITING_SCHEDULER",
                                       ![Head(queues[s])] = "SCHEDULING"]
  <2>1. Head(queues[s]) \in ToSet(queues[s])
    <3>1. queues[s] \in Seq(Attempts) /\ queues[s] # <<>>
      BY <1>5, SchedulerTypes DEF HeadMayStart
    <3>2. Head(queues[s]) = queues[s][1] /\ 1 \in DOMAIN queues[s]
      BY <3>1, EmptySeq, LenProperties
    <3>3. QED
      BY <3>2 DEF ToSet
  <2>2. Head(queues[s]) \in live
    BY <2>1, SchedulerTypes DEF Alive
  <2>3. QED
    BY <1>1, <1>5, <2>2, NobodyEnds DEF Unsettled
<1>6. QED
  BY <1>2, <1>3, <1>4, <1>5 DEF Enqueue

LEMMA StartWaitingChains ==
    ASSUME TypeInv, AttemptInv, Alive, StartWaiting
    PROVE  AttemptInv'
<1> DEFINE heads == {Head(queues[s]) : s \in {u \in Clusters : HeadMayStart(u)}}
<1>1. /\ status' = [b \in Attempts |-> IF b \in heads THEN "SCHEDULING" ELSE status[b]]
      /\ UNCHANGED <<unarrived, live, arrival, finished, retry_arrivals, forwarded, window_requests>>
  BY DEF StartWaiting, placeVars, windowVars
<1>2. heads \subseteq live
  <2> SUFFICES ASSUME NEW s \in Clusters, HeadMayStart(s) PROVE Head(queues[s]) \in live
    OBVIOUS
  <2>1. queues[s] \in Seq(Attempts) /\ queues[s] # <<>>
    BY SchedulerTypes DEF HeadMayStart
  <2>2. Head(queues[s]) = queues[s][1] /\ 1 \in DOMAIN queues[s]
    BY <2>1, EmptySeq, LenProperties
  <2>3. Head(queues[s]) \in ToSet(queues[s])
    BY <2>2 DEF ToSet
  <2>4. QED
    BY <2>3, SchedulerTypes DEF Alive
<1> HIDE DEF heads
<1>3. QED
  BY <1>1, <1>2, NobodyEnds DEF Unsettled

LEMMA NextHolders == TypeInv /\ HoldInv /\ AttemptInv /\ [Next]_vars => HoldInv' /\ AttemptInv'
<1> SUFFICES ASSUME TypeInv, HoldInv, AttemptInv, [Next]_vars PROVE HoldInv' /\ AttemptInv'
  OBVIOUS
<1>1. Alive
  BY DEF HoldInv
<1>2. /\ "SUCCEEDED" \in Terminal /\ "TIMED_OUT" \in Terminal /\ "REJECTED" \in Terminal
      /\ "WAITING_DATA" \in Unsettled
  BY DEF Terminal, Unsettled
<1>3. CASE \E a \in Attempts : Succeed(a)
  <2>1. PICK a \in Attempts : Succeed(a)
    BY <1>3
  <2>2. a \in live /\ Conclude(a, "SUCCEEDED") /\ UNCHANGED <<forwarded, window_requests>>
    BY <1>1, <2>1 DEF Succeed, Alive, Taken, Finish, placeVars, windowVars
  <2>3. QED
    BY <1>2, <2>1, <2>2, SucceedHolds, ConcludeChains
<1>4. CASE \E a \in Attempts : Expire(a)
  <2>1. PICK a \in Attempts : Expire(a)
    BY <1>4
  <2>2. a \in live /\ Conclude(a, "TIMED_OUT") /\ UNCHANGED <<forwarded, window_requests>>
    BY <2>1 DEF Expire, Due, Finish, placeVars, windowVars
  <2>3. QED
    BY <1>2, <2>1, <2>2, ExpireHolds, ConcludeChains
<1>5. CASE \E a \in Attempts : ServeWaiter(a)
  <2>1. PICK a \in Attempts : ServeWaiter(a)
    BY <1>5
  <2>2. a \in live /\ Deliver(a) /\ UNCHANGED <<forwarded, window_requests>>
    BY <1>1, <2>1 DEF ServeWaiter, Alive, Taken, placeVars, windowVars
  <2>3. QED
    BY <2>1, <2>2, ServeWaiterHolds, DeliverChains
<1>6. CASE Hit
  <2>1. current \in live /\ Deliver(current) /\ UNCHANGED <<forwarded, window_requests>>
    BY <1>6, HandIsFree DEF Hit, placeVars, windowVars
  <2>2. QED
    BY <1>6, <2>1, HitHolds, DeliverChains
<1>7. CASE JoinFetch
  <2>1. /\ current \in live /\ SetStatus(current, "WAITING_DATA")
        /\ UNCHANGED <<forwarded, window_requests>>
    BY <1>7, HandIsFree DEF JoinFetch, Miss, placeVars, windowVars
  <2>2. QED
    BY <1>2, <1>7, <2>1, JoinFetchHolds, SetStatusChains
<1>8. CASE StartFetch
  <2>1. /\ current \in live /\ UNCHANGED <<forwarded, window_requests>>
        /\ SetStatus(current, "WAITING_DATA") \/ Conclude(current, "REJECTED")
    BY <1>8, HandIsFree DEF StartFetch, Miss, Finish, placeVars, windowVars
  <2>2. QED
    BY <1>2, <1>8, <2>1, StartFetchHolds, SetStatusChains, ConcludeChains
<1>9. CASE RejectStorage
  <2>1. /\ current \in live /\ UNCHANGED <<forwarded, window_requests>>
        /\ Conclude(current, "REJECTED")
    BY <1>9, HandIsFree DEF RejectStorage, Miss, Finish, placeVars, windowVars
  <2>2. QED
    BY <1>2, <1>9, <2>1, RejectStorageHolds, ConcludeChains
<1>10. CASE ExpireOnArrival
  <2>1. /\ current \in live /\ UNCHANGED <<forwarded, window_requests>>
        /\ Conclude(current, "TIMED_OUT")
    BY <1>10, HandIsFree DEF ExpireOnArrival, Placed, Finish, placeVars, windowVars
  <2>2. QED
    BY <1>2, <1>10, <2>1, ExpireOnArrivalHolds, ConcludeChains
<1>11. CASE Place
  <2>1. /\ current \in live /\ UNCHANGED <<forwarded, window_requests>>
        /\ cluster[current] \in Clusters /\ Enqueue(current, cluster[current])
    BY <1>11, HandIsFree DEF Place, Placed, placeVars, windowVars, TypeInv, TypeOK, PlaceTypeOK
  <2>2. QED
    BY <1>1, <1>11, <2>1, PlaceHolds, EnqueueChains
<1>12. CASE \E a \in Attempts : Forward(a)
  <2>1. PICK a \in Attempts : Forward(a)
    BY <1>12
  <2>2. /\ a \in live /\ forwarded' = [forwarded EXCEPT ![a] = TRUE]
        /\ UNCHANGED <<unarrived, live, retry_arrivals, arrival, finished, status, window_requests>>
    BY <1>1, <2>1 DEF Forward, Alive, Taken, requestVars, windowVars
  <2>3. \A b \in Attempts : forwarded'[b] = forwarded[b] \/ b \in live
    BY <2>2 DEF TypeInv, TypeOK, PlaceTypeOK
  <2>4. QED
    BY <2>1, <2>2, <2>3, ForwardHolds, NobodyEnds
<1>13. CASE \E a \in Attempts, c \in Caches : ChooseCache(a, c)
  <2>1. /\ UNCHANGED <<unarrived, live, retry_arrivals, arrival, finished, status>>
        /\ UNCHANGED <<forwarded, window_requests>>
    BY <1>13 DEF ChooseCache, requestVars, windowVars
  <2>2. QED
    BY <1>13, <2>1, ChooseCacheHolds, NobodyEnds
<1>14. CASE \E r \in Requests : Arrive(r)
  <2>1. PICK r \in Requests : Arrive(r)
    BY <1>14
  <2>2. AttemptInv' /\ <<r, 0>> \in Attempts /\ <<r, 0>> \notin live
    BY <2>1, ArriveChains
  <2>3. HoldInv'
    BY <2>1, <2>2, ArrivalHolds DEF Arrive
  <2>4. QED
    BY <2>2, <2>3
<1>15. CASE ArriveRetry
  <2>1. AttemptInv' /\ Head(retry_arrivals) \in Attempts /\ Head(retry_arrivals) \notin live
    BY <1>15, ArriveRetryChains
  <2>2. HoldInv'
    BY <1>15, <2>1, ArrivalHolds DEF ArriveRetry
  <2>3. QED
    BY <2>1, <2>2
<1>16. CASE StartWaiting
  BY <1>1, <1>16, StartWaitingHolds, StartWaitingChains
<1>17. CASE Land \/ ReleaseServices \/ Evict \/ EndPhase \/ Close
  <2>1. /\ UNCHANGED <<unarrived, live, retry_arrivals, arrival, finished, status>>
        /\ UNCHANGED <<forwarded, window_requests>>
    BY <1>17 DEF Land, ReleaseServices, Evict, EndPhase, Close, requestVars, placeVars, windowVars
  <2>2. QED
    BY <1>17, <2>1, LandHolds, ReleaseServicesHolds, QuietHolds, NobodyEnds
<1>18. CASE \E p \in Pools : Collect(p)
  <2>1. /\ UNCHANGED <<unarrived, live, retry_arrivals, arrival, finished, status>>
        /\ UNCHANGED <<forwarded, window_requests>>
    BY <1>18 DEF Collect, requestVars, placeVars, windowVars
  <2>2. QED
    BY <1>18, <2>1, CollectHolds, NobodyEnds
<1>19. CASE \E t \in transfers : Cancel(t)
  <2>1. /\ UNCHANGED <<unarrived, live, retry_arrivals, arrival, finished, status>>
        /\ UNCHANGED <<forwarded, window_requests>>
    BY <1>19 DEF Cancel, requestVars, placeVars, windowVars
  <2>2. QED
    BY <1>19, <2>1, CancelHolds, NobodyEnds
<1>20. CASE \E t \in now + 1 .. Horizon, ended \in SUBSET Started : Wait(t, ended)
  <2>1. /\ UNCHANGED <<unarrived, live, retry_arrivals, arrival, finished, status>>
        /\ UNCHANGED <<forwarded, window_requests>>
    BY <1>20 DEF Wait, requestVars, placeVars, windowVars
  <2>2. QED
    BY <1>20, <2>1, QuietHolds, NobodyEnds
<1>21. CASE Advance
  <2>1. /\ UNCHANGED <<unarrived, live, retry_arrivals, arrival, finished, status, forwarded>>
        /\ window_requests' = live
    BY <1>21 DEF Advance, AdvanceWindow, placeVars
  <2>2. QED
    BY <1>21, <2>1, QuietHolds, NobodyEnds
<1>22. CASE UNCHANGED vars
  <2>1. /\ UNCHANGED <<unarrived, live, retry_arrivals, arrival, finished, status, forwarded>>
        /\ UNCHANGED <<window_requests, pc, cluster, queues, busy, transfers, request_transfer>>
        /\ UNCHANGED settleVars
    BY <1>22 DEF vars, requestVars, placeVars, windowVars, schedulerVars, transferVars
  <2>2. QED
    BY <2>1, NobodyEnds, NobodyMoves DEF HoldInv, Phased, Open, settleVars
<1>23. QED
  BY <1>3, <1>4, <1>5, <1>6, <1>7, <1>8, <1>9, <1>10, <1>11, <1>12, <1>13, <1>14,
     <1>15, <1>16, <1>17, <1>18, <1>19, <1>20, <1>21, <1>22 DEF Next, Settle, Closed

LEMMA InitHolders == Init => HoldInv /\ AttemptInv
<1> SUFFICES ASSUME Init PROVE HoldInv /\ AttemptInv
  OBVIOUS
<1>1. /\ live = {} /\ transfers = {} /\ retry_arrivals = <<>> /\ unarrived = Requests
      /\ queues = [s \in Clusters |-> <<>>] /\ busy = [s \in Clusters |-> Idle]
      /\ status = [a \in Attempts |-> IF a[2] = 0 THEN "PENDING" ELSE "ABSENT"]
      /\ request_transfer = [a \in Attempts |-> None] /\ window_requests = {}
      /\ forwarded = [a \in Attempts |-> FALSE] /\ pc = "idle"
      /\ completed = {} /\ delivered = {} /\ landed = <<>> /\ toDeliver = {}
      /\ ready = {} /\ current = None
  BY DEF Init
<1>2. \A S : ToSet(<<>>) = {} /\ IsInjective(<<>>) /\ Len(<<>>) = 0
  BY DEF ToSet, IsInjective
<1>3. InQueues = {} /\ InService = {} /\ Moving = {} /\ Taken = {} /\ LandedFor = {}
  BY <1>1, <1>2 DEF InQueues, InService, Moving, Taken, LandedFor, Idle
<1>4. AtHome
  BY <1>1, <1>2 DEF AtHome, Idle
<1>5. HoldInv
  BY <1>1, <1>2, <1>3, <1>4, FS_EmptySet DEF HoldInv, Phased, Apart, Alive, NoneLost, Carried
<1>6. Statused
  <2>1. \A a \in Attempts : StatusFits(a)
    BY <1>1, <1>2, AttemptParts DEF StatusFits, Fresh, Unsettled
  <2>2. QED
    BY <1>1, <1>2, <2>1 DEF Statused
<1>7. Chained
  <2> SUFFICES ASSUME NEW r \in Requests, NEW k \in 0 .. MaxRetries
               PROVE  /\ status[<<r, k>>] # "ABSENT" =>
                            \A j \in 0 .. k - 1 : status[<<r, j>>] \in Failed
                      /\ ~(k > 0 /\ status[<<r, k - 1>>] \in Failed)
    BY DEF Chained
  <2>1. k \in Nat /\ <<r, k>> \in Attempts /\ (k > 0 => <<r, k - 1>> \in Attempts)
    BY AttemptParts
  <2>2. status[<<r, k>>] # "ABSENT" => k = 0
    BY <1>1, <2>1
  <2>3. k > 0 => status[<<r, k - 1>>] \in {"PENDING", "ABSENT"}
    BY <1>1, <2>1
  <2>4. QED
    BY <2>1, <2>2, <2>3 DEF Failed
<1>8. QED
  BY <1>5, <1>6, <1>7 DEF AttemptInv

LEMMA HolderInvariant == Spec => [](TypeInv /\ HoldInv /\ AttemptInv)
  BY InitHolders, NextHolders, TypeInvariant, PTL DEF Spec

-----------------------------------------------------------------------------
(***************************************************************************)
(* What follows for the attempts.                                          *)
(***************************************************************************)
LEMMA OnePlace == TypeInv /\ HoldInv => InOnePlace
<1> SUFFICES ASSUME TypeInv, HoldInv, Open, NEW a \in live
             PROVE  Cardinality(Places(a)) = 1
  BY DEF InOnePlace
<1>1. a \in Attempts /\ a # None /\ cluster[a] \in Clusters
  BY SetsAssumption DEF TypeInv, TypeOK, RequestTypeOK, PlaceTypeOK
<1>2. a \in ToSet(queues[cluster[a]]) <=> a \in InQueues
  BY <1>1 DEF HoldInv, AtHome, InQueues
<1>3. busy[cluster[a]].request = a <=> a \in InService
  BY <1>1 DEF HoldInv, AtHome, InService
<1>4. request_transfer[a] \in transfers <=> a \in Moving
  BY <1>1, TransferTypes DEF HoldInv, Carried, Moving
<1>5. InHand(a) <=> a \in Taken \cup LandedFor
  BY <1>1 DEF InHand, Taken, LandedFor
<1>6. /\ a \in InQueues \cup InService \cup Moving \cup Taken \cup LandedFor
      /\ ~(a \in InQueues /\ a \in InService)
      /\ ~(a \in InQueues \cup InService /\ a \in Moving)
      /\ ~(a \in InQueues \cup InService \cup Moving /\ a \in Taken \cup LandedFor)
  BY DEF HoldInv, NoneLost, Apart
<1>7. \A p : p \in Places(a) <=> \/ p = "queue" /\ a \in InQueues
                                 \/ p = "service" /\ a \in InService
                                 \/ p = "transfer" /\ a \in Moving
                                 \/ p = "hand" /\ a \in Taken \cup LandedFor
  BY <1>2, <1>3, <1>4, <1>5 DEF Places
<1>8. \E p : Places(a) = {p}
  <2>1. CASE a \in InQueues
    <3>1. Places(a) = {"queue"}
      BY <1>6, <1>7, <2>1
    <3>2. QED
      BY <3>1
  <2>2. CASE a \in InService
    <3>1. Places(a) = {"service"}
      BY <1>6, <1>7, <2>2
    <3>2. QED
      BY <3>1
  <2>3. CASE a \in Moving
    <3>1. Places(a) = {"transfer"}
      BY <1>6, <1>7, <2>3
    <3>2. QED
      BY <3>1
  <2>4. CASE a \in Taken \cup LandedFor
    <3>1. Places(a) = {"hand"}
      BY <1>6, <1>7, <2>4
    <3>2. QED
      BY <3>1
  <2>5. QED
    BY <1>6, <2>1, <2>2, <2>3, <2>4
<1>9. QED
  BY <1>8, FS_Singleton

LEMMA OnlyTheLiveHold == TypeInv /\ HoldInv => OnlyLiveHold
<1> SUFFICES ASSUME TypeInv, HoldInv PROVE OnlyLiveHold
  OBVIOUS
<1>1. \A s \in Clusters : /\ ToSet(queues[s]) \subseteq live
                          /\ Busy(s) => busy[s].request \in live
  BY DEF HoldInv, Alive, InQueues, InService, Busy
<1>2. \A t \in transfers : Waiters(t) # {} /\ Waiters(t) \subseteq live
  <2> SUFFICES ASSUME NEW t \in transfers PROVE Waiters(t) # {} /\ Waiters(t) \subseteq live
    OBVIOUS
  <2>1. t # None
    BY TransferTypes
  <2>2. Waiters(t) \subseteq Moving
    BY <2>1 DEF Waiters, Moving
  <2>3. QED
    BY <2>2 DEF HoldInv, Alive, Carried, Waiters
<1>3. QED
  BY <1>1, <1>2 DEF OnlyLiveHold

\* Every attempt that has arrived and not ended is in exactly one place of the
\* runtime, and what has ended holds none: no handler of _settle loses a
\* request, queues it twice or leaves its queue place, its service slot or its
\* transfer behind (the scans of live requests in _schedulers, _finish and
\* _remove_transfer agree).
THEOREM AttemptsHeldOnce == Spec => []HeldOnce
  BY HolderInvariant, OnePlace, OnlyTheLiveHold, PTL DEF HeldOnce

LEMMA ChainsLinked == TypeInv /\ AttemptInv => RetryChain
<1> SUFFICES ASSUME TypeInv, AttemptInv, NEW r \in Requests, NEW k \in 1 .. MaxRetries
             PROVE  /\ status[<<r, k>>] # "ABSENT" <=>
                          status[<<r, k - 1>>] \in {"TIMED_OUT", "REJECTED"}
                    /\ status[<<r, k>>] # "ABSENT" =>
                          arrival[<<r, k>>] = finished[<<r, k - 1>>] + RetryDelay
  BY DEF RetryChain
<1>1. k \in 0 .. MaxRetries /\ k > 0 /\ k - 1 \in 0 .. k - 1
  BY AttemptParts
<1>2. QED
  BY <1>1 DEF AttemptInv, Chained, Failed

-----------------------------------------------------------------------------
(***************************************************************************)
(* Deadlines: what is live after the expiry loop still has time.           *)
(***************************************************************************)
BeforeExpiry == {"collect", "succeed", "expire"}
AfterExpiry == {"land", "release", "schedule", "serve", "place", "arrive", "retry",
                "start", "wait", "idle"}
Ahead ==
    /\ pc \in BeforeExpiry => \A a \in live : Deadline(a) >= now
    /\ pc \in AfterExpiry =>
          \A a \in live : Deadline(a) > now \/ (pc = "place" /\ a = current /\ ~forwarded[a])
    /\ \A a \in Attempts : status[a] = "SUCCEEDED" => finished[a] <= Deadline(a)

LEMMA DeadlineType ==
    ASSUME TypeInv, NEW a \in Attempts
    PROVE  Deadline(a) \in Int /\ now \in Int /\ finished[a] \in Int
<1>1. a[1] \in Requests /\ arrival[a] \in Nat /\ finished[a] \in Nat /\ now \in Nat
  BY AttemptParts DEF TypeInv, TypeOK, RequestTypeOK
<1>2. QED
  BY <1>1, RequestsAssumption DEF Deadline

\* Nobody ends and time stands still: nothing changes for the deadlines.
LEMMA GoesOnAhead ==
    ASSUME TypeInv, Ahead, UNCHANGED <<now, arrival, finished>>,
           live' \subseteq live,
           \A a \in Attempts : status'[a] = status[a] \/ status'[a] # "SUCCEEDED",
           pc' \in BeforeExpiry => pc \in BeforeExpiry \/ pc = "idle",
           pc' \in AfterExpiry =>
               \/ pc \in AfterExpiry /\ pc # "place"
               \/ pc = "place" /\ (forwarded[current] \/ Deadline(current) > now)
               \/ \A a \in live : Deadline(a) > now
    PROVE  Ahead'
<1>1. \A a \in Attempts : Deadline(a)' = Deadline(a)
  BY DEF Deadline
<1>2. \A a \in Attempts : status'[a] = "SUCCEEDED" => finished'[a] <= Deadline(a)'
  BY <1>1 DEF Ahead
<1>3. live \subseteq Attempts /\ \A a \in live : Deadline(a) \in Int /\ now \in Int
  BY DeadlineType DEF TypeInv, TypeOK, RequestTypeOK
<1>4. pc' \in BeforeExpiry => \A a \in live' : Deadline(a)' >= now'
  <2>1. CASE pc \in BeforeExpiry
    BY <1>1, <1>3, <2>1 DEF Ahead
  <2>2. CASE pc = "idle"
    BY <1>1, <1>3, <2>2 DEF Ahead, AfterExpiry
  <2>3. QED
    BY <2>1, <2>2
<1>5. pc' \in AfterExpiry => \A a \in live' : Deadline(a)' > now'
  <2>1. CASE pc \in AfterExpiry /\ pc # "place"
    BY <1>1, <1>3, <2>1 DEF Ahead
  <2>2. CASE pc = "place" /\ (forwarded[current] \/ Deadline(current) > now)
    BY <1>1, <1>3, <2>2 DEF Ahead, AfterExpiry
  <2>3. CASE \A a \in live : Deadline(a) > now
    BY <1>1, <1>3, <2>3
  <2>4. QED
    BY <2>1, <2>2, <2>3
<1>6. QED
  BY <1>2, <1>4, <1>5 DEF Ahead

\* An attempt ends.  A success is in time: it ends before the expiry loop.
LEMMA EndsAhead ==
    ASSUME TypeInv, AttemptInv, Ahead, NEW a \in live, NEW o \in Terminal, Conclude(a, o),
           UNCHANGED <<now, forwarded>>,
           o = "SUCCEEDED" => pc \in BeforeExpiry,
           pc' \in BeforeExpiry => pc \in BeforeExpiry,
           pc' \in AfterExpiry => pc \in AfterExpiry,
           pc = "place" => a = current
    PROVE  Ahead'
<1> DEFINE again == <<a[1], a[2] + 1>>
           retried == Retries(a, o)
<1>1. /\ a \in Attempts /\ status \in [Attempts -> Statuses] /\ arrival \in [Attempts -> Nat]
      /\ finished \in [Attempts -> Nat] /\ live \subseteq Attempts
  BY DEF TypeInv, TypeOK, RequestTypeOK
<1>2. /\ live' = live \ {a}
      /\ finished' = [finished EXCEPT ![a] = now]
      /\ retried => /\ status' = [status EXCEPT ![a] = o, ![again] = "PENDING"]
                    /\ arrival' = [arrival EXCEPT ![again] = now + RetryDelay]
      /\ ~retried => /\ status' = [status EXCEPT ![a] = o]
                     /\ arrival' = arrival
  BY DEF Conclude
<1>3. retried => again \in Attempts /\ again # a
  BY <1>1, AttemptParts DEF Retries
<1>4. retried => status[again] = "ABSENT" /\ again \notin live
  <2> SUFFICES ASSUME retried PROVE status[again] = "ABSENT" /\ again \notin live
    OBVIOUS
  <2>1. a[1] \in Requests /\ a[2] + 1 \in 0 .. MaxRetries /\ a[2] \in 0 .. (a[2] + 1) - 1
    BY <1>1, AttemptParts DEF Retries
  <2>2. status[<<a[1], a[2]>>] \notin Failed
    BY <1>1, AttemptParts, StatusDisjoint DEF AttemptInv, Statused, StatusFits
  <2>3. status[again] = "ABSENT"
    BY <2>1, <2>2 DEF AttemptInv, Chained
  <2>4. QED
    BY <1>3, <2>3, StatusDisjoint DEF AttemptInv, Statused, StatusFits
<1>5. \A b \in Attempts : b # again \/ ~retried => Deadline(b)' = Deadline(b)
  <2>1. \A b \in Attempts : b # again \/ ~retried => arrival'[b] = arrival[b]
    BY <1>1, <1>2
  <2>2. QED
    BY <2>1 DEF Deadline
<1>6. \A b \in live' : b \in live /\ b # a /\ b \in Attempts /\ Deadline(b)' = Deadline(b)
  BY <1>1, <1>2, <1>4, <1>5
<1>7. ASSUME NEW b \in Attempts, status'[b] = "SUCCEEDED"
      PROVE  finished'[b] <= Deadline(b)'
  <2>1. ~(retried /\ b = again)
    BY <1>1, <1>2, <1>3, <1>7
  <2>2. CASE b = a
    <3>1. o = "SUCCEEDED" /\ finished'[b] = now
      BY <1>1, <1>2, <1>3, <1>7, <2>1, <2>2
    <3>2. Deadline(a) >= now
      BY <3>1 DEF Ahead
    <3>3. QED
      BY <1>5, <2>1, <2>2, <3>1, <3>2, DeadlineType
  <2>3. CASE b # a
    <3>1. status[b] = "SUCCEEDED" /\ finished'[b] = finished[b]
      BY <1>1, <1>2, <1>7, <2>1, <2>3
    <3>2. QED
      BY <1>5, <2>1, <3>1 DEF Ahead
  <2>4. QED
    BY <2>2, <2>3
<1> HIDE DEF again, retried
<1>8. pc' \in BeforeExpiry => \A b \in live' : Deadline(b)' >= now'
  BY <1>6 DEF Ahead
<1>9. pc' \in AfterExpiry => \A b \in live' : Deadline(b)' > now'
  BY <1>6 DEF Ahead
<1>10. QED
  BY <1>7, <1>8, <1>9 DEF Ahead

LEMMA ArrivalAhead ==
    ASSUME TypeInv, Ahead, NEW a \in Attempts, live' = live \cup {a}, current' = a,
           pc \in {"arrive", "retry"}, pc' = "place", ~forwarded[a],
           UNCHANGED <<now, arrival, finished, forwarded, status>>
    PROVE  Ahead'
<1>1. \A b \in Attempts : Deadline(b)' = Deadline(b)
  BY DEF Deadline
<1>2. live \subseteq Attempts
  BY DEF TypeInv, TypeOK, RequestTypeOK
<1>3. \A b \in live : Deadline(b)' > now'
  BY <1>1, <1>2 DEF Ahead, AfterExpiry
<1>4. QED
  BY <1>1, <1>3 DEF Ahead, BeforeExpiry

\* The next date is the first of those ahead.
LEMMA NextDateIsFirst ==
    ASSUME TypeInv, NEW e \in Dates, e > now
    PROVE  e \in Nat /\ NextDate \in Nat /\ NextDate > now /\ NextDate <= e
<1> DEFINE D == {d \in Dates : d > now}
<1>1. D \subseteq Nat
  <2>1. until \in Nat /\ now \in Nat /\ retry_arrivals \in Seq(Attempts)
        /\ arrival \in [Attempts -> Nat] /\ unarrived \subseteq Requests
        /\ live \subseteq Attempts
        /\ busy \in [Clusters -> [request : Attempts \cup {None}, finish : Nat]]
    BY DEF TypeInv, TypeOK, RequestTypeOK, SchedulerTypeOK, WindowTypeOK
  <2>2. \A a \in ToSet(retry_arrivals) : a \in Attempts
    BY <2>1, ElementOfSeq, LenProperties DEF ToSet
  <2>3. \A a \in live : Deadline(a) \in Int
    BY <2>1, DeadlineType
  <2>4. \A d \in D : d \in Int
    BY <2>1, <2>2, <2>3, RequestsAssumption DEF Dates
  <2>5. QED
    BY <2>1, <2>4
<1>2. e \in D /\ \A d \in D : d > now
  OBVIOUS
<1>3. NextDate = Min(D)
  BY DEF NextDate, D
<1> HIDE DEF D
<1>4. PICK x \in D : \A y \in D : ~(y < x)
  BY <1>1, <1>2, LeastNumber
<1>5. \A y \in D : x <= y
  BY <1>1, <1>4
<1>6. Min(D) \in D /\ \A y \in D : Min(D) <= y
  BY <1>4, <1>5 DEF Min
<1> DEFINE m == Min(D)
<1>7. m \in D /\ m <= e /\ m > now
  BY <1>2, <1>6
<1> HIDE DEF m
<1>8. m \in Nat /\ e \in Nat /\ m > now /\ m <= e
  BY <1>1, <1>2, <1>7
<1>9. QED
  BY <1>3, <1>8 DEF m

\* The runtime sleeps no longer than to the next deadline.
LEMMA WaitAhead ==
    ASSUME TypeInv, Ahead, NEW t \in Int, NEW ended, t \in now + 1 .. NextDate, Wait(t, ended)
    PROVE  Ahead'
<1>1. /\ pc = "wait" /\ pc' = "collect" /\ now' = t
      /\ UNCHANGED <<live, status, arrival, finished, forwarded>>
  BY DEF Wait, requestVars, placeVars
<1>2. live \subseteq Attempts /\ \A a \in live : Deadline(a) \in Dates /\ Deadline(a) > now
  <2>1. live \subseteq Attempts
    BY DEF TypeInv, TypeOK, RequestTypeOK
  <2>2. \A a \in live : Deadline(a) > now
    BY <1>1 DEF Ahead, AfterExpiry
  <2>3. QED
    BY <2>1, <2>2 DEF Dates
<1>4. \A a \in live : Deadline(a) >= NextDate /\ NextDate \in Int
  <2> SUFFICES ASSUME NEW a \in live PROVE Deadline(a) >= NextDate /\ NextDate \in Int
    OBVIOUS
  <2> DEFINE e == Deadline(a)
  <2>1. e \in Dates /\ e > now
    BY <1>2
  <2> HIDE DEF e
  <2>2. e \in Nat /\ NextDate \in Nat /\ NextDate <= e
    BY <2>1, NextDateIsFirst
  <2>3. QED
    BY <2>2 DEF e
<1>5. \A a \in Attempts : Deadline(a)' = Deadline(a)
  BY <1>1 DEF Deadline
<1>6. \A a \in live' : Deadline(a)' >= now'
  BY <1>1, <1>2, <1>4, <1>5, DeadlineType
<1>7. \A a \in Attempts : status'[a] = "SUCCEEDED" => finished'[a] <= Deadline(a)'
  BY <1>1, <1>5 DEF Ahead
<1>8. QED
  BY <1>1, <1>6, <1>7 DEF Ahead, AfterExpiry

LEMMA DeliverAhead ==
    ASSUME TypeInv, AttemptInv, Ahead, NEW a \in live, Deliver(a),
           UNCHANGED <<now, forwarded>>, pc \in AfterExpiry \ {"place"}, pc' \in AfterExpiry
    PROVE  Ahead'
<1>1. pc' \notin BeforeExpiry
  BY DEF BeforeExpiry, AfterExpiry
<1>2. CASE SetStatus(a, "DELIVERING")
  <2>1. \A b \in Attempts : status'[b] = status[b] \/ status'[b] # "SUCCEEDED"
    BY <1>2 DEF SetStatus, TypeInv, TypeOK, RequestTypeOK
  <2>2. QED
    BY <1>1, <1>2, <2>1, GoesOnAhead DEF SetStatus
<1>3. CASE Finish(a, "REJECTED")
  BY <1>1, <1>3, EndsAhead DEF Finish, Terminal
<1>4. QED
  BY <1>2, <1>3 DEF Deliver

LEMMA NextAhead == TypeInv /\ HoldInv /\ AttemptInv /\ Ahead /\ [Next]_vars => Ahead'
<1> SUFFICES ASSUME TypeInv, HoldInv, AttemptInv, Ahead, [Next]_vars PROVE Ahead'
  OBVIOUS
<1>1. Alive
  BY DEF HoldInv
<1>2. /\ "SUCCEEDED" \in Terminal /\ "TIMED_OUT" \in Terminal /\ "REJECTED" \in Terminal
  BY DEF Terminal
<1> DEFINE Quiet == /\ UNCHANGED <<now, live, arrival, finished>>
                    /\ \A a \in Attempts : status'[a] = status[a] \/ status'[a] # "SUCCEEDED"
<1>3. CASE \E a \in Attempts : Succeed(a)
  <2>1. PICK a \in Attempts : Succeed(a)
    BY <1>3
  <2>2. /\ a \in live /\ Conclude(a, "SUCCEEDED") /\ UNCHANGED <<now, forwarded>>
        /\ pc = "succeed" /\ pc' = pc
    BY <1>1, <2>1 DEF Succeed, Alive, Taken, Finish, placeVars
  <2>3. QED
    BY <1>2, <2>2, EndsAhead DEF BeforeExpiry, AfterExpiry
<1>4. CASE \E a \in Attempts : Expire(a)
  <2>1. PICK a \in Attempts : Expire(a)
    BY <1>4
  <2>2. /\ a \in live /\ Conclude(a, "TIMED_OUT") /\ UNCHANGED <<now, forwarded>>
        /\ pc = "expire" /\ pc' = pc
    BY <2>1 DEF Expire, Due, Finish, placeVars
  <2>3. QED
    BY <1>2, <2>2, EndsAhead DEF BeforeExpiry, AfterExpiry
<1>5. CASE \E a \in Attempts : ServeWaiter(a)
  <2>1. PICK a \in Attempts : ServeWaiter(a)
    BY <1>5
  <2>2. a \in live /\ Deliver(a) /\ UNCHANGED <<now, forwarded>> /\ pc = "land" /\ pc' = pc
    BY <1>1, <2>1 DEF ServeWaiter, Alive, Taken, placeVars
  <2>3. QED
    BY <2>2, DeliverAhead DEF AfterExpiry
<1>6. CASE Hit
  <2>1. /\ current \in live /\ Deliver(current) /\ UNCHANGED <<now, forwarded>>
        /\ pc = "serve" /\ pc' = "schedule"
    BY <1>6, HandIsFree DEF Hit, placeVars
  <2>2. QED
    BY <2>1, DeliverAhead DEF AfterExpiry
<1>7. CASE JoinFetch \/ (StartFetch /\ SetStatus(current, "WAITING_DATA"))
  <2>1. /\ Quiet /\ pc = "serve" /\ pc' = "schedule"
    BY <1>7 DEF JoinFetch, StartFetch, Miss, SetStatus, TypeInv, TypeOK, RequestTypeOK
  <2>2. QED
    BY <2>1, GoesOnAhead DEF BeforeExpiry, AfterExpiry
<1>8. CASE (StartFetch \/ RejectStorage) /\ Finish(current, "REJECTED")
  <2>1. /\ current \in live /\ Conclude(current, "REJECTED") /\ UNCHANGED <<now, forwarded>>
        /\ pc = "serve" /\ pc' = "schedule"
    BY <1>8, HandIsFree DEF StartFetch, RejectStorage, Miss, Finish, placeVars
  <2>2. QED
    BY <1>2, <2>1, EndsAhead DEF BeforeExpiry, AfterExpiry
<1>9. CASE ExpireOnArrival \/ (Place /\ Finish(current, "REJECTED"))
  <2>1. /\ current \in live /\ UNCHANGED <<now, forwarded>>
        /\ Conclude(current, "TIMED_OUT") \/ Conclude(current, "REJECTED")
        /\ pc = "place" /\ pc' \in {"schedule", "arrive"}
    BY <1>9, HandIsFree DEF ExpireOnArrival, Place, Placed, Finish, placeVars
  <2>2. QED
    BY <1>2, <2>1, EndsAhead DEF BeforeExpiry, AfterExpiry
<1>10. CASE Place /\ ~Finish(current, "REJECTED")
  <2>1. /\ UNCHANGED <<now, live, arrival, finished>>
        /\ pc = "place" /\ pc' \in {"schedule", "arrive"}
        /\ forwarded[current] \/ Deadline(current) > now
    BY <1>10 DEF Place, Placed, Enqueue, SetStatus
  <2>2. \A a \in Attempts : status'[a] = status[a] \/ status'[a] # "SUCCEEDED"
    BY <1>10 DEF Place, Enqueue, SetStatus, TypeInv, TypeOK, RequestTypeOK
  <2>3. QED
    BY <2>1, <2>2, GoesOnAhead DEF BeforeExpiry, AfterExpiry
<1>11. CASE \E a \in Attempts : Forward(a) \/ \E c \in Caches : ChooseCache(a, c)
  <2>1. Quiet /\ pc = "schedule" /\ pc' \in AfterExpiry
    BY <1>11 DEF Forward, ChooseCache, requestVars, AfterExpiry
  <2>2. QED
    BY <2>1, GoesOnAhead DEF BeforeExpiry, AfterExpiry
<1>12. CASE \E r \in Requests : Arrive(r)
  <2>1. PICK r \in Requests : Arrive(r)
    BY <1>12
  <2>2. <<r, 0>> \in Attempts /\ Fresh(<<r, 0>>)
    BY <2>1, AttemptParts DEF Arrive, Fresh
  <2>3. ~forwarded[<<r, 0>>]
    BY <2>2 DEF AttemptInv, Statused, StatusFits
  <2>4. QED
    BY <2>1, <2>2, <2>3, ArrivalAhead DEF Arrive, placeVars
<1>13. CASE ArriveRetry
  <2> DEFINE a == Head(retry_arrivals)
  <2>1. retry_arrivals \in Seq(Attempts) /\ retry_arrivals # <<>> /\ IsInjective(retry_arrivals)
    BY <1>13 DEF ArriveRetry, RetryDue, TypeInv, TypeOK, RequestTypeOK, AttemptInv, Statused
  <2>2. a \in Attempts /\ a \in ToSet(retry_arrivals)
    BY <2>1, TailSet
  <2>3. ~forwarded[a]
    BY <2>2 DEF AttemptInv, Statused, StatusFits, Fresh
  <2>4. QED
    BY <1>13, <2>2, <2>3, ArrivalAhead DEF ArriveRetry, placeVars
<1>14. CASE StartWaiting
  <2>1. /\ UNCHANGED <<now, live, arrival, finished>> /\ pc = "start" /\ pc' \in {"wait", "idle"}
        /\ \A a \in Attempts : status'[a] = status[a] \/ status'[a] # "SUCCEEDED"
    BY <1>14 DEF StartWaiting
  <2>2. QED
    BY <2>1, GoesOnAhead DEF BeforeExpiry, AfterExpiry
<1>15. CASE Land \/ ReleaseServices \/ Evict
  <2>1. Quiet /\ pc \in {"land", "release", "serve"} /\ pc' \in AfterExpiry
    BY <1>15 DEF Land, ReleaseServices, Evict, Miss, requestVars, AfterExpiry
  <2>2. QED
    BY <2>1, GoesOnAhead DEF BeforeExpiry, AfterExpiry
<1>16. CASE EndPhase
  <2>1. Quiet /\ Through(pc) /\ pc' = PhaseAfter(pc)
    BY <1>16 DEF EndPhase, requestVars
  <2>2. pc \in {"collect", "succeed", "expire", "land", "schedule", "arrive", "retry", "closing"}
    BY <2>1 DEF Through
  <2>3. CASE pc = "expire"
    <3>1. \A a \in live : ~(Deadline(a) <= now)
      BY <2>1, <2>3 DEF Through, Due
    <3>2. \A a \in live : Deadline(a) > now
      BY <3>1, DeadlineType DEF TypeInv, TypeOK, RequestTypeOK
    <3>3. pc' = "land"
      BY <2>1, <2>3 DEF PhaseAfter
    <3>4. QED
      BY <2>1, <3>2, <3>3, GoesOnAhead DEF BeforeExpiry, AfterExpiry
  <2>4. CASE pc # "expire"
    <3>1. /\ pc' \in BeforeExpiry => pc \in BeforeExpiry
          /\ pc' \in AfterExpiry => pc \in AfterExpiry /\ pc # "place"
      BY <2>1, <2>2, <2>4 DEF PhaseAfter, BeforeExpiry, AfterExpiry
    <3>2. QED
      BY <2>1, <3>1, GoesOnAhead
  <2>5. QED
    BY <2>3, <2>4
<1>17. CASE (\E p \in Pools : Collect(p)) \/ Advance
  <2>1. Quiet /\ pc \in {"collect", "idle"} /\ pc' = "collect"
    BY <1>17 DEF Collect, Advance, AdvanceWindow, requestVars
  <2>2. QED
    BY <2>1, GoesOnAhead DEF BeforeExpiry, AfterExpiry
<1>18. CASE Close \/ \E t \in transfers : Cancel(t)
  <2>1. Quiet /\ pc' = "closing"
    BY <1>18 DEF Close, Cancel, requestVars
  <2>2. QED
    BY <2>1, GoesOnAhead DEF BeforeExpiry, AfterExpiry
<1>19. CASE \E t \in now + 1 .. Horizon, ended \in SUBSET Started : Wait(t, ended)
  <2>1. PICK t \in now + 1 .. Horizon, ended \in SUBSET Started : Wait(t, ended)
    BY <1>19
  <2>2. t \in Int /\ t \in now + 1 .. NextDate
    BY <2>1 DEF Wait
  <2>3. QED
    BY <2>1, <2>2, WaitAhead
<1>20. CASE UNCHANGED vars
  <2>1. UNCHANGED <<now, pc, live, status, arrival, finished, forwarded, current>>
    BY <1>20 DEF vars, requestVars, placeVars, settleVars
  <2>2. QED
    BY <2>1 DEF Ahead, Deadline
<1>21. Place => \/ Place /\ Finish(current, "REJECTED")
                \/ Place /\ ~Finish(current, "REJECTED")
  OBVIOUS
<1>22. StartFetch => \/ StartFetch /\ SetStatus(current, "WAITING_DATA")
                     \/ StartFetch /\ Finish(current, "REJECTED")
  BY DEF StartFetch
<1>23. RejectStorage => RejectStorage /\ Finish(current, "REJECTED")
  BY DEF RejectStorage
<1>24. QED
  BY <1>3, <1>4, <1>5, <1>6, <1>7, <1>8, <1>9, <1>10, <1>11, <1>12, <1>13, <1>14,
     <1>15, <1>16, <1>17, <1>18, <1>19, <1>20, <1>21, <1>22, <1>23 DEF Next, Settle, Closed

-----------------------------------------------------------------------------
(***************************************************************************)
(* Decisions of a direct window: whoever is or may still be taken into     *)
(* service during the window was visible when it began, or is forwarded.   *)
(***************************************************************************)
HasDecision(a) == forwarded[a] \/ direct_decisions[a] # "none"
ToDecide == ready \cup InService \cup (InQueues \cap window_requests)
Directed ==
    policy = "direct" =>
        /\ Release = "window"
        /\ \A a \in ToDecide : HasDecision(a)
        /\ pc = "place" => forwarded[current] \/ current \notin window_requests

LEMMA ToDecideType == TypeInv /\ HoldInv => ToDecide \subseteq Attempts
  BY DEF HoldInv, Alive, Taken, ToDecide, TypeInv, TypeOK, RequestTypeOK

\* Within a window the decisions stand: it is enough to know that nobody
\* without one is added to those who need one.
LEMMA DecisionsStand ==
    ASSUME TypeInv, HoldInv, Directed,
           UNCHANGED <<policy, direct_decisions, window_requests>>,
           \A a \in Attempts : forwarded[a] => forwarded'[a],
           policy = "direct" => \A a \in ToDecide' \ ToDecide : HasDecision(a)',
           policy = "direct" /\ pc' = "place" =>
               forwarded'[current'] \/ current' \notin window_requests
    PROVE  Directed'
<1>1. \A a \in Attempts : HasDecision(a) => HasDecision(a)'
  BY DEF HasDecision
<1>2. QED
  BY <1>1, ToDecideType DEF Directed

\* The windowed release lets only the window's requests and forwarded ones into
\* service.
LEMMA EligibleDecided ==
    ASSUME Directed, policy = "direct", NEW a \in InQueues, Eligible(a)
    PROVE  HasDecision(a)
  BY DEF Directed, Eligible, ToDecide, HasDecision

\* Nobody enters a queue or a service slot, and ready only shrinks.
LEMMA DecidedLeave ==
    ASSUME TypeInv, HoldInv, Directed, UNCHANGED windowVars, UNCHANGED forwarded,
           InQueues' \subseteq InQueues, InService' \subseteq InService,
           ready' \subseteq ready, pc' # "place"
    PROVE  Directed'
<1>1. ToDecide' \subseteq ToDecide
  BY DEF ToDecide, windowVars
<1>2. QED
  BY <1>1, DecisionsStand DEF windowVars

LEMMA PlaceDirected ==
    ASSUME TypeInv, HoldInv, Directed, Place
    PROVE  Directed'
<1>1. /\ pc = "place" /\ pc' # "place" /\ UNCHANGED <<cluster, ready, forwarded>>
      /\ UNCHANGED windowVars /\ Enqueue(current, cluster[current])
  BY DEF Place, Placed, placeVars
<1>2. /\ current \in Attempts /\ current \notin InQueues /\ current \notin InService
      /\ InQueues \cap InService = {} /\ AtHome /\ Carried
  BY <1>1, HandIsFree DEF HoldInv, Apart
<1>3. policy = "direct" => /\ Release = "window" /\ \A a \in ToDecide : HasDecision(a)
                           /\ forwarded[current] \/ current \notin window_requests
  BY <1>1 DEF Directed
<1>4. \A a : HasDecision(a)' <=> HasDecision(a)
  BY <1>1 DEF HasDecision, windowVars
<1>5. \/ InQueues' = InQueues \ {current} /\ InService' = InService \ {current}
      \/ InQueues' = InQueues /\ Eligible(current) /\ InService' = InService \cup {current}
      \/ InQueues' = InQueues \cup {current} /\ InService' = InService
      \/ \E head \in InQueues : /\ InQueues' = (InQueues \ {head}) \cup {current}
                                /\ InService' = InService \cup {head}
                                /\ Eligible(head)
  BY <1>1, <1>2, EnqueueHolds
<1>6. CASE InQueues' = InQueues \ {current} /\ InService' = InService \ {current}
  BY <1>1, <1>6, DecidedLeave
<1>7. CASE InQueues' = InQueues /\ Eligible(current) /\ InService' = InService \cup {current}
  <2>1. policy = "direct" => HasDecision(current)
    BY <1>3, <1>7 DEF Eligible, HasDecision
  <2>2. ToDecide' \subseteq ToDecide \cup {current}
    BY <1>1, <1>7 DEF ToDecide, windowVars
  <2>3. QED
    BY <1>1, <1>4, <2>1, <2>2, DecisionsStand DEF windowVars
<1>8. CASE InQueues' = InQueues \cup {current} /\ InService' = InService
  <2>1. policy = "direct" /\ current \in ToDecide' \ ToDecide => HasDecision(current)
    BY <1>1, <1>3, <1>8 DEF ToDecide, HasDecision, windowVars
  <2>2. ToDecide' \subseteq ToDecide \cup {current}
    BY <1>1, <1>8 DEF ToDecide, windowVars
  <2>3. QED
    BY <1>1, <1>4, <2>1, <2>2, DecisionsStand DEF windowVars
<1>9. ASSUME NEW head \in InQueues, InQueues' = (InQueues \ {head}) \cup {current},
             InService' = InService \cup {head}, Eligible(head)
      PROVE  Directed'
  <2>1. policy = "direct" => HasDecision(head)
    BY <1>9, EligibleDecided
  <2>2. policy = "direct" /\ current \in ToDecide' \ ToDecide => HasDecision(current)
    <3>1. policy = "direct" /\ current \in ToDecide' \ ToDecide =>
              current \in window_requests \/ current = head
      BY <1>1, <1>9 DEF ToDecide, windowVars
    <3>2. QED
      BY <1>3, <2>1, <3>1 DEF HasDecision
  <2>3. ToDecide' \subseteq ToDecide \cup {current, head}
    BY <1>1, <1>9 DEF ToDecide, windowVars
  <2>4. QED
    BY <1>1, <1>4, <2>1, <2>2, <2>3, DecisionsStand DEF windowVars
<1>10. QED
  BY <1>5, <1>6, <1>7, <1>8, <1>9

\* The window begins: what it shows under direct control are its decisions.
LEMMA AdvanceDirected ==
    ASSUME TypeInv, HoldInv, Directed, Advance
    PROVE  Directed'
<1> SUFFICES ASSUME policy' = "direct"
             PROVE  /\ Release = "window" /\ \A a \in ToDecide' : HasDecision(a)'
                    /\ pc' # "place"
  BY DEF Directed
<1>1. PICK w \in WindowLengths, p \in Policies, d \in SUBSET live : AdvanceWindow(w, p, d)
  BY DEF Advance
<1>2. /\ pc = "idle" /\ pc' = "collect" /\ p = "direct" /\ Release = "window"
      /\ UNCHANGED <<forwarded, cluster, ready>> /\ UNCHANGED schedulerVars
      /\ direct_decisions' =
           [a \in Attempts |-> IF a \notin Visible THEN "none"
                               ELSE IF a \in d THEN "forward" ELSE "local"]
  BY <1>1 DEF AdvanceWindow, placeVars, settleVars
<1>3. InQueues' = InQueues /\ InService' = InService /\ ready' = {}
  BY <1>2, SchedulersSame DEF HoldInv, Phased
<1>4. ASSUME NEW a \in InQueues \cup InService PROVE HasDecision(a)'
  <2>1. a \in live /\ a \in Attempts
    BY DEF HoldInv, Alive, TypeInv, TypeOK, RequestTypeOK
  <2>2. a \in ToSet(queues[cluster[a]]) \/ busy[cluster[a]].request = a
    BY DEF HoldInv, AtHome, InQueues, InService
  <2>3. CASE forwarded[a]
    BY <1>2, <2>3 DEF HasDecision
  <2>4. CASE ~forwarded[a]
    <3>1. a \in Visible
      BY <2>1, <2>2, <2>4 DEF Visible
    <3>2. direct_decisions'[a] # "none"
      BY <1>2, <2>1, <3>1
    <3>3. QED
      BY <3>2 DEF HasDecision
  <2>5. QED
    BY <2>3, <2>4
<1>5. QED
  BY <1>2, <1>3, <1>4 DEF ToDecide

LEMMA NextDirected == TypeInv /\ HoldInv /\ AttemptInv /\ Directed /\ [Next]_vars => Directed'
<1> SUFFICES ASSUME TypeInv, HoldInv, AttemptInv, Directed, [Next]_vars PROVE Directed'
  OBVIOUS
<1>1. AtHome /\ Carried /\ InQueues \cap InService = {}
  BY DEF HoldInv, Apart
<1>2. /\ "SUCCEEDED" \in Terminal /\ "TIMED_OUT" \in Terminal /\ "REJECTED" \in Terminal
  BY DEF Terminal
<1>3. ASSUME NEW a \in Attempts, NEW o \in Terminal, Finish(a, o), cluster' = cluster
      PROVE  InQueues' \subseteq InQueues /\ InService' \subseteq InService
  <2>1. InQueues' = InQueues \ {a} /\ InService' = InService \ {a}
    BY <1>1, <1>3, FinishHolds
  <2>2. QED
    BY <2>1
<1>4. ASSUME UNCHANGED schedulerVars
      PROVE  InQueues' = InQueues /\ InService' = InService
  BY <1>4 DEF schedulerVars, InQueues, InService
<1>5. CASE \E a \in Attempts : Succeed(a) \/ Expire(a)
  <2>1. PICK a \in Attempts : Succeed(a) \/ Expire(a)
    BY <1>5
  <2>2. /\ Finish(a, "SUCCEEDED") \/ Finish(a, "TIMED_OUT")
        /\ UNCHANGED <<cluster, forwarded, ready>> /\ UNCHANGED windowVars
        /\ pc' # "place"
    BY <2>1 DEF Succeed, Expire, placeVars, settleVars
  <2>3. QED
    BY <1>2, <1>3, <2>2, DecidedLeave
<1>6. CASE \E a \in Attempts : ServeWaiter(a)
  <2>1. PICK a \in Attempts : ServeWaiter(a)
    BY <1>6
  <2>2. /\ Finish(a, "REJECTED") \/ UNCHANGED schedulerVars
        /\ UNCHANGED <<cluster, forwarded, ready>> /\ UNCHANGED windowVars
        /\ pc' # "place"
    BY <2>1 DEF ServeWaiter, Deliver, placeVars
  <2>3. QED
    BY <1>2, <1>3, <1>4, <2>2, DecidedLeave
<1>7. CASE Hit \/ JoinFetch \/ StartFetch \/ RejectStorage
  <2>1. /\ Finish(current, "REJECTED") \/ UNCHANGED schedulerVars
        /\ UNCHANGED <<cluster, forwarded, ready>> /\ UNCHANGED windowVars
        /\ pc = "serve" /\ pc' # "place"
    BY <1>7 DEF Hit, JoinFetch, StartFetch, RejectStorage, Miss, Deliver, placeVars
  <2>2. current \in Attempts
    BY <2>1, HandIsFree
  <2>3. QED
    BY <1>2, <1>3, <1>4, <2>1, <2>2, DecidedLeave
<1>8. CASE ExpireOnArrival
  <2>1. /\ Finish(current, "TIMED_OUT")
        /\ UNCHANGED <<cluster, forwarded, ready>> /\ UNCHANGED windowVars
        /\ pc = "place" /\ pc' # "place"
    BY <1>8 DEF ExpireOnArrival, Placed, placeVars
  <2>2. current \in Attempts
    BY <2>1, HandIsFree
  <2>3. QED
    BY <1>2, <1>3, <2>1, <2>2, DecidedLeave
<1>9. CASE Place
  BY <1>9, PlaceDirected
<1>10. CASE \E a \in Attempts : Forward(a)
  <2>1. PICK a \in Attempts : Forward(a)
    BY <1>10
  <2>2. /\ UNCHANGED schedulerVars /\ UNCHANGED windowVars /\ ready' \subseteq ready
        /\ forwarded' = [forwarded EXCEPT ![a] = TRUE] /\ current' = a
    BY <2>1 DEF Forward
  <2>3. forwarded'[a] /\ \A b \in Attempts : forwarded[b] => forwarded'[b]
    BY <2>2 DEF TypeInv, TypeOK, PlaceTypeOK
  <2>4. ToDecide' \subseteq ToDecide
    BY <1>4, <2>2 DEF ToDecide, windowVars
  <2>5. QED
    BY <2>2, <2>3, <2>4, DecisionsStand DEF windowVars
<1>11. CASE \E a \in Attempts, c \in Caches : ChooseCache(a, c)
  <2>1. /\ UNCHANGED schedulerVars /\ UNCHANGED windowVars /\ ready' \subseteq ready
        /\ UNCHANGED forwarded /\ pc' # "place"
    BY <1>11 DEF ChooseCache
  <2>2. QED
    BY <1>4, <2>1, DecidedLeave
<1>12. CASE (\E r \in Requests : Arrive(r)) \/ ArriveRetry
  <2>1. /\ UNCHANGED schedulerVars /\ UNCHANGED windowVars /\ UNCHANGED <<forwarded, ready>>
    BY <1>12 DEF Arrive, ArriveRetry, placeVars
  <2>2. current' \notin window_requests
    <3>1. \A a \in Attempts : Fresh(a) => a \notin window_requests
      BY DEF AttemptInv, Statused, StatusFits
    <3>2. CASE \E r \in Requests : Arrive(r)
      <4>1. PICK r \in Requests : Arrive(r)
        BY <3>2
      <4>2. <<r, 0>> \in Attempts /\ Fresh(<<r, 0>>) /\ current' = <<r, 0>>
        BY <4>1, AttemptParts DEF Arrive, Fresh
      <4>3. QED
        BY <3>1, <4>2
    <3>3. CASE ArriveRetry
      <4>1. retry_arrivals \in Seq(Attempts) /\ retry_arrivals # <<>> /\ IsInjective(retry_arrivals)
            /\ current' = Head(retry_arrivals)
        BY <3>3 DEF ArriveRetry, RetryDue, TypeInv, TypeOK, RequestTypeOK, AttemptInv, Statused
      <4>2. current' \in Attempts /\ current' \in ToSet(retry_arrivals)
        BY <4>1, TailSet
      <4>3. QED
        BY <3>1, <4>2 DEF Fresh
    <3>4. QED
      BY <1>12, <3>2, <3>3
  <2>3. ToDecide' = ToDecide
    BY <1>4, <2>1 DEF ToDecide, windowVars
  <2>4. QED
    BY <2>1, <2>2, <2>3, DecisionsStand DEF windowVars
<1>13. CASE StartWaiting
  <2>1. UNCHANGED <<forwarded, ready>> /\ UNCHANGED windowVars /\ pc' # "place"
    BY <1>13 DEF StartWaiting, placeVars, settleVars
  <2>2. PICK Heads \in SUBSET InQueues :
          /\ InQueues' = InQueues \ Heads /\ InService' = InService \cup Heads
          /\ \A h \in Heads : Eligible(h)
    BY <1>13, HeadsStart
  <2>3. policy = "direct" => \A h \in Heads : HasDecision(h)
    BY <2>2, EligibleDecided
  <2>4. \A h : HasDecision(h)' <=> HasDecision(h)
    BY <2>1 DEF HasDecision, windowVars
  <2>5. ToDecide' \subseteq ToDecide \cup Heads
    BY <2>1, <2>2 DEF ToDecide, windowVars
  <2>6. QED
    BY <2>1, <2>3, <2>4, <2>5, DecisionsStand DEF windowVars
<1>14. CASE ReleaseServices
  <2>1. /\ UNCHANGED <<forwarded, queues>> /\ UNCHANGED windowVars /\ pc' # "place"
        /\ ready' = {busy[s].request : s \in Released} \cap live
        /\ busy' = [s \in Clusters |-> IF s \in Released THEN Idle ELSE busy[s]]
    BY <1>14 DEF ReleaseServices, placeVars
  <2>2. ready' \subseteq InService /\ InService' \subseteq InService
    BY <2>1 DEF Released, Over, Busy, InService, Idle
  <2>3. ToDecide' \subseteq ToDecide
    BY <2>1, <2>2 DEF ToDecide, InQueues, windowVars
  <2>4. QED
    BY <2>1, <2>3, DecisionsStand DEF windowVars
<1>15. CASE Land \/ Evict \/ EndPhase \/ Close
  <2>1. /\ UNCHANGED schedulerVars /\ UNCHANGED windowVars /\ UNCHANGED <<forwarded, ready>>
        /\ pc' # "place"
    BY <1>15 DEF Land, Evict, Miss, EndPhase, Through, PhaseAfter, Close, placeVars, settleVars
  <2>2. QED
    BY <1>4, <2>1, DecidedLeave
<1>16. CASE (\E p \in Pools : Collect(p)) \/ (\E t \in transfers : Cancel(t))
  <2>1. /\ UNCHANGED schedulerVars /\ UNCHANGED windowVars /\ UNCHANGED <<forwarded, ready>>
        /\ pc' # "place"
    BY <1>16 DEF Collect, Cancel, placeVars, settleVars
  <2>2. QED
    BY <1>4, <2>1, DecidedLeave
<1>17. CASE \E t \in now + 1 .. Horizon, ended \in SUBSET Started : Wait(t, ended)
  <2>1. /\ UNCHANGED schedulerVars /\ UNCHANGED windowVars /\ UNCHANGED <<forwarded, ready>>
        /\ pc' # "place"
    BY <1>17 DEF Wait, placeVars
  <2>2. QED
    BY <1>4, <2>1, DecidedLeave
<1>18. CASE Advance
  BY <1>18, AdvanceDirected
<1>19. CASE UNCHANGED vars
  <2>1. UNCHANGED <<forwarded, queues, busy, ready, current, pc>> /\ UNCHANGED windowVars
    BY <1>19 DEF vars, placeVars, schedulerVars, settleVars
  <2>2. QED
    BY <2>1 DEF Directed, ToDecide, HasDecision, InQueues, InService, windowVars
<1>20. QED
  BY <1>5, <1>6, <1>7, <1>8, <1>9, <1>10, <1>11, <1>12, <1>13, <1>14,
     <1>15, <1>16, <1>17, <1>18, <1>19 DEF Next, Settle, Closed

LEMMA AheadInvariant == Spec => [](Ahead /\ Directed)
<1>1. Init => Ahead /\ Directed
  BY DEF Init, Ahead, Directed, BeforeExpiry
<1>2. TypeInv /\ HoldInv /\ AttemptInv /\ Ahead /\ Directed /\ [Next]_vars => Ahead' /\ Directed'
  BY NextAhead, NextDirected
<1>3. QED
  BY <1>1, <1>2, HolderInvariant, PTL DEF Spec

\* Attempts follow one another, their deadlines and their decisions: whenever
\* the runtime sleeps or answers, every live deadline lies ahead, and no success
\* was late (_settle's tie rule and its expiry loop); the next attempt exists
\* exactly when the last one failed, and arrives its delay later (_finish); and
\* the lookup of a direct decision in _schedule never misses.
THEOREM AttemptsAreSound == Spec => []AttemptsSound
<1>1. TypeInv /\ HoldInv /\ AttemptInv /\ Ahead /\ Directed => AttemptsSound
  <2> SUFFICES ASSUME TypeInv, HoldInv, AttemptInv, Ahead, Directed PROVE AttemptsSound
    OBVIOUS
  <2>1. DeadlinesKept
    BY DEF Ahead, AfterExpiry, AtRest, DeadlinesKept
  <2>2. RetryChain
    BY ChainsLinked
  <2>3. DecisionsCover
    BY DEF Directed, ToDecide, HasDecision, DecisionsCover
  <2>4. QED
    BY <2>1, <2>2, <2>3 DEF AttemptsSound
<1>2. QED
  BY <1>1, AheadInvariant, HolderInvariant, PTL

-----------------------------------------------------------------------------
(***************************************************************************)
(* What a step may do to the attempts: nothing but a status, one ends, or  *)
(* one arrives.                                                            *)
(***************************************************************************)
Standing ==
    /\ UNCHANGED <<unarrived, live, counts, arrival, finished, retry_arrivals>>
    /\ \A a \in Attempts : status'[a] = status[a] \/ (a \in live /\ status'[a] \in Unsettled)
    /\ \/ UNCHANGED <<changed, before>>
       \/ UNCHANGED status /\ changed' = {} /\ before' = counts
Ending(a, o) == a \in live /\ Conclude(a, o) /\ UNCHANGED before
Arriving(a) ==
    /\ Fresh(a) /\ a \notin live
    /\ live' = live \cup {a}
    /\ counts' = [counts EXCEPT !["arrived"] = @ + 1]
    /\ unarrived' = IF a[2] = 0 THEN unarrived \ {a[1]} ELSE unarrived
    /\ UNCHANGED <<status, arrival, finished, changed, before>>

LEMMA DeliverSteps ==
    ASSUME TypeInv, NEW a \in live, Deliver(a), UNCHANGED windowVars
    PROVE  Standing \/ Ending(a, "REJECTED")
<1>1. CASE SetStatus(a, "DELIVERING")
  BY <1>1 DEF SetStatus, Standing, Unsettled, TypeInv, TypeOK, RequestTypeOK, windowVars
<1>2. CASE Finish(a, "REJECTED")
  BY <1>2 DEF Finish, Ending, windowVars
<1>3. QED
  BY <1>1, <1>2 DEF Deliver

LEMMA StepsOfAttempts ==
    ASSUME TypeInv, HoldInv, AttemptInv, [Next]_vars
    PROVE  \/ Standing
           \/ \E a \in Attempts, o \in Terminal : Ending(a, o)
           \/ \E a \in Attempts : Arriving(a)
<1>1. Alive /\ live \subseteq Attempts /\ status \in [Attempts -> Statuses]
  BY DEF HoldInv, TypeInv, TypeOK, RequestTypeOK
<1>2. /\ "SUCCEEDED" \in Terminal /\ "TIMED_OUT" \in Terminal /\ "REJECTED" \in Terminal
  BY DEF Terminal
<1>3. CASE \E a \in Attempts : Succeed(a) \/ Expire(a)
  <2>1. PICK a \in Attempts : Succeed(a) \/ Expire(a)
    BY <1>3
  <2>2. Ending(a, "SUCCEEDED") \/ Ending(a, "TIMED_OUT")
    BY <1>1, <2>1 DEF Succeed, Expire, Due, Alive, Taken, Finish, Ending, windowVars
  <2>3. QED
    BY <1>2, <2>2
<1>4. CASE (\E a \in Attempts : ServeWaiter(a)) \/ Hit
  <2>1. PICK a \in live : Deliver(a) /\ UNCHANGED windowVars
    BY <1>1, <1>4, HandIsFree DEF ServeWaiter, Hit, Alive, Taken
  <2>2. QED
    BY <1>1, <1>2, <2>1, DeliverSteps
<1>5. CASE JoinFetch \/ StartFetch \/ RejectStorage \/ ExpireOnArrival
  <2>1. current \in live /\ UNCHANGED windowVars
    BY <1>5, HandIsFree
    DEF JoinFetch, StartFetch, RejectStorage, Miss, ExpireOnArrival, Placed
  <2>2. \/ SetStatus(current, "WAITING_DATA")
        \/ Conclude(current, "REJECTED") \/ Conclude(current, "TIMED_OUT")
    BY <1>5 DEF JoinFetch, StartFetch, RejectStorage, ExpireOnArrival, Finish
  <2>3. CASE SetStatus(current, "WAITING_DATA")
    BY <1>1, <2>1, <2>3 DEF SetStatus, Standing, Unsettled, windowVars
  <2>4. QED
    BY <1>1, <1>2, <2>1, <2>2, <2>3 DEF Ending, windowVars
<1>6. CASE Place
  <2> DEFINE s == cluster[current]
             head == Head(queues[s])
  <2>1. current \in live /\ UNCHANGED windowVars /\ Enqueue(current, s)
    BY <1>6, HandIsFree DEF Place, Placed
  <2>2. CASE Finish(current, "REJECTED")
    BY <1>1, <1>2, <2>1, <2>2 DEF Finish, Ending, windowVars
  <2>3. CASE UNCHANGED <<unarrived, live, changed, counts, arrival, finished, retry_arrivals>>
    <3>1. HeadMayStart(s) => head \in live
      <4>1. s \in Clusters
        BY <1>1, <2>1 DEF TypeInv, TypeOK, PlaceTypeOK
      <4>2. HeadMayStart(s) => queues[s] \in Seq(Attempts) /\ queues[s] # <<>>
        BY <4>1, SchedulerTypes DEF HeadMayStart
      <4>3. HeadMayStart(s) => head = queues[s][1] /\ 1 \in DOMAIN queues[s]
        BY <4>2, EmptySeq, LenProperties
      <4>4. HeadMayStart(s) => head \in ToSet(queues[s])
        BY <4>3 DEF ToSet
      <4>5. QED
        BY <1>1, <4>1, <4>4, SchedulerTypes DEF Alive
    <3>2. \/ status' = [status EXCEPT ![current] = "SCHEDULING"]
          \/ status' = [status EXCEPT ![current] = "WAITING_SCHEDULER"]
          \/ /\ HeadMayStart(s)
             /\ status' = [status EXCEPT ![current] = "WAITING_SCHEDULER", ![head] = "SCHEDULING"]
          \/ Finish(current, "REJECTED")
      BY <2>1 DEF Enqueue, SetStatus
    <3> HIDE DEF head, s
    <3>3. \/ Finish(current, "REJECTED")
          \/ \A a \in Attempts : status'[a] = status[a] \/ (a \in live /\ status'[a] \in Unsettled)
      BY <1>1, <2>1, <3>1, <3>2 DEF Unsettled
    <3>4. QED
      BY <2>1, <2>2, <2>3, <3>3 DEF Standing, windowVars
  <2>4. QED
    BY <2>1, <2>2, <2>3 DEF Enqueue, SetStatus
<1>7. CASE \E r \in Requests : Arrive(r)
  <2>1. PICK r \in Requests : Arrive(r)
    BY <1>7
  <2>2. <<r, 0>> \in Attempts /\ <<r, 0>> \notin live
    BY <2>1, ArriveChains
  <2>3. Arriving(<<r, 0>>)
    BY <2>1, <2>2 DEF Arrive, Arriving, Fresh, windowVars
  <2>4. QED
    BY <2>2, <2>3
<1>8. CASE ArriveRetry
  <2> DEFINE a == Head(retry_arrivals)
  <2>1. a \in Attempts /\ a \notin live
    BY <1>8, ArriveRetryChains
  <2>2. retry_arrivals \in Seq(Attempts) /\ retry_arrivals # <<>> /\ IsInjective(retry_arrivals)
    BY <1>8 DEF ArriveRetry, RetryDue, TypeInv, TypeOK, RequestTypeOK, AttemptInv, Statused
  <2>3. a \in ToSet(retry_arrivals)
    BY <2>2, TailSet
  <2>4. a[2] # 0 /\ Fresh(a)
    BY <2>3 DEF AttemptInv, Statused, Fresh
  <2>5. Arriving(a)
    BY <1>8, <2>1, <2>4 DEF ArriveRetry, Arriving, windowVars
  <2>6. QED
    BY <2>1, <2>5
<1>9. CASE StartWaiting
  <2> DEFINE heads == {Head(queues[s]) : s \in {u \in Clusters : HeadMayStart(u)}}
  <2>1. /\ status' = [b \in Attempts |-> IF b \in heads THEN "SCHEDULING" ELSE status[b]]
        /\ UNCHANGED <<unarrived, live, changed, counts, arrival, finished, retry_arrivals, before>>
    BY <1>9 DEF StartWaiting, windowVars
  <2>2. heads \subseteq live
    <3> SUFFICES ASSUME NEW s \in Clusters, HeadMayStart(s) PROVE Head(queues[s]) \in live
      OBVIOUS
    <3>1. queues[s] \in Seq(Attempts) /\ queues[s] # <<>>
      BY SchedulerTypes DEF HeadMayStart
    <3>2. Head(queues[s]) = queues[s][1] /\ 1 \in DOMAIN queues[s]
      BY <3>1, EmptySeq, LenProperties
    <3>3. Head(queues[s]) \in ToSet(queues[s])
      BY <3>2 DEF ToSet
    <3>4. QED
      BY <1>1, <3>3, SchedulerTypes DEF Alive
  <2> HIDE DEF heads
  <2>3. QED
    BY <2>1, <2>2 DEF Standing, Unsettled
<1>10. CASE \/ \E a \in Attempts : Forward(a) \/ \E c \in Caches : ChooseCache(a, c)
            \/ Land \/ ReleaseServices \/ Evict \/ EndPhase \/ Close
  BY <1>10 DEF Forward, ChooseCache, Land, ReleaseServices, Evict, EndPhase, Close,
               requestVars, windowVars, Standing
<1>11. CASE \/ \E p \in Pools : Collect(p)
            \/ \E t \in transfers : Cancel(t)
            \/ \E t \in now + 1 .. Horizon, ended \in SUBSET Started : Wait(t, ended)
  BY <1>11 DEF Collect, Cancel, Wait, requestVars, windowVars, Standing
<1>12. CASE Advance
  BY <1>12 DEF Advance, AdvanceWindow, Standing
<1>13. CASE UNCHANGED vars
  BY <1>13 DEF vars, requestVars, windowVars, Standing
<1>14. QED
  BY <1>3, <1>4, <1>5, <1>6, <1>7, <1>8, <1>9, <1>10, <1>11, <1>12, <1>13
  DEF Next, Settle, Closed

-----------------------------------------------------------------------------
(***************************************************************************)
(* The reports.                                                            *)
(***************************************************************************)
Counted ==
    /\ IsFiniteSet(live) /\ IsFiniteSet(changed)
    /\ \A a \in changed : status[a] \in Terminal
    /\ ReportExact

LEMMA EndingCounted ==
    ASSUME TypeInv, AttemptInv, Counted, NEW a \in Attempts, NEW o \in Terminal, Ending(a, o)
    PROVE  Counted'
<1> DEFINE again == <<a[1], a[2] + 1>>
<1>1. /\ live' = live \ {a} /\ changed' = changed \cup {a} /\ a \in live
      /\ counts' = [counts EXCEPT ![o] = @ + 1] /\ before' = before
  BY DEF Ending, Conclude, Report
<1>2. /\ status \in [Attempts -> Statuses] /\ changed \subseteq Attempts
      /\ counts \in [Terminal \cup {"arrived"} -> Nat]
      /\ before \in [Terminal \cup {"arrived"} -> Nat] /\ "arrived" \notin Terminal
  BY DEF TypeInv, TypeOK, RequestTypeOK, WindowTypeOK, Terminal
<1>3. a \notin changed
  BY <1>1, StatusDisjoint DEF AttemptInv, Statused, StatusFits, Counted
<1>4. \A b \in changed : status'[b] = status[b]
  <2>1. Retries(a, o) => again \in Attempts /\ status[again] = "ABSENT"
    <3>1. Retries(a, o) => /\ a[1] \in Requests /\ a[2] + 1 \in 0 .. MaxRetries
                           /\ a[2] \in 0 .. (a[2] + 1) - 1
      BY AttemptParts DEF Retries
    <3>2. status[<<a[1], a[2]>>] \notin Failed
      BY <1>1, AttemptParts, StatusDisjoint DEF AttemptInv, Statused, StatusFits
    <3>3. QED
      BY <3>1, <3>2, AttemptParts DEF AttemptInv, Chained
  <2>2. \A b \in changed : b \in Attempts /\ b # a /\ status[b] # "ABSENT"
    BY <1>2, <1>3, StatusDisjoint DEF Counted
  <2>3. CASE Retries(a, o)
    <3>1. status' = [status EXCEPT ![a] = o, ![again] = "PENDING"]
      BY <2>3 DEF Ending, Conclude
    <3>2. \A b \in changed : b # again
      BY <2>1, <2>2, <2>3
    <3> HIDE DEF again
    <3>3. QED
      BY <1>2, <2>2, <3>1, <3>2
  <2>4. CASE ~Retries(a, o)
    <3>1. status' = [status EXCEPT ![a] = o]
      BY <2>4 DEF Ending, Conclude
    <3>2. QED
      BY <1>2, <2>2, <3>1
  <2>5. QED
    BY <2>3, <2>4
<1>5. status'[a] = o
  <2>1. again # a
    BY AttemptParts
  <2> HIDE DEF again
  <2>2. QED
    BY <1>2, <2>1 DEF Ending, Conclude, again
<1> HIDE DEF again
<1>6. /\ IsFiniteSet(live') /\ Cardinality(live') = Cardinality(live) - 1
      /\ Cardinality(live) \in Nat /\ IsFiniteSet(changed')
  BY <1>1, FS_RemoveElement, FS_AddElement, FS_CardinalityType DEF Counted
<1>7. \A b \in changed' : status'[b] \in Terminal
  BY <1>1, <1>4, <1>5 DEF Counted
<1>8. \A s \in Terminal \cup {"arrived"} : counts'[s] = IF s = o THEN counts[s] + 1 ELSE counts[s]
  BY <1>1, <1>2
<1>9. counts'["arrived"] = Cardinality(live') + counts'["SUCCEEDED"]
                           + counts'["TIMED_OUT"] + counts'["REJECTED"]
  <2>1. counts["arrived"] = Cardinality(live) + counts["SUCCEEDED"]
                            + counts["TIMED_OUT"] + counts["REJECTED"]
    BY DEF Counted, ReportExact
  <2>2. /\ counts["arrived"] \in Nat /\ counts["SUCCEEDED"] \in Nat
        /\ counts["TIMED_OUT"] \in Nat /\ counts["REJECTED"] \in Nat
    BY <1>2 DEF Terminal
  <2>3. o \in {"SUCCEEDED", "TIMED_OUT", "REJECTED"}
    BY DEF Terminal
  <2>4. QED
    BY <1>6, <1>8, <2>1, <2>2, <2>3 DEF Terminal
<1>10. ASSUME NEW s \in Terminal
       PROVE  counts'[s] - before'[s] = Cardinality(OutcomesSince(s)')
  <2>1. counts[s] - before[s] = Cardinality(OutcomesSince(s)) /\ counts[s] \in Nat /\ before[s] \in Nat
    BY <1>2 DEF Counted, ReportExact
  <2>2. OutcomesSince(s)' = IF s = o THEN OutcomesSince(s) \cup {a} ELSE OutcomesSince(s)
    BY <1>1, <1>3, <1>4, <1>5 DEF OutcomesSince
  <2>3. IsFiniteSet(OutcomesSince(s)) /\ a \notin OutcomesSince(s)
    BY <1>3, FS_Subset DEF OutcomesSince, Counted
  <2>4. /\ Cardinality(OutcomesSince(s)) \in Nat
        /\ Cardinality(OutcomesSince(s) \cup {a}) = Cardinality(OutcomesSince(s)) + 1
    BY <2>3, FS_AddElement, FS_CardinalityType
  <2>5. CASE s = o
    BY <1>1, <1>8, <2>1, <2>2, <2>4, <2>5
  <2>6. CASE s # o
    BY <1>1, <1>8, <2>1, <2>2, <2>6
  <2>7. QED
    BY <2>5, <2>6
<1>11. QED
  BY <1>6, <1>7, <1>9, <1>10 DEF Counted, ReportExact

LEMMA ArrivingCounted ==
    ASSUME TypeInv, Counted, NEW a \in Attempts, Arriving(a)
    PROVE  Counted'
<1>1. /\ live' = live \cup {a} /\ a \notin live /\ counts' = [counts EXCEPT !["arrived"] = @ + 1]
      /\ UNCHANGED <<status, changed, before>>
  BY DEF Arriving
<1>2. counts \in [Terminal \cup {"arrived"} -> Nat]
  BY DEF TypeInv, TypeOK, RequestTypeOK
<1>3. /\ IsFiniteSet(live') /\ Cardinality(live') = Cardinality(live) + 1
      /\ Cardinality(live) \in Nat
  BY <1>1, FS_AddElement, FS_CardinalityType DEF Counted
<1>4. counts'["arrived"] = counts["arrived"] + 1 /\ \A s \in Terminal : counts'[s] = counts[s]
  BY <1>1, <1>2 DEF Terminal
<1>5. /\ counts["arrived"] \in Nat /\ counts["SUCCEEDED"] \in Nat
      /\ counts["TIMED_OUT"] \in Nat /\ counts["REJECTED"] \in Nat
  BY <1>2 DEF Terminal
<1>6. \A s \in Terminal : OutcomesSince(s)' = OutcomesSince(s)
  BY <1>1 DEF OutcomesSince
<1>7. counts'["arrived"] = Cardinality(live') + counts'["SUCCEEDED"]
                           + counts'["TIMED_OUT"] + counts'["REJECTED"]
  BY <1>3, <1>4, <1>5 DEF Counted, ReportExact, Terminal
<1>8. \A s \in Terminal : counts'[s] - before'[s] = Cardinality(OutcomesSince(s)')
  BY <1>1, <1>4, <1>6 DEF Counted, ReportExact
<1>9. QED
  BY <1>1, <1>3, <1>7, <1>8 DEF Counted, ReportExact

LEMMA StandingCounted ==
    ASSUME TypeInv, AttemptInv, Counted, Standing
    PROVE  Counted'
<1>1. live' = live /\ counts' = counts
  BY DEF Standing
<1>2. CASE UNCHANGED <<changed, before>>
  <2>1. \A a \in changed : status'[a] = status[a]
    <3>1. \A a \in changed : a \in Attempts /\ a \notin live
      BY StatusDisjoint
      DEF AttemptInv, Statused, StatusFits, Counted, TypeInv, TypeOK, RequestTypeOK
    <3>2. QED
      BY <3>1 DEF Standing
  <2>2. \A s : OutcomesSince(s)' = OutcomesSince(s)
    BY <1>2, <2>1 DEF OutcomesSince
  <2>3. QED
    BY <1>1, <1>2, <2>1, <2>2 DEF Counted, ReportExact
<1>3. CASE UNCHANGED status /\ changed' = {} /\ before' = counts
  <2>1. \A s : Cardinality(OutcomesSince(s)') = 0
    BY <1>3, FS_EmptySet DEF OutcomesSince
  <2>2. \A s \in Terminal : counts[s] - counts[s] = 0
    BY DEF TypeInv, TypeOK, RequestTypeOK
  <2>3. QED
    BY <1>1, <1>3, <2>1, <2>2, FS_EmptySet DEF Counted, ReportExact
<1>4. QED
  BY <1>2, <1>3 DEF Standing

LEMMA CountedInvariant == Spec => []Counted
<1>1. Init => Counted
  <2> SUFFICES ASSUME Init PROVE Counted
    OBVIOUS
  <2>1. /\ live = {} /\ changed = {} /\ before = counts
        /\ counts = [k \in Terminal \cup {"arrived"} |-> 0]
    BY DEF Init
  <2>2. \A s : OutcomesSince(s) = {}
    BY <2>1 DEF OutcomesSince
  <2>3. QED
    BY <2>1, <2>2, FS_EmptySet DEF Counted, ReportExact, Terminal
<1>2. TypeInv /\ HoldInv /\ AttemptInv /\ Counted /\ [Next]_vars => Counted'
  BY StepsOfAttempts, StandingCounted, EndingCounted, ArrivingCounted
<1>3. QED
  BY <1>1, <1>2, HolderInvariant, PTL DEF Spec

\* The counters of the platform's state conserve attempts, and what a window's
\* answer counts is what it lists: each outcome once, in the window of its end
\* (_finish adds to the counters and to _changed; advance_window starts both
\* afresh).
THEOREM ReportsExact == Spec => []ReportExact
<1>1. Counted => ReportExact
  BY DEF Counted
<1>2. QED
  BY <1>1, CountedInvariant, PTL

-----------------------------------------------------------------------------
(***************************************************************************)
(* The ledger: what the attempts of an original mean to its client.        *)
(***************************************************************************)
LastIn(st, r, k) == st[<<r, k>>] # "ABSENT" /\ \A m \in k + 1 .. MaxRetries : st[<<r, m>>] = "ABSENT"
StageIn(un, lv, st, r, k) ==
    IF r \in un THEN "future"
    ELSE IF st[<<r, k>>] = "SUCCEEDED" THEN "succeeded"
    ELSE IF <<r, k>> \in lv THEN "live"
    ELSE IF st[<<r, k>>] \in Failed THEN "failed"
    ELSE "retrying"

LEMMA OneLast ==
    ASSUME NEW st, NEW r \in Requests, NEW k \in 0 .. MaxRetries, LastIn(st, r, k)
    PROVE  (CHOOSE i \in 0 .. MaxRetries :
               /\ st[<<r, i>>] # "ABSENT"
               /\ \A m \in i + 1 .. MaxRetries : st[<<r, m>>] = "ABSENT") = k
<1>1. MaxRetries \in Nat
  BY ControlAssumption
<1>2. \A i \in 0 .. MaxRetries : LastIn(st, r, i) => i = k
  <2> SUFFICES ASSUME NEW i \in 0 .. MaxRetries, LastIn(st, r, i), i # k PROVE FALSE
    OBVIOUS
  <2>1. k \in i + 1 .. MaxRetries \/ i \in k + 1 .. MaxRetries
    BY <1>1
  <2>2. QED
    BY <2>1 DEF LastIn
<1>3. QED
  BY <1>2 DEF LastIn

LEMMA SomeLast ==
    ASSUME TypeInv, AttemptInv, NEW r \in Requests
    PROVE  \E k \in 0 .. MaxRetries : LastIn(status, r, k)
<1> DEFINE Gone == {m \in 0 .. MaxRetries + 1 :
                       m = MaxRetries + 1 \/ status[<<r, m>>] = "ABSENT"}
<1>1. MaxRetries \in Nat /\ MaxRetries + 1 \in Gone /\ Gone \subseteq Nat
  BY ControlAssumption
<1>2. PICK n \in Gone : \A m \in Gone : ~(m < n)
  BY <1>1, LeastNumber
<1>3. <<r, 0>> \in Attempts /\ status[<<r, 0>>] # "ABSENT"
  BY AttemptParts DEF AttemptInv, Statused, StatusFits
<1>4. n # 0
  BY <1>1, <1>3
<1>5. n - 1 \in 0 .. MaxRetries /\ n - 1 \notin Gone
  BY <1>1, <1>2, <1>4
<1>6. status[<<r, n - 1>>] # "ABSENT"
  BY <1>1, <1>5
<1>7. ASSUME NEW m \in n .. MaxRetries PROVE status[<<r, m>>] = "ABSENT"
  <2>1. m \in 0 .. MaxRetries /\ n \in 0 .. MaxRetries /\ status[<<r, n>>] = "ABSENT"
    BY <1>1
  <2>2. m # n /\ status[<<r, m>>] # "ABSENT" => status[<<r, n>>] \in Failed
    <3>1. m # n => n \in 0 .. m - 1
      BY <1>1, <2>1
    <3>2. QED
      BY <2>1, <3>1 DEF AttemptInv, Chained
  <2>3. QED
    BY <2>1, <2>2, StatusDisjoint
<1>8. LastIn(status, r, n - 1)
  <2>1. (n - 1) + 1 = n
    BY <1>1
  <2>2. QED
    BY <1>6, <1>7, <2>1 DEF LastIn
<1>9. QED
  BY <1>5, <1>8

\* An attempt that is live or yet to arrive is its original's last one.
LEMMA PendingIsLast ==
    ASSUME TypeInv, AttemptInv, NEW a \in Attempts, status[a] \notin Failed \cup {"ABSENT"}
    PROVE  LastIn(status, a[1], a[2])
<1>1. a = <<a[1], a[2]>> /\ a[1] \in Requests /\ a[2] \in 0 .. MaxRetries /\ MaxRetries \in Nat
  BY AttemptParts
<1>2. ASSUME NEW m \in a[2] + 1 .. MaxRetries PROVE status[<<a[1], m>>] = "ABSENT"
  <2>1. m \in 0 .. MaxRetries /\ a[2] \in 0 .. m - 1
    BY <1>1
  <2>2. status[<<a[1], m>>] # "ABSENT" => status[<<a[1], a[2]>>] \in Failed
    BY <1>1, <2>1 DEF AttemptInv, Chained
  <2>3. QED
    BY <1>1, <2>2
<1>3. QED
  BY <1>1, <1>2 DEF LastIn

\* An original no window has reached has its first attempt pending.
LEMMA UnarrivedPending ==
    ASSUME TypeInv, AttemptInv, NEW r \in unarrived
    PROVE  /\ <<r, 0>> \in Attempts /\ status[<<r, 0>>] = "PENDING" /\ <<r, 0>> \notin live
           /\ LastIn(status, r, 0)
<1>1. r \in Requests
  BY DEF TypeInv, TypeOK, RequestTypeOK
<1>2. <<r, 0>> \in Attempts /\ Fresh(<<r, 0>>)
  BY <1>1, AttemptParts DEF Fresh
<1>3. status[<<r, 0>>] = "PENDING" /\ <<r, 0>> \notin live
  BY <1>2 DEF AttemptInv, Statused, StatusFits
<1>4. LastIn(status, <<r, 0>>[1], <<r, 0>>[2])
  BY <1>2, <1>3, PendingIsLast, StatusDisjoint
<1>5. QED
  BY <1>2, <1>3, <1>4

LEMMA StageShown ==
    \A r \in Requests, k \in 0 .. MaxRetries :
        TypeInv /\ AttemptInv /\ LastIn(status, r, k) =>
            LastAttempt(r) = k /\ Stage(r) = StageIn(unarrived, live, status, r, k)
<1> SUFFICES ASSUME NEW r \in Requests, NEW k \in 0 .. MaxRetries,
                    TypeInv, AttemptInv, LastIn(status, r, k)
             PROVE  /\ LastAttempt(r) = k
                    /\ Stage(r) = StageIn(unarrived, live, status, r, k)
  OBVIOUS
<1>1. LastAttempt(r) = k
  BY OneLast DEF LastAttempt
<1> DEFINE a == <<r, k>>
           won == \E j \in 0 .. MaxRetries : status[<<r, j>>] = "SUCCEEDED"
<1>2. a \in Attempts /\ MaxRetries \in Nat
  BY AttemptParts
<1>3. won <=> status[a] = "SUCCEEDED"
  <2> SUFFICES ASSUME NEW j \in 0 .. MaxRetries, status[<<r, j>>] = "SUCCEEDED"
               PROVE  j = k
    OBVIOUS
  <2>1. <<r, j>> \in Attempts /\ <<r, j>>[1] = r /\ <<r, j>>[2] = j
    BY AttemptParts
  <2>2. LastIn(status, r, j)
    BY <2>1, PendingIsLast, StatusDisjoint
  <2>3. k \in j + 1 .. MaxRetries \/ j \in k + 1 .. MaxRetries \/ j = k
    BY <1>2
  <2>4. QED
    BY <2>2, <2>3 DEF LastIn
<1>4. a \in live => status[a] \in Unsettled
  BY <1>2 DEF AttemptInv, Statused, StatusFits
<1>5. r \in unarrived => status[a] = "PENDING" /\ a \notin live
  <2> SUFFICES ASSUME r \in unarrived PROVE status[a] = "PENDING" /\ a \notin live
    OBVIOUS
  <2>1. LastIn(status, r, 0) /\ status[<<r, 0>>] = "PENDING" /\ <<r, 0>> \notin live
    BY UnarrivedPending
  <2>2. k = 0 \/ k \in 0 + 1 .. MaxRetries
    BY <1>2
  <2>3. k = 0
    BY <2>1, <2>2 DEF LastIn
  <2>4. QED
    BY <2>1, <2>3
<1>6. Stage(r) = CASE r \in unarrived -> "future"
                   [] won -> "succeeded"
                   [] a \in live -> "live"
                   [] status[a] \in Failed -> "failed"
                   [] OTHER -> "retrying"
  BY <1>1 DEF Stage, Failed
<1> HIDE DEF won, a
<1>7. Stage(r) = StageIn(unarrived, live, status, r, k)
  BY <1>3, <1>4, <1>5, <1>6, StatusDisjoint DEF StageIn, a
<1>8. QED
  BY <1>1, <1>7

LEMMA StageShownNext ==
    (\A r \in Requests, k \in 0 .. MaxRetries :
        TypeInv /\ AttemptInv /\ LastIn(status, r, k) =>
            LastAttempt(r) = k /\ Stage(r) = StageIn(unarrived, live, status, r, k))'
  BY StageShown, PTL

\* What the ledger shows of an original, before and after a step.
LEMMA ShownBefore ==
    ASSUME TypeInv, AttemptInv, NEW r \in Requests, NEW k \in 0 .. MaxRetries,
           LastIn(status, r, k)
    PROVE  LastAttempt(r) = k /\ Stage(r) = StageIn(unarrived, live, status, r, k)
  BY StageShown

LEMMA ShownAfter ==
    ASSUME TypeInv', AttemptInv', NEW r \in Requests, NEW k \in 0 .. MaxRetries,
           LastIn(status', r, k)
    PROVE  /\ LastAttempt(r)' = k
           /\ Stage(r)' = StageIn(unarrived', live', status', r, k)
  BY StageShownNext DEF LastIn, StageIn

\* An original whose attempts have kept their places shows the same.
LEMMA ShownSame ==
    ASSUME TypeInv, AttemptInv, TypeInv', AttemptInv', NEW q \in Requests,
           q \in unarrived' <=> q \in unarrived,
           \A k \in 0 .. MaxRetries :
               /\ <<q, k>> \in live' <=> <<q, k>> \in live
               /\ status'[<<q, k>>] = "ABSENT" <=> status[<<q, k>>] = "ABSENT"
               /\ status'[<<q, k>>] = "SUCCEEDED" <=> status[<<q, k>>] = "SUCCEEDED"
               /\ status'[<<q, k>>] \in Failed <=> status[<<q, k>>] \in Failed
    PROVE  Stage(q)' = Stage(q) /\ LastAttempt(q)' = LastAttempt(q)
<1>1. PICK k \in 0 .. MaxRetries : LastIn(status, q, k)
  BY SomeLast
<1>2. \A m \in k + 1 .. MaxRetries : m \in 0 .. MaxRetries
  BY ControlAssumption
<1>3. LastIn(status', q, k)
  BY <1>1, <1>2 DEF LastIn
<1>4. StageIn(unarrived', live', status', q, k) = StageIn(unarrived, live, status, q, k)
  BY DEF StageIn
<1>5. QED
  BY <1>1, <1>3, <1>4, ShownBefore, ShownAfter

LEMMA StandingShows ==
    ASSUME TypeInv, AttemptInv, TypeInv', AttemptInv', Standing, NEW r \in Requests
    PROVE  Stage(r)' = Stage(r) /\ LastAttempt(r)' = LastAttempt(r)
<1>1. unarrived' = unarrived /\ live' = live
  BY DEF Standing
<1>2. ASSUME NEW k \in 0 .. MaxRetries
      PROVE  LET a == <<r, k>>
             IN /\ status'[a] = "ABSENT" <=> status[a] = "ABSENT"
                /\ status'[a] = "SUCCEEDED" <=> status[a] = "SUCCEEDED"
                /\ status'[a] \in Failed <=> status[a] \in Failed
  <2> DEFINE a == <<r, k>>
  <2>1. a \in Attempts
    BY AttemptParts
  <2>2. status'[a] = status[a] \/ (a \in live /\ status'[a] \in Unsettled)
    BY <2>1 DEF Standing
  <2>3. a \in live => status[a] \in Unsettled
    BY <2>1 DEF AttemptInv, Statused, StatusFits
  <2>4. QED
    BY <2>2, <2>3, StatusDisjoint
<1>3. QED
  BY <1>1, <1>2, ShownSame

\* An arrival makes its original live.
LEMMA ArrivingShows ==
    ASSUME TypeInv, AttemptInv, TypeInv', AttemptInv', NEW a \in Attempts, Arriving(a)
    PROVE  /\ Stage(a[1]) = IF a[2] = 0 THEN "future" ELSE "retrying"
           /\ Stage(a[1])' = "live" /\ LastAttempt(a[1])' = LastAttempt(a[1])
           /\ \A q \in Requests \ {a[1]} :
                 Stage(q)' = Stage(q) /\ LastAttempt(q)' = LastAttempt(q)
<1> DEFINE r == a[1]
           k == a[2]
<1>1. a = <<r, k>> /\ r \in Requests /\ k \in 0 .. MaxRetries
  BY AttemptParts
<1>2. /\ Fresh(a) /\ a \notin live /\ live' = live \cup {a} /\ status' = status
      /\ unarrived' = IF k = 0 THEN unarrived \ {r} ELSE unarrived
  BY DEF Arriving
<1>3. status[a] = "PENDING"
  BY <1>2 DEF AttemptInv, Statused, StatusFits
<1>4. LastIn(status, r, k)
  BY <1>3, PendingIsLast, StatusDisjoint
<1>5. IF k = 0 THEN r \in unarrived ELSE r \notin unarrived
  <2>1. k = 0 => r \in unarrived
    BY <1>2 DEF Fresh, AttemptInv, Statused
  <2>2. r \in unarrived => k = 0
    <3> SUFFICES ASSUME r \in unarrived, k # 0 PROVE FALSE
      OBVIOUS
    <3>1. LastIn(status, r, 0)
      BY UnarrivedPending
    <3>2. k \in 0 + 1 .. MaxRetries
      BY <1>1, ControlAssumption
    <3>3. QED
      BY <1>4, <3>1, <3>2 DEF LastIn
  <2>3. QED
    BY <2>1, <2>2
<1>6. ASSUME NEW q \in Requests \ {r}
      PROVE  Stage(q)' = Stage(q) /\ LastAttempt(q)' = LastAttempt(q)
  <2>1. \A j \in 0 .. MaxRetries : <<q, j>> # a
    BY <1>1
  <2>2. q \in unarrived' <=> q \in unarrived
    BY <1>2
  <2>3. QED
    BY <1>2, <2>1, <2>2, ShownSame
<1>7. /\ StageIn(unarrived, live, status, r, k) = IF k = 0 THEN "future" ELSE "retrying"
      /\ StageIn(unarrived', live', status', r, k) = "live"
  BY <1>1, <1>2, <1>3, <1>5, StatusDisjoint DEF StageIn
<1>8. QED
  BY <1>1, <1>2, <1>4, <1>6, <1>7, ShownBefore, ShownAfter

\* An ending settles its original, or makes it wait for its next attempt.
LEMMA EndingShows ==
    ASSUME TypeInv, AttemptInv, TypeInv', AttemptInv', NEW a \in Attempts,
           NEW o \in Terminal, Ending(a, o)
    PROVE  /\ Stage(a[1]) = "live" /\ LastAttempt(a[1]) = a[2]
           /\ IF Retries(a, o)
              THEN Stage(a[1])' = "retrying" /\ LastAttempt(a[1])' = a[2] + 1
              ELSE /\ Stage(a[1])' = IF o = "SUCCEEDED" THEN "succeeded" ELSE "failed"
                   /\ LastAttempt(a[1])' = a[2]
           /\ \A q \in Requests \ {a[1]} :
                 Stage(q)' = Stage(q) /\ LastAttempt(q)' = LastAttempt(q)
<1> DEFINE r == a[1]
           k == a[2]
           again == <<r, k + 1>>
<1>1. /\ a = <<r, k>> /\ r \in Requests /\ k \in 0 .. MaxRetries /\ MaxRetries \in Nat
      /\ status \in [Attempts -> Statuses]
  BY AttemptParts DEF TypeInv, TypeOK, RequestTypeOK
<1>2. /\ a \in live /\ live' = live \ {a} /\ unarrived' = unarrived
      /\ status' = IF Retries(a, o) THEN [status EXCEPT ![a] = o, ![again] = "PENDING"]
                                    ELSE [status EXCEPT ![a] = o]
  BY DEF Ending, Conclude
<1>3. status[a] \in Unsettled
  BY <1>2 DEF AttemptInv, Statused, StatusFits
<1>4. LastIn(status, r, k)
  BY <1>3, PendingIsLast, StatusDisjoint
<1>5. r \notin unarrived
  <2>1. r \in unarrived => k = 0 /\ <<r, 0>> \notin live
    <3> SUFFICES ASSUME r \in unarrived PROVE k = 0 /\ <<r, 0>> \notin live
      OBVIOUS
    <3>1. LastIn(status, r, 0) /\ <<r, 0>> \notin live
      BY UnarrivedPending
    <3>2. k # 0 => k \in 0 + 1 .. MaxRetries
      BY <1>1
    <3>3. QED
      BY <1>4, <3>1, <3>2 DEF LastIn
  <2>2. QED
    BY <1>1, <1>2, <2>1
<1>6. StageIn(unarrived, live, status, r, k) = "live"
  BY <1>1, <1>2, <1>3, <1>5, StatusDisjoint DEF StageIn
<1>7. ASSUME NEW q \in Requests \ {r}
      PROVE  Stage(q)' = Stage(q) /\ LastAttempt(q)' = LastAttempt(q)
  <2>1. \A j \in 0 .. MaxRetries : <<q, j>> # a /\ <<q, j>> # again /\ <<q, j>> \in Attempts
    BY <1>1, AttemptParts
  <2>2. \A j \in 0 .. MaxRetries : status'[<<q, j>>] = status[<<q, j>>]
    BY <1>1, <1>2, <2>1
  <2>3. QED
    BY <1>2, <2>1, <2>2, ShownSame
<1>8. CASE Retries(a, o)
  <2>1. /\ k + 1 \in 0 .. MaxRetries /\ again \in Attempts /\ again # a
        /\ \A m \in (k + 1) + 1 .. MaxRetries :
              m \in k + 1 .. MaxRetries /\ <<r, m>> # a /\ <<r, m>> # again /\ <<r, m>> \in Attempts
        /\ k + 1 \in k + 1 .. MaxRetries
    BY <1>1, <1>8, AttemptParts DEF Retries
  <2>2. /\ status'[again] = "PENDING"
        /\ \A m \in (k + 1) + 1 .. MaxRetries : status'[<<r, m>>] = status[<<r, m>>]
    BY <1>1, <1>2, <1>8, <2>1
  <2>3. LastIn(status', r, k + 1)
    BY <1>4, <2>1, <2>2 DEF LastIn
  <2>4. status[again] = "ABSENT"
    BY <1>4, <2>1 DEF LastIn
  <2>5. again \notin live
    BY <2>1, <2>4, StatusDisjoint DEF AttemptInv, Statused, StatusFits
  <2>6. StageIn(unarrived', live', status', r, k + 1) = "retrying"
    BY <1>2, <1>5, <2>2, <2>5, StatusDisjoint DEF StageIn
  <2>7. QED
    BY <1>1, <1>4, <1>6, <1>7, <1>8, <2>1, <2>3, <2>6, ShownBefore, ShownAfter
<1>9. CASE ~Retries(a, o)
  <2>1. \A m \in k + 1 .. MaxRetries : <<r, m>> # a /\ <<r, m>> \in Attempts
    BY <1>1, AttemptParts
  <2>2. /\ status'[a] = o
        /\ \A m \in k + 1 .. MaxRetries : status'[<<r, m>>] = status[<<r, m>>]
    BY <1>1, <1>2, <1>9, <2>1
  <2>3. LastIn(status', r, k)
    BY <1>1, <1>4, <2>2, StatusDisjoint DEF LastIn
  <2>4. StageIn(unarrived', live', status', r, k) =
            IF o = "SUCCEEDED" THEN "succeeded" ELSE "failed"
    BY <1>1, <1>2, <1>5, <2>2, StatusDisjoint DEF StageIn
  <2>5. QED
    BY <1>1, <1>4, <1>6, <1>7, <1>9, <2>3, <2>4, ShownBefore, ShownAfter
<1>10. QED
  BY <1>8, <1>9

-----------------------------------------------------------------------------
LedgerStep == Ledger!LedgerNext \/ UNCHANGED Ledger!ledger

LEMMA NextLedger ==
    TypeInv /\ HoldInv /\ AttemptInv /\ TypeInv' /\ AttemptInv' /\ [Next]_vars => LedgerStep
<1> SUFFICES ASSUME TypeInv, HoldInv, AttemptInv, TypeInv', AttemptInv', [Next]_vars
             PROVE  LedgerStep
  OBVIOUS
<1> DEFINE stages == [r \in Requests |-> Stage(r)]
           attempts == [r \in Requests |-> LastAttempt(r)]
<1>1. CASE Standing
  <2>1. stages' = stages /\ attempts' = attempts
    BY <1>1, StandingShows
  <2>2. QED
    BY <2>1 DEF LedgerStep, Ledger!ledger
<1>2. CASE \E a \in Attempts, o \in Terminal : Ending(a, o)
  <2>1. PICK a \in Attempts, o \in Terminal : Ending(a, o)
    BY <1>2
  <2> DEFINE r == a[1]
             k == a[2]
  <2>2. r \in Requests /\ k \in 0 .. MaxRetries /\ MaxRetries \in Nat
    BY AttemptParts
  <2>3. /\ stages[r] = "live" /\ attempts[r] = k
        /\ \A q \in Requests \ {r} : Stage(q)' = Stage(q) /\ LastAttempt(q)' = LastAttempt(q)
    BY <2>1, <2>2, EndingShows
  <2>4. CASE Retries(a, o)
    <3>1. Stage(r)' = "retrying" /\ LastAttempt(r)' = k + 1 /\ k < MaxRetries
      BY <2>1, <2>2, <2>4, EndingShows DEF Retries
    <3>2. /\ stages' = [stages EXCEPT ![r] = "retrying"]
          /\ attempts' = [attempts EXCEPT ![r] = @ + 1]
      BY <2>2, <2>3, <3>1
    <3>3. Ledger!FailsOnce(r)
      BY <2>3, <3>1, <3>2 DEF Ledger!FailsOnce, Ledger!Move
    <3>4. QED
      BY <2>2, <3>3 DEF LedgerStep, Ledger!LedgerNext
  <2>5. CASE ~Retries(a, o)
    <3>1. Stage(r)' = (IF o = "SUCCEEDED" THEN "succeeded" ELSE "failed") /\ LastAttempt(r)' = k
      BY <2>1, <2>2, <2>5, EndingShows
    <3>2. /\ stages' = [stages EXCEPT ![r] = IF o = "SUCCEEDED" THEN "succeeded" ELSE "failed"]
          /\ attempts' = attempts
      BY <2>2, <2>3, <3>1
    <3>3. CASE o = "SUCCEEDED"
      <4>1. Ledger!Succeeds(r)
        BY <2>3, <3>2, <3>3 DEF Ledger!Succeeds, Ledger!Move
      <4>2. QED
        BY <2>2, <4>1 DEF LedgerStep, Ledger!LedgerNext
    <3>4. CASE o # "SUCCEEDED"
      <4>1. k = MaxRetries
        BY <2>2, <2>5, <3>4 DEF Retries
      <4>2. Ledger!Fails(r)
        BY <2>3, <3>2, <3>4, <4>1 DEF Ledger!Fails, Ledger!Move
      <4>3. QED
        BY <2>2, <4>2 DEF LedgerStep, Ledger!LedgerNext
    <3>5. QED
      BY <3>3, <3>4
  <2>6. QED
    BY <2>4, <2>5
<1>3. CASE \E a \in Attempts : Arriving(a)
  <2>1. PICK a \in Attempts : Arriving(a)
    BY <1>3
  <2> DEFINE r == a[1]
  <2>2. r \in Requests
    BY AttemptParts
  <2>3. /\ stages[r] = (IF a[2] = 0 THEN "future" ELSE "retrying")
        /\ Stage(r)' = "live" /\ LastAttempt(r)' = LastAttempt(r)
        /\ \A q \in Requests \ {r} : Stage(q)' = Stage(q) /\ LastAttempt(q)' = LastAttempt(q)
    BY <2>1, <2>2, ArrivingShows
  <2>4. stages' = [stages EXCEPT ![r] = "live"] /\ attempts' = attempts
    BY <2>2, <2>3
  <2>5. Ledger!Arrives(r) \/ Ledger!ArrivesAgain(r)
    BY <2>3, <2>4 DEF Ledger!Arrives, Ledger!ArrivesAgain, Ledger!Move
  <2>6. QED
    BY <2>2, <2>5 DEF LedgerStep, Ledger!LedgerNext
<1>4. QED
  BY <1>1, <1>2, <1>3, StepsOfAttempts

LEMMA InitLedger == Init /\ TypeInv /\ AttemptInv => Ledger!LedgerInit
<1> SUFFICES ASSUME Init, TypeInv, AttemptInv PROVE Ledger!LedgerInit
  OBVIOUS
<1>1. \A r \in Requests : r \in unarrived /\ 0 \in 0 .. MaxRetries
  BY ControlAssumption DEF Init
<1>2. \A r \in Requests : Stage(r) = "future" /\ LastAttempt(r) = 0
  BY <1>1, UnarrivedPending, ShownBefore DEF StageIn
<1>3. QED
  BY <1>2 DEF Ledger!LedgerInit

\* The runtime, with its queues, transfers, caches, windows and retries, keeps
\* the promise of the ledger: an original arrives once, is attempted again only
\* after its attempt has failed and while retries are left, and is resolved once
\* and for good (_finish, retry_arrivals and the arrival loops of _settle).
THEOREM RuntimeKeepsLedger == Spec => KeepsLedger
<1>1. Init => AttemptInv
  BY InitHolders
<1>2. Init => Ledger!LedgerInit
  BY <1>1, InitType, InitLedger
<1>3. /\ TypeInv /\ HoldInv /\ AttemptInv /\ TypeInv' /\ AttemptInv' /\ [Next]_vars
      => [Ledger!LedgerNext]_(Ledger!ledger)
  BY NextLedger DEF LedgerStep
<1>4. QED
  BY <1>2, <1>3, HolderInvariant, PTL DEF Spec, KeepsLedger, Ledger!LedgerSpec

-----------------------------------------------------------------------------
(***************************************************************************)
(* Work conservation: the last loops of _settle leave nothing startable.   *)
(***************************************************************************)
LEMMA StartWaitingConserves ==
    ASSUME TypeInv, StartWaiting
    PROVE  WorkConserving'
<1>1. ASSUME NEW p \in Pools, waiting'[p] # <<>>
      PROVE  Len(active'[p]) = MaxActive[p]
  <2> DEFINE k == FreeSlots(p)
             w == waiting[p]
  <2>1. /\ active[p] \in Seq(Transfers) /\ w \in Seq(Transfers)
        /\ Len(active[p]) <= MaxActive[p] /\ MaxActive[p] \in Nat
        /\ Len(active[p]) \in Nat /\ Len(w) \in Nat
    BY PoolNumbers DEF TypeInv, TypeOK, TransferTypeOK, PoolLimits
  <2>2. k \in Nat /\ k <= Len(w) /\ (k = Len(w) \/ k = MaxActive[p] - Len(active[p]))
    BY <2>1 DEF FreeSlots
  <2>3. /\ active'[p] = active[p] \o SubSeq(w, 1, k)
        /\ waiting'[p] = SubSeq(w, k + 1, Len(w))
    BY DEF StartWaiting
  <2> HIDE DEF k, w
  <2>4. /\ SubSeq(w, 1, k) \in Seq(Transfers) /\ Len(SubSeq(w, 1, k)) = k
        /\ SubSeq(w, k + 1, Len(w)) \in Seq(Transfers)
        /\ Len(SubSeq(w, k + 1, Len(w))) = Len(w) - k
    BY <2>1, <2>2, SplitType
  <2>5. k # Len(w)
    <3>1. k = Len(w) => Len(waiting'[p]) = 0
      BY <2>2, <2>3, <2>4
    <3>2. QED
      BY <1>1, <2>3, <2>4, <3>1, EmptySeq
  <2>6. Len(active'[p]) = Len(active[p]) + k
    BY <2>1, <2>3, <2>4, ConcatProperties
  <2>7. QED
    BY <2>1, <2>2, <2>5, <2>6
<1>2. ASSUME NEW s \in Clusters
      PROVE  ~HeadMayStart(s)'
  <2>1. UNCHANGED <<forwarded, window_requests>>
    BY DEF StartWaiting, placeVars, windowVars
  <2>2. CASE HeadMayStart(s)
    <3>1. queues[s] \in Seq(Attempts) /\ queues[s] # <<>>
      BY <2>2, SchedulerTypes DEF HeadMayStart
    <3>2. Head(queues[s]) \in Attempts
      BY <3>1, HeadTailProperties
    <3>3. busy'[s].request = Head(queues[s])
      BY <2>2 DEF StartWaiting, Serving
    <3>4. QED
      BY <3>2, <3>3, SetsAssumption DEF HeadMayStart, Busy
  <2>3. CASE ~HeadMayStart(s)
    <3>1. queues'[s] = queues[s] /\ busy'[s] = busy[s]
      BY <2>3 DEF StartWaiting
    <3>2. QED
      BY <2>1, <2>3, <3>1 DEF HeadMayStart, Busy, Eligible
  <2>4. QED
    BY <2>2, <2>3
<1>3. QED
  BY <1>1, <1>2 DEF WorkConserving

LEMMA NextConserves == TypeInv /\ WorkConserving /\ [Next]_vars => WorkConserving'
<1> SUFFICES ASSUME TypeInv, WorkConserving, [Next]_vars PROVE WorkConserving'
  OBVIOUS
<1>1. CASE StartWaiting
  BY <1>1, StartWaitingConserves
<1>2. CASE EndPhase
  BY <1>2 DEF EndPhase, Through, PhaseAfter, WorkConserving, AtRest
<1>3. CASE \/ \E p \in Pools : Collect(p)
           \/ \E a \in Attempts : \/ Succeed(a) \/ Expire(a) \/ ServeWaiter(a) \/ Forward(a)
                                  \/ \E c \in Caches : ChooseCache(a, c)
           \/ Land \/ ReleaseServices
  BY <1>3 DEF Collect, Succeed, Expire, ServeWaiter, Forward, ChooseCache, Land,
              ReleaseServices, WorkConserving, AtRest
<1>4. CASE Hit \/ JoinFetch \/ Evict \/ StartFetch \/ RejectStorage
  BY <1>4 DEF Hit, JoinFetch, Evict, Miss, StartFetch, RejectStorage, WorkConserving, AtRest
<1>5. CASE (\E r \in Requests : Arrive(r)) \/ ArriveRetry \/ ExpireOnArrival \/ Place
  BY <1>5 DEF Arrive, ArriveRetry, ExpireOnArrival, Place, Placed, WorkConserving, AtRest
<1>6. CASE \/ \E t \in now + 1 .. Horizon, ended \in SUBSET Started : Wait(t, ended)
           \/ Advance \/ Close \/ \E t \in transfers : Cancel(t)
  BY <1>6 DEF Wait, Advance, AdvanceWindow, Close, Cancel, WorkConserving, AtRest
<1>7. CASE UNCHANGED vars
  <2>1. /\ UNCHANGED <<pc, active, waiting, queues, busy, forwarded, window_requests>>
    BY <1>7 DEF vars, transferVars, schedulerVars, placeVars, windowVars
  <2>2. \A s \in Clusters : HeadMayStart(s)' <=> HeadMayStart(s)
    BY <2>1 DEF HeadMayStart, Busy, Eligible
  <2>3. QED
    BY <2>1, <2>2 DEF WorkConserving, AtRest
<1>8. QED
  BY <1>1, <1>2, <1>3, <1>4, <1>5, <1>6, <1>7 DEF Next, Settle, Closed

\* Whenever the runtime sleeps or answers the client, no transfer waits for a
\* pool that has a free slot and no eligible request heads the queue of a free
\* scheduler: the last two loops of _settle have left nothing to start.
THEOREM WorkIsConserved == Spec => []WorkConserving
<1>1. Init => WorkConserving
  BY DEF Init, WorkConserving, AtRest, HeadMayStart
<1>2. QED
  BY <1>1, NextConserves, TypeInvariant, PTL DEF Spec

-----------------------------------------------------------------------------
(***************************************************************************)
(* Transfers: the counters that guard the caches agree with them, pools    *)
(* serve first come first, and the caches stay within their storage with   *)
(* every source in place.                                                  *)
(***************************************************************************)

-----------------------------------------------------------------------------
(***************************************************************************)
(* Four kinds of steps: the transfers stand, one leaves, one is new, or    *)
(* queued ones start.                                                      *)
(***************************************************************************)
Leaving(t) == t \in transfers /\ RemoveTransfer(t)
Entering(t, a) == t \in Transfers \ transfers /\ a \in Attempts \ Moving /\ Begin(t, a)

LEMMA LeaveTransferSteps ==
    ASSUME TypeInv, Carried, NEW a \in Attempts, LeaveTransfer(a)
    PROVE  UNCHANGED transferVars \/ \E t \in Transfers : Leaving(t)
<1>1. request_transfer[a] # None => request_transfer[a] \in transfers
  BY DEF Carried, Moving
<1>2. transfers \subseteq Transfers
  BY TransferTypes
<1>3. QED
  BY <1>1, <1>2 DEF LeaveTransfer, Leaving

LEMMA DeliverySteps ==
    ASSUME TypeInv, Carried, NEW a \in Attempts, a \notin Moving, HasCache(a), Deliver(a)
    PROVE  \/ UNCHANGED transferVars
           \/ \E t \in Transfers : Leaving(t)
           \/ Entering(DeliveryOf(a), a)
<1>1. CASE Begin(DeliveryOf(a), a)
  <2>1. DeliveryOf(a) \in Transfers
    BY NewTransferType
  <2>2. DeliveryOf(a) \notin transfers
    <3> SUFFICES ASSUME DeliveryOf(a) \in transfers PROVE FALSE
      OBVIOUS
    <3>1. PICK b \in Attempts : request_transfer[b] = DeliveryOf(a)
      BY DEF Carried
    <3>2. b \in Moving
      BY <2>1, <3>1, NoneIsNoTransfer DEF Moving
    <3>3. b = a
      BY <3>1, <3>2 DEF Carried, DeliveryOf
    <3>4. QED
      BY <3>2, <3>3
  <2>3. QED
    BY <1>1, <2>1, <2>2 DEF Entering
<1>2. CASE Finish(a, "REJECTED")
  BY <1>2, LeaveTransferSteps DEF Finish
<1>3. QED
  BY <1>1, <1>2 DEF Deliver

LEMMA StepsOfTransfers ==
    ASSUME TypeInv, HoldInv, AttemptInv, [Next]_vars
    PROVE  \/ UNCHANGED transferVars
           \/ \E t \in Transfers : Leaving(t)
           \/ \E t \in Transfers, a \in Attempts : Entering(t, a)
           \/ StartWaiting
<1>1. Carried /\ transfers \subseteq Transfers
  BY TransferTypes DEF HoldInv
<1>2. CASE \E a \in Attempts : Succeed(a) \/ Expire(a)
  BY <1>1, <1>2, LeaveTransferSteps DEF Succeed, Expire, Finish
<1>3. CASE \E a \in Attempts : ServeWaiter(a)
  <2>1. PICK a \in Attempts : ServeWaiter(a)
    BY <1>3
  <2>2. a \in toDeliver /\ Deliver(a)
    BY <2>1 DEF ServeWaiter
  <2>3. HasCache(a) /\ a \notin Moving
    BY <2>2 DEF TypeInv, HandType, HoldInv, Apart, Taken
  <2>4. QED
    BY <1>1, <2>2, <2>3, DeliverySteps DEF Entering
<1>4. CASE Hit
  BY <1>1, <1>4, HandIsFree, CurrentType, DeliverySteps DEF Hit, Entering
<1>5. CASE StartFetch
  <2>1. /\ current \in Attempts \ Moving /\ HasCache(current)
        /\ BackhaulOf(current) \notin transfers
    BY <1>5, HandIsFree, CurrentType DEF StartFetch, Miss, Fetching
  <2>2. BackhaulOf(current) \in Transfers
    BY <2>1, NewTransferType
  <2>3. QED
    BY <1>1, <1>5, <2>1, <2>2, LeaveTransferSteps DEF StartFetch, Finish, Entering
<1>6. CASE RejectStorage \/ ExpireOnArrival
  <2>1. current \in Attempts /\ LeaveTransfer(current)
    BY <1>6, HandIsFree DEF RejectStorage, Miss, ExpireOnArrival, Finish
  <2>2. QED
    BY <1>1, <2>1, LeaveTransferSteps
<1>7. CASE Place
  <2>1. current \in Attempts
    BY <1>7, HandIsFree DEF Place
  <2>2. UNCHANGED transferVars \/ LeaveTransfer(current)
    BY <1>7 DEF Place, Enqueue, Finish
  <2>3. QED
    BY <1>1, <2>1, <2>2, LeaveTransferSteps
<1>8. CASE (\E p \in Pools : Collect(p)) \/ (\E t \in transfers : Cancel(t))
  BY <1>1, <1>8 DEF Collect, Cancel, Leaving
<1>9. CASE \/ JoinFetch \/ Evict \/ Land \/ ReleaseServices \/ EndPhase \/ Close
           \/ \E a \in Attempts : Forward(a) \/ \E c \in Caches : ChooseCache(a, c)
  BY <1>9 DEF JoinFetch, Evict, Land, ReleaseServices, EndPhase, Close, Forward, ChooseCache
<1>10. CASE \/ (\E r \in Requests : Arrive(r)) \/ ArriveRetry \/ Advance
            \/ \E t \in now + 1 .. Horizon, ended \in SUBSET Started : Wait(t, ended)
  BY <1>10 DEF Arrive, ArriveRetry, Advance, AdvanceWindow, Wait
<1>11. CASE UNCHANGED vars
  BY <1>11 DEF vars
<1>12. QED
  BY <1>2, <1>3, <1>4, <1>5, <1>6, <1>7, <1>8, <1>9, <1>10, <1>11 DEF Next, Settle, Closed

-----------------------------------------------------------------------------
(***************************************************************************)
(* The counters.                                                           *)
(***************************************************************************)
Counting ==
    \A c \in Caches, x \in Artifacts :
        /\ pins[c][x] = Cardinality(Using(c, "delivery", x))
        /\ fetch_counts[c][x] = Cardinality(Using(c, "backhaul", x))
        /\ x \in reserved[c] <=> Using(c, "backhaul", x) # {}

LEMMA KindsOfTransfers ==
    ASSUME NEW t \in Transfers
    PROVE  /\ t.cache \in Caches /\ t.artifact \in Artifacts
           /\ t.kind = "delivery" \/ t.kind = "backhaul"
  BY DEF Transfers, Kinds

LEMMA CounterTypes ==
    ASSUME TypeInv
    PROVE  /\ pins \in [Caches -> [Artifacts -> Int]]
           /\ fetch_counts \in [Caches -> [Artifacts -> Int]]
           /\ reserved \in [Caches -> SUBSET Artifacts]
  BY DEF TypeInv, TypeOK, TransferTypeOK

\* One transfer more or less changes what is used by one, for its own cache,
\* kind and artifact.
LEMMA UsingRemoved ==
    ASSUME NEW t, IsFiniteSet(transfers), t \in transfers, transfers' = transfers \ {t},
           NEW c, NEW k, NEW x
    PROVE  LET same == t.cache = c /\ t.kind = k /\ t.artifact = x
           IN /\ IsFiniteSet(Using(c, k, x)')
              /\ ~same => Using(c, k, x)' = Using(c, k, x)
              /\ same => /\ Using(c, k, x) # {}
                         /\ Cardinality(Using(c, k, x)') = Cardinality(Using(c, k, x)) - 1
<1>1. IsFiniteSet(Using(c, k, x))
  BY FS_Subset DEF Using
<1>2. Using(c, k, x)' = Using(c, k, x) \ {t}
  BY DEF Using
<1>3. t \in Using(c, k, x) <=> t.cache = c /\ t.kind = k /\ t.artifact = x
  BY DEF Using
<1>4. QED
  BY <1>1, <1>2, <1>3, FS_RemoveElement

LEMMA UsingAdded ==
    ASSUME NEW t, IsFiniteSet(transfers), t \notin transfers,
           transfers' = transfers \cup {t}, NEW c, NEW k, NEW x
    PROVE  LET same == t.cache = c /\ t.kind = k /\ t.artifact = x
           IN /\ ~same => Using(c, k, x)' = Using(c, k, x)
              /\ same => /\ Using(c, k, x)' # {}
                         /\ Cardinality(Using(c, k, x)') = Cardinality(Using(c, k, x)) + 1
<1>1. IsFiniteSet(Using(c, k, x))
  BY FS_Subset DEF Using
<1>2. t.cache = c /\ t.kind = k /\ t.artifact = x => Using(c, k, x)' = Using(c, k, x) \cup {t}
  BY DEF Using
<1>3. ~(t.cache = c /\ t.kind = k /\ t.artifact = x) => Using(c, k, x)' = Using(c, k, x)
  BY DEF Using
<1>4. t \notin Using(c, k, x)
  BY DEF Using
<1>5. QED
  BY <1>1, <1>2, <1>3, <1>4, FS_AddElement

LEMMA LeavingCounts ==
    ASSUME TypeInv, Carried, Counting, NEW t \in Transfers, Leaving(t)
    PROVE  Counting'
<1> DEFINE c == t.cache
           x == t.artifact
<1>1. /\ c \in Caches /\ x \in Artifacts /\ (t.kind = "delivery" \/ t.kind = "backhaul")
      /\ IsFiniteSet(transfers) /\ t \in transfers /\ transfers' = transfers \ {t}
  BY KindsOfTransfers DEF Carried, Leaving, RemoveTransfer
<1> SUFFICES ASSUME NEW e \in Caches, NEW y \in Artifacts
             PROVE  /\ pins'[e][y] = Cardinality(Using(e, "delivery", y)')
                    /\ fetch_counts'[e][y] = Cardinality(Using(e, "backhaul", y)')
                    /\ y \in reserved'[e] <=> Using(e, "backhaul", y)' # {}
  BY DEF Counting, Using
<1>2. /\ pins[e][y] = Cardinality(Using(e, "delivery", y))
      /\ fetch_counts[e][y] = Cardinality(Using(e, "backhaul", y))
      /\ y \in reserved[e] <=> Using(e, "backhaul", y) # {}
  BY DEF Counting
<1>3. CASE t.kind = "delivery"
  <2>1. pins' = [pins EXCEPT ![c][x] = @ - 1] /\ UNCHANGED <<fetch_counts, reserved>>
    BY <1>3 DEF Leaving, RemoveTransfer
  <2>2. pins'[e][y] = IF e = c /\ y = x THEN pins[e][y] - 1 ELSE pins[e][y]
    <3>1. pins[c] \in [Artifacts -> Int] /\ pins[e] \in [Artifacts -> Int]
      BY <1>1, CounterTypes
    <3>2. QED
      BY <1>1, <2>1, <3>1, CounterTypes
  <2>3. Using(e, "backhaul", y)' = Using(e, "backhaul", y)
    BY <1>1, <1>3, UsingRemoved
  <2>4. Cardinality(Using(e, "delivery", y)') =
            IF e = c /\ y = x THEN Cardinality(Using(e, "delivery", y)) - 1
                              ELSE Cardinality(Using(e, "delivery", y))
    BY <1>1, <1>3, UsingRemoved
  <2>5. QED
    BY <1>2, <2>1, <2>2, <2>3, <2>4
<1>4. CASE t.kind = "backhaul"
  <2>1. /\ fetch_counts' = [fetch_counts EXCEPT ![c][x] = @ - 1] /\ UNCHANGED pins
        /\ reserved' = IF LastFetch(c, x) THEN [reserved EXCEPT ![c] = @ \ {x}] ELSE reserved
    BY <1>4 DEF Leaving, RemoveTransfer
  <2>2. fetch_counts'[e][y] = IF e = c /\ y = x THEN fetch_counts[e][y] - 1
                              ELSE fetch_counts[e][y]
    <3>1. fetch_counts[c] \in [Artifacts -> Int] /\ fetch_counts[e] \in [Artifacts -> Int]
      BY <1>1, CounterTypes
    <3>2. QED
      BY <1>1, <2>1, <3>1, CounterTypes
  <2>3. Using(e, "delivery", y)' = Using(e, "delivery", y)
    BY <1>1, <1>4, UsingRemoved
  <2>4. CASE e = c /\ y = x
    <3>1. /\ Cardinality(Using(e, "backhaul", y)') = Cardinality(Using(e, "backhaul", y)) - 1
          /\ IsFiniteSet(Using(e, "backhaul", y)') /\ Using(e, "backhaul", y) # {}
      BY <1>1, <1>4, <2>4, UsingRemoved
    <3>2. y \in reserved'[e] <=> ~LastFetch(c, x)
      BY <1>1, <1>2, <2>1, <2>4, <3>1, CounterTypes
    <3>3. Using(e, "backhaul", y)' = {} <=> LastFetch(c, x)
      <4>1. Using(e, "backhaul", y)' = {} <=> Cardinality(Using(e, "backhaul", y)') = 0
        BY <3>1, FS_EmptySet
      <4>2. fetch_counts[e][y] \in Int
        BY CounterTypes
      <4>3. QED
        BY <1>2, <2>4, <3>1, <4>1, <4>2 DEF LastFetch
    <3>4. QED
      BY <1>2, <2>1, <2>2, <2>3, <2>4, <3>1, <3>2, <3>3
  <2>5. CASE ~(e = c /\ y = x)
    <3>1. Using(e, "backhaul", y)' = Using(e, "backhaul", y)
      BY <1>1, <2>5, UsingRemoved
    <3>2. y \in reserved'[e] <=> y \in reserved[e]
      BY <1>1, <2>1, <2>5, CounterTypes
    <3>3. QED
      BY <1>2, <2>1, <2>2, <2>3, <2>5, <3>1, <3>2
  <2>6. QED
    BY <2>4, <2>5
<1>5. QED
  BY <1>1, <1>3, <1>4

LEMMA EnteringCounts ==
    ASSUME TypeInv, Carried, Counting, NEW t \in Transfers, NEW a \in Attempts, Entering(t, a)
    PROVE  Counting'
<1> DEFINE c == t.cache
           x == t.artifact
<1>1. /\ c \in Caches /\ x \in Artifacts /\ (t.kind = "delivery" \/ t.kind = "backhaul")
      /\ IsFiniteSet(transfers) /\ t \notin transfers /\ transfers' = transfers \cup {t}
  BY KindsOfTransfers DEF Carried, Entering, Begin
<1> SUFFICES ASSUME NEW e \in Caches, NEW y \in Artifacts
             PROVE  /\ pins'[e][y] = Cardinality(Using(e, "delivery", y)')
                    /\ fetch_counts'[e][y] = Cardinality(Using(e, "backhaul", y)')
                    /\ y \in reserved'[e] <=> Using(e, "backhaul", y)' # {}
  BY DEF Counting, Using
<1>2. /\ pins[e][y] = Cardinality(Using(e, "delivery", y))
      /\ fetch_counts[e][y] = Cardinality(Using(e, "backhaul", y))
      /\ y \in reserved[e] <=> Using(e, "backhaul", y) # {}
  BY DEF Counting
<1>3. CASE t.kind = "delivery"
  <2>1. pins' = [pins EXCEPT ![c][x] = @ + 1] /\ UNCHANGED <<fetch_counts, reserved>>
    BY <1>3 DEF Entering, Begin
  <2>2. pins'[e][y] = IF e = c /\ y = x THEN pins[e][y] + 1 ELSE pins[e][y]
    <3>1. pins[c] \in [Artifacts -> Int] /\ pins[e] \in [Artifacts -> Int]
      BY <1>1, CounterTypes
    <3>2. QED
      BY <1>1, <2>1, <3>1, CounterTypes
  <2>3. Using(e, "backhaul", y)' = Using(e, "backhaul", y)
    BY <1>1, <1>3, UsingAdded
  <2>4. Cardinality(Using(e, "delivery", y)') =
            IF e = c /\ y = x THEN Cardinality(Using(e, "delivery", y)) + 1
                              ELSE Cardinality(Using(e, "delivery", y))
    BY <1>1, <1>3, UsingAdded
  <2>5. QED
    BY <1>2, <2>1, <2>2, <2>3, <2>4
<1>4. CASE t.kind = "backhaul"
  <2>1. /\ fetch_counts' = [fetch_counts EXCEPT ![c][x] = @ + 1] /\ UNCHANGED pins
        /\ reserved' = [reserved EXCEPT ![c] = @ \cup {x}]
    BY <1>4 DEF Entering, Begin
  <2>2. fetch_counts'[e][y] = IF e = c /\ y = x THEN fetch_counts[e][y] + 1
                              ELSE fetch_counts[e][y]
    <3>1. fetch_counts[c] \in [Artifacts -> Int] /\ fetch_counts[e] \in [Artifacts -> Int]
      BY <1>1, CounterTypes
    <3>2. QED
      BY <1>1, <2>1, <3>1, CounterTypes
  <2>3. Using(e, "delivery", y)' = Using(e, "delivery", y)
    BY <1>1, <1>4, UsingAdded
  <2>4. y \in reserved'[e] <=> (e = c /\ y = x) \/ y \in reserved[e]
    BY <1>1, <2>1, CounterTypes
  <2>5. IF e = c /\ y = x
        THEN /\ Cardinality(Using(e, "backhaul", y)') = Cardinality(Using(e, "backhaul", y)) + 1
             /\ Using(e, "backhaul", y)' # {}
        ELSE Using(e, "backhaul", y)' = Using(e, "backhaul", y)
    BY <1>1, <1>4, UsingAdded
  <2>6. QED
    BY <1>2, <2>1, <2>2, <2>3, <2>4, <2>5
<1>5. QED
  BY <1>1, <1>3, <1>4

LEMMA NextCounting == TypeInv /\ HoldInv /\ AttemptInv /\ Counting /\ [Next]_vars => Counting'
<1> SUFFICES ASSUME TypeInv, HoldInv, AttemptInv, Counting, [Next]_vars PROVE Counting'
  OBVIOUS
<1>1. Carried
  BY DEF HoldInv
<1>2. CASE UNCHANGED transferVars \/ StartWaiting
  <2>1. UNCHANGED <<transfers, pins, fetch_counts, reserved>>
    BY <1>2 DEF transferVars, StartWaiting
  <2>2. QED
    BY <2>1 DEF Counting, Using
<1>3. QED
  BY <1>1, <1>2, StepsOfTransfers, LeavingCounts, EnteringCounts

LEMMA InitCounting == Init => Counting
  BY FS_EmptySet DEF Init, Counting, Using

LEMMA CountingInvariant == Spec => []Counting
  BY InitCounting, NextCounting, HolderInvariant, PTL DEF Spec

\* The counters that protect a cache never drift from the transfers: an artifact
\* has as many pins as deliveries read it and as many fetches as backhauls write
\* it, and is reserved exactly while one does, whatever starts, is shared, ends,
\* expires or is cancelled (_new_transfer, _remove_transfer).
THEOREM CountersAreExact == Spec => []CountersExact
<1>1. TypeInv /\ Counting => CountersExact
  BY DEF TypeInv, Counting, CountersExact
<1>2. QED
  BY <1>1, TypeInvariant, CountingInvariant, PTL

\* Every variable keeps its type, whatever the platform, the requests and the
\* client's windows; no pin or fetch is given back twice (_remove_transfer would
\* leave the counter below zero); and every handler finds what it reads: _enqueue
\* and serve have an attempt in hand, serve and _delivery a cache it was sent to.
CountersNatural ==
    \A c \in Caches, x \in Artifacts : pins[c][x] \in Nat /\ fetch_counts[c][x] \in Nat

LEMMA CountersAreNatural ==
    ASSUME HoldInv, Counting
    PROVE  CountersNatural
<1> SUFFICES ASSUME NEW c \in Caches, NEW x \in Artifacts
             PROVE  pins[c][x] \in Nat /\ fetch_counts[c][x] \in Nat
  BY DEF CountersNatural
<1>1. IsFiniteSet(transfers)
  BY DEF HoldInv, Carried
<1>2. IsFiniteSet(Using(c, "delivery", x)) /\ IsFiniteSet(Using(c, "backhaul", x))
  BY <1>1, FS_Subset DEF Using
<1>3. QED
  BY <1>2, FS_CardinalityType DEF Counting

THEOREM TypeCorrect == Spec => [](TypeOK /\ HandType /\ CountersNatural)
<1>1. TypeInv /\ HoldInv /\ Counting => TypeOK /\ HandType /\ CountersNatural
  BY CountersAreNatural DEF TypeInv
<1>2. QED
  BY <1>1, TypeInvariant, HolderInvariant, CountingInvariant, PTL

-----------------------------------------------------------------------------
(***************************************************************************)
(* The queues of the pools.                                                *)
(***************************************************************************)
\* A queued transfer is unfinished, waits in its own pool, and waits once.
Lining ==
    \A p \in Pools :
        /\ IsInjective(waiting[p])
        /\ \A t \in ToSet(waiting[p]) : t \in transfers /\ PoolOf(t) = p

LEMMA PoolTypes ==
    ASSUME TypeInv, NEW p \in Pools
    PROVE  /\ active[p] \in Seq(Transfers) /\ waiting[p] \in Seq(Transfers)
           /\ active \in [Pools -> Seq(Transfers)] /\ waiting \in [Pools -> Seq(Transfers)]
  BY DEF TypeInv, TypeOK, TransferTypeOK

LEMMA LeavingLines ==
    ASSUME TypeInv, Lining, NEW t \in Transfers, Leaving(t)
    PROVE  Lining'
<1> SUFFICES ASSUME NEW p \in Pools
             PROVE  /\ IsInjective(waiting'[p])
                    /\ \A u \in ToSet(waiting'[p]) : u \in transfers' /\ PoolOf(u) = p
  BY DEF Lining, PoolOf
<1>1. /\ IsInjective(waiting[p]) /\ waiting[p] \in Seq(Transfers)
      /\ \A u \in ToSet(waiting[p]) : u \in transfers /\ PoolOf(u) = p
  BY PoolTypes DEF Lining
<1>2. /\ transfers' = transfers \ {t} /\ PoolOf(t) \in Pools
      /\ waiting' = [waiting EXCEPT ![PoolOf(t)] = Without(@, t)]
  BY TransferParts DEF Leaving, RemoveTransfer
<1>3. CASE p = PoolOf(t)
  <2>1. waiting'[p] = Without(waiting[p], t)
    BY <1>2, <1>3, PoolTypes
  <2>2. IsInjective(Without(waiting[p], t)) /\ ToSet(Without(waiting[p], t)) = ToSet(waiting[p]) \ {t}
    BY <1>1, WithoutSet
  <2>3. QED
    BY <1>1, <1>2, <2>1, <2>2
<1>4. CASE p # PoolOf(t)
  <2>1. waiting'[p] = waiting[p]
    BY <1>2, <1>4, PoolTypes
  <2>2. t \notin ToSet(waiting[p])
    BY <1>1, <1>4
  <2>3. QED
    BY <1>1, <1>2, <2>1, <2>2
<1>5. QED
  BY <1>3, <1>4

\* The front of a line starts and its rest waits, in the same order.
LEMMA FrontStarts ==
    ASSUME NEW l \in Seq(Transfers), IsInjective(l), NEW k \in Nat, k <= Len(l)
    PROVE  /\ SubSeq(l, 1, k) \in Seq(Transfers) /\ SubSeq(l, k + 1, Len(l)) \in Seq(Transfers)
           /\ IsInjective(SubSeq(l, k + 1, Len(l)))
           /\ ToSet(SubSeq(l, k + 1, Len(l))) \subseteq ToSet(l)
           /\ \A i \in 1 .. Len(l) : l[i] \in ToSet(SubSeq(l, k + 1, Len(l))) => i > k
           /\ \A t \in ToSet(SubSeq(l, 1, k)) : \E j \in 1 .. k : l[j] = t
<1>1. /\ SubSeq(l, 1, k) \in Seq(Transfers) /\ Len(SubSeq(l, 1, k)) = k
      /\ SubSeq(l, k + 1, Len(l)) \in Seq(Transfers)
  BY SplitType
<1>2. /\ IsInjective(SubSeq(l, k + 1, Len(l)))
      /\ ToSet(SubSeq(l, k + 1, Len(l))) = ToSet(l) \ ToSet(SubSeq(l, 1, k))
  BY SplitSet
<1>3. Len(l) \in Nat /\ \A i \in 1 .. k : SubSeq(l, 1, k)[i] = l[i]
  <2>1. Len(l) \in Nat
    BY LenProperties
  <2>2. k = 0 \/ k \in 1 .. Len(l)
    BY <2>1
  <2>3. CASE k = 0
    BY <2>1, <2>3
  <2>4. CASE k \in 1 .. Len(l)
    BY <2>1, <2>4, SubSeqProperties
  <2>5. QED
    BY <2>1, <2>2, <2>3, <2>4
<1>4. DOMAIN SubSeq(l, 1, k) = 1 .. k
  BY <1>1, LenProperties
<1>5. \A i \in 1 .. k : l[i] \in ToSet(SubSeq(l, 1, k))
  BY <1>3, <1>4 DEF ToSet
<1>6. ASSUME NEW i \in 1 .. Len(l), l[i] \in ToSet(SubSeq(l, k + 1, Len(l)))
      PROVE  i > k
  <2>1. i \notin 1 .. k
    BY <1>2, <1>5, <1>6
  <2>2. QED
    BY <1>3, <2>1
<1>7. ASSUME NEW t \in ToSet(SubSeq(l, 1, k)) PROVE \E j \in 1 .. k : l[j] = t
  BY <1>3, <1>4 DEF ToSet
<1>8. QED
  BY <1>1, <1>2, <1>6, <1>7

LEMMA ActiveGrows ==
    ASSUME NEW s \in Seq(Transfers), NEW f \in Seq(Transfers)
    PROVE  ToSet(s \o f) \ ToSet(s) \subseteq ToSet(f)
  BY ConcatSet

LEMMA WithoutSubset ==
    ASSUME NEW S, NEW s \in Seq(S), NEW e
    PROVE  ToSet(Without(s, e)) \subseteq ToSet(s)
<1>1. CASE Contains(s, e)
  <2> DEFINE i == CHOOSE n \in 1 .. Len(s) : s[n] = e
             r == RemoveAt(s, i)
  <2>1. i \in 1 .. Len(s) /\ Len(s) \in Nat
    BY <1>1, LenProperties DEF Contains
  <2> HIDE DEF i
  <2>2. /\ r \in Seq(S) /\ Len(r) = Len(s) - 1
        /\ \A j \in 1 .. Len(s) - 1 : r[j] = IF j < i THEN s[j] ELSE s[j + 1]
    BY <2>1, RemoveAtItems
  <2> HIDE DEF r
  <2>3. \A j \in 1 .. Len(r) : \E m \in 1 .. Len(s) : r[j] = s[m]
    BY <2>1, <2>2
  <2>4. DOMAIN r = 1 .. Len(r) /\ DOMAIN s = 1 .. Len(s)
    BY <2>2, LenProperties
  <2>5. ToSet(r) \subseteq ToSet(s)
    BY <2>3, <2>4, Zenon DEF ToSet
  <2>6. QED
    BY <1>1, <2>5 DEF Without, r, i
<1>2. QED
  BY <1>1 DEF Without

\* What NoOvertaking says of one pool and one step.
Orderly(p) ==
    \A i \in 1 .. Len(waiting[p]) :
        waiting[p][i] \in ToSet(waiting'[p]) =>
            \A t \in ToSet(active'[p]) \ ToSet(active[p]) :
                \E j \in 1 .. i - 1 : waiting[p][j] = t

LEMMA EnteringLines ==
    ASSUME TypeInv, Lining, NEW t \in Transfers, NEW a \in Attempts, Entering(t, a),
           NEW p \in Pools
    PROVE  /\ IsInjective(waiting'[p])
           /\ \A u \in ToSet(waiting'[p]) : u \in transfers' /\ PoolOf(u) = p
           /\ Orderly(p)
<1>1. /\ IsInjective(waiting[p]) /\ waiting[p] \in Seq(Transfers) /\ active[p] \in Seq(Transfers)
      /\ \A u \in ToSet(waiting[p]) : u \in transfers /\ PoolOf(u) = p
  BY PoolTypes DEF Lining
<1>2. /\ t \notin transfers /\ transfers' = transfers \cup {t} /\ PoolOf(t) \in Pools /\ Admit(t)
  BY TransferParts DEF Entering, Begin
<1>3. CASE p = PoolOf(t)
  <2> DEFINE l == Lined(t)
             k == Startable(t)
             w == waiting[p]
  <2>1. /\ active'[p] = active[p] \o SubSeq(l, 1, k)
        /\ waiting'[p] = SubSeq(l, k + 1, Len(l))
    BY <1>2, <1>3, PoolTypes DEF Admit
  <2>2. l \in Seq(Transfers) /\ k \in Nat /\ k <= Len(l)
    BY StartableBounds DEF TypeInv, TypeOK
  <2>3. l = Append(w, t)
    BY <1>3 DEF Lined
  <2>4. IsInjective(l) /\ ToSet(l) = ToSet(w) \cup {t}
    BY <1>1, <1>2, <2>3, AppendSet
  <2>5. /\ Len(l) = Len(w) + 1 /\ Len(w) \in Nat
        /\ \A i \in 1 .. Len(w) : l[i] = w[i]
    BY <1>1, <2>3, AppendProperties, LenProperties
  <2> HIDE DEF l, k, w
  <2>6. /\ IsInjective(waiting'[p])
        /\ \A u \in ToSet(waiting'[p]) : u \in transfers' /\ PoolOf(u) = p
    BY <1>1, <1>2, <1>3, <2>1, <2>2, <2>4, FrontStarts DEF w
  <2>7. ASSUME NEW i \in 1 .. Len(w), w[i] \in ToSet(waiting'[p]),
               NEW u \in ToSet(active'[p]) \ ToSet(active[p])
        PROVE  \E j \in 1 .. i - 1 : w[j] = u
    <3>1. i \in 1 .. Len(l) /\ l[i] \in ToSet(SubSeq(l, k + 1, Len(l)))
      BY <2>1, <2>5, <2>7
    <3>2. i > k
      BY <2>2, <2>4, <3>1, FrontStarts
    <3>3. SubSeq(l, 1, k) \in Seq(Transfers)
      BY <2>2, <2>4, FrontStarts
    <3>4. u \in ToSet(SubSeq(l, 1, k))
      BY <1>1, <2>1, <3>3, ActiveGrows
    <3>5. PICK j \in 1 .. k : l[j] = u
      BY <2>2, <2>4, <3>4, FrontStarts
    <3>6. j \in 1 .. i - 1 /\ j \in 1 .. Len(w)
      BY <2>2, <2>5, <3>2
    <3>7. QED
      BY <2>5, <3>5, <3>6
  <2>8. QED
    BY <2>6, <2>7 DEF Orderly, w
<1>4. CASE p # PoolOf(t)
  <2>1. waiting'[p] = waiting[p] /\ active'[p] = active[p]
    BY <1>2, <1>4, PoolTypes DEF Admit
  <2>2. QED
    BY <1>1, <1>2, <2>1 DEF Orderly
<1>5. QED
  BY <1>3, <1>4

LEMMA StartingLines ==
    ASSUME TypeInv, Lining, StartWaiting, NEW p \in Pools
    PROVE  /\ IsInjective(waiting'[p])
           /\ \A u \in ToSet(waiting'[p]) : u \in transfers' /\ PoolOf(u) = p
           /\ Orderly(p)
<1> DEFINE w == waiting[p]
           k == FreeSlots(p)
<1>1. /\ IsInjective(w) /\ w \in Seq(Transfers) /\ active[p] \in Seq(Transfers)
      /\ \A u \in ToSet(w) : u \in transfers /\ PoolOf(u) = p
  BY PoolTypes DEF Lining
<1>2. k \in Nat /\ k <= Len(w) /\ Len(w) \in Nat
  BY PoolNumbers DEF TypeInv, TypeOK, TransferTypeOK, PoolLimits, FreeSlots
<1>3. /\ active'[p] = active[p] \o SubSeq(w, 1, k)
      /\ waiting'[p] = SubSeq(w, k + 1, Len(w)) /\ transfers' = transfers
  BY DEF StartWaiting
<1> HIDE DEF w, k
<1>4. /\ IsInjective(waiting'[p])
      /\ \A u \in ToSet(waiting'[p]) : u \in transfers' /\ PoolOf(u) = p
  BY <1>1, <1>2, <1>3, FrontStarts
<1>5. ASSUME NEW i \in 1 .. Len(w), w[i] \in ToSet(waiting'[p]),
             NEW u \in ToSet(active'[p]) \ ToSet(active[p])
      PROVE  \E j \in 1 .. i - 1 : w[j] = u
  <2>1. i > k
    BY <1>1, <1>2, <1>3, <1>5, FrontStarts
  <2>2. SubSeq(w, 1, k) \in Seq(Transfers)
    BY <1>1, <1>2, FrontStarts
  <2>3. u \in ToSet(SubSeq(w, 1, k))
    BY <1>1, <1>3, <2>2, ActiveGrows
  <2>4. PICK j \in 1 .. k : w[j] = u
    BY <1>1, <1>2, <2>3, FrontStarts
  <2>5. j \in 1 .. i - 1
    BY <1>2, <2>1
  <2>6. QED
    BY <2>4, <2>5
<1>6. QED
  BY <1>4, <1>5 DEF Orderly, w

\* Who leaves a pool lets nobody start: that is left to the last loop of _settle.
LEMMA LeavingOrderly ==
    ASSUME TypeInv, NEW t \in Transfers, Leaving(t), NEW p \in Pools
    PROVE  Orderly(p)
<1>1. active[p] \in Seq(Transfers) /\ PoolOf(t) \in Pools
  BY PoolTypes, TransferParts
<1>2. active'[p] = IF p = PoolOf(t) THEN Without(active[p], t) ELSE active[p]
  BY <1>1, PoolTypes DEF Leaving, RemoveTransfer
<1>3. ToSet(Without(active[p], t)) \subseteq ToSet(active[p])
  BY <1>1, WithoutSubset
<1>4. QED
  BY <1>2, <1>3 DEF Orderly

LEMMA NextLining ==
    TypeInv /\ HoldInv /\ AttemptInv /\ Lining /\ [Next]_vars =>
        Lining' /\ \A p \in Pools : Orderly(p)
<1> SUFFICES ASSUME TypeInv, HoldInv, AttemptInv, Lining, [Next]_vars
             PROVE  Lining' /\ \A p \in Pools : Orderly(p)
  OBVIOUS
<1>1. CASE UNCHANGED transferVars
  BY <1>1 DEF transferVars, Lining, Orderly, PoolOf
<1>2. CASE \E t \in Transfers : Leaving(t)
  BY <1>2, LeavingLines, LeavingOrderly
<1>3. CASE (\E t \in Transfers, a \in Attempts : Entering(t, a)) \/ StartWaiting
  <2>1. \A p \in Pools :
           /\ IsInjective(waiting'[p])
           /\ \A u \in ToSet(waiting'[p]) : u \in transfers' /\ PoolOf(u) = p
           /\ Orderly(p)
    BY <1>3, EnteringLines, StartingLines
  <2>2. QED
    BY <2>1 DEF Lining, PoolOf
<1>4. QED
  BY <1>1, <1>2, <1>3, StepsOfTransfers

LEMMA LiningInvariant == Spec => []Lining
<1>1. Init => Lining
  BY DEF Init, Lining, IsInjective, ToSet
<1>2. QED
  BY <1>1, NextLining, HolderInvariant, PTL DEF Spec

\* Pools serve first come first: whether queued transfers start because a new
\* one is admitted (_admit) or at the end of _settle, none overtakes one that
\* was queued before it and stays queued.
THEOREM NobodyOvertakes == Spec => NoOvertaking
<1>1. TypeInv /\ HoldInv /\ AttemptInv /\ Lining /\ [Next]_vars =>
          [\A p \in Pools : \A i \in 1 .. Len(waiting[p]) :
              waiting[p][i] \in ToSet(waiting'[p]) =>
                 \A t \in ToSet(active'[p]) \ ToSet(active[p]) :
                    \E j \in 1 .. i - 1 : waiting[p][j] = t]_vars
  BY NextLining DEF Orderly
<1>2. QED
  BY <1>1, LiningInvariant, HolderInvariant, PTL DEF Spec, NoOvertaking

-----------------------------------------------------------------------------
(***************************************************************************)
(* Storage.  Sizes add up to no more than what a set of artifacts takes    *)
(* up, unit by unit.                                                       *)
(***************************************************************************)
LEMMA UnitSpace ==
    ASSUME NEW x \in Artifacts
    PROVE  /\ Size[x] \in Nat
           /\ IsFiniteSet({x} \X (1 .. Size[x])) /\ Cardinality({x} \X (1 .. Size[x])) = Size[x]
<1> DEFINE n == Size[x]
<1>1. n \in Nat /\ n \in Int /\ 1 \in Int /\ n > 0
  BY PlatformAssumption
<1>2. IsFiniteSet({x}) /\ Cardinality({x}) = 1
  BY FS_Singleton
<1> HIDE DEF n
<1>3. IsFiniteSet(1 .. n) /\ Cardinality(1 .. n) = IF 1 > n THEN 0 ELSE n - 1 + 1
  BY <1>1, FS_Interval
<1>4. IsFiniteSet({x} \X (1 .. n)) /\ Cardinality({x} \X (1 .. n)) = 1 * Cardinality(1 .. n)
  BY <1>2, <1>3, FS_Product
<1>5. Cardinality({x} \X (1 .. n)) = n
  BY <1>1, <1>3, <1>4
<1>6. QED
  BY <1>1, <1>4, <1>5 DEF n

LEMMA SpaceFinite ==
    ASSUME NEW S \in SUBSET Artifacts
    PROVE  IsFiniteSet(Space(S)) /\ Used(S) \in Nat
<1> DEFINE units == [x \in S |-> {x} \X (1 .. Size[x])]
           T == {{x} \X (1 .. Size[x]) : x \in S}
<1>2. IsFiniteSet(S)
  BY SetsAssumption, FS_Subset
<1>3. units \in Surjection(S, T)
  <2>1. units \in [S -> T] /\ \A U \in T : \E x \in S : units[x] = U
    OBVIOUS
  <2>2. QED
    BY <2>1 DEF Surjection
<1>4. IsFiniteSet(T)
  BY <1>2, <1>3, FS_Surjection
<1>5. \A x \in S : IsFiniteSet({x} \X (1 .. Size[x]))
  BY UnitSpace
<1>6. \A U \in T : IsFiniteSet(U)
  BY <1>5
<1>7. IsFiniteSet(UNION T)
  BY <1>4, <1>6, FS_UNION
<1>8. QED
  BY <1>7, FS_CardinalityType DEF Space, Used

LEMMA UsedGrows ==
    ASSUME NEW T \in SUBSET Artifacts, NEW S \in SUBSET T
    PROVE  Used(S) <= Used(T)
<1>1. Space(S) \subseteq Space(T)
  BY DEF Space
<1>2. QED
  BY <1>1, SpaceFinite, FS_Subset DEF Used

LEMMA UsedAdds ==
    ASSUME NEW S \in SUBSET Artifacts, NEW x \in Artifacts
    PROVE  Used(S \cup {x}) <= Used(S) + Size[x]
<1> DEFINE U == {x} \X (1 .. Size[x])
<1>1. IsFiniteSet(Space(S)) /\ Cardinality(Space(S)) \in Nat
  BY SpaceFinite DEF Used
<1>2. Space(S \cup {x}) = Space(S) \cup U
  BY DEF Space
<1>3. Size[x] \in Nat /\ IsFiniteSet(U) /\ Cardinality(U) = Size[x]
  BY UnitSpace
<1> HIDE DEF U
<1>4. Cardinality(Space(S) \cup U) =
          Cardinality(Space(S)) + Cardinality(U) - Cardinality(Space(S) \cap U)
  BY <1>1, <1>3, FS_Union
<1>5. Cardinality(Space(S) \cap U) \in Nat
  BY <1>1, FS_Intersection, FS_CardinalityType
<1>6. Cardinality(Space(S) \cup U) <= Cardinality(Space(S)) + Size[x]
  BY <1>1, <1>3, <1>4, <1>5
<1>7. QED
  BY <1>2, <1>6 DEF Used

-----------------------------------------------------------------------------
(***************************************************************************)
(* The invariant of the caches.                                            *)
(***************************************************************************)
\* Who waits for a transfer, or has waited for one that landed, wants what it
\* brings where it goes.
Wanted(a, t) == t.cache = cache[a] /\ t.artifact = Artifact(a)
Matched ==
    /\ \A a \in Moving : Wanted(a, request_transfer[a])
    /\ \A i \in 1 .. Len(landed) : \A a \in landed[i].waiters : Wanted(a, landed[i])
\* A cache stores an artifact once, and those of the waiters to serve next.
Stocked ==
    /\ \A c \in Caches : IsInjective(replicas[c])
    /\ \A a \in toDeliver : Artifact(a) \in ToSet(replicas[cache[a]])
StockInv == Matched /\ Stocked /\ StorageBound /\ SourcesKept

Holding(c) == Claimed(c) \cup Landed(c)

LEMMA HoldingType ==
    ASSUME TypeInv, NEW c \in Caches
    PROVE  /\ Holding(c) \in SUBSET Artifacts /\ Claimed(c) \in SUBSET Artifacts
           /\ replicas \in [Caches -> Seq(Artifacts)] /\ replicas[c] \in Seq(Artifacts)
           /\ ToSet(replicas[c]) \subseteq Artifacts
           /\ reserved \in [Caches -> SUBSET Artifacts] /\ landed \in Seq(Landings)
           /\ Storage[c] \in Nat
<1>1. /\ replicas \in [Caches -> Seq(Artifacts)] /\ replicas[c] \in Seq(Artifacts)
      /\ reserved \in [Caches -> SUBSET Artifacts] /\ landed \in Seq(Landings)
  BY DEF TypeInv, TypeOK, CacheTypeOK, TransferTypeOK, SettleTypeOK
<1>2. ToSet(replicas[c]) \subseteq Artifacts
  BY <1>1, LenProperties DEF ToSet
<1>3. Landed(c) \subseteq Artifacts
  <2>1. \A i \in 1 .. Len(landed) : landed[i] \in Landings
    BY <1>1, ElementOfSeq
  <2>2. \A i \in 1 .. Len(landed) : landed[i].artifact \in Artifacts
    BY <2>1 DEF Landings
  <2>3. QED
    BY <2>2 DEF Landed
<1>4. QED
  BY <1>1, <1>2, <1>3, PlatformAssumption DEF Holding, Claimed

LEMMA BoundKept ==
    ASSUME TypeInv, StorageBound, \A c \in Caches : Holding(c)' \subseteq Holding(c)
    PROVE  StorageBound'
<1> SUFFICES ASSUME NEW c \in Caches
             PROVE  Used(Holding(c)') <= Storage[c]
  BY DEF StorageBound, Holding, Used, Space, Claimed, Landed
<1>1. Holding(c) \in SUBSET Artifacts /\ Holding(c)' \in SUBSET Holding(c) /\ Storage[c] \in Nat
  BY HoldingType
<1>2. Used(Holding(c)') <= Used(Holding(c))
  BY <1>1, UsedGrows
<1>3. Used(Holding(c)) <= Storage[c]
  BY DEF StorageBound, Holding
<1>4. Used(Holding(c)) \in Nat /\ Used(Holding(c)') \in Nat
  BY <1>1, SpaceFinite
<1>5. QED
  BY <1>1, <1>2, <1>3, <1>4

\* Waiters, reservations and transfers go, nothing else changes.
LEMMA StockShrinks ==
    ASSUME TypeInv, StockInv,
           UNCHANGED <<replicas, landed, cache>>, toDeliver' \subseteq toDeliver,
           transfers' \subseteq transfers,
           \A c \in Caches : reserved'[c] \subseteq reserved[c],
           \A a \in Moving' : a \in Moving /\ request_transfer'[a] = request_transfer[a]
    PROVE  StockInv'
<1>1. Matched'
  BY DEF StockInv, Matched, Wanted
<1>2. Stocked' /\ SourcesKept'
  BY DEF StockInv, Stocked, SourcesKept
<1>3. \A c \in Caches : Holding(c)' \subseteq Holding(c)
  BY DEF Holding, Claimed, Landed
<1>4. QED
  BY <1>1, <1>2, <1>3, BoundKept DEF StockInv

LEMMA LeavingReserves ==
    ASSUME TypeInv, NEW t \in Transfers, Leaving(t)
    PROVE  /\ transfers' = transfers \ {t}
           /\ \A c \in Caches : reserved'[c] \subseteq reserved[c]
           /\ \A c \in Caches : c # t.cache \/ t.kind = "delivery" => reserved'[c] = reserved[c]
           /\ t.kind = "backhaul" => reserved[t.cache] \subseteq reserved'[t.cache] \cup {t.artifact}
<1>1. reserved \in [Caches -> SUBSET Artifacts]
  BY CounterTypes
<1>2. /\ transfers' = transfers \ {t}
      /\ IF t.kind = "delivery" THEN UNCHANGED reserved
         ELSE \/ reserved' = reserved
              \/ reserved' = [reserved EXCEPT ![t.cache] = @ \ {t.artifact}]
  BY DEF Leaving, RemoveTransfer
<1>3. QED
  BY <1>1, <1>2, KindsOfTransfers

LEMMA FinishStock ==
    ASSUME TypeInv, Carried, StockInv, NEW a \in Attempts, LeaveTransfer(a),
           UNCHANGED <<replicas, landed, cache>>, toDeliver' \subseteq toDeliver
    PROVE  StockInv'
<1>1. request_transfer' = [request_transfer EXCEPT ![a] = None]
  BY DEF LeaveTransfer
<1>2. \A b \in Moving' : b \in Moving /\ request_transfer'[b] = request_transfer[b]
  BY <1>1, TransferTypes DEF Moving
<1>3. UNCHANGED transferVars \/ \E t \in Transfers : Leaving(t)
  BY LeaveTransferSteps
<1>4. transfers' \subseteq transfers /\ \A c \in Caches : reserved'[c] \subseteq reserved[c]
  BY <1>3, LeavingReserves DEF transferVars
<1>5. QED
  BY <1>2, <1>4, StockShrinks

\* Reading an artifact leaves what is stored as it is, in another order.
LEMMA TouchedSame ==
    ASSUME TypeInv, Stocked, NEW c \in Caches, NEW x \in ToSet(replicas[c]),
           replicas' = [replicas EXCEPT ![c] = Append(Without(@, x), x)]
    PROVE  \A e \in Caches : IsInjective(replicas'[e]) /\ ToSet(replicas'[e]) = ToSet(replicas[e])
<1>1. replicas[c] \in Seq(Artifacts) /\ IsInjective(replicas[c]) /\ x \in Artifacts
      /\ replicas \in [Caches -> Seq(Artifacts)]
  BY HoldingType DEF Stocked
<1> DEFINE w == Without(replicas[c], x)
<1>2. w \in Seq(Artifacts) /\ IsInjective(w) /\ ToSet(w) = ToSet(replicas[c]) \ {x}
  BY <1>1, WithoutSet
<1>3. \A e \in Caches : replicas'[e] = IF e = c THEN Append(w, x) ELSE replicas[e]
  BY <1>1
<1> HIDE DEF w
<1>4. x \notin ToSet(w)
  BY <1>2
<1>5. IsInjective(Append(w, x)) /\ ToSet(Append(w, x)) = ToSet(w) \cup {x}
  BY <1>1, <1>2, <1>4, AppendSet
<1>6. ToSet(w) \cup {x} = ToSet(replicas[c])
  BY <1>2
<1>7. QED
  BY <1>3, <1>5, <1>6 DEF Stocked

LEMMA DeliverStock ==
    ASSUME TypeInv, Carried, StockInv, NEW a \in Attempts, HasCache(a), Deliver(a),
           Artifact(a) \in ToSet(replicas[cache[a]]),
           UNCHANGED <<landed, cache>>, toDeliver' \subseteq toDeliver
    PROVE  StockInv'
<1> DEFINE c == cache[a]
           x == Artifact(a)
           t == DeliveryOf(a)
<1>1. c \in Caches /\ replicas' = [replicas EXCEPT ![c] = Append(Without(@, x), x)]
  BY DEF HasCache, Deliver
<1>2. \A e \in Caches : IsInjective(replicas'[e]) /\ ToSet(replicas'[e]) = ToSet(replicas[e])
  BY <1>1, TouchedSame DEF StockInv
<1>3. \A b \in toDeliver : cache[b] \in Caches
  BY DEF TypeInv, HandType, HasCache
<1>4. Stocked'
  BY <1>2, <1>3 DEF StockInv, Stocked
<1>5. CASE Begin(t, a)
  <2>1. /\ transfers' = transfers \cup {t} /\ reserved' = reserved
        /\ request_transfer' = [request_transfer EXCEPT ![a] = t]
    BY <1>5 DEF Begin, DeliveryOf
  <2>2. Matched'
    <3>1. \A b \in Moving' : b = a \/ (b \in Moving /\ request_transfer'[b] = request_transfer[b])
      BY <2>1, TransferTypes DEF Moving
    <3>2. request_transfer'[a] = t /\ Wanted(a, t)
      BY <2>1, TransferTypes DEF Wanted, DeliveryOf
    <3>3. QED
      BY <3>1, <3>2 DEF StockInv, Matched, Wanted
  <2>3. SourcesKept'
    <3>1. \A u \in transfers : u.cache \in Caches
      BY TransferTypes, KindsOfTransfers
    <3>2. QED
      BY <1>1, <1>2, <2>1, <3>1 DEF StockInv, SourcesKept, DeliveryOf
  <2>4. \A e \in Caches : Holding(e)' \subseteq Holding(e)
    BY <1>2, <2>1 DEF Holding, Claimed, Landed
  <2>5. QED
    BY <1>4, <2>2, <2>3, <2>4, BoundKept DEF StockInv
<1>6. CASE Finish(a, "REJECTED")
  <2>1. LeaveTransfer(a)
    BY <1>6 DEF Finish
  <2>2. \A b \in Moving' : b \in Moving /\ request_transfer'[b] = request_transfer[b]
    BY <2>1, TransferTypes DEF Moving, LeaveTransfer
  <2>3. transfers' \subseteq transfers /\ \A e \in Caches : reserved'[e] \subseteq reserved[e]
    BY <2>1, LeaveTransferSteps, LeavingReserves DEF transferVars
  <2>4. Matched'
    BY <2>2 DEF StockInv, Matched, Wanted
  <2>5. SourcesKept'
    <3>1. \A u \in transfers : u.cache \in Caches
      BY TransferTypes, KindsOfTransfers
    <3>2. QED
      BY <1>2, <2>3, <3>1 DEF StockInv, SourcesKept
  <2>6. \A e \in Caches : Holding(e)' \subseteq Holding(e)
    BY <1>2, <2>3 DEF Holding, Claimed, Landed
  <2>7. QED
    BY <1>4, <2>4, <2>5, <2>6, BoundKept DEF StockInv
<1>7. QED
  BY <1>5, <1>6 DEF Deliver

\* A fetch reserves its artifact where it fits or is promised already.
LEMMA StartFetchStock ==
    ASSUME TypeInv, HoldInv, StockInv, StartFetch
    PROVE  StockInv'
<1> DEFINE a == current
           c == cache[a]
           x == Artifact(a)
           t == BackhaulOf(a)
<1>1. /\ a \in Attempts /\ c \in Caches /\ x \in Artifacts /\ pc = "serve" /\ Carried
      /\ UNCHANGED <<replicas, landed, cache, toDeliver>> /\ ~NeedsSpace(a)
  <2>1. /\ pc = "serve" /\ ~NeedsSpace(a)
        /\ UNCHANGED <<replicas, landed, cache, toDeliver>>
    BY DEF StartFetch, Miss, placeVars
  <2>2. a \in Attempts /\ c \in Caches
    BY <2>1, HandIsFree, CurrentType DEF HasCache
  <2>3. x \in Artifacts
    BY <2>2, AttemptParts, RequestsAssumption DEF Artifact
  <2>4. QED
    BY <2>1, <2>2, <2>3 DEF HoldInv
<1>2. CASE Finish(a, "REJECTED")
  BY <1>1, <1>2, FinishStock DEF Finish
<1>3. CASE Begin(t, a)
  <2>1. /\ transfers' = transfers \cup {t} /\ t.kind = "backhaul"
        /\ reserved' = [reserved EXCEPT ![c] = @ \cup {x}]
        /\ request_transfer' = [request_transfer EXCEPT ![a] = t]
    BY <1>3 DEF Begin, BackhaulOf
  <2>2. Matched'
    <3>1. \A b \in Moving' : b = a \/ (b \in Moving /\ request_transfer'[b] = request_transfer[b])
      BY <2>1, TransferTypes DEF Moving
    <3>2. request_transfer'[a] = t /\ Wanted(a, t)
      BY <1>1, <2>1, TransferTypes DEF Wanted, BackhaulOf
    <3>3. QED
      BY <1>1, <3>1, <3>2 DEF StockInv, Matched, Wanted
  <2>3. Stocked' /\ SourcesKept'
    BY <1>1, <2>1 DEF StockInv, Stocked, SourcesKept
  <2>4. landed = <<>>
    BY <1>1 DEF HoldInv, Phased
  <2>5. ASSUME NEW e \in Caches PROVE Used(Holding(e)') <= Storage[e]
    <3>1. Holding(e) = Claimed(e) /\ Holding(e)' = ToSet(replicas[e]) \cup reserved'[e]
      BY <1>1, <2>4 DEF Holding, Landed, Claimed
    <3>2. Used(Claimed(e)) <= Storage[e]
      BY <3>1 DEF StockInv, StorageBound, Holding
    <3>3. CASE e # c \/ x \in Claimed(e)
      <4>1. Holding(e)' = Claimed(e)
        BY <1>1, <2>1, <3>1, <3>3, HoldingType DEF Claimed
      <4>2. QED
        BY <3>2, <4>1
    <3>4. CASE e = c /\ x \notin Claimed(e)
      <4>1. Holding(e)' = Claimed(e) \cup {x}
        BY <1>1, <2>1, <3>1, <3>4, HoldingType DEF Claimed
      <4>2. Used(Claimed(e)) + Size[x] <= Storage[e]
        BY <1>1, <3>4 DEF NeedsSpace, Fits
      <4>3. Claimed(e) \in SUBSET Artifacts /\ Claimed(e) \cup {x} \in SUBSET Artifacts
        BY <1>1, HoldingType
      <4>4. Used(Claimed(e) \cup {x}) <= Used(Claimed(e)) + Size[x]
        BY <1>1, <4>3, UsedAdds
      <4>5. /\ Used(Claimed(e)) \in Nat /\ Used(Claimed(e) \cup {x}) \in Nat
            /\ Size[x] \in Nat /\ Storage[e] \in Nat
        BY <1>1, <4>3, SpaceFinite, UnitSpace, HoldingType
      <4>6. QED
        BY <4>1, <4>2, <4>4, <4>5
    <3>5. QED
      BY <3>3, <3>4
  <2>6. StorageBound'
    BY <2>5 DEF StorageBound, Holding, Used, Space, Claimed, Landed
  <2>7. QED
    BY <2>2, <2>3, <2>6 DEF StockInv
<1>4. QED
  BY <1>2, <1>3 DEF StartFetch

LEMMA JoinFetchStock ==
    ASSUME TypeInv, HoldInv, StockInv, JoinFetch
    PROVE  StockInv'
<1> DEFINE a == current
           t == BackhaulOf(a)
<1>1. /\ a \in Attempts /\ t \in transfers
      /\ request_transfer' = [request_transfer EXCEPT ![a] = t]
      /\ UNCHANGED <<transfers, reserved, replicas, landed, cache, toDeliver>>
  BY HandIsFree DEF JoinFetch, Miss, Fetching, placeVars, transferVars
<1>2. Matched'
  <2>1. \A b \in Moving' : b = a \/ (b \in Moving /\ request_transfer'[b] = request_transfer[b])
    BY <1>1, TransferTypes DEF Moving
  <2>2. request_transfer'[a] = t /\ Wanted(a, t)
    BY <1>1, TransferTypes DEF Wanted, BackhaulOf
  <2>3. QED
    BY <1>1, <2>1, <2>2 DEF StockInv, Matched, Wanted
<1>3. Stocked' /\ SourcesKept'
  BY <1>1 DEF StockInv, Stocked, SourcesKept
<1>4. \A e \in Caches : Holding(e)' \subseteq Holding(e)
  BY <1>1 DEF Holding, Claimed, Landed
<1>5. QED
  BY <1>2, <1>3, <1>4, BoundKept DEF StockInv

LEMMA CollectStock ==
    ASSUME TypeInv, HoldInv, Counting, StockInv, NEW p \in Pools, Collect(p)
    PROVE  StockInv'
<1>1. PICK t \in transfers :
         /\ RemoveTransfer(t) /\ Detach(t)
         /\ IF t.kind = "delivery" THEN UNCHANGED landed
            ELSE landed' = Append(landed, [cache |-> t.cache, artifact |-> t.artifact,
                                           waiters |-> Waiters(t)])
  BY DEF Collect
<1>2. UNCHANGED <<replicas, cache, toDeliver>>
  BY DEF Collect, placeVars
<1>3. /\ t \in Transfers /\ Leaving(t) /\ None \notin Transfers
      /\ request_transfer \in [Attempts -> Transfers \cup {None}]
  BY <1>1, TransferTypes DEF Leaving
<1>4. \A b \in Moving' : b \in Moving /\ request_transfer'[b] = request_transfer[b]
  BY <1>1, <1>3 DEF Detach, Moving
<1>5. transfers' = transfers \ {t} /\ \A c \in Caches : reserved'[c] \subseteq reserved[c]
  BY <1>3, LeavingReserves
<1>6. CASE t.kind = "delivery"
  BY <1>1, <1>2, <1>4, <1>5, <1>6, StockShrinks
<1>7. CASE t.kind # "delivery"
  <2> DEFINE entry == [cache |-> t.cache, artifact |-> t.artifact, waiters |-> Waiters(t)]
  <2>1. landed \in Seq(Landings) /\ landed' = Append(landed, entry) /\ entry \in Landings
    BY <1>1, <1>3, <1>7, KindsOfTransfers DEF TypeInv, TypeOK, SettleTypeOK, Landings, Waiters
  <2> HIDE DEF entry
  <2>2. /\ Len(landed') = Len(landed) + 1 /\ Len(landed) \in Nat
        /\ \A i \in 1 .. Len(landed) : landed'[i] = landed[i]
        /\ landed'[Len(landed) + 1] = entry
    BY <2>1, AppendProperties, LenProperties
  <2>3. \A i \in 1 .. Len(landed') : i \in 1 .. Len(landed) \/ landed'[i] = entry
    BY <2>2
  <2>4. \A a \in entry.waiters : Wanted(a, entry)
    BY <1>3 DEF StockInv, Matched, Moving, Waiters, Wanted, entry
  <2>5. \A i \in 1 .. Len(landed') : \A a \in landed'[i].waiters : Wanted(a, landed'[i])
    BY <2>2, <2>3, <2>4 DEF StockInv, Matched
  <2>6. Matched'
    BY <1>2, <1>4, <2>5 DEF StockInv, Matched, Wanted
  <2>7. Stocked' /\ SourcesKept'
    BY <1>2, <1>5 DEF StockInv, Stocked, SourcesKept
  <2>8. t.kind = "backhaul" /\ t.artifact \in reserved[t.cache] /\ t.cache \in Caches
    <3>1. /\ t.kind = "backhaul" /\ t.cache \in Caches /\ t.artifact \in Artifacts
      BY <1>3, <1>7, KindsOfTransfers
    <3>2. t \in Using(t.cache, "backhaul", t.artifact)
      BY <1>1, <3>1 DEF Using
    <3>3. QED
      BY <3>1, <3>2 DEF Counting
  <2>9. ASSUME NEW c \in Caches, NEW x \in Holding(c)'
        PROVE  x \in Holding(c)
    <3>1. CASE x \in Claimed(c)'
      BY <1>2, <1>5, <3>1 DEF Holding, Claimed
    <3>2. CASE x \in Landed(c)'
      <4>1. PICK i \in 1 .. Len(landed') : landed'[i].cache = c /\ x = landed'[i].artifact
        BY <3>2 DEF Landed
      <4>2. CASE i \in 1 .. Len(landed)
        BY <2>2, <4>1, <4>2 DEF Holding, Landed
      <4>3. CASE landed'[i] = entry
        BY <2>8, <4>1, <4>3 DEF Holding, Claimed, entry
      <4>4. QED
        BY <2>3, <4>2, <4>3
    <3>3. QED
      BY <2>9, <3>1, <3>2 DEF Holding
  <2>10. \A c \in Caches : Holding(c)' \subseteq Holding(c)
    BY <2>9
  <2>11. QED
    BY <2>6, <2>7, <2>10, BoundKept DEF StockInv
<1>8. QED
  BY <1>6, <1>7

LEMMA CancelStock ==
    ASSUME TypeInv, StockInv, NEW t \in transfers, Cancel(t)
    PROVE  StockInv'
<1>1. /\ t \in Transfers /\ Leaving(t) /\ None \notin Transfers /\ Detach(t)
      /\ request_transfer \in [Attempts -> Transfers \cup {None}]
      /\ UNCHANGED <<replicas, cache, landed, toDeliver>>
  BY TransferTypes DEF Leaving, Cancel, placeVars, settleVars
<1>2. \A b \in Moving' : b \in Moving /\ request_transfer'[b] = request_transfer[b]
  BY <1>1 DEF Detach, Moving
<1>3. transfers' \subseteq transfers /\ \A c \in Caches : reserved'[c] \subseteq reserved[c]
  BY <1>1, LeavingReserves
<1>4. QED
  BY <1>1, <1>2, <1>3, StockShrinks

\* What has landed is stored, once, before its waiters are served.
LEMMA LandStock ==
    ASSUME TypeInv, HoldInv, StockInv, Land
    PROVE  StockInv'
<1> DEFINE first == Head(landed)
           c == first.cache
           x == first.artifact
<1>1. /\ landed # <<>> /\ landed' = Tail(landed)
      /\ replicas' = [replicas EXCEPT ![c] = Stored(@, x)]
      /\ toDeliver' = first.waiters \cap live
      /\ UNCHANGED <<cache, transfers, reserved, request_transfer>>
  BY DEF Land, LiveWaiters, placeVars, transferVars
<1>2. /\ landed \in Seq(Landings) /\ Len(landed) \in Nat /\ Len(landed) > 0
      /\ first = landed[1] /\ 1 \in 1 .. Len(landed) /\ first \in Landings
      /\ Len(landed') = Len(landed) - 1
      /\ \A i \in 1 .. Len(landed') : landed'[i] = landed[i + 1] /\ i + 1 \in 1 .. Len(landed)
  <2>1. landed \in Seq(Landings)
    BY DEF TypeInv, TypeOK, SettleTypeOK
  <2>2. Len(landed) \in Nat /\ Len(landed) > 0
    BY <1>1, <2>1, EmptySeq, LenProperties
  <2>3. first = landed[1] /\ first \in Landings /\ Len(landed') = Len(landed) - 1
    BY <1>1, <2>1, <2>2, HeadTailProperties, ElementOfSeq
  <2>4. \A i \in 1 .. Len(landed') : landed'[i] = landed[i + 1]
    BY <1>1, <2>1, HeadTailProperties
  <2>5. QED
    BY <2>1, <2>2, <2>3, <2>4
<1>3. c \in Caches /\ x \in Artifacts
  BY <1>2 DEF Landings
<1> HIDE DEF first
<1>4. \A a \in first.waiters : Wanted(a, first)
  BY <1>2 DEF StockInv, Matched
<1>5. Matched'
  <2>1. Moving' = Moving
    BY <1>1 DEF Moving
  <2>2. QED
    BY <1>1, <1>2, <2>1 DEF StockInv, Matched, Wanted
<1>6. /\ Stored(replicas[c], x) \in Seq(Artifacts) /\ IsInjective(Stored(replicas[c], x))
      /\ ToSet(Stored(replicas[c], x)) = ToSet(replicas[c]) \cup {x}
  <2>1. replicas[c] \in Seq(Artifacts) /\ IsInjective(replicas[c])
    BY <1>3, HoldingType DEF StockInv, Stocked
  <2>2. Contains(replicas[c], x) <=> x \in ToSet(replicas[c])
    BY <2>1, LenProperties DEF Contains, ToSet
  <2>3. QED
    BY <1>3, <2>1, <2>2, AppendSet DEF Stored
<1>7. \A e \in Caches :
         /\ IsInjective(replicas'[e])
         /\ ToSet(replicas'[e]) = IF e = c THEN ToSet(replicas[c]) \cup {x} ELSE ToSet(replicas[e])
  BY <1>1, <1>3, <1>6, HoldingType DEF StockInv, Stocked
<1>8. Stocked'
  <2>1. \A a \in toDeliver' : Artifact(a) \in ToSet(replicas'[cache[a]])
    BY <1>1, <1>3, <1>4, <1>7 DEF Wanted
  <2>2. QED
    BY <1>1, <1>7, <2>1 DEF Stocked
<1>9. SourcesKept'
  <2>1. \A u \in transfers : u.cache \in Caches
    BY TransferTypes, KindsOfTransfers
  <2>2. QED
    BY <1>1, <1>7, <2>1 DEF StockInv, SourcesKept
<1>10. ASSUME NEW e \in Caches PROVE Holding(e)' \subseteq Holding(e)
  <2>1. Landed(e)' \subseteq Landed(e)
    BY <1>2 DEF Landed
  <2>2. Claimed(e)' \subseteq Claimed(e) \cup (IF e = c THEN {x} ELSE {})
    BY <1>1, <1>7 DEF Claimed
  <2>3. e = c => x \in Landed(e)
    BY <1>2 DEF Landed
  <2>4. QED
    BY <2>1, <2>2, <2>3 DEF Holding
<1>11. QED
  BY <1>5, <1>8, <1>9, <1>10, BoundKept DEF StockInv

\* An eviction takes nothing a delivery reads.
LEMMA EvictStock ==
    ASSUME TypeInv, HoldInv, Counting, StockInv, Evict
    PROVE  StockInv'
<1> DEFINE c == cache[current]
<1>1. /\ pc = "serve" /\ c \in Caches
      /\ UNCHANGED <<cache, transfers, reserved, request_transfer, landed, toDeliver>>
  BY CurrentType DEF Evict, Miss, HasCache, placeVars, transferVars, settleVars
<1>2. PICK i \in 1 .. Len(replicas[c]) :
         Evictable(c, replicas[c][i]) /\ replicas' = [replicas EXCEPT ![c] = RemoveAt(@, i)]
  BY DEF Evict
<1>3. replicas[c] \in Seq(Artifacts) /\ IsInjective(replicas[c])
  BY <1>1, HoldingType DEF StockInv, Stocked
<1> DEFINE x == replicas[c][i]
<1>4. x \in Artifacts
  BY <1>3, ElementOfSeq
<1>5. /\ RemoveAt(replicas[c], i) \in Seq(Artifacts) /\ IsInjective(RemoveAt(replicas[c], i))
      /\ ToSet(RemoveAt(replicas[c], i)) = ToSet(replicas[c]) \ {x}
  BY <1>3, RemoveAtSet
<1> HIDE DEF c, x
<1>6. \A e \in Caches :
         /\ IsInjective(replicas'[e])
         /\ ToSet(replicas'[e]) = IF e = c THEN ToSet(replicas[c]) \ {x} ELSE ToSet(replicas[e])
  BY <1>1, <1>2, <1>5, HoldingType DEF StockInv, Stocked
<1>7. Matched'
  <2>1. Moving' = Moving
    BY <1>1 DEF Moving
  <2>2. QED
    BY <1>1, <2>1 DEF StockInv, Matched, Wanted
<1>8. Stocked'
  <2>1. toDeliver = {}
    BY <1>1 DEF HoldInv, Phased
  <2>2. QED
    BY <1>1, <1>6, <2>1 DEF Stocked
<1>9. SourcesKept'
  <2>1. Using(c, "delivery", x) = {}
    <3>1. pins[c][x] = 0
      BY <1>2 DEF Evictable, x
    <3>2. Cardinality(Using(c, "delivery", x)) = 0
      BY <1>1, <1>4, <3>1 DEF Counting
    <3>3. IsFiniteSet(Using(c, "delivery", x))
      BY FS_Subset DEF HoldInv, Carried, Using
    <3>4. QED
      BY <3>2, <3>3, FS_EmptySet
  <2>2. \A u \in transfers : u.cache \in Caches
    BY TransferTypes, KindsOfTransfers
  <2>3. ASSUME NEW u \in transfers, u.kind = "delivery"
        PROVE  u.artifact \in ToSet(replicas'[u.cache])
    <3>1. u.artifact \in ToSet(replicas[u.cache])
      BY <2>3 DEF StockInv, SourcesKept
    <3>2. u.cache = c => u.artifact # x
      BY <2>1, <2>3 DEF Using
    <3>3. QED
      BY <1>6, <2>2, <3>1, <3>2
  <2>4. QED
    BY <1>1, <2>3 DEF SourcesKept
<1>10. \A e \in Caches : Holding(e)' \subseteq Holding(e)
  BY <1>1, <1>6 DEF Holding, Claimed, Landed
<1>11. QED
  BY <1>7, <1>8, <1>9, <1>10, BoundKept DEF StockInv

LEMMA ChooseCacheStock ==
    ASSUME TypeInv, HoldInv, StockInv, NEW a \in Attempts, NEW c \in Caches, ChooseCache(a, c)
    PROVE  StockInv'
<1>1. /\ pc = "schedule" /\ a \in ready /\ cache' = [cache EXCEPT ![a] = c]
      /\ UNCHANGED <<replicas, transfers, reserved, request_transfer, landed, toDeliver>>
  BY DEF ChooseCache, transferVars
<1>2. a \notin Moving /\ landed = <<>> /\ toDeliver = {}
  BY <1>1 DEF HoldInv, Apart, Taken, Phased
<1>3. \A b \in Moving : cache'[b] = cache[b]
  BY <1>1, <1>2 DEF Moving, TypeInv, TypeOK, PlaceTypeOK
<1>4. Matched'
  <2>1. Moving' = Moving
    BY <1>1 DEF Moving
  <2>2. Len(landed') = 0
    BY <1>1, <1>2
  <2>3. QED
    BY <1>1, <1>3, <2>1, <2>2 DEF StockInv, Matched, Wanted
<1>5. Stocked' /\ SourcesKept'
  BY <1>1, <1>2 DEF StockInv, Stocked, SourcesKept
<1>6. \A e \in Caches : Holding(e)' \subseteq Holding(e)
  BY <1>1 DEF Holding, Claimed, Landed
<1>7. QED
  BY <1>4, <1>5, <1>6, BoundKept DEF StockInv

LEMMA NextStock ==
    TypeInv /\ HoldInv /\ AttemptInv /\ Counting /\ StockInv /\ [Next]_vars => StockInv'
<1> SUFFICES ASSUME TypeInv, HoldInv, AttemptInv, Counting, StockInv, [Next]_vars
             PROVE  StockInv'
  OBVIOUS
<1>1. Carried
  BY DEF HoldInv
<1>2. CASE \E a \in Attempts : Succeed(a) \/ Expire(a)
  BY <1>1, <1>2, FinishStock DEF Succeed, Expire, Finish, placeVars, settleVars
<1>3. CASE \E a \in Attempts : ServeWaiter(a)
  <2>1. PICK a \in Attempts : ServeWaiter(a)
    BY <1>3
  <2>2. /\ a \in toDeliver /\ Deliver(a) /\ UNCHANGED <<landed, cache>>
        /\ toDeliver' \subseteq toDeliver
    BY <2>1 DEF ServeWaiter, placeVars
  <2>3. HasCache(a) /\ Artifact(a) \in ToSet(replicas[cache[a]])
    BY <2>2 DEF TypeInv, HandType, StockInv, Stocked
  <2>4. QED
    BY <1>1, <2>2, <2>3, DeliverStock
<1>4. CASE Hit
  <2>1. /\ Artifact(current) \in ToSet(replicas[cache[current]]) /\ Deliver(current)
        /\ UNCHANGED <<landed, cache, toDeliver>> /\ pc = "serve"
    BY <1>4 DEF Hit, placeVars
  <2>2. QED
    BY <1>1, <2>1, HandIsFree, CurrentType, DeliverStock
<1>5. CASE RejectStorage \/ ExpireOnArrival
  <2>1. /\ current \in Attempts /\ LeaveTransfer(current)
        /\ UNCHANGED <<replicas, landed, cache, toDeliver>>
    BY <1>5, HandIsFree DEF RejectStorage, Miss, ExpireOnArrival, Placed, Finish, placeVars
  <2>2. QED
    BY <1>1, <2>1, FinishStock
<1>6. CASE Place
  <2>1. /\ current \in Attempts /\ UNCHANGED <<replicas, landed, cache, toDeliver>>
        /\ LeaveTransfer(current) \/ UNCHANGED <<transferVars, request_transfer>>
    BY <1>6, HandIsFree DEF Place, Placed, Enqueue, Finish, placeVars
  <2>2. UNCHANGED <<transferVars, request_transfer>> => Moving' = Moving
    BY DEF Moving
  <2>3. QED
    BY <1>1, <2>1, <2>2, FinishStock, StockShrinks DEF transferVars
<1>7. CASE JoinFetch \/ StartFetch \/ Evict \/ Land
  BY <1>7, JoinFetchStock, StartFetchStock, EvictStock, LandStock
<1>8. CASE \/ \E p \in Pools : Collect(p)
           \/ \E t \in transfers : Cancel(t)
           \/ \E a \in Attempts, c \in Caches : ChooseCache(a, c)
  BY <1>8, CollectStock, CancelStock, ChooseCacheStock
<1>9. CASE UNCHANGED <<replicas, landed, cache, toDeliver, transfers, reserved, request_transfer>>
  <2>1. Moving' = Moving
    BY <1>9 DEF Moving
  <2>2. QED
    BY <1>9, <2>1, StockShrinks
<1>10. CASE \/ (\E a \in Attempts : Forward(a)) \/ ReleaseServices \/ EndPhase \/ Close
            \/ StartWaiting \/ UNCHANGED vars
  BY <1>9, <1>10 DEF Forward, ReleaseServices, EndPhase, Close, StartWaiting, vars,
                     placeVars, transferVars, settleVars
<1>11. CASE \/ (\E r \in Requests : Arrive(r)) \/ ArriveRetry \/ Advance
            \/ \E t \in now + 1 .. Horizon, ended \in SUBSET Started : Wait(t, ended)
  BY <1>9, <1>11 DEF Arrive, ArriveRetry, Advance, AdvanceWindow, Wait,
                     placeVars, transferVars, settleVars
<1>12. QED
  BY <1>2, <1>3, <1>4, <1>5, <1>6, <1>7, <1>8, <1>10, <1>11 DEF Next, Settle, Closed

LEMMA InitStock == Init /\ TypeInv => StockInv
<1> SUFFICES ASSUME Init, TypeInv PROVE StockInv
  OBVIOUS
<1>1. /\ transfers = {} /\ landed = <<>> /\ toDeliver = {} /\ Moving = {}
      /\ \A c \in Caches : replicas[c] = <<>> /\ reserved[c] = {}
  BY DEF Init, Moving
<1>2. Matched /\ Stocked /\ SourcesKept
  BY <1>1 DEF Matched, Stocked, SourcesKept, IsInjective
<1>3. ASSUME NEW c \in Caches PROVE Used(Claimed(c) \cup Landed(c)) <= Storage[c]
  <2>1. Claimed(c) \cup Landed(c) = {}
    BY <1>1 DEF Claimed, Landed, ToSet
  <2>2. Space({}) = {}
    BY DEF Space
  <2>3. Used({}) = 0
    BY <2>2, FS_EmptySet DEF Used
  <2>4. Storage[c] \in Nat
    BY HoldingType
  <2>5. QED
    BY <2>1, <2>3, <2>4
<1>4. QED
  BY <1>2, <1>3 DEF StockInv, StorageBound

\* A cache never holds and promises more than its storage, and never evicts what
\* a delivery still reads, for any sizes, storages, workload and control: the
\* loop of _reserve, shared reservations, cancelled fetches and the use order of
\* the replicas together keep both.
THEOREM CachesAreSound == Spec => []CacheSound
<1>1. Init => StockInv
  BY InitType, InitStock
<1>2. Spec => []StockInv
  BY <1>1, NextStock, HolderInvariant, CountingInvariant, PTL DEF Spec
<1>3. StockInv => CacheSound
  BY DEF StockInv, CacheSound
<1>4. QED
  BY <1>2, <1>3, PTL

-----------------------------------------------------------------------------
(***************************************************************************)
(* An episode (SchedulingEnv).  Its environment is one client of the       *)
(* service: the windows it asks for are ones any client may ask for.       *)
(***************************************************************************)
AtCaller == {"ready", "over", "drained"}

\* The service stops at the window's end, and sleeps before it.
Ticking ==
    /\ now <= until
    /\ pc = "idle" => now = until
    /\ pc = "wait" => now < until

\* A call and its answer: what the caller has heard is the present state, and
\* which window it is in.
Paced ==
    /\ phase \in AtCaller \cup {"stepping", "draining"}
    /\ phase \in AtCaller => pc \in {"idle", "closing", "closed"}
    /\ phase \in {"stepping", "draining"} => pc \notin {"closing", "closed"}
    /\ cycle \in Nat
    /\ phase \in {"ready", "stepping"} => cycle < Cycles
    /\ phase = "ready" => now <= cycle * Period /\ (now < Horizon => now = cycle * Period)
    /\ phase = "stepping" =>
          until <= (cycle + 1) * Period /\ (until < Horizon => until = (cycle + 1) * Period)
    /\ phase \in AtCaller => last_view.now = now
    /\ phase = "over" => now < Limit
    /\ phase # "ready" => policy \in Policies

LEMMA EpisodeNumbers ==
    /\ Cycles \in Nat /\ Cycles > 0 /\ Period \in Nat /\ Period > 0
    /\ RelativeDeadline \in Nat /\ RelativeDeadline > 0
    /\ MaxRetries \in Nat /\ MaxRetries > 0 /\ RetryDelay \in Nat /\ Horizon \in Nat
    /\ HorizonS \in Nat /\ Limit \in Nat /\ HorizonS < Limit
<1>1. /\ Cycles \in Nat /\ Cycles > 0 /\ Period \in Nat /\ Period > 0
      /\ RelativeDeadline \in Nat /\ RelativeDeadline > 0
      /\ MaxRetries \in Nat /\ MaxRetries > 0 /\ RetryDelay \in Nat /\ Horizon \in Nat
  BY EpisodeAssumption, ControlAssumption
<1>2. HorizonS \in Nat
  BY <1>1 DEF HorizonS
<1>3. /\ (MaxRetries + 1) * RelativeDeadline = MaxRetries * RelativeDeadline + RelativeDeadline
      /\ MaxRetries * RelativeDeadline \in Nat /\ MaxRetries * RetryDelay \in Nat
  BY <1>1
<1>4. Limit \in Nat /\ HorizonS < Limit
  BY <1>1, <1>2, <1>3 DEF Limit
<1>5. QED
  BY <1>1, <1>2, <1>4

\* One more window.
LEMMA Windows ==
    ASSUME NEW c \in Nat, c < Cycles
    PROVE  /\ c * Period \in Nat /\ (c + 1) * Period = c * Period + Period
           /\ (c + 1) * Period <= HorizonS
<1>1. /\ Cycles \in Nat /\ Period \in Nat
  BY EpisodeNumbers
<1>2. PICK d \in Nat : Cycles = (c + 1) + d
  <2>1. Cycles - (c + 1) \in Nat /\ Cycles = (c + 1) + (Cycles - (c + 1))
    BY <1>1
  <2>2. QED
    BY <2>1
<1>3. /\ Cycles * Period = (c + 1) * Period + d * Period /\ d * Period \in Nat
      /\ (c + 1) * Period \in Nat /\ c * Period \in Nat
      /\ (c + 1) * Period = c * Period + Period
  BY <1>1, <1>2
<1>4. QED
  BY <1>3 DEF HorizonS

LEMMA AskAdvances ==
    ASSUME TypeInv, NEW length \in 1 .. Period, NEW P \in SUBSET Policies, NEW next,
           Ask(length, P, next)
    PROVE  /\ Advance /\ phase' = next /\ policy' \in Policies
           /\ pc = "idle" /\ now < Horizon /\ now' = now /\ pc' = "collect"
           /\ until' = IF now + length < Horizon THEN now + length ELSE Horizon
           /\ UNCHANGED <<direct, cycle, last_view, outcomes, settled, logical>>
<1>1. PICK p \in P : \E d : AdvanceWindow(length, p, d)
  BY DEF Ask
<1>2. PICK d : AdvanceWindow(length, p, d)
  BY <1>1
<1>3. d \in SUBSET live
  BY <1>2 DEF AdvanceWindow, Visible
<1>4. length \in WindowLengths /\ p \in Policies
  BY EpisodeAssumption
<1>5. Advance
  BY <1>2, <1>3, <1>4 DEF Advance
<1>6. QED
  BY <1>2, <1>4, <1>5 DEF AdvanceWindow, Ask

LEMMA NextTicking == TypeInv /\ Ticking /\ [Next]_vars => Ticking'
<1> SUFFICES ASSUME TypeInv, Ticking, [Next]_vars PROVE Ticking'
  OBVIOUS
<1>1. now \in Nat /\ until \in Nat /\ Horizon \in Nat
  BY ControlAssumption DEF TypeInv, TypeOK, WindowTypeOK
<1>2. ASSUME UNCHANGED <<now, until>>, pc' \notin {"idle", "wait"} PROVE Ticking'
  BY <1>2 DEF Ticking
<1>3. CASE \/ \E p \in Pools : Collect(p)
           \/ \E a \in Attempts : \/ Succeed(a) \/ Expire(a) \/ ServeWaiter(a) \/ Forward(a)
                                  \/ \E c \in Caches : ChooseCache(a, c)
           \/ Land \/ ReleaseServices
  BY <1>2, <1>3 DEF Collect, Succeed, Expire, ServeWaiter, Forward, ChooseCache, Land,
                    ReleaseServices, windowVars
<1>4. CASE Hit \/ JoinFetch \/ Evict \/ StartFetch \/ RejectStorage
  BY <1>2, <1>4 DEF Hit, JoinFetch, Evict, Miss, StartFetch, RejectStorage, windowVars
<1>5. CASE (\E r \in Requests : Arrive(r)) \/ ArriveRetry \/ ExpireOnArrival \/ Place
  BY <1>2, <1>5 DEF Arrive, ArriveRetry, ExpireOnArrival, Place, Placed, windowVars
<1>6. CASE Close \/ (\E t \in transfers : Cancel(t)) \/ EndPhase
  BY <1>2, <1>6 DEF Close, Cancel, EndPhase, Through, PhaseAfter, windowVars
<1>7. CASE StartWaiting
  <2>1. /\ now' = now /\ until' = until /\ pc' = IF now < until THEN "wait" ELSE "idle"
    BY <1>7 DEF StartWaiting, windowVars
  <2>2. QED
    BY <1>1, <2>1 DEF Ticking
<1>8. CASE Advance
  <2>1. PICK w \in WindowLengths : \E p, d : AdvanceWindow(w, p, d)
    BY <1>8 DEF Advance
  <2>2. w \in Nat /\ w > 0
    BY ControlAssumption
  <2>3. /\ now < Horizon /\ now' = now /\ pc' = "collect"
        /\ until' = IF now + w < Horizon THEN now + w ELSE Horizon
    BY <2>1 DEF AdvanceWindow
  <2>4. QED
    BY <1>1, <2>2, <2>3 DEF Ticking
<1>9. CASE pc = "wait" /\ \E t \in now + 1 .. Horizon, ended \in SUBSET Started : Wait(t, ended)
  <2>1. PICK t \in now + 1 .. Horizon : \E ended : Wait(t, ended)
    BY <1>9
  <2>2. /\ t \in now + 1 .. NextDate /\ t \in Int /\ now < until
        /\ until' = until /\ now' = t /\ pc' = "collect"
    BY <1>1, <1>9, <2>1 DEF Wait, windowVars, Ticking
  <2>3. NextDate \in Nat /\ NextDate <= until
    BY <2>2, NextDateIsFirst DEF Dates
  <2>4. QED
    BY <1>1, <2>2, <2>3 DEF Ticking
<1>10. CASE UNCHANGED vars
  BY <1>10 DEF vars, windowVars, Ticking
<1>11. QED
  BY <1>3, <1>4, <1>5, <1>6, <1>7, <1>8, <1>9, <1>10 DEF Next, Settle, Closed

\* Inside a call the window stays as asked; outside none of its steps happens.
LEMMA SettleStays ==
    ASSUME TypeInv, Settle
    PROVE  /\ UNCHANGED <<until, policy>>
           /\ pc # "closing" => pc' \notin {"closing", "closed"} /\ pc \notin {"idle", "closed"}
           /\ pc = "closing" => EndPhase /\ pc' = "closed" /\ now' = now
<1>1. CASE \/ \E p \in Pools : Collect(p)
           \/ \E a \in Attempts : \/ Succeed(a) \/ Expire(a) \/ ServeWaiter(a) \/ Forward(a)
                                  \/ \E c \in Caches : ChooseCache(a, c)
           \/ Land \/ ReleaseServices
  BY <1>1 DEF Collect, Succeed, Expire, ServeWaiter, Forward, ChooseCache, Land,
              ReleaseServices, windowVars
<1>2. CASE Hit \/ JoinFetch \/ Evict \/ StartFetch \/ RejectStorage
  BY <1>2 DEF Hit, JoinFetch, Evict, Miss, StartFetch, RejectStorage, windowVars
<1>3. CASE (\E r \in Requests : Arrive(r)) \/ ArriveRetry \/ ExpireOnArrival \/ Place
  BY <1>3 DEF Arrive, ArriveRetry, ExpireOnArrival, Place, Placed, windowVars
<1>4. CASE EndPhase
  BY <1>4 DEF EndPhase, Through, PhaseAfter, windowVars
<1>5. CASE StartWaiting
  BY <1>5 DEF StartWaiting, windowVars
<1>6. CASE pc = "wait" /\ \E t \in now + 1 .. Horizon, ended \in SUBSET Started : Wait(t, ended)
  BY <1>6 DEF Wait, windowVars
<1>7. QED
  BY <1>1, <1>2, <1>3, <1>4, <1>5, <1>6 DEF Settle

LEMMA ServePaced ==
    ASSUME TypeInv, Paced, Serve
    PROVE  Next /\ Paced'
<1>1. UNCHANGED <<phase, direct, cycle, last_view, outcomes, settled, logical>>
  BY DEF Serve, learnerVars
<1>2. CASE Settle
  <2>1. CASE phase \in AtCaller
    <3>1. now' = now /\ until' = until /\ policy' = policy /\ pc' = "closed"
      BY <1>2, <2>1, SettleStays DEF Paced
    <3>2. QED
      BY <1>1, <1>2, <2>1, <3>1 DEF Paced, Next, AtCaller
  <2>2. CASE phase \notin AtCaller
    <3>1. until' = until /\ policy' = policy /\ pc' \notin {"closing", "closed"}
      BY <1>2, <2>2, SettleStays DEF Paced
    <3>2. QED
      BY <1>1, <1>2, <2>2, <3>1 DEF Paced, Next, AtCaller
  <2>3. QED
    BY <2>1, <2>2
<1>3. CASE \E t \in transfers : Cancel(t)
  <2>1. pc = "closing" /\ pc' = pc /\ now' = now /\ until' = until /\ policy' = policy
    BY <1>3 DEF Cancel, windowVars
  <2>2. QED
    BY <1>1, <1>3, <2>1 DEF Paced, Next
<1>4. QED
  BY <1>2, <1>3 DEF Serve

LEMMA BeginPaced ==
    ASSUME TypeInv, Ticking, Paced, BeginWindow
    PROVE  Next /\ Paced'
<1> DEFINE length == (cycle + 1) * Period - now
<1>1. /\ phase = "ready" /\ cycle \in Nat /\ cycle < Cycles
      /\ now < Horizon => now = cycle * Period
  BY DEF BeginWindow, Paced
<1>2. /\ Ask(length, MethodPolicies, "stepping") /\ now < Horizon
  BY DEF BeginWindow, Ask, AdvanceWindow
<1>3. /\ length = Period /\ length \in 1 .. Period /\ now + length = (cycle + 1) * Period
      /\ now \in Nat /\ (cycle + 1) * Period \in Nat
  BY <1>1, <1>2, Windows, EpisodeNumbers
<1>4. MethodPolicies \in SUBSET Policies
  BY DEF MethodPolicies
<1> HIDE DEF length
<1>5. /\ Advance /\ phase' = "stepping" /\ policy' \in Policies /\ pc' = "collect"
      /\ until' = IF now + length < Horizon THEN now + length ELSE Horizon
      /\ cycle' = cycle
  BY <1>2, <1>3, <1>4, AskAdvances
<1>6. until' <= (cycle + 1) * Period /\ (until' < Horizon => until' = (cycle + 1) * Period)
  BY <1>3, <1>5, EpisodeNumbers
<1>7. QED
  BY <1>1, <1>5, <1>6 DEF Paced, Next, AtCaller

LEMMA DrainPaced ==
    ASSUME TypeInv, Ticking, Paced, DrainWindow
    PROVE  Next /\ Paced'
<1> DEFINE length == Min({Limit - last_view.now, Period})
           P == IF Release = "window" THEN MethodPolicies ELSE {policy}
<1>1. /\ phase = "over" /\ cycle \in Nat /\ now < Limit /\ policy \in Policies
      /\ last_view.now = now /\ now \in Nat
  BY DEF DrainWindow, Paced, AtCaller, TypeInv, TypeOK
<1>2. Ask(length, P, "draining")
  BY DEF DrainWindow
<1>3. length \in 1 .. Period
  <2> DEFINE x == Limit - now
  <2>1. length = Min({x, Period}) /\ x \in Nat /\ x > 0
    BY <1>1, EpisodeNumbers
  <2> HIDE DEF x, length
  <2>2. Period \in Nat /\ Period > 0
    BY EpisodeNumbers
  <2>3. \E m \in {x, Period} : \A y \in {x, Period} : m <= y
    BY <2>1, <2>2
  <2>4. length \in {x, Period} /\ length <= x /\ length <= Period
    BY <2>1, <2>3 DEF Min
  <2>5. QED
    BY <2>1, <2>2, <2>4
<1>4. P \in SUBSET Policies
  BY <1>1 DEF MethodPolicies
<1> HIDE DEF length, P
<1>5. /\ Advance /\ phase' = "draining" /\ policy' \in Policies /\ pc' = "collect"
      /\ cycle' = cycle
  BY <1>2, <1>3, <1>4, AskAdvances
<1>6. QED
  BY <1>1, <1>5 DEF Paced, Next, AtCaller

LEMMA ReceivePaced ==
    ASSUME TypeInv, Ticking, Paced, Step \/ DrainStep
    PROVE  UNCHANGED vars /\ Paced'
<1>1. /\ UNCHANGED vars /\ pc = "idle" /\ last_view' = Inspect("scheduling")
  BY DEF Step, DrainStep, Receive
<1>2. UNCHANGED <<now, until, pc, policy>>
  BY <1>1 DEF vars, windowVars
<1>3. last_view'.now = now
  BY <1>1 DEF Inspect
<1>4. now \in Nat /\ now = until
  BY <1>1 DEF Ticking, TypeInv, TypeOK
<1>5. CASE Step
  <2>1. /\ phase = "stepping" /\ cycle \in Nat /\ cycle < Cycles /\ cycle' = cycle + 1
        /\ phase' = IF cycle' >= Cycles THEN "over" ELSE "ready"
        /\ until <= (cycle + 1) * Period /\ (until < Horizon => until = (cycle + 1) * Period)
        /\ policy \in Policies
    BY <1>5 DEF Step, Paced
  <2>2. (cycle + 1) * Period <= HorizonS /\ (cycle + 1) * Period \in Nat
    BY <2>1, Windows, EpisodeNumbers
  <2>3. now < Limit
    BY <1>4, <2>1, <2>2, EpisodeNumbers
  <2>4. CASE phase' = "over"
    BY <1>1, <1>2, <1>3, <2>1, <2>3, <2>4 DEF Paced, AtCaller
  <2>5. CASE phase' = "ready"
    <3>1. cycle' < Cycles
      BY <2>1, <2>5, EpisodeNumbers
    <3>2. QED
      BY <1>1, <1>2, <1>3, <1>4, <2>1, <2>5, <3>1 DEF Paced, AtCaller
  <2>6. QED
    BY <2>1, <2>4, <2>5
<1>6. CASE DrainStep
  <2>1. /\ phase = "draining" /\ cycle \in Nat /\ cycle' = cycle /\ policy \in Policies
        /\ phase' = IF Resolved \/ last_view'.now >= Limit THEN "drained" ELSE "over"
    BY <1>6 DEF DrainStep, Paced
  <2>2. phase' = "over" => now < Limit
    BY <1>3, <1>4, <2>1, EpisodeNumbers
  <2>3. QED
    BY <1>1, <1>2, <1>3, <2>1, <2>2 DEF Paced, AtCaller
<1>7. QED
  BY <1>1, <1>5, <1>6

LEMMA EpisodePaced ==
    ASSUME TypeInv, Ticking, Paced, [EnvNext]_envVars
    PROVE  [Next]_vars /\ Paced'
<1>1. CASE Step \/ DrainStep
  BY <1>1, ReceivePaced
<1>2. CASE CloseEnv
  <2>1. /\ Close /\ phase \in AtCaller /\ pc' = "closing"
        /\ UNCHANGED <<now, until, policy, phase, cycle, last_view>>
    BY <1>2 DEF CloseEnv, Close, learnerVars, windowVars, AtCaller
  <2>2. QED
    BY <2>1 DEF Next, Paced, AtCaller
<1>3. CASE UNCHANGED vars /\ UNCHANGED learnerVars
  BY <1>3 DEF vars, learnerVars, windowVars, Paced
<1>4. QED
  BY <1>1, <1>2, <1>3, ServePaced, BeginPaced, DrainPaced
  DEF EnvNext, Learner, Closed, envVars

LEMMA InitPaced == EnvInit => Init /\ Ticking /\ Paced
<1> SUFFICES ASSUME EnvInit PROVE Ticking /\ Paced
  BY DEF EnvInit
<1>1. now = 0 /\ until = 0 /\ pc = "idle"
  BY DEF EnvInit, Init
<1>2. last_view.now = 0
  BY <1>1 DEF EnvInit, Inspect
<1>3. 0 < Cycles /\ 0 * Period = 0
  BY EpisodeNumbers
<1>4. QED
  BY <1>1, <1>2, <1>3 DEF EnvInit, Ticking, Paced, AtCaller

LEMMA EpisodeInvariant == EnvSpec => [](TypeInv /\ Ticking /\ Paced)
<1>1. EnvInit => TypeInv /\ Ticking /\ Paced
  BY InitPaced, InitType
<1>2. TypeInv /\ Ticking /\ Paced /\ [EnvNext]_envVars => (TypeInv /\ Ticking /\ Paced)'
  BY EpisodePaced, NextType, NextTicking
<1>3. QED
  BY <1>1, <1>2, PTL DEF EnvSpec

\* An episode is a run of the service: every call of the scheduling environment
\* (begin, drain, close) is one the service accepts from any client, its windows
\* of positive length included, and its answers leave the service as it is.  So
\* what holds of every run of the service holds in every episode.
THEOREM EpisodesAreRuns == EnvSpec => Spec
<1>1. EnvInit => Init
  BY InitPaced
<1>2. TypeInv /\ Ticking /\ Paced /\ [EnvNext]_envVars => [Next]_vars
  BY EpisodePaced
<1>3. QED
  BY <1>1, <1>2, EpisodeInvariant, PTL DEF EnvSpec, Spec

-----------------------------------------------------------------------------
(* What the learner sees. *)

\* Whenever the caller has an answer: the last step was the answer, or nothing
\* has happened since.
LEMMA HeardSteps ==
    ASSUME TypeInv, Paced, [EnvNext]_envVars, Heard'
    PROVE  Step \/ DrainStep \/ (Heard /\ UNCHANGED vars /\ UNCHANGED learnerVars)
<1>1. pc' = "idle" /\ phase' \in AtCaller
  BY DEF Heard, AtCaller
<1>2. CASE Serve
  <2>1. phase \in AtCaller
    BY <1>1, <1>2 DEF Serve, learnerVars
  <2>2. pc \in {"idle", "closing", "closed"}
    BY <2>1 DEF Paced
  <2>3. pc' \in {"closed", "closing"}
    BY <1>2, <2>2, SettleStays DEF Serve, Cancel
  <2>4. QED
    BY <1>1, <2>3
<1>3. CASE BeginWindow \/ DrainWindow
  BY <1>1, <1>3 DEF BeginWindow, DrainWindow, Ask, AtCaller
<1>4. CASE CloseEnv
  BY <1>1, <1>4 DEF CloseEnv, Close
<1>5. CASE UNCHANGED vars /\ UNCHANGED learnerVars
  BY <1>1, <1>5 DEF vars, learnerVars, Heard, AtCaller
<1>6. QED
  BY <1>2, <1>3, <1>4, <1>5 DEF EnvNext, Learner, Closed, envVars

\* The snapshot of the caller is the present state of the service.
Shown ==
    /\ direct \in BOOLEAN /\ (direct => Release = "window")
    /\ Heard =>
        /\ last_view.waiting = queues
        /\ last_view.active = [s \in Clusters |-> busy[s].request]
        /\ last_view.counts = counts
        /\ Queued \subseteq DOMAIN last_view.requests
        /\ direct => Served \subseteq DOMAIN last_view.requests
        /\ \A a \in DOMAIN last_view.requests : last_view.requests[a].forwarded = forwarded[a]

LEMMA InspectShows ==
    ASSUME NEW scope
    PROVE  /\ Inspect(scope).waiting = queues
           /\ Inspect(scope).active = [s \in Clusters |-> busy[s].request]
           /\ Inspect(scope).counts = counts
           /\ DOMAIN Inspect(scope).requests = Selected(scope)
           /\ \A a \in Selected(scope) : Inspect(scope).requests[a].forwarded = forwarded[a]
  BY DEF Inspect

LEMMA NextShown ==
    ASSUME TypeInv, Paced, Shown, [EnvNext]_envVars
    PROVE  Shown'
<1>1. direct' = direct
  BY DEF EnvNext, Serve, Learner, BeginWindow, DrainWindow, Ask, Step, DrainStep, Receive,
         CloseEnv, learnerVars, envVars
<1>2. SUFFICES ASSUME Heard' PROVE Shown'
  BY <1>1 DEF Shown
<1>3. CASE Step \/ DrainStep
  <2>1. UNCHANGED <<queues, busy, forwarded, counts>> /\ last_view' = Inspect("scheduling")
    BY <1>3 DEF Step, DrainStep, Receive, vars, schedulerVars, placeVars, requestVars
  <2>2. /\ Queued \subseteq Selected("scheduling")
        /\ direct => Served \subseteq Selected("scheduling")
    BY DEF Selected, Shown
  <2>3. Queued' = Queued /\ Served' = Served
    BY <2>1 DEF Queued, Served
  <2>4. QED
    BY <1>1, <2>1, <2>2, <2>3, InspectShows DEF Shown
<1>4. CASE Heard /\ UNCHANGED vars /\ UNCHANGED learnerVars
  <2>1. UNCHANGED <<queues, busy, forwarded, counts, last_view>>
    BY <1>4 DEF vars, schedulerVars, placeVars, requestVars, learnerVars
  <2>2. Queued' = Queued /\ Served' = Served
    BY <2>1 DEF Queued, Served
  <2>3. QED
    BY <1>1, <1>4, <2>1, <2>2 DEF Shown
<1>5. QED
  BY <1>2, <1>3, <1>4, HeardSteps

LEMMA InitShown == EnvInit => Shown
<1> SUFFICES ASSUME EnvInit PROVE Shown
  OBVIOUS
<1>1. /\ queues = [s \in Clusters |-> <<>>] /\ busy = [s \in Clusters |-> Idle]
      /\ last_view = Inspect("full") /\ direct \in BOOLEAN /\ (direct => Release = "window")
  BY DEF EnvInit, Init
<1>2. Queued = {} /\ Served = {}
  BY <1>1 DEF Queued, Served, Idle, ToSet
<1>3. QED
  BY <1>1, <1>2, InspectShows DEF Shown

LEMMA ShownInvariant == EnvSpec => []Shown
<1>1. TypeInv /\ Ticking /\ Paced /\ Shown /\ [EnvNext]_envVars => Shown'
  BY NextShown
<1>2. QED
  BY <1>1, InitShown, EpisodeInvariant, PTL DEF EnvSpec

LEMMA ShownFits ==
    ASSUME TypeInv, HoldInv, QueueLimits, Shown, Heard, NEW s \in Clusters
    PROVE  /\ Encoded(s) \cup Observed(s) \subseteq DOMAIN last_view.requests
           /\ Len(RequestSlots(s)) <= QueueLimit[s] + 1
           /\ direct => Decided(s) = Expected(s)
<1> DEFINE q == queues[s]
           b == busy[s].request
           first == IF b # None THEN <<b>> ELSE <<>>
<1>1. /\ q \in Seq(Attempts) /\ Len(q) <= QueueLimit[s] /\ QueueLimit[s] \in Nat
      /\ b \in Attempts \cup {None}
  BY PlatformAssumption DEF QueueLimits, TypeInv, TypeOK, SchedulerTypeOK
<1>2. last_view.waiting[s] = q /\ last_view.active[s] = b
  BY DEF Shown
<1>3. RequestSlots(s) = first \o q /\ Encoded(s) = ToSet(q)
  BY <1>2 DEF RequestSlots, Encoded
<1>4. first \in Seq(Attempts) /\ Len(first) <= 1 /\ ToSet(first) = {b} \ {None}
  <2>1. CASE b = None
    BY <2>1, EmptySeq DEF ToSet
  <2>2. CASE b # None
    <3>1. /\ b \in Attempts /\ first = <<b>> /\ <<b>> \in Seq(Attempts) /\ Len(<<b>>) = 1
          /\ DOMAIN <<b>> = 1 .. 1 /\ <<b>>[1] = b
      BY <1>1, <2>2
    <3>2. ToSet(<<b>>) = {b}
      BY <3>1 DEF ToSet
    <3>3. QED
      BY <2>2, <3>1, <3>2
  <2>3. QED
    BY <2>1, <2>2
<1> HIDE DEF q, b, first
<1>5. /\ ToSet(first \o q) = ({b} \ {None}) \cup ToSet(q)
      /\ Len(first \o q) = Len(first) + Len(q) /\ Len(first) \in Nat /\ Len(q) \in Nat
  BY <1>1, <1>4, ConcatSet, ConcatProperties, LenProperties
<1>6. ToSet(q) \subseteq Queued /\ {b} \ {None} \subseteq Served
  BY DEF Queued, Served, q, b
<1>7. Encoded(s) \cup Observed(s) \subseteq DOMAIN last_view.requests
  BY <1>3, <1>5, <1>6 DEF Observed, Shown
<1>8. Len(RequestSlots(s)) <= QueueLimit[s] + 1
  BY <1>1, <1>3, <1>4, <1>5
<1>9. ASSUME direct PROVE Decided(s) = Expected(s)
  <2>1. ToSet(RequestSlots(s)) \subseteq DOMAIN last_view.requests
    BY <1>3, <1>5, <1>6, <1>9 DEF Shown
  <2>2. Decided(s) = {a \in ToSet(RequestSlots(s)) : ~forwarded[a]}
    BY <2>1 DEF Decided, Shown
  <2>3. \A a \in ToSet(RequestSlots(s)) : a \in live /\ cluster[a] = s
    BY <1>3, <1>5 DEF HoldInv, Alive, AtHome, InQueues, InService, q, b
  <2>4. \A a \in live : cluster[a] = s =>
           (a \in ToSet(RequestSlots(s)) <=> a \in ToSet(queues[cluster[a]]) \/ busy[cluster[a]].request = a)
    <3>1. None \notin live
      BY SetsAssumption DEF TypeInv, TypeOK, RequestTypeOK
    <3>2. QED
      BY <1>3, <1>5, <3>1 DEF q, b
  <2>5. QED
    BY <2>2, <2>3, <2>4 DEF Expected, Visible
<1>10. QED
  BY <1>7, <1>8, <1>9

\* Whenever the learner has an answer, the snapshot fits what it does with it:
\* every request its observations look up is shown (_encode, _observations), the
\* slots of a cluster suffice (_request_slots), and the requests it decides are
\* the ones the service expects decisions for (control and advance_window).
THEOREM ControlsFit == EnvSpec => []ControlFits
<1>1. TypeInv /\ HoldInv /\ WithinLimits /\ Shown => ControlFits
  BY ShownFits DEF ControlFits, WithinLimits, QueueLimits
<1>2. QED
  BY <1>1, EpisodesAreRuns, HolderInvariant, LimitsHold, ShownInvariant, PTL

-----------------------------------------------------------------------------
(***************************************************************************)
(* What the learner counts: the outcomes it was told are those of all      *)
(* attempts that had ended when its last window began, and the others are  *)
(* on their way in the window's own report.                                *)
(***************************************************************************)
OutcomeOf(a) == [status |-> status[a], arrival |-> arrival[a], completed |-> finished[a]]
Resolving(a) == status[a] = "SUCCEEDED" \/ (status[a] \in Failed /\ a[2] = MaxRetries)
Ended == {a \in Attempts : status[a] \in Terminal}
Won(S) == {a \in S : status[a] = "SUCCEEDED"}
Given(S) == {a \in S : status[a] \in Failed /\ a[2] = MaxRetries}
Told ==
    /\ DOMAIN outcomes \subseteq Ended
    /\ \A a \in DOMAIN outcomes : outcomes[a] = OutcomeOf(a)
    /\ IsFiniteSet(DOMAIN outcomes)
    /\ phase \in AtCaller => Ended \subseteq DOMAIN outcomes
    /\ phase \notin AtCaller => /\ Ended \subseteq DOMAIN outcomes \cup changed
                                /\ changed \cap DOMAIN outcomes = {}
Tallied ==
    /\ settled = {a[1] : a \in {b \in DOMAIN outcomes : Resolving(b)}}
    /\ logical = [completed |-> Cardinality(Won(DOMAIN outcomes)),
                  failed |-> Cardinality(Given(DOMAIN outcomes))]

LEMMA NextIsAbsent ==
    ASSUME TypeInv, AttemptInv, NEW a \in live, NEW o, Retries(a, o)
    PROVE  <<a[1], a[2] + 1>> \in Attempts /\ status[<<a[1], a[2] + 1>>] = "ABSENT"
<1>1. a \in Attempts
  BY DEF TypeInv, TypeOK, RequestTypeOK
<1>2. /\ a[1] \in Requests /\ a[2] + 1 \in 0 .. MaxRetries
      /\ a[2] \in 0 .. (a[2] + 1) - 1
  BY <1>1, AttemptParts DEF Retries
<1>3. status[<<a[1], a[2]>>] \notin Failed
  BY <1>1, AttemptParts, StatusDisjoint DEF AttemptInv, Statused, StatusFits
<1>4. QED
  BY <1>2, <1>3, AttemptParts DEF AttemptInv, Chained

\* What has ended stays as it ended.
LEMMA OutcomesStay ==
    ASSUME TypeInv, HoldInv, AttemptInv, [Next]_vars
    PROVE  \A a \in Ended : /\ status'[a] = status[a] /\ arrival'[a] = arrival[a]
                            /\ finished'[a] = finished[a] /\ a \notin live
<1> SUFFICES ASSUME NEW a \in Ended
             PROVE  /\ status'[a] = status[a] /\ arrival'[a] = arrival[a]
                    /\ finished'[a] = finished[a] /\ a \notin live
  OBVIOUS
<1>1. a \in Attempts /\ a \notin live /\ status[a] # "ABSENT"
  BY StatusDisjoint DEF Ended, AttemptInv, Statused, StatusFits
<1>2. CASE \E b \in Attempts, o \in Terminal : Ending(b, o)
  <2>1. PICK b \in Attempts, o \in Terminal : Ending(b, o)
    BY <1>2
  <2>2. b \in live /\ a # b /\ (Retries(b, o) => a # <<b[1], b[2] + 1>>)
    BY <1>1, <2>1, NextIsAbsent DEF Ending
  <2>3. status \in [Attempts -> Statuses] /\ arrival \in [Attempts -> Nat]
        /\ finished \in [Attempts -> Nat]
    BY DEF TypeInv, TypeOK, RequestTypeOK
  <2>4. QED
    BY <1>1, <2>1, <2>2, <2>3 DEF Ending, Conclude
<1>3. QED
  BY <1>1, <1>2, StepsOfAttempts DEF Standing, Arriving

\* Inside a call the report of the window only grows.
LEMMA SettleReports ==
    ASSUME TypeInv, Settle
    PROVE  changed \subseteq changed'
<1>1. ASSUME NEW a, NEW o, Finish(a, o) PROVE changed \subseteq changed'
  BY <1>1 DEF Finish, Conclude, Report
<1>2. ASSUME NEW a, NEW s, SetStatus(a, s) PROVE changed \subseteq changed'
  BY <1>2 DEF SetStatus
<1>3. CASE \E a \in Attempts : Succeed(a) \/ Expire(a) \/ ServeWaiter(a)
  BY <1>1, <1>2, <1>3 DEF Succeed, Expire, ServeWaiter, Deliver
<1>4. CASE \/ \E p \in Pools : Collect(p)
           \/ \E a \in Attempts : Forward(a) \/ \E c \in Caches : ChooseCache(a, c)
           \/ Land \/ ReleaseServices
  BY <1>4 DEF Collect, Forward, ChooseCache, Land, ReleaseServices, requestVars
<1>5. CASE Hit \/ JoinFetch \/ StartFetch \/ RejectStorage
  BY <1>1, <1>2, <1>5 DEF Hit, Deliver, JoinFetch, StartFetch, RejectStorage
<1>6. CASE Evict
  BY <1>6 DEF Evict, requestVars
<1>7. CASE (\E r \in Requests : Arrive(r)) \/ ArriveRetry
  BY <1>7 DEF Arrive, ArriveRetry
<1>8. CASE ExpireOnArrival \/ Place
  BY <1>1, <1>2, <1>8 DEF ExpireOnArrival, Place, Enqueue
<1>9. CASE EndPhase \/ StartWaiting
  BY <1>9 DEF EndPhase, StartWaiting, requestVars
<1>10. CASE pc = "wait" /\ \E t \in now + 1 .. Horizon, ended \in SUBSET Started : Wait(t, ended)
  BY <1>10 DEF Wait, requestVars
<1>11. QED
  BY <1>3, <1>4, <1>5, <1>6, <1>7, <1>8, <1>9, <1>10 DEF Settle

\* What ends inside a call is reported, and nothing else is.
LEMMA EndsReported ==
    ASSUME TypeInv, HoldInv, AttemptInv, Settle
    PROVE  /\ Ended' \subseteq Ended \cup changed'
           /\ changed' \cap Ended \subseteq changed
<1>1. changed \subseteq changed' /\ [Next]_vars
  BY SettleReports DEF Next
<1>2. status \in [Attempts -> Statuses] /\ status' \in [Attempts -> Statuses]
  BY <1>1, NextType DEF TypeInv, TypeOK, RequestTypeOK
<1>3. CASE Standing
  BY <1>1, <1>3, StatusDisjoint DEF Standing, Ended
<1>4. CASE \E a \in Attempts, o \in Terminal : Ending(a, o)
  <2>1. PICK a \in Attempts, o \in Terminal : Ending(a, o)
    BY <1>4
  <2>2. a \in live /\ a \notin Ended
    BY <1>1, <2>1, OutcomesStay DEF Ending
  <2>3. changed' = changed \cup {a}
    BY <2>1 DEF Ending, Conclude, Report
  <2>4. \A b \in Attempts \ {a} : status'[b] = status[b] \/ status'[b] = "PENDING"
    BY <1>2, <2>1 DEF Ending, Conclude
  <2>5. QED
    BY <2>2, <2>3, <2>4, StatusDisjoint DEF Ended
<1>5. CASE \E a \in Attempts : Arriving(a)
  BY <1>5 DEF Arriving, Ended
<1>6. QED
  BY <1>1, <1>3, <1>4, <1>5, StepsOfAttempts

LEMMA OneToOne ==
    ASSUME NEW S, IsFiniteSet(S), \A a, b \in S : a[1] = b[1] => a = b
    PROVE  IsFiniteSet({a[1] : a \in S}) /\ Cardinality({a[1] : a \in S}) = Cardinality(S)
<1> DEFINE T == {a[1] : a \in S}
           f == [a \in S |-> a[1]]
<1>1. f \in Bijection(S, T)
  BY DEF Bijection, Injection, Surjection, IsInjective
<1>2. ExistsBijection(S, T)
  BY <1>1 DEF ExistsBijection
<1>3. QED
  BY <1>2, FS_Bijection

\* What has an attempt after it has failed, with retries left.
LEMMA EarlierFailed ==
    ASSUME TypeInv, AttemptInv, NEW a \in Attempts, NEW b \in Attempts,
           a[1] = b[1], a[2] < b[2], status[b] # "ABSENT"
    PROVE  status[a] \in Failed /\ a[2] # MaxRetries
<1> DEFINE i == a[2]
           j == b[2]
           r == a[1]
<1>1. /\ a = <<r, i>> /\ b = <<r, j>> /\ r \in Requests
      /\ i \in 0 .. MaxRetries /\ j \in 0 .. MaxRetries /\ i < j /\ MaxRetries \in Nat
  BY AttemptParts
<1> HIDE DEF i, j, r
<1>2. i \in 0 .. j - 1 /\ i # MaxRetries
  BY <1>1
<1>3. status[<<r, i>>] \in Failed
  BY <1>1, <1>2 DEF AttemptInv, Chained
<1>4. QED
  BY <1>1, <1>2, <1>3 DEF i

\* An original is resolved by one attempt.
LEMMA ResolvedByOne ==
    ASSUME TypeInv, AttemptInv, NEW a \in Attempts, NEW b \in Attempts,
           a[1] = b[1], Resolving(a), Resolving(b)
    PROVE  a = b
<1>1. status[a] # "ABSENT" /\ status[b] # "ABSENT"
  BY DEF Resolving, Failed
<1>2. ~(a[2] < b[2]) /\ ~(b[2] < a[2])
  BY <1>1, EarlierFailed DEF Resolving, Failed
<1>3. a[2] \in Int /\ b[2] \in Int
  BY AttemptParts
<1>4. a[2] = b[2]
  BY <1>2, <1>3
<1>5. QED
  BY <1>4, AttemptParts

LEMMA InitTold == EnvInit => Told /\ Tallied
<1> SUFFICES ASSUME EnvInit PROVE Told /\ Tallied
  OBVIOUS
<1>1. /\ outcomes = <<>> /\ settled = {} /\ logical = [completed |-> 0, failed |-> 0]
      /\ phase = "ready" /\ status = [a \in Attempts |-> IF a[2] = 0 THEN "PENDING" ELSE "ABSENT"]
  BY DEF EnvInit, Init
<1>2. DOMAIN outcomes = {}
  BY <1>1
<1>3. Ended = {}
  BY <1>1 DEF Ended, Terminal
<1>4. Won({}) = {} /\ Given({}) = {}
  BY DEF Won, Given
<1>5. QED
  BY <1>1, <1>2, <1>3, <1>4, FS_EmptySet DEF Told, Tallied, AtCaller

\* Nothing is told, and the learner counts as before.
LEMMA UntoldTallied ==
    ASSUME Told, Tallied, UNCHANGED <<outcomes, settled, logical>>,
           \A a \in Ended : status'[a] = status[a] /\ arrival'[a] = arrival[a]
                            /\ finished'[a] = finished[a]
    PROVE  /\ Tallied' /\ DOMAIN outcomes' \subseteq Ended'
           /\ \A a \in DOMAIN outcomes' : outcomes'[a] = OutcomeOf(a)'
           /\ IsFiniteSet(DOMAIN outcomes')
<1> DEFINE D == DOMAIN outcomes
<1>1. /\ D \subseteq Ended /\ DOMAIN outcomes' = D /\ IsFiniteSet(D)
      /\ \A a \in D : status'[a] = status[a] /\ arrival'[a] = arrival[a]
                      /\ finished'[a] = finished[a] /\ outcomes'[a] = outcomes[a]
      /\ \A a \in D : outcomes[a] = OutcomeOf(a)
  BY DEF Told
<1>2. D \subseteq Ended'
  BY <1>1 DEF Ended
<1>3. \A a \in D : outcomes'[a] = OutcomeOf(a)'
  BY <1>1 DEF OutcomeOf
<1> HIDE DEF D
<1>4. /\ Won(D)' = {a \in D' : status'[a] = "SUCCEEDED"}
      /\ Given(D)' = {a \in D' : status'[a] \in Failed /\ a[2] = MaxRetries}
      /\ {b \in D : Resolving(b)}' = {b \in D' : status'[b] = "SUCCEEDED"
                                                  \/ (status'[b] \in Failed /\ b[2] = MaxRetries)}
  BY DEF Won, Given, Resolving
<1>5. D' = D
  BY DEF D
<1>6. /\ Won(D)' = Won(D) /\ Given(D)' = Given(D)
      /\ {b \in D : Resolving(b)}' = {b \in D : Resolving(b)}
  BY <1>1, <1>4, <1>5 DEF Won, Given, Resolving
<1>7. {a[1] : a \in {b \in D : Resolving(b)}}' = {a[1] : a \in {b \in D : Resolving(b)}}
  BY <1>6
<1>8. Tallied'
  BY <1>6, <1>7 DEF Tallied, D
<1>9. QED
  BY <1>1, <1>2, <1>3, <1>8

LEMMA ServeTold ==
    ASSUME TypeInv, HoldInv, AttemptInv, Paced, Told, Tallied, Serve
    PROVE  Told' /\ Tallied'
<1>1. /\ UNCHANGED <<phase, outcomes, settled, logical>>
      /\ [Next]_vars
  BY DEF Serve, learnerVars, Next
<1>2. \A a \in Ended : status'[a] = status[a] /\ arrival'[a] = arrival[a]
                       /\ finished'[a] = finished[a]
  BY <1>1, OutcomesStay
<1>3. /\ Tallied' /\ DOMAIN outcomes' \subseteq Ended'
      /\ \A a \in DOMAIN outcomes' : outcomes'[a] = OutcomeOf(a)'
      /\ IsFiniteSet(DOMAIN outcomes')
  BY <1>1, <1>2, UntoldTallied
<1>4. CASE phase \in AtCaller
  <2>1. pc \in {"idle", "closing", "closed"}
    BY <1>4 DEF Paced
  <2>2. UNCHANGED status
    BY <2>1, SettleStays DEF Serve, Cancel, EndPhase, requestVars
  <2>3. Ended' = Ended
    BY <2>2 DEF Ended
  <2>4. QED
    BY <1>1, <1>3, <1>4, <2>3 DEF Told, AtCaller
<1>5. CASE phase \notin AtCaller
  <2>1. Settle
    BY <1>5 DEF Serve, Cancel, Paced, AtCaller
  <2>2. Ended' \subseteq Ended \cup changed' /\ changed' \cap Ended \subseteq changed
        /\ changed \subseteq changed'
    BY <2>1, EndsReported, SettleReports
  <2>3. Ended' \subseteq DOMAIN outcomes' \cup changed' /\ changed' \cap DOMAIN outcomes' = {}
    BY <1>1, <1>5, <2>2 DEF Told
  <2>4. QED
    BY <1>1, <1>3, <1>5, <2>3 DEF Told, AtCaller
<1>6. QED
  BY <1>4, <1>5

LEMMA AskTold ==
    ASSUME Paced, Told, Tallied, BeginWindow \/ DrainWindow
    PROVE  Told' /\ Tallied'
<1>1. /\ UNCHANGED <<status, arrival, finished, outcomes, settled, logical>>
      /\ changed' = {} /\ phase \in AtCaller /\ phase' \notin AtCaller
  BY DEF BeginWindow, DrainWindow, Ask, AdvanceWindow, AtCaller
<1>2. /\ Tallied' /\ DOMAIN outcomes' \subseteq Ended'
      /\ \A a \in DOMAIN outcomes' : outcomes'[a] = OutcomeOf(a)'
      /\ IsFiniteSet(DOMAIN outcomes')
  BY <1>1, UntoldTallied
<1>3. Ended' = Ended
  BY <1>1 DEF Ended
<1>4. QED
  BY <1>1, <1>2, <1>3 DEF Told

LEMMA ReceiveTold ==
    ASSUME TypeInv, AttemptInv, IsFiniteSet(changed), Told, Tallied, Step \/ DrainStep
    PROVE  Told' /\ Tallied'
<1> DEFINE D == DOMAIN outcomes
           N == {b \in changed : status[b] \in Terminal}
           told == [a \in N |-> OutcomeOf(a)]
           won == {a \in Newly(told) : told[a].status = "SUCCEEDED"}
<1>1. /\ UNCHANGED <<status, arrival, finished, changed>>
      /\ phase \notin AtCaller /\ phase' \in AtCaller
      /\ last_view'.outcomes = told
  BY DEF Step, DrainStep, Receive, Inspect, OutcomeOf, vars, requestVars, AtCaller
<1>2. /\ outcomes' = UpdatedWith(told)
      /\ settled' = settled \cup {a[1] : a \in Newly(told)}
      /\ logical' = [completed |-> logical.completed + Cardinality(won),
                     failed |-> logical.failed + Cardinality(Newly(told) \ won)]
  BY <1>1 DEF Step, DrainStep, Receive, SettleLogical
<1>3. /\ changed \subseteq Attempts /\ status \in [Attempts -> Statuses]
      /\ D \subseteq Ended /\ Ended \subseteq D \cup changed /\ changed \cap D = {}
      /\ IsFiniteSet(D)
  BY <1>1 DEF Told, TypeInv, TypeOK, RequestTypeOK
<1>4. /\ N \subseteq Ended /\ Ended = D \cup N /\ N \cap D = {} /\ N \subseteq changed
  BY <1>3 DEF Ended
<1>5. IsFiniteSet(N) /\ IsFiniteSet(D \cup N)
  BY <1>3, <1>4, FS_Subset, FS_Union
<1>6. \A a \in N : told[a] = OutcomeOf(a) /\ told[a].status = status[a] /\ DOMAIN told = N
  BY DEF OutcomeOf
<1>7. /\ DOMAIN outcomes' = D \cup N
      /\ \A a \in N : outcomes'[a] = OutcomeOf(a)
      /\ \A a \in D : outcomes'[a] = OutcomeOf(a)
  BY <1>2, <1>4, <1>6 DEF UpdatedWith, Told
<1> HIDE DEF told
<1>8. Newly(told) = {a \in N : Resolving(a)}
  <2>1. DOMAIN told = N
    BY DEF told
  <2>2. \A a \in N : Final(a, told[a]) <=> Resolving(a)
    BY <1>6 DEF Final, Exhausted, Resolving, Failed
  <2>3. \A a \in N : Resolving(a) => a[1] \notin settled
    <3> SUFFICES ASSUME NEW a \in N, Resolving(a), a[1] \in settled PROVE FALSE
      OBVIOUS
    <3>1. PICK b \in D : Resolving(b) /\ b[1] = a[1]
      BY DEF Tallied
    <3>2. a \in Attempts /\ b \in Attempts /\ a # b
      BY <1>3, <1>4 DEF Ended
    <3>3. QED
      BY <3>1, <3>2, ResolvedByOne
  <2>4. QED
    BY <2>1, <2>2, <2>3 DEF Newly
<1> HIDE DEF N, D
<1>9. won = Won(N) /\ Newly(told) \ won = Given(N)
  <2>1. Won(N) \cap Given(N) = {} /\ "SUCCEEDED" \notin Failed
    BY StatusDisjoint DEF Won, Given
  <2>2. \A a \in N : Resolving(a) <=> a \in Won(N) \/ a \in Given(N)
    BY DEF Resolving, Won, Given
  <2>3. won = Won(N)
    BY <1>6, <1>8, <2>2 DEF Won
  <2>4. QED
    BY <1>8, <2>1, <2>2, <2>3 DEF Won, Given
<1>10. /\ Won(D \cup N) = Won(D) \cup Won(N) /\ Won(D) \cap Won(N) = {}
       /\ Given(D \cup N) = Given(D) \cup Given(N) /\ Given(D) \cap Given(N) = {}
  BY <1>4 DEF Won, Given
<1>11. /\ IsFiniteSet(Won(D)) /\ IsFiniteSet(Won(N))
       /\ IsFiniteSet(Given(D)) /\ IsFiniteSet(Given(N))
  BY <1>3, <1>5, FS_Subset DEF Won, Given, D
<1>12. /\ Cardinality(Won(D \cup N)) = Cardinality(Won(D)) + Cardinality(Won(N))
       /\ Cardinality(Given(D \cup N)) = Cardinality(Given(D)) + Cardinality(Given(N))
  <2>1. \A S, T : IsFiniteSet(S) /\ IsFiniteSet(T) /\ S \cap T = {} =>
                    Cardinality(S \cup T) = Cardinality(S) + Cardinality(T)
    <3> SUFFICES ASSUME NEW S, NEW T, IsFiniteSet(S), IsFiniteSet(T), S \cap T = {}
                 PROVE  Cardinality(S \cup T) = Cardinality(S) + Cardinality(T)
      OBVIOUS
    <3>1. Cardinality(S \cup T) = Cardinality(S) + Cardinality(T) - Cardinality(S \cap T)
      BY FS_Union
    <3>2. Cardinality(S) \in Nat /\ Cardinality(T) \in Nat /\ Cardinality(S \cap T) = 0
      BY FS_EmptySet, FS_CardinalityType
    <3>3. QED
      BY <3>1, <3>2
  <2>2. QED
    BY <1>10, <1>11, <2>1
<1>13. {b \in D \cup N : Resolving(b)} = {b \in D : Resolving(b)} \cup {b \in N : Resolving(b)}
  OBVIOUS
<1>14. /\ settled' = {a[1] : a \in {b \in D \cup N : Resolving(b)}}
       /\ logical' = [completed |-> Cardinality(Won(D \cup N)),
                      failed |-> Cardinality(Given(D \cup N))]
  BY <1>2, <1>8, <1>9, <1>12, <1>13 DEF Tallied, D
<1>15. Tallied'
  BY <1>1, <1>7, <1>14 DEF Tallied, Won, Given, Resolving
<1>16. \A a \in DOMAIN outcomes' : outcomes'[a] = OutcomeOf(a)'
  BY <1>1, <1>7 DEF OutcomeOf
<1>17. Told'
  <2>1. Ended' = Ended
    BY <1>1 DEF Ended
  <2>2. QED
    BY <1>1, <1>3, <1>4, <1>5, <1>7, <1>16, <2>1 DEF Told, AtCaller
<1>18. QED
  BY <1>15, <1>17

LEMMA NextTold ==
    ASSUME TypeInv, HoldInv, AttemptInv, Counted, Ticking, Paced, Told, Tallied,
           [EnvNext]_envVars
    PROVE  Told' /\ Tallied'
<1>1. CASE Step \/ DrainStep
  BY <1>1, ReceiveTold DEF Counted
<1>2. CASE Serve
  BY <1>2, ServeTold
<1>3. CASE BeginWindow \/ DrainWindow
  BY <1>3, AskTold
<1>4. CASE CloseEnv \/ (UNCHANGED vars /\ UNCHANGED learnerVars)
  <2>1. UNCHANGED <<status, arrival, finished, changed, phase, outcomes, settled, logical>>
    BY <1>4 DEF CloseEnv, Close, vars, requestVars, learnerVars
  <2>2. Ended' = Ended
    BY <2>1 DEF Ended
  <2>3. /\ Tallied' /\ DOMAIN outcomes' \subseteq Ended'
        /\ \A a \in DOMAIN outcomes' : outcomes'[a] = OutcomeOf(a)'
        /\ IsFiniteSet(DOMAIN outcomes')
    BY <2>1, UntoldTallied
  <2>4. QED
    BY <2>1, <2>2, <2>3 DEF Told
<1>5. QED
  BY <1>1, <1>2, <1>3, <1>4 DEF EnvNext, Learner, Closed, envVars

LEMMA ToldInvariant == EnvSpec => [](Told /\ Tallied)
<1>1. TypeInv /\ HoldInv /\ AttemptInv /\ Counted /\ Ticking /\ Paced /\ Told /\ Tallied
      /\ [EnvNext]_envVars => Told' /\ Tallied'
  BY NextTold
<1>2. QED
  BY <1>1, InitTold, EpisodesAreRuns, EpisodeInvariant, HolderInvariant, CountedInvariant, PTL
  DEF EnvSpec

\* Which originals the ledger calls succeeded, and which lost.
LEMMA StagesTell ==
    ASSUME TypeInv, AttemptInv, NEW r \in Requests
    PROVE  /\ Stage(r) = "succeeded" <=> \E a \in Attempts : a[1] = r /\ status[a] = "SUCCEEDED"
           /\ (Stage(r) = "failed" /\ LastAttempt(r) = MaxRetries)
                 <=> status[<<r, MaxRetries>>] \in Failed
<1>1. PICK k \in 0 .. MaxRetries : LastIn(status, r, k)
  BY SomeLast
<1>2. LastAttempt(r) = k /\ Stage(r) = StageIn(unarrived, live, status, r, k)
  BY <1>1, ShownBefore
<1>3. /\ \A j \in 0 .. MaxRetries : <<r, j>> \in Attempts /\ <<r, j>>[1] = r
      /\ MaxRetries \in Nat /\ MaxRetries \in 0 .. MaxRetries
      /\ \A a \in Attempts : a[1] = r => a[2] \in 0 .. MaxRetries /\ a = <<r, a[2]>>
  BY AttemptParts
<1>4. \A j \in k + 1 .. MaxRetries : status[<<r, j>>] = "ABSENT"
  BY <1>1 DEF LastIn
<1>5. \A j \in 0 .. k - 1 : status[<<r, j>>] \in Failed
  BY <1>1 DEF LastIn, AttemptInv, Chained
<1>6. \A j \in 0 .. MaxRetries : j = k \/ j \in k + 1 .. MaxRetries \/ j \in 0 .. k - 1
  BY <1>3
<1>7. r \in unarrived => k = 0 /\ status[<<r, 0>>] = "PENDING"
  <2>1. r \in unarrived => LastIn(status, r, 0) /\ status[<<r, 0>>] = "PENDING"
    BY UnarrivedPending
  <2>2. LastIn(status, r, 0) => k = 0
    BY <1>1, <1>3 DEF LastIn
  <2>3. QED
    BY <2>1, <2>2
<1>8. status[<<r, k>>] \in Terminal => <<r, k>> \notin live
  BY <1>3, StatusDisjoint DEF AttemptInv, Statused, StatusFits
<1>9. \A j \in 0 .. MaxRetries : status[<<r, j>>] = "SUCCEEDED" => j = k
  BY <1>4, <1>5, <1>6, StatusDisjoint
<1>10. status[<<r, MaxRetries>>] \in Failed => MaxRetries = k
  BY <1>3, <1>4, <1>6, StatusDisjoint
<1>11. Stage(r) = "succeeded" <=> status[<<r, k>>] = "SUCCEEDED"
  BY <1>2, <1>7 DEF StageIn
<1>12. Stage(r) = "failed" <=> status[<<r, k>>] \in Failed
  BY <1>2, <1>7, <1>8, StatusDisjoint DEF StageIn, Failed
<1>13. (\E a \in Attempts : a[1] = r /\ status[a] = "SUCCEEDED") <=> status[<<r, k>>] = "SUCCEEDED"
  BY <1>3, <1>9
<1>14. QED
  BY <1>2, <1>10, <1>11, <1>12, <1>13

LEMMA ToldCounts ==
    ASSUME TypeInv, AttemptInv, Told, Tallied, phase \in AtCaller
    PROVE  /\ settled = Succeeded \cup Lost
           /\ logical.completed = Cardinality(Succeeded)
           /\ logical.failed = Cardinality(Lost)
           /\ DOMAIN outcomes = {a \in Attempts : status[a] \in Terminal}
<1>1. DOMAIN outcomes = Ended /\ Ended \subseteq Attempts
  BY DEF Told, Ended
<1>2. \A a \in Attempts : Resolving(a) => a \in Ended
  BY DEF Resolving, Ended, Terminal, Failed
<1>3. Succeeded = {a[1] : a \in Won(Ended)}
  <2>1. \A a \in Attempts : a \in Won(Ended) <=> status[a] = "SUCCEEDED"
    BY DEF Won, Ended, Terminal
  <2>2. \A a \in Attempts : a[1] \in Requests
    BY AttemptParts
  <2>3. \A r \in Requests : r \in Succeeded <=> \E a \in Attempts : a[1] = r /\ status[a] = "SUCCEEDED"
    BY StagesTell DEF Succeeded
  <2>4. Succeeded \subseteq Requests /\ Won(Ended) \subseteq Attempts
    BY <1>1 DEF Succeeded, Won
  <2>5. \A r \in Succeeded : \E a \in Won(Ended) : a[1] = r
    BY <2>1, <2>3, <2>4
  <2>6. \A a \in Won(Ended) : a[1] \in Succeeded
    BY <2>1, <2>2, <2>3, <2>4
  <2>7. QED
    BY <2>5, <2>6
<1>4. Lost = {a[1] : a \in Given(Ended)}
  <2>1. \A r \in Requests : status[<<r, MaxRetries>>] \in Failed <=> <<r, MaxRetries>> \in Given(Ended)
    BY AttemptParts, StatusDisjoint DEF Given, Ended
  <2>2. \A a \in Given(Ended) : a[1] \in Requests /\ a = <<a[1], MaxRetries>>
    BY <1>1, AttemptParts DEF Given
  <2>3. \A r \in Requests : <<r, MaxRetries>>[1] = r
    OBVIOUS
  <2>4. \A r \in Requests : r \in Lost <=> <<r, MaxRetries>> \in Given(Ended)
    BY <2>1, StagesTell DEF Lost
  <2>5. Lost \subseteq Requests
    BY DEF Lost
  <2>6. \A r \in Lost : <<r, MaxRetries>> \in Given(Ended) /\ r = <<r, MaxRetries>>[1]
    BY <2>3, <2>4, <2>5
  <2>7. \A a \in Given(Ended) : <<a[1], MaxRetries>> \in Given(Ended)
    BY <2>2
  <2>8. \A a \in Given(Ended) : a[1] \in Lost
    BY <2>2, <2>4, <2>7
  <2>9. QED
    BY <2>6, <2>8
<1>5. {b \in Ended : Resolving(b)} = Won(Ended) \cup Given(Ended)
  BY DEF Resolving, Won, Given
<1>6. settled = Succeeded \cup Lost
  BY <1>1, <1>3, <1>4, <1>5 DEF Tallied
<1>7. IsFiniteSet(Won(Ended)) /\ IsFiniteSet(Given(Ended))
  BY <1>1, FS_Subset DEF Won, Given, Told
<1>8. \A a, b \in Won(Ended) \cup Given(Ended) : a[1] = b[1] => a = b
  BY <1>1, <1>5, ResolvedByOne
<1>9. /\ Cardinality(Succeeded) = Cardinality(Won(Ended))
      /\ Cardinality(Lost) = Cardinality(Given(Ended))
  BY <1>3, <1>4, <1>7, <1>8, OneToOne
<1>10. QED
  BY <1>1, <1>6, <1>9 DEF Tallied, Ended

\* "Settle each original once, including all failed attempts and retry waits"
\* (_settle_logical_reward): whenever the learner has an answer, it has counted
\* exactly the originals the ledger of the service calls resolved, each once and
\* with its final outcome, and it knows every attempt that has ended.
THEOREM OriginalsCountedOnce == EnvSpec => []CountedOnce
<1>1. TypeInv /\ AttemptInv /\ Told /\ Tallied => CountedOnce
  BY ToldCounts DEF CountedOnce, Heard, AtCaller
<1>2. QED
  BY <1>1, EpisodesAreRuns, HolderInvariant, ToldInvariant, PTL

-----------------------------------------------------------------------------
(***************************************************************************)
(* Arrivals keep their dates: nothing that is to arrive is overdue, so an  *)
(* attempt ends by its deadline and the attempts of an original by the     *)
(* limit the drain computes.                                               *)
(***************************************************************************)

\* Settled for now: the loops of arrivals are through before the window's end.
InCalm == pc = "wait" \/ (pc = "start" /\ now < until)
OriginalsAhead ==
    /\ \A r \in unarrived : ArrivalAt[r] >= now
    /\ InCalm \/ pc = "retry" => \A r \in unarrived : ArrivalAt[r] > now
RetriesAhead ==
    \A i \in 1 .. Len(retry_arrivals) :
        /\ arrival[retry_arrivals[i]] >= now
        /\ arrival[retry_arrivals[i]] <= now + RetryDelay
        /\ InCalm => arrival[retry_arrivals[i]] > now
        /\ \A j \in i .. Len(retry_arrivals) :
              arrival[retry_arrivals[i]] <= arrival[retry_arrivals[j]]
\* A first attempt arrives with its original.
FirstsArrive == \A a \in Attempts : a[2] = 0 => arrival[a] = ArrivalAt[a[1]]
JustArrived == pc = "place" /\ ~forwarded[current] => arrival[current] >= now
Timely == OriginalsAhead /\ RetriesAhead /\ FirstsArrive /\ JustArrived

LEMMA TimeTypes ==
    ASSUME TypeInv
    PROVE  /\ now \in Nat /\ until \in Nat /\ Horizon \in Nat /\ RetryDelay \in Nat
           /\ unarrived \subseteq Requests /\ \A r \in unarrived : ArrivalAt[r] \in Nat
           /\ arrival \in [Attempts -> Nat] /\ retry_arrivals \in Seq(Attempts)
           /\ Len(retry_arrivals) \in Nat
           /\ \A i \in 1 .. Len(retry_arrivals) :
                 retry_arrivals[i] \in Attempts /\ arrival[retry_arrivals[i]] \in Nat
           /\ live \subseteq Attempts
<1>1. /\ now \in Nat /\ until \in Nat /\ unarrived \subseteq Requests /\ live \subseteq Attempts
      /\ arrival \in [Attempts -> Nat] /\ retry_arrivals \in Seq(Attempts)
  BY DEF TypeInv, TypeOK, RequestTypeOK, WindowTypeOK
<1>2. /\ Len(retry_arrivals) \in Nat
      /\ \A i \in 1 .. Len(retry_arrivals) : retry_arrivals[i] \in Attempts
  BY <1>1, LenProperties, ElementOfSeq
<1>3. QED
  BY <1>1, <1>2, ControlAssumption, RequestsAssumption

\* What a step may do to the clock and to what is to arrive.
LEMMA StepsOfTime ==
    ASSUME TypeInv, Ticking, [Next]_vars
    PROVE  \/ \E t \in now + 1 .. Horizon : \E ended : Wait(t, ended)
           \/ EndPhase \/ StartWaiting
           \/ \E r \in Requests : Arrive(r)
           \/ ArriveRetry
           \/ Advance
           \/ /\ UNCHANGED <<now, unarrived, until>>
              /\ pc' \notin {"wait", "start", "retry"}
              /\ \/ UNCHANGED <<retry_arrivals, arrival>>
                 \/ \E a \in Attempts, o \in Terminal : Conclude(a, o)
              /\ pc' = "place" => \E a \in Attempts : Forward(a)
           \/ UNCHANGED <<now, unarrived, until, pc, retry_arrivals, arrival, current, forwarded>>
<1> DEFINE Quiet == UNCHANGED <<now, until, unarrived>> /\ pc' \notin {"wait", "start", "retry", "place"}
           Same == UNCHANGED <<retry_arrivals, arrival>>
           Ends == \E a \in Attempts, o \in Terminal : Conclude(a, o)
<1>1. "SUCCEEDED" \in Terminal /\ "TIMED_OUT" \in Terminal /\ "REJECTED" \in Terminal
  BY DEF Terminal
<1>2. pc \in {"serve", "place"} => current \in Attempts
  BY DEF TypeInv, HandType
<1>3. ASSUME NEW a \in Attempts, NEW o \in Terminal, Finish(a, o) PROVE Ends /\ unarrived' = unarrived
  BY <1>3 DEF Finish, Conclude
<1>4. ASSUME NEW a, NEW s, SetStatus(a, s) PROVE Same /\ unarrived' = unarrived
  BY <1>4 DEF SetStatus
<1>5. CASE \E a \in Attempts : Succeed(a) \/ Expire(a)
  <2>1. PICK a \in Attempts : Succeed(a) \/ Expire(a)
    BY <1>5
  <2>2. Finish(a, "SUCCEEDED") \/ Finish(a, "TIMED_OUT")
    BY <2>1 DEF Succeed, Expire
  <2>3. Ends /\ unarrived' = unarrived
    BY <1>1, <1>3, <2>2
  <2>4. UNCHANGED <<now, until>> /\ pc' \notin {"wait", "start", "retry", "place"}
    BY <2>1 DEF Succeed, Expire, windowVars
  <2>5. QED
    BY <2>3, <2>4
<1>6. CASE (\E a \in Attempts : ServeWaiter(a)) \/ Hit
  <2>1. PICK a \in Attempts : Deliver(a)
    BY <1>2, <1>6 DEF ServeWaiter, Hit
  <2>2. (Ends \/ Same) /\ unarrived' = unarrived
    BY <1>1, <1>3, <1>4, <2>1 DEF Deliver
  <2>3. UNCHANGED <<now, until>> /\ pc' \notin {"wait", "start", "retry", "place"}
    BY <1>6 DEF ServeWaiter, Hit, windowVars
  <2>4. QED
    BY <2>2, <2>3
<1>7. CASE JoinFetch \/ StartFetch \/ RejectStorage
  <2>1. (Ends \/ Same) /\ unarrived' = unarrived
    BY <1>1, <1>2, <1>3, <1>4, <1>7 DEF JoinFetch, StartFetch, RejectStorage, Miss
  <2>2. UNCHANGED <<now, until>> /\ pc' \notin {"wait", "start", "retry", "place"}
    BY <1>7 DEF JoinFetch, StartFetch, RejectStorage, Miss, windowVars
  <2>3. QED
    BY <2>1, <2>2
<1>8. CASE ExpireOnArrival \/ Place
  <2>1. (Ends \/ Same) /\ unarrived' = unarrived
    BY <1>1, <1>2, <1>3, <1>4, <1>8 DEF ExpireOnArrival, Place, Enqueue
  <2>2. UNCHANGED <<now, until>> /\ pc' \notin {"wait", "start", "retry", "place"}
    BY <1>8 DEF ExpireOnArrival, Place, Placed, windowVars
  <2>3. QED
    BY <2>1, <2>2
<1>9. CASE \/ \E p \in Pools : Collect(p)
           \/ \E a \in Attempts, c \in Caches : ChooseCache(a, c)
           \/ Land \/ ReleaseServices
  BY <1>9 DEF Collect, ChooseCache, Land, ReleaseServices, requestVars, windowVars
<1>10. CASE Evict \/ Close \/ \E t \in transfers : Cancel(t)
  BY <1>10 DEF Evict, Miss, Close, Cancel, requestVars, windowVars
<1>11. CASE \E a \in Attempts : Forward(a)
  BY <1>11 DEF Forward, requestVars, windowVars
<1>12. CASE pc = "wait" /\ \E t \in now + 1 .. Horizon, ended \in SUBSET Started : Wait(t, ended)
  BY <1>12
<1>13. CASE UNCHANGED vars
  BY <1>13 DEF vars, requestVars, placeVars, windowVars, settleVars
<1>14. QED
  BY <1>5, <1>6, <1>7, <1>8, <1>9, <1>10, <1>11, <1>12, <1>13 DEF Next, Settle, Closed

LEMMA NextOriginals ==
    ASSUME TypeInv, Ticking, OriginalsAhead, [Next]_vars
    PROVE  OriginalsAhead'
<1>1. /\ now \in Nat /\ until \in Nat /\ unarrived \subseteq Requests
      /\ \A r \in unarrived : ArrivalAt[r] \in Nat
  BY TimeTypes
<1>2. ASSUME now' = now, unarrived' \subseteq unarrived, pc' \notin {"wait", "start", "retry"}
      PROVE  OriginalsAhead'
  BY <1>2 DEF OriginalsAhead, InCalm
<1>3. ASSUME NEW t \in now + 1 .. Horizon, NEW ended, Wait(t, ended) PROVE OriginalsAhead'
  <2>1. /\ pc = "wait" /\ pc' = "collect" /\ now' = t /\ unarrived' = unarrived
        /\ t \in now + 1 .. NextDate
    BY <1>3 DEF Wait, requestVars
  <2>2. \A r \in unarrived : ArrivalAt[r] \in Dates /\ ArrivalAt[r] > now
    BY <2>1 DEF OriginalsAhead, InCalm, Dates
  <2>3. \A r \in unarrived : NextDate \in Nat /\ NextDate <= ArrivalAt[r]
    BY <2>2, NextDateIsFirst
  <2>4. \A r \in unarrived : ArrivalAt[r] >= t
    BY <1>1, <2>1, <2>3
  <2>5. QED
    BY <2>1, <2>4 DEF OriginalsAhead, InCalm
<1>4. CASE EndPhase
  <2>1. /\ Through(pc) /\ pc' = PhaseAfter(pc) /\ now' = now /\ until' = until
        /\ unarrived' = unarrived
    BY <1>4 DEF EndPhase, requestVars, windowVars
  <2>2. pc' \in {"start", "retry", "wait"} =>
           \/ pc = "schedule" /\ pc' = "start" /\ ~(now < until)
           \/ pc = "arrive" /\ pc' = "retry" /\ \A r \in unarrived : ~Arrived(r)
           \/ pc = "retry" /\ pc' = "start"
    BY <2>1 DEF Through, PhaseAfter
  <2>3. InCalm' \/ pc' = "retry" => \A r \in unarrived : ArrivalAt[r] > now
    BY <1>1, <2>1, <2>2 DEF OriginalsAhead, InCalm, Arrived
  <2>4. QED
    BY <2>1, <2>3 DEF OriginalsAhead
<1>5. CASE StartWaiting
  <2>1. /\ pc = "start" /\ pc' = (IF now < until THEN "wait" ELSE "idle") /\ now' = now
        /\ unarrived' = unarrived
    BY <1>5 DEF StartWaiting
  <2>2. QED
    BY <2>1 DEF OriginalsAhead, InCalm
<1>6. CASE (\E r \in Requests : Arrive(r)) \/ ArriveRetry \/ Advance
  BY <1>2, <1>6 DEF Arrive, ArriveRetry, Advance, AdvanceWindow
<1>7. CASE UNCHANGED <<now, unarrived, until, pc, retry_arrivals, arrival, current, forwarded>>
  BY <1>7 DEF OriginalsAhead, InCalm
<1>8. QED
  BY <1>2, <1>3, <1>4, <1>5, <1>6, <1>7, StepsOfTime

\* Appending a retry that arrives after the delay keeps the order.
LEMMA ConcludeRetries ==
    ASSUME TypeInv, HoldInv, AttemptInv, RetriesAhead, NEW a \in live, NEW o \in Terminal, Conclude(a, o),
           now' = now, pc' \notin {"wait", "start"}
    PROVE  RetriesAhead'
<1> DEFINE again == <<a[1], a[2] + 1>>
           q == retry_arrivals
           n == Len(retry_arrivals)
<1>1. /\ now \in Nat /\ RetryDelay \in Nat /\ arrival \in [Attempts -> Nat]
      /\ q \in Seq(Attempts) /\ n \in Nat
      /\ \A i \in 1 .. n : q[i] \in Attempts /\ arrival[q[i]] \in Nat
  BY TimeTypes
<1>2. \A i \in 1 .. n : /\ arrival[q[i]] >= now /\ arrival[q[i]] <= now + RetryDelay
                        /\ \A j \in i .. n : arrival[q[i]] <= arrival[q[j]]
  BY DEF RetriesAhead
<1>3. CASE ~Retries(a, o)
  <2>1. arrival' = arrival /\ retry_arrivals' = retry_arrivals
    BY <1>3 DEF Conclude
  <2>2. QED
    BY <2>1, <1>2 DEF RetriesAhead, InCalm
<1>4. CASE Retries(a, o)
  <2>1. /\ arrival' = [arrival EXCEPT ![again] = now + RetryDelay]
        /\ retry_arrivals' = Append(q, again)
    BY <1>4 DEF Conclude
  <2>2. again \in Attempts /\ status[again] = "ABSENT"
    BY <1>4, NextIsAbsent
  <2>3. \A i \in 1 .. n : q[i] # again
    <3>1. \A i \in 1 .. n : q[i] \in ToSet(q)
      BY <1>1, LenProperties DEF ToSet
    <3>2. \A b \in ToSet(q) : b \in Attempts => status[b] = "PENDING"
      BY DEF AttemptInv, Statused, StatusFits, Fresh
    <3>3. QED
      BY <1>1, <2>2, <3>1, <3>2
  <2> HIDE DEF again
  <2>4. /\ Len(retry_arrivals') = n + 1 /\ retry_arrivals'[n + 1] = again
        /\ \A i \in 1 .. n : retry_arrivals'[i] = q[i]
    BY <1>1, <2>1, <2>2, AppendProperties
  <2>5. /\ arrival'[again] = now + RetryDelay
        /\ \A i \in 1 .. n : arrival'[q[i]] = arrival[q[i]]
    BY <1>1, <2>1, <2>2, <2>3
  <2> HIDE DEF q, n
  <2>6. PICK s, ar, N : s = retry_arrivals' /\ ar = arrival' /\ N = Len(retry_arrivals')
    OBVIOUS
  <2>7. /\ \A i \in 1 .. n : s[i] = q[i] /\ ar[s[i]] = arrival[q[i]]
        /\ ar[s[n + 1]] = now + RetryDelay /\ N = n + 1
    BY <2>4, <2>5, <2>6
  <2>8. \A i \in 1 .. N : /\ ar[s[i]] >= now /\ ar[s[i]] <= now + RetryDelay
                          /\ \A j \in i .. N : ar[s[i]] <= ar[s[j]]
    <3>1. \A i \in 1 .. N : i \in 1 .. n \/ i = n + 1
      BY <1>1, <2>7
    <3>2. \A i \in 1 .. N : ar[s[i]] >= now /\ ar[s[i]] <= now + RetryDelay
      BY <1>1, <1>2, <2>7, <3>1
    <3>3. \A i \in 1 .. N : \A j \in i .. N : ar[s[i]] <= ar[s[j]]
      <4> SUFFICES ASSUME NEW i \in 1 .. N, NEW j \in i .. N PROVE ar[s[i]] <= ar[s[j]]
        OBVIOUS
      <4>1. CASE j \in 1 .. n
        <5>1. i \in 1 .. n /\ j \in i .. n
          BY <1>1, <2>7, <4>1
        <5>2. QED
          BY <1>2, <2>7, <4>1, <5>1
      <4>2. CASE j = n + 1
        <5>1. ar[s[j]] = now + RetryDelay
          BY <2>7, <4>2
        <5>2. QED
          BY <3>2, <5>1
      <4>3. QED
        BY <1>1, <2>7, <4>1, <4>2
    <3>4. QED
      BY <3>2, <3>3
  <2>9. QED
    BY <2>6, <2>8 DEF RetriesAhead, InCalm
<1>5. QED
  BY <1>3, <1>4

LEMMA NextRetries ==
    ASSUME TypeInv, Ticking, HoldInv, AttemptInv, RetriesAhead, [Next]_vars
    PROVE  RetriesAhead'
<1> DEFINE q == retry_arrivals
           n == Len(retry_arrivals)
<1>1. /\ now \in Nat /\ until \in Nat /\ RetryDelay \in Nat /\ arrival \in [Attempts -> Nat]
      /\ q \in Seq(Attempts) /\ n \in Nat
      /\ \A i \in 1 .. n : q[i] \in Attempts /\ arrival[q[i]] \in Nat
  BY TimeTypes
<1>2. ASSUME UNCHANGED <<now, retry_arrivals, arrival>>, pc' \notin {"wait", "start"}
      PROVE  RetriesAhead'
  BY <1>2 DEF RetriesAhead, InCalm
<1>3. ASSUME NEW t \in now + 1 .. Horizon, NEW ended, Wait(t, ended) PROVE RetriesAhead'
  <2>1. /\ pc = "wait" /\ pc' = "collect" /\ now' = t
        /\ retry_arrivals' = retry_arrivals /\ arrival' = arrival
        /\ t \in now + 1 .. NextDate
    BY <1>3 DEF Wait, requestVars
  <2>2. \A i \in 1 .. n : arrival[q[i]] \in Dates /\ arrival[q[i]] > now
    <3>1. \A i \in 1 .. n : q[i] \in ToSet(retry_arrivals)
      BY <1>1, LenProperties DEF ToSet
    <3>2. QED
      BY <2>1, <3>1 DEF RetriesAhead, InCalm, Dates
  <2>3. \A i \in 1 .. n : NextDate \in Nat /\ NextDate <= arrival[q[i]]
    BY <2>2, NextDateIsFirst
  <2>4. t \in Nat /\ t > now
    BY <1>1, <2>1
  <2>5. \A i \in 1 .. n : arrival[q[i]] >= t /\ arrival[q[i]] <= t + RetryDelay
    BY <1>1, <2>1, <2>3, <2>4 DEF RetriesAhead
  <2>6. QED
    BY <2>1, <2>5 DEF RetriesAhead, InCalm
<1>4. CASE EndPhase
  <2>1. /\ Through(pc) /\ pc' = PhaseAfter(pc) /\ now' = now /\ until' = until
        /\ retry_arrivals' = retry_arrivals /\ arrival' = arrival
    BY <1>4 DEF EndPhase, requestVars, windowVars
  <2>2. pc' \in {"start", "wait"} =>
           \/ pc = "schedule" /\ pc' = "start" /\ ~(now < until)
           \/ pc = "retry" /\ pc' = "start" /\ ~RetryDue
    BY <2>1 DEF Through, PhaseAfter
  <2>3. ~RetryDue => \A i \in 1 .. n : arrival[q[i]] > now
    <3> SUFFICES ASSUME ~RetryDue, NEW i \in 1 .. n PROVE arrival[q[i]] > now
      OBVIOUS
    <3>1. 1 \in 1 .. n /\ i \in 1 .. n /\ q # <<>>
      BY <1>1, EmptySeq
    <3>2. Head(q) = q[1]
      BY <1>1, <3>1, HeadTailProperties
    <3>3. arrival[q[1]] > now
      BY <1>1, <3>1, <3>2 DEF RetryDue
    <3>4. arrival[q[1]] <= arrival[q[i]]
      BY <3>1 DEF RetriesAhead
    <3>5. QED
      BY <1>1, <3>1, <3>3, <3>4
  <2>4. InCalm' => \A i \in 1 .. n : arrival[q[i]] > now
    BY <2>1, <2>2, <2>3 DEF InCalm
  <2>5. QED
    BY <2>1, <2>4 DEF RetriesAhead
<1>5. CASE StartWaiting
  <2>1. /\ pc = "start" /\ pc' = (IF now < until THEN "wait" ELSE "idle") /\ now' = now
        /\ retry_arrivals' = retry_arrivals /\ arrival' = arrival
    BY <1>5 DEF StartWaiting
  <2>2. QED
    BY <2>1 DEF RetriesAhead, InCalm
<1>6. CASE (\E r \in Requests : Arrive(r)) \/ Advance
  BY <1>2, <1>6 DEF Arrive, Advance, AdvanceWindow
<1>7. CASE ArriveRetry
  <2>1. /\ q # <<>> /\ retry_arrivals' = Tail(q) /\ arrival' = arrival /\ now' = now /\ pc' = "place"
    BY <1>7 DEF ArriveRetry, RetryDue
  <2>2. /\ Len(Tail(q)) = n - 1 /\ \A i \in 1 .. n - 1 : Tail(q)[i] = q[i + 1]
    BY <1>1, <2>1, HeadTailProperties
  <2>3. \A i \in 1 .. n - 1 : /\ i + 1 \in 1 .. n
                              /\ \A j \in i .. n - 1 : j \in 1 .. n - 1 /\ j + 1 \in i + 1 .. n
    BY <1>1
  <2>4. QED
    BY <2>1, <2>2, <2>3 DEF RetriesAhead, InCalm
<1>8. CASE UNCHANGED <<now, unarrived, until, pc, retry_arrivals, arrival, current, forwarded>>
  BY <1>8 DEF RetriesAhead, InCalm
<1>9. ASSUME NEW a \in Attempts, NEW o \in Terminal, Conclude(a, o), now' = now,
             pc' \notin {"wait", "start"}
      PROVE  RetriesAhead'
  <2>1. CASE Standing
    BY <1>2, <1>9, <2>1 DEF Standing
  <2>2. CASE \E b \in Attempts, x \in Terminal : Ending(b, x)
    BY <1>9, <2>2, ConcludeRetries DEF Ending
  <2>3. ~\E b \in Attempts : Arriving(b)
    BY <1>9 DEF Conclude, Arriving
  <2>4. QED
    BY <2>1, <2>2, <2>3, StepsOfAttempts
<1>10. QED
  BY <1>2, <1>3, <1>4, <1>5, <1>6, <1>7, <1>8, <1>9, StepsOfTime

LEMMA NextFirsts ==
    ASSUME TypeInv, Ticking, HoldInv, AttemptInv, FirstsArrive, [Next]_vars
    PROVE  FirstsArrive'
<1>1. arrival \in [Attempts -> Nat]
  BY TimeTypes
<1>2. ASSUME UNCHANGED arrival PROVE FirstsArrive'
  BY <1>2 DEF FirstsArrive
<1>3. CASE \E a \in Attempts, o \in Terminal : Ending(a, o)
  <2>1. PICK a \in Attempts, o \in Terminal : Ending(a, o)
    BY <1>3
  <2> DEFINE again == <<a[1], a[2] + 1>>
  <2>2. arrival' = arrival \/ arrival' = [arrival EXCEPT ![again] = now + RetryDelay]
    BY <2>1 DEF Ending, Conclude
  <2>3. again[2] # 0
    BY AttemptParts
  <2>4. \A b \in Attempts : b[2] = 0 => arrival'[b] = arrival[b]
    BY <1>1, <2>2, <2>3
  <2>5. QED
    BY <2>4 DEF FirstsArrive
<1>4. QED
  BY <1>2, <1>3, StepsOfAttempts DEF Standing, Arriving

LEMMA NextJustArrived ==
    ASSUME TypeInv, Ticking, HoldInv, AttemptInv, Timely, [Next]_vars
    PROVE  JustArrived'
<1>1. ASSUME pc' # "place" PROVE JustArrived'
  BY <1>1 DEF JustArrived
<1>2. CASE EndPhase
  BY <1>1, <1>2 DEF EndPhase, Through, PhaseAfter
<1>3. CASE StartWaiting \/ Advance \/ \E t \in now + 1 .. Horizon : \E ended : Wait(t, ended)
  BY <1>1, <1>3 DEF StartWaiting, Advance, AdvanceWindow, Wait
<1>4. CASE \E r \in Requests : Arrive(r)
  <2>1. PICK r \in Requests : Arrive(r)
    BY <1>4
  <2>2. /\ r \in unarrived /\ current' = <<r, 0>> /\ now' = now /\ arrival' = arrival
    BY <2>1 DEF Arrive
  <2>3. <<r, 0>> \in Attempts /\ <<r, 0>>[2] = 0 /\ <<r, 0>>[1] = r
    BY AttemptParts
  <2>4. arrival[<<r, 0>>] = ArrivalAt[r] /\ ArrivalAt[r] >= now
    BY <2>2, <2>3 DEF Timely, FirstsArrive, OriginalsAhead
  <2>5. QED
    BY <2>2, <2>4 DEF JustArrived
<1>5. CASE ArriveRetry
  <2>1. /\ retry_arrivals # <<>> /\ current' = Head(retry_arrivals) /\ now' = now
        /\ arrival' = arrival
    BY <1>5 DEF ArriveRetry, RetryDue
  <2>2. /\ Head(retry_arrivals) = retry_arrivals[1] /\ 1 \in 1 .. Len(retry_arrivals)
    BY <2>1, TimeTypes, EmptySeq, HeadTailProperties
  <2>3. arrival[Head(retry_arrivals)] >= now
    BY <2>2 DEF Timely, RetriesAhead
  <2>4. QED
    BY <2>1, <2>3 DEF JustArrived
<1>6. CASE \E a \in Attempts : Forward(a)
  <2>1. PICK a \in Attempts : Forward(a)
    BY <1>6
  <2>2. current' = a /\ forwarded' = [forwarded EXCEPT ![a] = TRUE]
    BY <2>1 DEF Forward
  <2>3. forwarded'[a]
    BY <2>2 DEF TypeInv, TypeOK, PlaceTypeOK
  <2>4. QED
    BY <2>2, <2>3 DEF JustArrived
<1>7. CASE UNCHANGED <<now, unarrived, until, pc, retry_arrivals, arrival, current, forwarded>>
  BY <1>7 DEF Timely, JustArrived
<1>8. QED
  BY <1>1, <1>2, <1>3, <1>4, <1>5, <1>6, <1>7, StepsOfTime

LEMMA InitTimely == Init => Timely /\ Ticking
<1> SUFFICES ASSUME Init PROVE Timely /\ Ticking
  OBVIOUS
<1>1. /\ now = 0 /\ until = 0 /\ pc = "idle" /\ unarrived = Requests /\ retry_arrivals = <<>>
      /\ arrival = [a \in Attempts |-> IF a[2] = 0 THEN ArrivalAt[a[1]] ELSE 0]
  BY DEF Init
<1>2. Len(retry_arrivals) = 0
  BY <1>1
<1>3. OriginalsAhead
  BY <1>1, RequestsAssumption DEF OriginalsAhead, InCalm
<1>4. RetriesAhead
  BY <1>2 DEF RetriesAhead
<1>5. FirstsArrive
  BY <1>1 DEF FirstsArrive
<1>6. QED
  BY <1>1, <1>3, <1>4, <1>5 DEF Timely, JustArrived, Ticking

LEMMA TimelyInvariant == Spec => [](Ticking /\ Timely)
<1>1. TypeInv /\ HoldInv /\ AttemptInv /\ Ticking /\ Timely /\ [Next]_vars => (Ticking /\ Timely)'
  BY NextTicking, NextOriginals, NextRetries, NextFirsts, NextJustArrived DEF Timely
<1>2. QED
  BY <1>1, InitTimely, HolderInvariant, PTL DEF Spec

\* The latest an attempt can arrive.
Lap == RelativeDeadline + RetryDelay
InBound ==
    \A a \in Attempts : status[a] # "ABSENT" => arrival[a] <= ArrivalAt[a[1]] + a[2] * Lap

LEMMA LapNumbers ==
    /\ Lap \in Nat /\ RelativeDeadline \in Nat /\ RelativeDeadline > 0 /\ RetryDelay \in Nat
    /\ \A k \in 0 .. MaxRetries : k * Lap \in Nat /\ (k + 1) * Lap = k * Lap + Lap
                                  /\ k * Lap <= MaxRetries * Lap
    /\ Limit = HorizonS + MaxRetries * Lap + RelativeDeadline
    /\ MaxRetries * Lap \in Nat
<1>1. /\ RelativeDeadline \in Nat /\ RelativeDeadline > 0 /\ RetryDelay \in Nat
      /\ MaxRetries \in Nat /\ HorizonS \in Nat
  BY EpisodeNumbers
<1>2. Lap \in Nat
  BY <1>1 DEF Lap
<1>3. ASSUME NEW k \in 0 .. MaxRetries
      PROVE  k * Lap \in Nat /\ (k + 1) * Lap = k * Lap + Lap /\ k * Lap <= MaxRetries * Lap
  <2>1. PICK d \in Nat : MaxRetries = k + d
    <3>1. MaxRetries - k \in Nat /\ MaxRetries = k + (MaxRetries - k)
      BY <1>1
    <3>2. QED
      BY <3>1
  <2>2. k \in Nat
    OBVIOUS
  <2>3. /\ MaxRetries * Lap = k * Lap + d * Lap /\ d * Lap \in Nat /\ k * Lap \in Nat
        /\ (k + 1) * Lap = k * Lap + Lap
    BY <1>2, <2>1, <2>2
  <2>4. QED
    BY <2>3
<1>4. Limit = HorizonS + MaxRetries * Lap + RelativeDeadline
  BY <1>1 DEF Limit, Lap
<1>5. MaxRetries * Lap \in Nat
  BY <1>1, <1>2
<1>6. QED
  BY <1>1, <1>2, <1>3, <1>4, <1>5

LEMMA DeadlineOf ==
    ASSUME TypeInv, NEW a \in Attempts
    PROVE  /\ Deadline(a) = arrival[a] + RelativeDeadline
           /\ arrival[a] \in Nat /\ ArrivalAt[a[1]] \in Nat /\ a[2] \in 0 .. MaxRetries
           /\ ArrivalAt[a[1]] < HorizonS
<1>1. a[1] \in Requests /\ a[2] \in 0 .. MaxRetries
  BY AttemptParts
<1>2. arrival[a] \in Nat /\ ArrivalAt[a[1]] \in Nat
  BY <1>1, TimeTypes, RequestsAssumption
<1>3. DeadlineAt[a[1]] = ArrivalAt[a[1]] + RelativeDeadline /\ ArrivalAt[a[1]] < HorizonS
  BY <1>1, EpisodeAssumption
<1>4. QED
  BY <1>1, <1>2, <1>3, LapNumbers DEF Deadline

\* An attempt is never ended after its deadline.
LEMMA NeverLate ==
    ASSUME TypeInv, HoldInv, Ahead, Timely, NEW a \in live, pc \notin {"closing", "closed"}
    PROVE  now <= Deadline(a)
<1>1. a \in Attempts /\ now \in Nat
  BY TimeTypes
<1>2. Deadline(a) \in Int /\ Deadline(a) = arrival[a] + RelativeDeadline /\ arrival[a] \in Nat
  BY <1>1, DeadlineOf, DeadlineType
<1>3. pc \in BeforeExpiry \cup AfterExpiry
  BY DEF BeforeExpiry, AfterExpiry, TypeInv, TypeOK, Phases
<1>4. CASE pc = "place" /\ a = current /\ ~forwarded[current]
  BY <1>1, <1>2, <1>4, LapNumbers DEF Timely, JustArrived
<1>5. CASE ~(pc = "place" /\ a = current /\ ~forwarded[current])
  <2>1. Deadline(a) >= now \/ Deadline(a) > now
    BY <1>3, <1>5 DEF Ahead
  <2>2. QED
    BY <1>1, <1>2, <2>1
<1>6. QED
  BY <1>4, <1>5

LEMMA EndsOpen ==
    ASSUME TypeInv, [Next]_vars, live' # live
    PROVE  pc \notin {"closing", "closed"}
<1>1. CASE Settle
  <2>1. pc = "closing" => EndPhase
    BY <1>1, SettleStays
  <2>2. pc # "closing"
    BY <2>1 DEF EndPhase, requestVars
  <2>3. QED
    BY <1>1, <2>2, SettleStays
<1>2. CASE Advance
  BY <1>2 DEF Advance, AdvanceWindow
<1>3. CASE ~Settle /\ ~Advance
  BY <1>3 DEF Next, Close, Cancel, Closed, vars, requestVars
<1>4. QED
  BY <1>1, <1>2, <1>3

LEMMA NextInBound ==
    ASSUME TypeInv, HoldInv, AttemptInv, Ahead, Timely, InBound, [Next]_vars
    PROVE  InBound'
<1>1. /\ status \in [Attempts -> Statuses] /\ arrival \in [Attempts -> Nat]
      /\ now \in Nat /\ live \subseteq Attempts
  BY TimeTypes DEF TypeInv, TypeOK, RequestTypeOK
<1>2. CASE Standing
  <2>1. arrival' = arrival /\ \A a \in Attempts : status'[a] # "ABSENT" => status[a] # "ABSENT"
    BY <1>2, StatusDisjoint DEF Standing, AttemptInv, Statused, StatusFits
  <2>2. QED
    BY <2>1 DEF InBound
<1>3. CASE \E a \in Attempts : Arriving(a)
  BY <1>3 DEF Arriving, InBound
<1>4. CASE \E a \in Attempts, o \in Terminal : Ending(a, o)
  <2>1. PICK a \in Attempts, o \in Terminal : Ending(a, o)
    BY <1>4
  <2> DEFINE again == <<a[1], a[2] + 1>>
  <2>2. a \in live /\ live' = live \ {a}
    BY <2>1 DEF Ending, Conclude
  <2>3. now <= Deadline(a)
    BY <2>2, EndsOpen, NeverLate
  <2>4. /\ Deadline(a) = arrival[a] + RelativeDeadline /\ arrival[a] \in Nat
        /\ ArrivalAt[a[1]] \in Nat /\ a[2] \in 0 .. MaxRetries
    BY DeadlineOf
  <2>5. status[a] # "ABSENT"
    BY <2>2, StatusDisjoint DEF AttemptInv, Statused, StatusFits
  <2>6. arrival[a] <= ArrivalAt[a[1]] + a[2] * Lap
    BY <2>5 DEF InBound
  <2>7. now + RetryDelay <= ArrivalAt[a[1]] + (a[2] + 1) * Lap
    <3>1. (a[2] + 1) * Lap = a[2] * Lap + Lap /\ a[2] * Lap \in Nat
      BY <2>4, LapNumbers
    <3>2. Lap = RelativeDeadline + RetryDelay
      BY DEF Lap
    <3>3. QED
      BY <1>1, <2>3, <2>4, <2>6, <3>1, <3>2, LapNumbers
  <2>8. CASE Retries(a, o)
    <3>1. again \in Attempts
      BY <2>2, <2>8, NextIsAbsent
    <3>2. arrival' = [arrival EXCEPT ![again] = now + RetryDelay]
          /\ status' = [status EXCEPT ![a] = o, ![again] = "PENDING"]
      BY <2>1, <2>8 DEF Ending, Conclude
    <3>3. again[1] = a[1] /\ again[2] = a[2] + 1
      OBVIOUS
    <3> HIDE DEF again
    <3>4. \A b \in Attempts : b # again => arrival'[b] = arrival[b] /\ (status'[b] = status[b] \/ b = a)
      BY <1>1, <3>2
    <3>5. arrival'[again] <= ArrivalAt[again[1]] + again[2] * Lap
      BY <1>1, <2>7, <3>1, <3>2, <3>3
    <3>6. QED
      BY <2>5, <3>4, <3>5 DEF InBound
  <2>9. CASE ~Retries(a, o)
    <3>1. arrival' = arrival /\ status' = [status EXCEPT ![a] = o]
      BY <2>1, <2>9 DEF Ending, Conclude
    <3>2. QED
      BY <1>1, <2>5, <3>1 DEF InBound
  <2>10. QED
    BY <2>8, <2>9
<1>5. QED
  BY <1>2, <1>3, <1>4, StepsOfAttempts

LEMMA InBoundInvariant == Spec => []InBound
<1>1. Init => InBound
  <2> SUFFICES ASSUME Init, NEW a \in Attempts, status[a] # "ABSENT"
               PROVE  arrival[a] <= ArrivalAt[a[1]] + a[2] * Lap
    BY DEF InBound
  <2>1. a[2] = 0 /\ arrival[a] = ArrivalAt[a[1]]
    BY DEF Init
  <2>2. 0 * Lap = 0 /\ ArrivalAt[a[1]] \in Nat
    BY LapNumbers, AttemptParts, RequestsAssumption
  <2>3. QED
    BY <2>1, <2>2
<1>2. TypeInv /\ HoldInv /\ AttemptInv /\ Ahead /\ Timely /\ InBound /\ [Next]_vars => InBound'
  BY NextInBound
<1>3. QED
  BY <1>1, <1>2, HolderInvariant, AheadInvariant, TimelyInvariant, PTL DEF Spec

\* "drain: the limit": once it has passed, nothing is left.
LEMMA LimitResolves ==
    ASSUME TypeInv, HoldInv, AttemptInv, Ahead, Timely, InBound, pc = "idle", now >= Limit
    PROVE  Resolved
<1>1. /\ now \in Nat /\ live \subseteq Attempts /\ unarrived \subseteq Requests
      /\ HorizonS \in Nat /\ Limit \in Nat /\ HorizonS < Limit
  BY TimeTypes, EpisodeNumbers
<1>2. ASSUME NEW a \in Attempts, status[a] # "ABSENT"
      PROVE  arrival[a] < Limit /\ Deadline(a) < Limit /\ arrival[a] \in Nat /\ Deadline(a) \in Int
  <2> DEFINE k == a[2] * Lap
             m == MaxRetries * Lap
  <2>1. /\ Deadline(a) = arrival[a] + RelativeDeadline /\ arrival[a] \in Nat
        /\ ArrivalAt[a[1]] \in Nat /\ a[2] \in 0 .. MaxRetries /\ ArrivalAt[a[1]] < HorizonS
    BY DeadlineOf
  <2>2. arrival[a] <= ArrivalAt[a[1]] + k
    BY <1>2 DEF InBound
  <2>3. k <= m /\ k \in Nat /\ m \in Nat /\ Limit = HorizonS + m + RelativeDeadline
    BY <2>1, LapNumbers
  <2> HIDE DEF k, m
  <2>4. QED
    BY <1>1, <2>1, <2>2, <2>3, LapNumbers
<1>3. live = {}
  <2>1. \A a \in live : Deadline(a) > now /\ status[a] # "ABSENT"
    BY <1>1, StatusDisjoint DEF Ahead, AfterExpiry, AttemptInv, Statused, StatusFits
  <2>2. QED
    BY <1>1, <1>2, <2>1
<1>4. unarrived = {}
  <2>1. \A r \in unarrived : ArrivalAt[r] >= now /\ ArrivalAt[r] < HorizonS /\ ArrivalAt[r] \in Nat
    BY <1>1, EpisodeAssumption, RequestsAssumption DEF Timely, OriginalsAhead
  <2>2. QED
    BY <1>1, <2>1
<1>5. retry_arrivals = <<>>
  <2> SUFFICES ASSUME retry_arrivals # <<>> PROVE FALSE
    OBVIOUS
  <2> DEFINE a == retry_arrivals[1]
  <2>1. 1 \in 1 .. Len(retry_arrivals) /\ a \in Attempts
    BY TimeTypes, EmptySeq
  <2>2. arrival[a] >= now
    BY <2>1 DEF Timely, RetriesAhead
  <2>3. a \in ToSet(retry_arrivals)
    BY <2>1, TimeTypes, LenProperties DEF ToSet
  <2>4. status[a] # "ABSENT"
    BY <2>1, <2>3, StatusDisjoint DEF AttemptInv, Statused, StatusFits, Fresh
  <2> HIDE DEF a
  <2>5. QED
    BY <1>1, <1>2, <2>1, <2>2, <2>4
<1>6. QED
  BY <1>3, <1>4, <1>5 DEF Resolved

\* An episode that is drained, in its caller's hands, has resolved everything.
DrainedResolved == phase = "drained" /\ pc = "idle" => Resolved

LEMMA NextDrained ==
    ASSUME TypeInv, HoldInv, AttemptInv, Ahead, Timely, InBound, Paced, DrainedResolved,
           [EnvNext]_envVars
    PROVE  DrainedResolved'
<1> SUFFICES ASSUME phase' = "drained", pc' = "idle" PROVE Resolved'
  BY DEF DrainedResolved
<1>1. Heard'
  BY DEF Heard
<1>2. CASE Step
  BY <1>2 DEF Step
<1>3. CASE DrainStep
  <2>1. /\ pc = "idle" /\ UNCHANGED vars /\ last_view'.now = now
        /\ Resolved \/ last_view'.now >= Limit
    BY <1>3 DEF DrainStep, Receive, Inspect
  <2>2. Resolved
    BY <2>1, LimitResolves
  <2>3. QED
    BY <2>1, <2>2 DEF vars, requestVars, Resolved
<1>4. CASE Heard /\ UNCHANGED vars /\ UNCHANGED learnerVars
  BY <1>4 DEF Heard, vars, requestVars, learnerVars, Resolved, DrainedResolved
<1>5. QED
  BY <1>1, <1>2, <1>3, <1>4, HeardSteps

LEMMA DrainedInvariant == EnvSpec => []DrainedResolved
<1>1. EnvInit => DrainedResolved
  BY DEF EnvInit, DrainedResolved
<1>2. TypeInv /\ HoldInv /\ AttemptInv /\ Ahead /\ Timely /\ InBound /\ Paced /\ DrainedResolved
      /\ [EnvNext]_envVars => DrainedResolved'
  BY NextDrained
<1>3. QED
  BY <1>1, <1>2, EpisodesAreRuns, EpisodeInvariant, HolderInvariant, AheadInvariant,
     TimelyInvariant, InBoundInvariant, PTL DEF EnvSpec

\* The recursion of the service times has one solution.
LEMMA ServiceTimesAre ==
    ASSUME NEW r, NEW n \in Nat, Cardinality(Tried(r)) - 1 = n, NEW g,
           g = [k \in 0 .. n |-> IF k = 0 THEN Took(<<r, 0>>)
                                 ELSE g[k - 1] + Took(<<r, k>>)]
    PROVE  ServiceTimes(r) = g
<1> DEFINE T(k) == Took(<<r, k>>)
           Solves(f) == f = [k \in 0 .. n |-> IF k = 0 THEN T(0) ELSE f[k - 1] + T(k)]
           f == CHOOSE h : Solves(h)
           Differ == {k \in 0 .. n : f[k] # g[k]}
<1>1. ServiceTimes(r) = f
  BY DEF ServiceTimes
<1>2. Solves(g)
  OBVIOUS
<1>3. Solves(f)
  BY <1>2
<1>4. Differ \subseteq Nat
  OBVIOUS
<1>5. ASSUME Differ # {} PROVE FALSE
  <2>1. PICK k \in Differ : \A j \in Differ : ~(j < k)
    BY <1>4, <1>5, LeastNumber
  <2>2. k \in 0 .. n /\ f[k] # g[k]
    BY <2>1
  <2>3. k # 0
    BY <1>2, <1>3, <2>2
  <2>4. k - 1 \in 0 .. n /\ k - 1 < k
    BY <2>2, <2>3
  <2>5. f[k - 1] = g[k - 1]
    BY <2>1, <2>4
  <2>6. f[k] = f[k - 1] + T(k) /\ g[k] = g[k - 1] + T(k)
    BY <1>2, <1>3, <2>2, <2>3
  <2>7. QED
    BY <2>2, <2>5, <2>6
<1>6. QED
  BY <1>1, <1>2, <1>3, <1>5

\* Once everything is resolved, an original has been tried up to some last
\* attempt, which succeeded or was the last allowed; the others failed.
LEMMA TriedInRow ==
    ASSUME TypeInv, AttemptInv, Told, phase \in AtCaller, Resolved, NEW r \in Requests
    PROVE  \E k \in 0 .. MaxRetries :
              /\ Tried(r) = {r} \X (0 .. k) /\ Cardinality(Tried(r)) = k + 1
              /\ \A j \in 0 .. k : outcomes[<<r, j>>] = OutcomeOf(<<r, j>>)
              /\ status[<<r, k>>] = "SUCCEEDED" \/ (k = MaxRetries /\ status[<<r, k>>] \in Failed)
              /\ \A j \in 1 .. k : arrival[<<r, j>>] = finished[<<r, j - 1>>] + RetryDelay
              /\ status[<<r, k>>] = "SUCCEEDED" <=> r \in Succeeded
<1>1. PICK k \in 0 .. MaxRetries : LastIn(status, r, k)
  BY SomeLast
<1>2. /\ \A j \in 0 .. MaxRetries : <<r, j>> \in Attempts
      /\ MaxRetries \in Nat /\ k \in Nat
      /\ \A a \in Attempts : a[1] = r => a[2] \in 0 .. MaxRetries /\ a = <<r, a[2]>>
  BY AttemptParts
<1>3. \A a \in Attempts : ~Fresh(a)
  BY LenProperties DEF Resolved, Fresh, ToSet
<1>4. \A a \in Attempts : status[a] \in Terminal \cup {"ABSENT"}
  BY <1>3, StatusDisjoint DEF AttemptInv, Statused, StatusFits, Resolved,
                              TypeInv, TypeOK, RequestTypeOK
<1>5. \A j \in 0 .. k - 1 : status[<<r, j>>] \in Failed
  BY <1>1 DEF LastIn, AttemptInv, Chained
<1>6. status[<<r, k>>] \in Terminal
  BY <1>1, <1>2, <1>4 DEF LastIn
<1>7. \A j \in 0 .. k : status[<<r, j>>] \in Terminal /\ j \in 0 .. MaxRetries
  <2>1. \A j \in 0 .. k : (j = k \/ j \in 0 .. k - 1) /\ j \in 0 .. MaxRetries
    BY <1>1, <1>2
  <2>2. QED
    BY <1>5, <1>6, <2>1, StatusDisjoint
<1>8. \A j \in k + 1 .. MaxRetries : status[<<r, j>>] = "ABSENT"
  BY <1>1 DEF LastIn
<1>9. DOMAIN outcomes = Ended
  BY DEF Told
<1>10. Tried(r) = {r} \X (0 .. k)
  <2>1. ASSUME NEW a \in Tried(r) PROVE a \in {r} \X (0 .. k)
    <3>1. a \in Attempts /\ a[1] = r /\ status[a] \in Terminal
      BY <1>9 DEF Tried, Ended
    <3>2. a = <<r, a[2]>> /\ a[2] \in 0 .. MaxRetries
      BY <1>2, <3>1
    <3>3. a[2] \notin k + 1 .. MaxRetries
      BY <1>8, <3>1, <3>2, StatusDisjoint
    <3>4. a[2] \in 0 .. k
      BY <1>2, <3>2, <3>3
    <3>5. QED
      BY <3>2, <3>4
  <2>2. ASSUME NEW j \in 0 .. k PROVE <<r, j>> \in Tried(r)
    BY <1>2, <1>7, <1>9 DEF Tried, Ended
  <2>3. QED
    BY <2>1, <2>2
<1>11. Cardinality(Tried(r)) = k + 1
  <2> DEFINE f == [j \in 0 .. k |-> <<r, j>>]
  <2>1. f \in Bijection(0 .. k, Tried(r))
    <3>1. \A j \in 0 .. k : f[j] = <<r, j>> /\ f[j] \in Tried(r)
      BY <1>10
    <3>2. \A i, j \in 0 .. k : f[i] = f[j] => i = j
      BY <3>1
    <3>3. \A a \in Tried(r) : \E j \in 0 .. k : f[j] = a
      BY <1>10, <3>1
    <3>4. f \in [0 .. k -> Tried(r)]
      BY <3>1
    <3> HIDE DEF f
    <3>5. QED
      BY <3>2, <3>3, <3>4 DEF Bijection, Injection, Surjection, IsInjective
  <2>2. ExistsBijection(0 .. k, Tried(r))
    BY <2>1 DEF ExistsBijection
  <2>3. IsFiniteSet(0 .. k) /\ Cardinality(0 .. k) = k + 1
    BY <1>2, FS_Interval
  <2>4. QED
    BY <2>2, <2>3, FS_Bijection
<1>12. \A j \in 0 .. k : outcomes[<<r, j>>] = OutcomeOf(<<r, j>>)
  BY <1>2, <1>7, <1>9 DEF Told, Ended
<1>13. status[<<r, k>>] = "SUCCEEDED" \/ (k = MaxRetries /\ status[<<r, k>>] \in Failed)
  <2> SUFFICES ASSUME status[<<r, k>>] \in Failed, k # MaxRetries PROVE FALSE
    BY <1>6, StatusDisjoint
  <2>1. k + 1 \in 0 .. MaxRetries /\ k + 1 > 0 /\ (k + 1) - 1 = k /\ k + 1 \in k + 1 .. MaxRetries
    BY <1>2
  <2>2. status[<<r, k + 1>>] # "ABSENT"
    BY <2>1 DEF AttemptInv, Chained
  <2>3. QED
    BY <1>8, <2>1, <2>2
<1>14. ASSUME NEW j \in 1 .. k PROVE arrival[<<r, j>>] = finished[<<r, j - 1>>] + RetryDelay
  <2>1. j \in 0 .. MaxRetries /\ j > 0 /\ j - 1 \in 0 .. k - 1
    BY <1>2
  <2>2. status[<<r, j - 1>>] \in Failed
    BY <1>5, <2>1
  <2>3. QED
    BY <2>1, <2>2 DEF AttemptInv, Chained
<1>15. status[<<r, k>>] = "SUCCEEDED" <=> r \in Succeeded
  <2>1. r \in Succeeded <=> \E a \in Attempts : a[1] = r /\ status[a] = "SUCCEEDED"
    BY StagesTell DEF Succeeded
  <2>2. ASSUME NEW a \in Attempts, a[1] = r, status[a] = "SUCCEEDED" PROVE a = <<r, k>>
    <3>1. a = <<r, a[2]>> /\ a[2] \in 0 .. MaxRetries
      BY <1>2, <2>2
    <3>2. a[2] \notin k + 1 .. MaxRetries /\ a[2] \notin 0 .. k - 1
      BY <1>5, <1>8, <2>2, <3>1, StatusDisjoint
    <3>3. a[2] = k
      BY <1>2, <3>1, <3>2
    <3>4. QED
      BY <3>1, <3>3
  <2>3. <<r, k>> \in Attempts /\ <<r, k>>[1] = r
    BY <1>2
  <2>4. QED
    BY <2>1, <2>2, <2>3
<1>16. QED
  BY <1>10, <1>11, <1>12, <1>13, <1>14, <1>15

LEMMA WaitGrows ==
    ASSUME NEW d \in Nat, NEW j \in Nat, j # 0
    PROVE  d * (j - 1) \in Nat /\ d * j \in Nat /\ d * j = d * (j - 1) + d /\ d * 0 = 0
<1>1. PICK i \in Nat : j = i + 1
  BY SMT
<1>2. d * i \in Nat /\ d * (i + 1) = d * i + d
  BY SMT
<1>3. QED
  BY <1>1, <1>2

\* The record of an original: its attempts, and the waits between them, fill the
\* time from its arrival to its end.
LEMMA Recorded ==
    ASSUME TypeInv, AttemptInv, Timely, Told, phase \in AtCaller, Resolved, NEW r \in Requests
    PROVE  Reconciles(r) /\ (Record(r).status = "SUCCEEDED" <=> r \in Succeeded)
<1>1. PICK k \in 0 .. MaxRetries :
              /\ Tried(r) = {r} \X (0 .. k) /\ Cardinality(Tried(r)) = k + 1
              /\ \A j \in 0 .. k : outcomes[<<r, j>>] = OutcomeOf(<<r, j>>)
              /\ status[<<r, k>>] = "SUCCEEDED" \/ (k = MaxRetries /\ status[<<r, k>>] \in Failed)
              /\ \A j \in 1 .. k : arrival[<<r, j>>] = finished[<<r, j - 1>>] + RetryDelay
              /\ status[<<r, k>>] = "SUCCEEDED" <=> r \in Succeeded
  BY TriedInRow
<1>2. /\ k \in Nat /\ MaxRetries \in Nat /\ RetryDelay \in Nat /\ ArrivalAt[r] \in Nat
      /\ \A j \in 0 .. k : j \in 0 .. MaxRetries /\ <<r, j>> \in Attempts
  BY AttemptParts, ControlAssumption, RequestsAssumption
<1>3. \A j \in 0 .. k : arrival[<<r, j>>] \in Nat /\ finished[<<r, j>>] \in Nat
  BY <1>2 DEF TypeInv, TypeOK, RequestTypeOK
<1>4. arrival[<<r, 0>>] = ArrivalAt[r]
  <2>1. <<r, 0>> \in Attempts /\ <<r, 0>>[2] = 0 /\ <<r, 0>>[1] = r
    BY <1>2
  <2>2. QED
    BY <2>1 DEF Timely, FirstsArrive
<1>5. \A j \in 0 .. k : Took(<<r, j>>) = finished[<<r, j>>] - arrival[<<r, j>>]
  <2>1. \A a : OutcomeOf(a).completed = finished[a] /\ OutcomeOf(a).arrival = arrival[a]
    BY DEF OutcomeOf
  <2>2. ASSUME NEW j \in 0 .. k
        PROVE  Took(<<r, j>>) = finished[<<r, j>>] - arrival[<<r, j>>]
    <3>1. outcomes[<<r, j>>] = OutcomeOf(<<r, j>>)
      BY <1>1
    <3>2. Took(<<r, j>>) = OutcomeOf(<<r, j>>).completed - OutcomeOf(<<r, j>>).arrival
      BY <3>1 DEF Took
    <3>3. QED
      BY <2>1, <3>2
  <2>3. QED
    BY <2>2
<1> DEFINE g == [j \in 0 .. k |-> (finished[<<r, j>>] - ArrivalAt[r]) - RetryDelay * j]
<1>6. ASSUME NEW j \in 0 .. k
      PROVE  g[j] = IF j = 0 THEN Took(<<r, 0>>) ELSE g[j - 1] + Took(<<r, j>>)
  <2>1. CASE j = 0
    <3>1. RetryDelay * 0 = 0
      BY <1>2
    <3>2. QED
      BY <1>2, <1>3, <1>4, <1>5, <2>1, <3>1
  <2>2. CASE j # 0
    <3>1. /\ RetryDelay * (j - 1) \in Nat /\ RetryDelay * j \in Nat
          /\ RetryDelay * j = RetryDelay * (j - 1) + RetryDelay
      BY <1>2, <2>2, WaitGrows
    <3>2. j \in 1 .. k /\ j - 1 \in 0 .. k
      BY <1>2, <2>2
    <3>3. arrival[<<r, j>>] = finished[<<r, j - 1>>] + RetryDelay
      BY <1>1, <3>2
    <3>4. Took(<<r, j>>) = finished[<<r, j>>] - arrival[<<r, j>>]
      BY <1>5
    <3>5. /\ g[j] = (finished[<<r, j>>] - ArrivalAt[r]) - RetryDelay * j
          /\ g[j - 1] = (finished[<<r, j - 1>>] - ArrivalAt[r]) - RetryDelay * (j - 1)
      BY <3>2
    <3> DEFINE w == RetryDelay * j
               v == RetryDelay * (j - 1)
    <3>6. w \in Nat /\ v \in Nat /\ w = v + RetryDelay
      BY <3>1
    <3>7. g[j] = (finished[<<r, j>>] - ArrivalAt[r]) - w
          /\ g[j - 1] = (finished[<<r, j - 1>>] - ArrivalAt[r]) - v
      BY <3>5
    <3> HIDE DEF g, w, v
    <3>8. g[j] = g[j - 1] + Took(<<r, j>>)
      BY <1>2, <1>3, <3>2, <3>3, <3>4, <3>6, <3>7
    <3>9. QED
      BY <2>2, <3>8
  <2>3. QED
    BY <2>1, <2>2
<1>7. g = [j \in 0 .. k |-> IF j = 0 THEN Took(<<r, 0>>) ELSE g[j - 1] + Took(<<r, j>>)]
  BY <1>6
<1>8. Cardinality(Tried(r)) - 1 = k
  BY <1>1, <1>2
<1>9. g[k] = (finished[<<r, k>>] - ArrivalAt[r]) - RetryDelay * k /\ k \in 0 .. k
  BY <1>2
<1> HIDE DEF g
<1>10. ServiceTimes(r) = g
  BY <1>2, <1>7, <1>8, ServiceTimesAre
<1>11. outcomes[<<r, k>>] = OutcomeOf(<<r, k>>)
  BY <1>1, <1>9
<1>12. /\ Record(r).status = status[<<r, k>>]
       /\ Record(r).elapsed = finished[<<r, k>>] - ArrivalAt[r]
       /\ Record(r).service = g[k]
       /\ Record(r).wait = RetryDelay * k
  BY <1>8, <1>10, <1>11 DEF Record, OutcomeOf
<1>13. Record(r).elapsed = Record(r).service + Record(r).wait
  <2> DEFINE w == RetryDelay * k
  <2>1. w \in Nat
    BY <1>2
  <2>2. g[k] = (finished[<<r, k>>] - ArrivalAt[r]) - w /\ Record(r).wait = w
    BY <1>9, <1>12
  <2> HIDE DEF w
  <2>3. QED
    BY <1>2, <1>3, <1>9, <1>12, <2>1, <2>2
<1>14. Reconciles(r)
  <2>1. Cardinality(Tried(r)) > 0
    BY <1>1, <1>2
  <2>2. Tried(r) = {r} \X (0 .. Cardinality(Tried(r)) - 1)
    BY <1>1, <1>8
  <2>3. Record(r).status = "SUCCEEDED" \/ Cardinality(Tried(r)) - 1 = MaxRetries
    BY <1>1, <1>8, <1>12
  <2>4. QED
    BY <1>13, <2>1, <2>2, <2>3 DEF Reconciles
<1>15. QED
  BY <1>1, <1>12, <1>14

\* Records are made of what the learner has been told, and of nothing else.
LEMMA RecordsStay ==
    ASSUME UNCHANGED outcomes
    PROVE  /\ RetryMetrics' = RetryMetrics
           /\ \A r \in Requests : Reconciles(r)' <=> Reconciles(r)
<1>1. \A a : Took(a)' = Took(a)
  BY DEF Took
<1>2. \A r : Tried(r)' = Tried(r)
  BY DEF Tried
<1>3. \A r : ServiceTimes(r)' = ServiceTimes(r)
  BY <1>1, <1>2 DEF ServiceTimes
<1>4. \A r : Record(r)' = Record(r)
  BY <1>2, <1>3 DEF Record
<1>5. QED
  BY <1>2, <1>4 DEF RetryMetrics, Reconciles

\* In the hands of its caller, a drained episode has all its records.
LEMMA DrainRecorded ==
    ASSUME TypeInv, AttemptInv, Counted, Timely, Shown, Told, Tallied, DrainedResolved,
           phase = "drained", pc = "idle"
    PROVE  Unfinished = 0 /\ (\A r \in Requests : Reconciles(r)) /\ RetryMetrics = logical
<1>1. Resolved /\ phase \in AtCaller /\ Heard
  BY DEF DrainedResolved, AtCaller, Heard
<1>2. Unfinished = 0
  <2>1. last_view.counts = counts
    BY <1>1 DEF Shown
  <2>2. Cardinality(live) = 0
    BY <1>1, FS_EmptySet DEF Resolved
  <2>3. counts["arrived"] = Cardinality(live) + counts["SUCCEEDED"]
                            + counts["TIMED_OUT"] + counts["REJECTED"]
    BY DEF Counted, ReportExact
  <2>4. \A o \in Terminal \cup {"arrived"} : counts[o] \in Nat
    BY DEF TypeInv, TypeOK, RequestTypeOK, WindowTypeOK
  <2>5. /\ counts["SUCCEEDED"] \in Nat /\ counts["TIMED_OUT"] \in Nat
        /\ counts["REJECTED"] \in Nat
    BY <2>4 DEF Terminal
  <2>6. QED
    BY <2>1, <2>2, <2>3, <2>5 DEF Unfinished
<1>3. \A r \in Requests : Reconciles(r) /\ (Record(r).status = "SUCCEEDED" <=> r \in Succeeded)
  BY <1>1, Recorded
<1>4. Requests \ Succeeded = Lost
  <2>1. ASSUME NEW r \in Requests \ Succeeded PROVE r \in Lost
    <3>1. PICK k \in 0 .. MaxRetries :
              /\ status[<<r, k>>] = "SUCCEEDED" \/ (k = MaxRetries /\ status[<<r, k>>] \in Failed)
              /\ status[<<r, k>>] = "SUCCEEDED" <=> r \in Succeeded
      BY <1>1, TriedInRow
    <3>2. status[<<r, MaxRetries>>] \in Failed
      BY <3>1
    <3>3. QED
      BY <3>2, StagesTell DEF Lost
  <2>2. Lost \subseteq Requests \ Succeeded
    BY DEF Lost, Succeeded
  <2>3. QED
    BY <2>1, <2>2
<1>5. {r \in Requests : Record(r).status = "SUCCEEDED"} = Succeeded
  BY <1>3 DEF Succeeded
<1>6. RetryMetrics = [completed |-> Cardinality(Succeeded), failed |-> Cardinality(Lost)]
  BY <1>4, <1>5 DEF RetryMetrics
<1>7. logical = [completed |-> logical.completed, failed |-> logical.failed]
  BY DEF Tallied
<1>8. logical.completed = Cardinality(Succeeded) /\ logical.failed = Cardinality(Lost)
  BY <1>1, ToldCounts
<1>9. QED
  BY <1>2, <1>3, <1>6, <1>7, <1>8

LEMMA NextComplete ==
    ASSUME DrainComplete, [EnvNext]_envVars, phase' = "drained" /\ pc' = "idle" => DrainComplete'
    PROVE  DrainComplete'
<1> SUFFICES ASSUME phase' = "drained", pc' # "idle" PROVE DrainComplete'
  BY DEF DrainComplete
<1>1. UNCHANGED learnerVars
  <2>1. CASE Learner
    BY <2>1 DEF Learner, BeginWindow, Step, DrainWindow, DrainStep, Ask, Receive, vars
  <2>2. QED
    BY <2>1 DEF EnvNext, Serve, CloseEnv, envVars
<1>2. UNCHANGED <<phase, last_view, outcomes, logical>>
  BY <1>1 DEF learnerVars
<1>3. Unfinished' = Unfinished
  BY <1>2 DEF Unfinished
<1>4. QED
  BY <1>2, <1>3, RecordsStay DEF DrainComplete

\* The drain limit is late enough, to the instant: in a drained episode nothing
\* is unfinished and every original has a record whose attempts are numbered
\* without a gap, end in a success or with the last retry allowed, and fill the
\* time of the original together with the waits between them (retry_records
\* never raises); the records and the reward count alike.
THEOREM DrainsComplete == EnvSpec => []DrainComplete
<1>1. EnvInit => DrainComplete
  BY DEF EnvInit, DrainComplete
<1>2. TypeInv /\ AttemptInv /\ Counted /\ Timely /\ Shown /\ Told /\ Tallied /\ DrainedResolved
      => (phase = "drained" /\ pc = "idle" => DrainComplete)
  BY DrainRecorded DEF DrainComplete
<1>3. DrainComplete /\ [EnvNext]_envVars /\ (phase = "drained" /\ pc = "idle" => DrainComplete)'
      => DrainComplete'
  BY NextComplete
<1>4. EnvSpec => [](phase = "drained" /\ pc = "idle" => DrainComplete)
  BY <1>2, EpisodesAreRuns, HolderInvariant, CountedInvariant, TimelyInvariant,
     ShownInvariant, ToldInvariant, DrainedInvariant, PTL
<1>5. QED
  BY <1>1, <1>3, <1>4, PTL DEF EnvSpec
=============================================================================
