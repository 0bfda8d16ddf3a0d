-------------------------- MODULE EventRuntimeProofs --------------------------
(***************************************************************************)
(* Proofs about EventRuntime: the ledgers are exact and within capacity,   *)
(* transfers read and bring what they should, inputs stay where they are   *)
(* needed, what was offered to the policy stays possible, and when the     *)
(* runtime sleeps nothing is left that it could do.                        *)
(***************************************************************************)
EXTENDS EventRuntime, FiniteSetTheorems, TLAPS

-----------------------------------------------------------------------------
(***************************************************************************)
(* The invariants.                                                         *)
(***************************************************************************)
Placed == {"WAITING_DATA", "QUEUED", "RUNNING", "SUSPENDED"}

\* The life of a request and of its stages: before its arrival they wait, after
\* its end they are over; a stage goes on once what it depends on has succeeded,
\* and has a node from its placement on.
Lived ==
    /\ \A r \in Requests : requests[r] # "PENDING" => r \in come
    /\ \A s \in Stages :
          /\ requests[RequestOf[s]] = "PENDING" => stages[s] = "WAITING_DEPENDENCIES"
          /\ requests[RequestOf[s]] \notin Unresolved => stages[s] \in Over
          /\ stages[s] \in {"WAITING_DEPENDENCIES", "READY"} => node[s] = None
          /\ stages[s] \in Placed => node[s] \in Nodes
          /\ stages[s] \in Placed \cup {"READY"} =>
                \A d \in Dependencies[s] : stages[d] = "SUCCEEDED"

\* A stage has an activity from its first start to its end, suspended or not.
Executing ==
    /\ pc # "closed" => \A s \in Stages : stages[s] \in {"RUNNING", "SUSPENDED"} => s \in execs
    /\ \A s \in execs : stages[s] \in {"QUEUED", "RUNNING", "SUSPENDED"}

\* The visit a loop is in the middle of is about what it began with.
Visiting ==
    /\ pc \notin {"deliver", "data", "dispatch"} => job.for = None
    /\ job.for = None => job = NoJob
    /\ job.for # None /\ pc = "deliver" =>
          /\ job.for \in Requests /\ Active(job.for) /\ AllSucceeded(job.for)
          /\ job.rest \subseteq Deliverables[job.for] /\ job.taken = {}
    /\ job.for # None /\ pc = "data" =>
          /\ job.for \in Stages /\ stages[job.for] = "WAITING_DATA"
          /\ job.rest \subseteq Inputs[job.for] /\ job.taken = {}
    /\ job.for # None /\ pc = "dispatch" =>
          /\ job.for \in Stages /\ Dispatchable(job.for)
          /\ job.rest \subseteq Outputs[job.for] /\ job.taken \subseteq Outputs[job.for]

\* The commands left of a batch do not concern one another.
Batched ==
    /\ pc # "apply" => batch = {}
    /\ \A c, d \in batch :
          /\ c # d => c[2] # d[2]
          /\ c[1] = "reject" /\ d[1] \in {"place", "suspend", "resume"} =>
                RequestOf[d[2]] # c[2]

ControlInv == TypeOK /\ Lived /\ Executing /\ Visiting /\ Batched

\* No output is anywhere before its stage has succeeded; a visit that found
\* everything so far still has it.
Made == \A s \in Stages : stages[s] # "SUCCEEDED" => \A a \in Outputs[s] : Copies(a) = {}
Found ==
    job.for # None /\ pc = "data" /\ job.ok =>
        \A a \in Inputs[job.for] \ job.rest : <<a, node[job.for]>> \in replicas
DataInv == Made /\ Found /\ TransfersSound

\* A placement left in a batch is still possible.
Offered == \A c \in batch : c[1] = "place" => c[3] \in Candidates(c[2])
\* A stage was placed in reach of each input of which there is a copy at all.
Near ==
    \A s \in Stages : stages[s] = "WAITING_DATA" =>
        \A a \in Inputs[s] : Copies(a) = {} \/ \E m \in Copies(a) : Reaches(m, node[s])
InputInv == InputsHeld /\ Near /\ Offered

\* The outputs a visit has not reached, or has no room for yet, are not held.
Reserved ==
    job.for # None /\ pc = "dispatch" =>
        /\ Outputs[job.for] \subseteq storage[node[job.for]] \cup job.rest
        /\ job.for \in execs => job.rest = {} /\ job.taken = {}
        /\ job.rest \cap job.taken = {}
LedgerInv == Reserved /\ LedgersExact /\ WithinCapacity

AllInv == ControlInv /\ DataInv /\ InputInv /\ LedgerInv

-----------------------------------------------------------------------------
(***************************************************************************)
(* Sums: the units that a set takes up, each unit a pair.                  *)
(***************************************************************************)
Units(S, W) == UNION {{x} \X (1 .. W[x]) : x \in S}

LEMMA UsedUnits ==
    /\ \A S \in SUBSET Artifacts : Used(S) = Cardinality(Units(S, Size))
    /\ \A S \in SUBSET Stages : MemoryUsed(S) = Cardinality(Units(S, MemoryOf))
  BY DEF Used, MemoryUsed, Units

LEMMA UnitsOfOne ==
    ASSUME NEW x, NEW n \in Nat
    PROVE  IsFiniteSet({x} \X (1 .. n)) /\ Cardinality({x} \X (1 .. n)) = n
<1>1. n \in Int /\ 1 \in Int /\ n >= 0
  OBVIOUS
<1>2. IsFiniteSet({x}) /\ Cardinality({x}) = 1
  BY FS_Singleton
<1>3. IsFiniteSet(1 .. n) /\ Cardinality(1 .. n) = IF 1 > n THEN 0 ELSE n - 1 + 1
  BY <1>1, FS_Interval
<1>4. IsFiniteSet({x} \X (1 .. n)) /\ Cardinality({x} \X (1 .. n)) = 1 * Cardinality(1 .. n)
  BY <1>2, <1>3, FS_Product
<1>5. Cardinality(1 .. n) = n
  BY <1>1, <1>3
<1>6. QED
  BY <1>4, <1>5

LEMMA UnitsFinite ==
    ASSUME NEW A, IsFiniteSet(A), NEW W \in [A -> Nat], NEW S \in SUBSET A
    PROVE  IsFiniteSet(Units(S, W)) /\ Cardinality(Units(S, W)) \in Nat
<1> DEFINE units == [x \in S |-> {x} \X (1 .. W[x])]
           T == {{x} \X (1 .. W[x]) : x \in S}
<1>1. IsFiniteSet(S)
  BY FS_Subset
<1>2. units \in Surjection(S, T)
  <2>1. units \in [S -> T] /\ \A U \in T : \E x \in S : units[x] = U
    OBVIOUS
  <2>2. QED
    BY <2>1 DEF Surjection
<1>3. IsFiniteSet(T)
  BY <1>1, <1>2, FS_Surjection
<1>4. \A x \in S : IsFiniteSet({x} \X (1 .. W[x]))
  BY UnitsOfOne
<1>5. \A U \in T : IsFiniteSet(U)
  BY <1>4
<1>6. IsFiniteSet(UNION T)
  BY <1>3, <1>5, FS_UNION
<1>7. QED
  BY <1>6, FS_CardinalityType DEF Units

LEMMA UnitsGrow ==
    ASSUME NEW A, IsFiniteSet(A), NEW W \in [A -> Nat], NEW T \in SUBSET A, NEW S \in SUBSET T
    PROVE  Cardinality(Units(S, W)) <= Cardinality(Units(T, W))
<1>1. Units(S, W) \subseteq Units(T, W)
  BY DEF Units
<1>2. IsFiniteSet(Units(T, W))
  BY UnitsFinite
<1>3. QED
  BY <1>1, <1>2, FS_Subset

LEMMA UnitsAdd ==
    ASSUME NEW A, IsFiniteSet(A), NEW W \in [A -> Nat], NEW S \in SUBSET A, NEW x \in A
    PROVE  Cardinality(Units(S \cup {x}, W)) <= Cardinality(Units(S, W)) + W[x]
<1> DEFINE U == {x} \X (1 .. W[x])
<1>1. IsFiniteSet(Units(S, W)) /\ Cardinality(Units(S, W)) \in Nat
  BY UnitsFinite
<1>2. Units(S \cup {x}, W) = Units(S, W) \cup U
  BY DEF Units
<1>3. W[x] \in Nat
  OBVIOUS
<1>4. IsFiniteSet(U) /\ Cardinality(U) = W[x]
  BY <1>3, UnitsOfOne
<1> HIDE DEF U
<1>5. Cardinality(Units(S, W) \cup U) =
          Cardinality(Units(S, W)) + Cardinality(U) - Cardinality(Units(S, W) \cap U)
  BY <1>1, <1>4, FS_Union
<1>6. Cardinality(Units(S, W) \cap U) \in Nat
  BY <1>1, FS_Intersection, FS_CardinalityType
<1>7. Cardinality(Units(S, W) \cup U) <= Cardinality(Units(S, W)) + W[x]
  <2> DEFINE u == Cardinality(Units(S, W))
             i == Cardinality(Units(S, W) \cap U)
  <2>1. u \in Nat /\ i \in Nat /\ Cardinality(Units(S, W) \cup U) = u + W[x] - i
    BY <1>1, <1>4, <1>5, <1>6
  <2> HIDE DEF u, i
  <2>2. u + W[x] - i <= u + W[x]
    BY <1>3, <2>1
  <2>3. QED
    BY <2>1, <2>2 DEF u
<1>8. QED
  BY <1>2, <1>7

LEMMA StorageSums ==
    /\ \A T \in SUBSET Artifacts : Used(T) \in Nat
    /\ \A T \in SUBSET Artifacts : \A S \in SUBSET T : Used(S) <= Used(T)
    /\ \A S \in SUBSET Artifacts : \A x \in Artifacts : Used(S \cup {x}) <= Used(S) + Size[x]
<1>1. IsFiniteSet(Artifacts) /\ Size \in [Artifacts -> Nat]
  BY SetsAssumption, PlatformAssumption
<1>2. \A T \in SUBSET Artifacts : \A S \in SUBSET T : S \in SUBSET Artifacts
  OBVIOUS
<1>3. \A S \in SUBSET Artifacts : \A x \in Artifacts : S \cup {x} \in SUBSET Artifacts
  OBVIOUS
<1>4. QED
  BY <1>1, <1>2, <1>3, UnitsFinite, UnitsGrow, UnitsAdd, UsedUnits

LEMMA MemorySums ==
    /\ \A T \in SUBSET Stages : MemoryUsed(T) \in Nat
    /\ \A T \in SUBSET Stages : \A S \in SUBSET T : MemoryUsed(S) <= MemoryUsed(T)
    /\ \A S \in SUBSET Stages : \A x \in Stages : MemoryUsed(S \cup {x}) <= MemoryUsed(S) + MemoryOf[x]
<1>1. IsFiniteSet(Stages) /\ MemoryOf \in [Stages -> Nat]
  BY SetsAssumption, PlatformAssumption
<1>2. \A T \in SUBSET Stages : \A S \in SUBSET T : S \in SUBSET Stages
  OBVIOUS
<1>3. \A S \in SUBSET Stages : \A x \in Stages : S \cup {x} \in SUBSET Stages
  OBVIOUS
<1>4. QED
  BY <1>1, <1>2, <1>3, UnitsFinite, UnitsGrow, UnitsAdd, UsedUnits

-----------------------------------------------------------------------------
(***************************************************************************)
(* What evictions and collections spare: sources that are read, replicas   *)
(* on a node that needs them, and some replica for each that is in reach.  *)
(***************************************************************************)
Spared(K, rq, st, src) ==
    /\ K \subseteq replicas
    /\ \A k \in replicas \ K : ~Read(k[1], k[2], src) /\ k[2] \notin Destinations(k[1], rq, st)
    /\ \A a \in Artifacts : \A d \in Destinations(a, rq, st) :
          (\E m \in Copies(a) : Reaches(m, d)) => \E m \in Nodes : <<a, m>> \in K /\ Reaches(m, d)

LEMMA CollectionSpares ==
    ASSUME replicas \subseteq Keys, NEW rq, NEW st, NEW src,
           NEW K \in Collected(replicas, rq, st, src)
    PROVE  Spared(K, rq, st, src)
<1>1. K \subseteq replicas
  BY DEF Collected
<1>2. \A k \in replicas \ K : k[1] \notin Cacheable /\ ~Pinned(k, K \cup {k}, rq, st, src)
  BY DEF Collected
<1>3. \A k \in replicas \ K : ~Read(k[1], k[2], src) /\ k[2] \notin Destinations(k[1], rq, st)
  BY <1>2 DEF Pinned
<1>4. ASSUME NEW a \in Artifacts, NEW d \in Destinations(a, rq, st),
             NEW m \in Copies(a), Reaches(m, d)
      PROVE  \E q \in Nodes : <<a, q>> \in K /\ Reaches(q, d)
  <2>1. m \in Nodes /\ <<a, m>> \in replicas
    BY DEF Copies
  <2>2. CASE <<a, m>> \in K
    BY <1>4, <2>1, <2>2
  <2>3. CASE <<a, m>> \notin K
    <3>1. ~Pinned(<<a, m>>, K \cup {<<a, m>>}, rq, st, src)
      BY <1>2, <2>1, <2>3
    <3>2. ~NeededAt(a, m, d, K \cup {<<a, m>>})
      BY <3>1 DEF Pinned
    <3>3. QED
      BY <1>4, <3>2 DEF NeededAt
  <2>4. QED
    BY <2>2, <2>3
<1>5. QED
  BY <1>1, <1>3, <1>4 DEF Spared

LEMMA EvictionSpares ==
    ASSUME replicas \subseteq Keys, NEW n \in Nodes, NEW E \in SUBSET Evictable(n)
    PROVE  Spared(replicas \ (E \X {n}), requests, stages, source)
<1> DEFINE K == replicas \ (E \X {n})
<1>1. \A k \in replicas \ K : /\ k = <<k[1], n>> /\ k[2] = n
                              /\ ~Pinned(<<k[1], n>>, replicas, requests, stages, source)
  BY DEF Evictable
<1>2. \A k \in replicas \ K : /\ ~Read(k[1], k[2], source)
                              /\ k[2] \notin Destinations(k[1], requests, stages)
  BY <1>1 DEF Pinned
<1>3. ASSUME NEW a \in Artifacts, NEW d \in Destinations(a, requests, stages),
             NEW m \in Copies(a), Reaches(m, d)
      PROVE  \E q \in Nodes : <<a, q>> \in K /\ Reaches(q, d)
  <2>1. m \in Nodes /\ <<a, m>> \in replicas
    BY DEF Copies
  <2>2. CASE <<a, m>> \in K
    BY <1>3, <2>1, <2>2
  <2>3. CASE <<a, m>> \notin K
    <3>1. m = n /\ ~Pinned(<<a, m>>, replicas, requests, stages, source)
      BY <1>1, <2>1, <2>3
    <3>2. ~NeededAt(a, m, d, replicas)
      BY <3>1 DEF Pinned
    <3>3. PICK q \in Nodes \ {m} : <<a, q>> \in replicas /\ Reaches(q, d)
      BY <1>3, <3>2 DEF NeededAt
    <3>4. <<a, q>> \in K
      BY <3>1, <3>3
    <3>5. QED
      BY <3>3, <3>4
  <2>4. QED
    BY <2>2, <2>3
<1>4. QED
  BY <1>2, <1>3 DEF Spared

LEMMA ReservationFacts ==
    ASSUME NEW a \in Artifacts, NEW n \in Nodes, NEW v \in Reservations(a, n)
    PROVE  /\ v.evicted \in SUBSET Evictable(n)
           /\ v.ok => \/ a \in storage[n] /\ v.evicted = {}
                      \/ Fits(a, n, v.evicted)
<1>1. \A E \in Evictions(a, n) : E \in SUBSET Evictable(n)
  BY DEF Evictions
<1>2. QED
  BY <1>1 DEF Reservations

-----------------------------------------------------------------------------
(***************************************************************************)
(* Kinds of steps: what a step can do to requests, stages, data and        *)
(* activities, and which handler does it.                                  *)
(***************************************************************************)
StatusTypes ==
    /\ requests \in [Requests -> RequestStatuses]
    /\ come \subseteq Requests /\ late \subseteq come \cap HasDeadline
    /\ stages \in [Stages -> StageStatuses]
    /\ node \in [Stages -> Nodes \cup {None}] /\ delayed \subseteq Stages
DataTypes ==
    /\ replicas \subseteq Keys
    /\ source \in [Keys -> Nodes \cup {None}]
    /\ waiters \in [Keys -> SUBSET (Stages \cup Requests)]
    /\ \A k \in Keys : source[k] = None <=> waiters[k] = {}
    /\ landed \subseteq Transferring
    /\ storage \in [Nodes -> SUBSET Artifacts]
ExecTypes ==
    /\ execs \subseteq Stages /\ ended \subseteq execs
    /\ memory \in [Nodes -> SUBSET Stages]
JobTypes == [for : Stages \cup Requests \cup {None}, rest : SUBSET Artifacts,
             ok : BOOLEAN, taken : SUBSET Artifacts]
LoopTypes ==
    /\ pc \in Phases /\ round \in {"first", "active", "again"}
    /\ todo \subseteq Stages \cup Requests /\ job \in JobTypes
    /\ changed \in BOOLEAN /\ passes \in 0 .. MaxPasses /\ expired \in BOOLEAN
    /\ placements \in [Stages -> Nodes \cup {None}]
ClientTypes ==
    /\ pending \in BOOLEAN /\ batch \subseteq Commands
    /\ dirty \in BOOLEAN /\ since \in BOOLEAN
    /\ wake \in Timers /\ boundary \in Timers /\ horizon \in Timers
    /\ reason \in {"none", "completed", "truncated", "deadlock"}

LEMMA TypeParts ==
    TypeOK <=> StatusTypes /\ DataTypes /\ ExecTypes /\ LoopTypes /\ ClientTypes
  BY DEF TypeOK, StatusTypes, DataTypes, ExecTypes, LoopTypes, ClientTypes, JobTypes

Outcomes == {"SUCCEEDED", "REJECTED", "FAILED", "TIMED_OUT"}
Resolve(r) == r \in come /\ \E o \in Outcomes : Finish(r, o)
Readies(s) ==
    /\ MayBeReady(s) /\ Candidates(s) # {}
    /\ stages' = [stages EXCEPT ![s] = "READY"]
    /\ UNCHANGED <<requestVars, node, delayed, dataVars, execVars, engineVars>>
Places(P) ==
    /\ \A s \in P : /\ stages[s] = "READY" /\ node'[s] \in Nodes
                    /\ node'[s] \in Candidates(s) \/ <<"place", s, node'[s]>> \in batch
    /\ stages' = [s \in Stages |-> IF s \in P THEN "WAITING_DATA" ELSE stages[s]]
    /\ node' = [s \in Stages |-> IF s \in P THEN node'[s] ELSE node[s]]
    /\ UNCHANGED <<requestVars, delayed, dataVars, execVars, engineVars>>
Switches(s) ==
    /\ \/ stages[s] = "RUNNING" /\ stages' = [stages EXCEPT ![s] = "SUSPENDED"]
       \/ stages[s] = "SUSPENDED" /\ stages' = [stages EXCEPT ![s] = "QUEUED"]
    /\ delayed' \in {delayed, delayed \cup {s}}
    /\ UNCHANGED <<requestVars, node, dataVars, execVars, engineVars>>
Wakes ==
    /\ pc = "wait"
    /\ come \subseteq come' /\ come' \subseteq Requests
    /\ late' \subseteq come' \cap HasDeadline
    /\ landed' \subseteq Transferring
    /\ ended \subseteq ended' /\ ended' \subseteq ended \cup Computing
    /\ delayed' \subseteq delayed
    /\ UNCHANGED <<requests, stages, node, dataVars, execVars>>
Closes ==
    /\ pc' = "closed" /\ execs' = {} /\ ended' = {} /\ landed' = {}
    /\ UNCHANGED <<requestVars, stageVars, dataVars, memory>>

StepKinds ==
    \/ UNCHANGED finishVars
    \/ \E r \in Requests : Resolve(r)
    \/ Reap
    \/ \E r \in Requests : Arrive(r)
    \/ \E s \in Stages : Readies(s) \/ Gathered(s) \/ StartStage(s) \/ Switches(s)
    \/ \E P \in SUBSET Stages : Places(P)
    \/ Wakes
    \/ Closes
    \/ \E a \in Artifacts : JoinTransfer(a) \/ NoRoom(a) \/ StartTransfer(a) \/ ReserveOutput(a)
    \/ Collect

LEMMA CommandFacts ==
    ASSUME NEW c \in Commands
    PROVE  \/ c[1] = "place" /\ c[2] \in Having("READY") /\ c[3] \in Nodes /\ c = <<"place", c[2], c[3]>>
           \/ c[1] = "suspend" /\ c[2] \in Having("RUNNING")
           \/ c[1] = "resume" /\ c[2] \in Having("SUSPENDED")
           \/ c[1] = "reject" /\ c[2] \in Requests /\ Active(c[2])
           \/ c[1] = "defer"
  BY DEF Commands

LEMMA CommandSteps ==
    ASSUME ControlInv, NEW c \in batch, ApplyCommand(c)
    PROVE  StepKinds
<1>1. c \in Commands
  BY DEF ControlInv, TypeOK
<1>2. \/ c[1] = "place" /\ c[2] \in Having("READY") /\ c[3] \in Nodes /\ c = <<"place", c[2], c[3]>>
      \/ c[1] = "suspend" /\ c[2] \in Having("RUNNING")
      \/ c[1] = "resume" /\ c[2] \in Having("SUSPENDED")
      \/ c[1] = "reject" /\ c[2] \in Requests /\ Active(c[2])
      \/ c[1] = "defer"
  BY <1>1, CommandFacts
<1>3. stages \in [Stages -> StageStatuses] /\ node \in [Stages -> Nodes \cup {None}]
  BY DEF ControlInv, TypeOK
<1>4. CASE c[1] = "place"
  <2>1. /\ c[2] \in Stages /\ stages[c[2]] = "READY" /\ c[3] \in Nodes
        /\ <<"place", c[2], c[3]>> \in batch
    BY <1>2, <1>4 DEF Having
  <2>2. /\ stages' = [stages EXCEPT ![c[2]] = "WAITING_DATA"]
        /\ node' = [node EXCEPT ![c[2]] = c[3]]
        /\ UNCHANGED <<requestVars, delayed, dataVars, execVars, engineVars>>
    BY <1>4 DEF ApplyCommand
  <2>3. Places({c[2]})
    <3>1. stages' = [s \in Stages |-> IF s \in {c[2]} THEN "WAITING_DATA" ELSE stages[s]]
      BY <1>3, <2>2
    <3>2. node' = [s \in Stages |-> IF s \in {c[2]} THEN node'[s] ELSE node[s]]
      BY <1>3, <2>2
    <3>3. node'[c[2]] = c[3]
      BY <1>3, <2>1, <2>2
    <3>4. QED
      BY <2>1, <2>2, <3>1, <3>2, <3>3 DEF Places
  <2>4. QED
    BY <2>1, <2>3 DEF StepKinds
<1>5. CASE c[1] \in {"suspend", "resume"}
  <2>1. Switches(c[2])
    BY <1>2, <1>5 DEF ApplyCommand, Switches, Having
  <2>2. c[2] \in Stages
    BY <1>2, <1>5 DEF Having
  <2>3. QED
    BY <2>1, <2>2 DEF StepKinds
<1>6. CASE c[1] = "reject"
  <2>1. c[2] \in Requests /\ Active(c[2]) /\ Finish(c[2], "REJECTED")
    BY <1>2, <1>6 DEF ApplyCommand
  <2>2. c[2] \in come
    BY <2>1 DEF ControlInv, Lived, Active
  <2>3. Resolve(c[2])
    BY <2>1, <2>2 DEF Resolve, Outcomes
  <2>4. QED
    BY <2>1, <2>3 DEF StepKinds
<1>7. CASE c[1] = "defer"
  BY <1>7 DEF ApplyCommand, StepKinds, finishVars, requestVars, stageVars, dataVars, execVars, engineVars
<1>8. QED
  BY <1>2, <1>4, <1>5, <1>6, <1>7

LEMMA WaitSteps ==
    ASSUME ControlInv, NEW E \in SUBSET Occasions, Wait(E)
    PROVE  Wakes
<1>1. /\ Of(E, "landed") \subseteq Transferring
      /\ Of(E, "ended") \subseteq Computing
      /\ Of(E, "arrival") \subseteq Requests
      /\ Of(E, "deadline") \subseteq HasDeadline
  BY DEF Of, Occasions, Events
<1>2. come \subseteq Requests /\ late \subseteq come \cap HasDeadline
  BY DEF ControlInv, TypeOK
<1>3. \A r \in Requests : Active(r) => r \in come
  BY DEF ControlInv, Lived, Active
<1>4. HasDeadline \subseteq Requests
  BY WorkflowAssumption
<1>5. Of(E, "deadline") \subseteq come \cup Of(E, "arrival")
  BY <1>1, <1>3, <1>4 DEF Wait
<1>6. QED
  BY <1>1, <1>2, <1>5 DEF Wait, Wakes, requestVars, stageVars

LEMMA Kinds ==
    ASSUME ControlInv, [Next]_vars
    PROVE  StepKinds /\ (pc' # "closed" => pc # "closed")
<1> USE DEF finishVars
<1>1. ASSUME NEW r \in Requests, Active(r) PROVE r \in come
  BY <1>1 DEF ControlInv, Lived, Active
<1>2. CASE Reap \/ PlaceAll
  <2>1. CASE PlaceAll
    <3> DEFINE P == {s \in Stages : placements[s] # None /\ Active(RequestOf[s])}
    <3>1. placements \in [Stages -> Nodes \cup {None}] /\ node \in [Stages -> Nodes \cup {None}]
      BY DEF ControlInv, TypeOK
    <3>2. \A s \in P : stages[s] = "READY" /\ placements[s] \in Candidates(s) /\ placements[s] \in Nodes
      BY <2>1, <3>1 DEF PlaceAll
    <3>3. node' = [s \in Stages |-> IF s \in P THEN placements[s] ELSE node[s]]
      BY <2>1 DEF PlaceAll
    <3>4. stages' = [s \in Stages |-> IF s \in P THEN "WAITING_DATA" ELSE stages[s]]
      BY <2>1 DEF PlaceAll
    <3>5. UNCHANGED <<requestVars, delayed, dataVars, execVars, engineVars>>
      BY <2>1 DEF PlaceAll
    <3>6. P \in SUBSET Stages
      OBVIOUS
    <3> HIDE DEF P
    <3>7. Places(P)
      BY <3>2, <3>3, <3>4, <3>5, <3>6 DEF Places
    <3>8. QED
      BY <2>1, <3>6, <3>7 DEF StepKinds, PlaceAll
  <2>2. QED
    BY <1>2, <2>1 DEF StepKinds, Reap
<1>3. ASSUME NEW r \in Requests,
             Deliver(r) \/ Delivered(r) \/ Expire(r) \/ Arrive(r) \/ Refuse(r) \/ Fail(r)
      PROVE  StepKinds /\ pc # "closed"
  <2>1. CASE Deliver(r)
    BY <2>1 DEF Deliver, StepKinds
  <2>2. CASE Delivered(r)
    <3>1. CASE job.ok
      <4>1. Active(r) /\ Finish(r, "SUCCEEDED") /\ pc = "deliver"
        BY <2>2, <3>1, SetsAssumption DEF Delivered, ControlInv, Visiting
      <4>2. QED
        BY <1>1, <4>1 DEF StepKinds, Resolve, Outcomes
    <3>2. QED
      BY <2>2, <3>1 DEF Delivered, StepKinds
  <2>3. CASE Expire(r)
    BY <1>1, <2>3 DEF Expire, StepKinds, Resolve, Outcomes
  <2>4. CASE Arrive(r)
    BY <2>4 DEF Arrive, StepKinds
  <2>5. CASE Refuse(r)
    BY <2>5 DEF Refuse, StepKinds, Resolve, Outcomes
  <2>6. CASE Fail(r)
    BY <1>1, <2>6 DEF Fail, StepKinds, Resolve, Outcomes
  <2>7. QED
    BY <1>3, <2>1, <2>2, <2>3, <2>4, <2>5, <2>6
<1>4. ASSUME NEW a \in Artifacts,
             HaveReplica(a) \/ JoinTransfer(a) \/ NoSource(a) \/ NoRoom(a) \/ StartTransfer(a) \/ ReserveOutput(a)
      PROVE  StepKinds /\ pc # "closed"
  <2>1. CASE HaveReplica(a) \/ NoSource(a)
    BY <2>1 DEF HaveReplica, NoSource, Wanted, Fetch, fetchFrame, StepKinds
  <2>2. CASE JoinTransfer(a) \/ NoRoom(a) \/ StartTransfer(a) \/ ReserveOutput(a)
    BY <2>2 DEF JoinTransfer, NoRoom, StartTransfer, ReserveOutput, Wanted, Fetch, StepKinds
  <2>3. QED
    BY <1>4, <2>1, <2>2
<1>5. ASSUME NEW s \in Stages,
             MakeReady(s) \/ Gather(s) \/ Gathered(s) \/ Dispatch(s) \/ SkipStage(s) \/ StartStage(s)
      PROVE  StepKinds /\ pc # "closed"
  <2>1. CASE MakeReady(s)
    <3>1. RequestOf[s] \in Requests /\ Active(RequestOf[s]) /\ pc = "ready"
      BY <2>1, WorkflowAssumption DEF MakeReady, MayBeReady
    <3>2. CASE Finish(RequestOf[s], "REJECTED")
      BY <1>1, <3>1, <3>2 DEF StepKinds, Resolve, Outcomes
    <3>3. CASE ~Finish(RequestOf[s], "REJECTED")
      BY <2>1, <3>1, <3>3 DEF MakeReady, Readies, StepKinds
    <3>4. QED
      BY <3>2, <3>3
  <2>2. CASE Gather(s) \/ Dispatch(s) \/ SkipStage(s)
    BY <2>2 DEF Gather, Dispatch, SkipStage, StepKinds
  <2>3. CASE Gathered(s) \/ StartStage(s)
    BY <2>3 DEF Gathered, StartStage, StepKinds
  <2>4. QED
    BY <1>5, <2>1, <2>2, <2>3
<1>6. CASE EndDeliver \/ EndExpire \/ EndArrive \/ EndData \/ EndDispatch
  BY <1>6 DEF EndDeliver, EndExpire, EndArrive, EndData, EndDispatch, restFrame, StepKinds
<1>7. CASE Collect \/ Return \/ Deadlock \/ EndFail
  BY <1>7 DEF Collect, Return, Deadlock, EndFail, StepKinds
<1>8. CASE Sleep
  BY <1>8, WaitSteps DEF Sleep, StepKinds, Wakes
<1>9. CASE Decision
  <2>1. ASSUME NEW c \in batch, ApplyCommand(c) PROVE StepKinds /\ pc # "closed"
    BY <2>1, CommandSteps DEF ApplyCommand
  <2>2. QED
    BY <1>9, <2>1 DEF Decision, Apply, EndApply, StepKinds
<1>10. CASE (\E limit \in Boundaries : Advance(limit)) \/ (Close /\ UNCHANGED since)
  BY <1>10 DEF Advance, Close, Closes, StepKinds
<1>11. CASE Closed \/ UNCHANGED vars
  BY <1>11 DEF Closed, vars, StepKinds
<1>12. QED
  BY <1>2, <1>3, <1>4, <1>5, <1>6, <1>7, <1>8, <1>9, <1>10, <1>11 DEF Next, Settle

-----------------------------------------------------------------------------
(***************************************************************************)
(* The control invariant: requests and stages.                             *)
(***************************************************************************)
LEMMA OfRequest == \A s \in Stages : RequestOf[s] \in Requests
  BY WorkflowAssumption

\* Finish cancels the stages of the request that are not over.
Cancelled(r) == {s \in StagesOf(r) : stages[s] \notin Over}

LEMMA FinishStatus ==
    ASSUME NEW r, NEW o, Finish(r, o)
    PROVE  /\ requests[r] \in Unresolved
           /\ requests' = [requests EXCEPT ![r] = o]
           /\ stages' = [s \in Stages |-> IF s \in Cancelled(r) THEN "CANCELLED" ELSE stages[s]]
           /\ UNCHANGED <<come, late, node, delayed>>
           /\ execs' = execs \ Cancelled(r) /\ ended' = ended \ Cancelled(r)
           /\ memory' = [n \in Nodes |-> memory[n] \ Cancelled(r)]
  BY DEF Finish, Cancelled

LEMMA MovedStage ==
    ASSUME StatusTypes, Lived, NEW s \in Stages, NEW to \in StageStatuses,
           stages' = [stages EXCEPT ![s] = to], UNCHANGED <<requests, come, late, node>>,
           delayed' \subseteq Stages, Active(RequestOf[s]),
           \/ to = "READY" /\ node[s] = None
           \/ to \in Placed /\ node[s] \in Nodes,
           \A d \in Dependencies[s] : stages[d] = "SUCCEEDED",
           stages[s] # "SUCCEEDED"
    PROVE  StatusTypes' /\ Lived'
<1>1. StatusTypes'
  BY DEF StatusTypes
<1>2. stages'[s] = to /\ \A u \in Stages \ {s} : stages'[u] = stages[u]
  BY DEF StatusTypes
<1>3. \A u \in Stages : \A d \in Dependencies[u] : d \in Stages
  BY WorkflowAssumption
<1>4. to \notin Over /\ to # "WAITING_DEPENDENCIES" /\ "READY" \notin Placed
  BY DEF Over, Placed
<1>5. \A r \in Requests : requests'[r] # "PENDING" => r \in come'
  BY DEF Lived
<1>6. ASSUME NEW u \in Stages
      PROVE  /\ requests[RequestOf[u]] = "PENDING" => stages'[u] = "WAITING_DEPENDENCIES"
             /\ requests[RequestOf[u]] \notin Unresolved => stages'[u] \in Over
             /\ stages'[u] \in {"WAITING_DEPENDENCIES", "READY"} => node[u] = None
             /\ stages'[u] \in Placed => node[u] \in Nodes
             /\ stages'[u] \in Placed \cup {"READY"} =>
                   \A d \in Dependencies[u] : stages'[d] = "SUCCEEDED"
  <2>1. stages'[u] \in Placed \cup {"READY"} => \A d \in Dependencies[u] : stages[d] = "SUCCEEDED"
    BY <1>2 DEF Lived
  <2>2. stages'[u] \in Placed \cup {"READY"} => \A d \in Dependencies[u] : stages'[d] = "SUCCEEDED"
    BY <1>2, <1>3, <2>1
  <2>3. CASE u = s
    BY <1>2, <1>4, <2>2, <2>3 DEF Active, Unresolved
  <2>4. CASE u # s
    BY <1>2, <2>2, <2>4 DEF Lived
  <2>5. QED
    BY <2>3, <2>4
<1>7. QED
  BY <1>1, <1>5, <1>6 DEF Lived

LEMMA ResolvedLived ==
    ASSUME StatusTypes, Lived, NEW r \in Requests, Resolve(r)
    PROVE  StatusTypes' /\ Lived'
<1>1. PICK o \in Outcomes : Finish(r, o)
  BY DEF Resolve
<1>2. /\ requests' = [requests EXCEPT ![r] = o]
      /\ stages' = [s \in Stages |-> IF s \in Cancelled(r) THEN "CANCELLED" ELSE stages[s]]
      /\ UNCHANGED <<come, late, node, delayed>> /\ r \in come
  BY <1>1, FinishStatus DEF Resolve
<1>3. o \in RequestStatuses /\ o \notin Unresolved /\ o # "PENDING"
  BY DEF Outcomes, RequestStatuses, Unresolved
<1>4. "CANCELLED" \in StageStatuses /\ "CANCELLED" \in Over
  BY DEF StageStatuses, Over
<1>5. StatusTypes'
  BY <1>2, <1>3, <1>4 DEF StatusTypes
<1>6. \A s \in Stages : stages'[s] = stages[s] \/ (stages'[s] = "CANCELLED" /\ s \in Cancelled(r))
  BY <1>2
<1>7. \A u \in Stages : \A d \in Dependencies[u] : d \in Stages
  BY WorkflowAssumption
<1>8. "SUCCEEDED" \in Over /\ "CANCELLED" \notin Placed \cup {"READY", "WAITING_DEPENDENCIES"}
  BY DEF Over, Placed
<1>9. \A q \in Requests : requests'[q] # "PENDING" => q \in come'
  BY <1>2 DEF StatusTypes, Lived
<1>10. ASSUME NEW u \in Stages
      PROVE  /\ requests'[RequestOf[u]] = "PENDING" => stages'[u] = "WAITING_DEPENDENCIES"
             /\ requests'[RequestOf[u]] \notin Unresolved => stages'[u] \in Over
             /\ stages'[u] \in {"WAITING_DEPENDENCIES", "READY"} => node[u] = None
             /\ stages'[u] \in Placed => node[u] \in Nodes
             /\ stages'[u] \in Placed \cup {"READY"} =>
                   \A d \in Dependencies[u] : stages'[d] = "SUCCEEDED"
  <2>1. stages'[u] \in Placed \cup {"READY"} => \A d \in Dependencies[u] : stages[d] = "SUCCEEDED"
    BY <1>6, <1>8 DEF Lived
  <2>2. stages'[u] \in Placed \cup {"READY"} => \A d \in Dependencies[u] : stages'[d] = "SUCCEEDED"
    BY <1>6, <1>7, <1>8, <2>1 DEF Cancelled
  <2>3. RequestOf[u] \in Requests
    BY OfRequest
  <2>4. CASE RequestOf[u] = r
    <3>1. requests'[RequestOf[u]] = o
      BY <1>2, <2>3, <2>4 DEF StatusTypes
    <3>2. stages'[u] \in Over
      BY <1>2, <1>4, <2>4 DEF Cancelled, StagesOf
    <3>3. QED
      BY <1>3, <2>2, <3>1, <3>2 DEF Over, Placed
  <2>5. CASE RequestOf[u] # r
    <3>1. requests'[RequestOf[u]] = requests[RequestOf[u]]
      BY <1>2, <2>3, <2>5 DEF StatusTypes
    <3>2. stages'[u] = stages[u]
      BY <1>6, <2>5 DEF Cancelled, StagesOf
    <3>3. QED
      BY <2>2, <3>1, <3>2 DEF Lived
  <2>6. QED
    BY <2>4, <2>5
<1>11. QED
  BY <1>2, <1>5, <1>9, <1>10 DEF Lived

LEMMA ReapedLived ==
    ASSUME StatusTypes, ExecTypes, Lived, Executing, Reap
    PROVE  StatusTypes' /\ Lived'
<1> DEFINE done == {s \in ended : stages[s] # "SUSPENDED"}
<1>1. /\ stages' = [s \in Stages |-> IF s \in done THEN "SUCCEEDED" ELSE stages[s]]
      /\ UNCHANGED <<requestVars, node, delayed>>
  BY DEF Reap
<1>2. \A s \in done : stages[s] \in {"QUEUED", "RUNNING"}
  BY DEF ExecTypes, Executing
<1> HIDE DEF done
<1>3. StatusTypes'
  BY <1>1 DEF StatusTypes, StageStatuses, Over, requestVars
<1>4. \A s \in Stages : /\ s \in done => stages'[s] = "SUCCEEDED"
                        /\ s \notin done => stages'[s] = stages[s]
  BY <1>1
<1>5. \A u \in Stages : \A d \in Dependencies[u] : d \in Stages
  BY WorkflowAssumption
<1>6. ASSUME NEW u \in Stages
      PROVE  /\ requests[RequestOf[u]] = "PENDING" => stages'[u] = "WAITING_DEPENDENCIES"
             /\ requests[RequestOf[u]] \notin Unresolved => stages'[u] \in Over
             /\ stages'[u] \in {"WAITING_DEPENDENCIES", "READY"} => node[u] = None
             /\ stages'[u] \in Placed => node[u] \in Nodes
             /\ stages'[u] \in Placed \cup {"READY"} =>
                   \A d \in Dependencies[u] : stages'[d] = "SUCCEEDED"
  <2>1. CASE u \in done
    BY <1>2, <1>4, <2>1 DEF Over, Placed, Lived
  <2>2. CASE u \notin done
    BY <1>4, <1>5, <2>2 DEF Lived
  <2>3. QED
    BY <2>1, <2>2
<1>7. QED
  BY <1>1, <1>3, <1>6 DEF Lived, requestVars

LEMMA PlacedLived ==
    ASSUME StatusTypes, Lived, NEW P \in SUBSET Stages, Places(P)
    PROVE  StatusTypes' /\ Lived'
<1>1. /\ stages' = [s \in Stages |-> IF s \in P THEN "WAITING_DATA" ELSE stages[s]]
      /\ node' = [s \in Stages |-> IF s \in P THEN node'[s] ELSE node[s]]
      /\ \A s \in P : stages[s] = "READY" /\ node'[s] \in Nodes
      /\ UNCHANGED <<requestVars, delayed>>
  BY DEF Places
<1>2. StatusTypes'
  <2>1. \A s \in Stages : node'[s] \in Nodes \cup {None}
    <3> TAKE s \in Stages
    <3>1. CASE s \in P
      BY <1>1, <3>1
    <3>2. CASE s \notin P
      <4>1. node'[s] = node[s]
        BY <1>1, <3>2
      <4>2. QED
        BY <4>1 DEF StatusTypes
    <3>3. QED
      BY <3>1, <3>2
  <2>2. node' \in [Stages -> Nodes \cup {None}]
    BY <1>1, <2>1
  <2>3. stages' \in [Stages -> StageStatuses]
    BY <1>1 DEF StatusTypes, StageStatuses
  <2>4. QED
    BY <1>1, <2>2, <2>3 DEF StatusTypes, requestVars
<1>3. \A s \in Stages : IF s \in P THEN stages'[s] = "WAITING_DATA"
                        ELSE stages'[s] = stages[s] /\ node'[s] = node[s]
  BY <1>1
<1>4. \A u \in Stages : \A d \in Dependencies[u] : d \in Stages
  BY WorkflowAssumption
<1>5. ASSUME NEW u \in Stages
      PROVE  /\ requests[RequestOf[u]] = "PENDING" => stages'[u] = "WAITING_DEPENDENCIES"
             /\ requests[RequestOf[u]] \notin Unresolved => stages'[u] \in Over
             /\ stages'[u] \in {"WAITING_DEPENDENCIES", "READY"} => node'[u] = None
             /\ stages'[u] \in Placed => node'[u] \in Nodes
             /\ stages'[u] \in Placed \cup {"READY"} =>
                   \A d \in Dependencies[u] : stages'[d] = "SUCCEEDED"
  <2>1. \A d \in Dependencies[u] : stages[d] = "SUCCEEDED" => stages'[d] = "SUCCEEDED"
    BY <1>1, <1>3, <1>4
  <2>2. CASE u \in P
    BY <1>1, <1>3, <2>1, <2>2 DEF Lived, Over, Placed
  <2>3. CASE u \notin P
    BY <1>3, <2>1, <2>3 DEF Lived
  <2>4. QED
    BY <2>2, <2>3
<1>6. QED
  BY <1>1, <1>2, <1>5 DEF Lived, requestVars

LEMMA LivedKeeps ==
    ASSUME ControlInv, StepKinds
    PROVE  StatusTypes' /\ Lived'
<1>1. StatusTypes /\ ExecTypes /\ Lived /\ Executing
  BY TypeParts DEF ControlInv
<1> USE DEF requestVars, stageVars
<1>2. CASE UNCHANGED finishVars
  BY <1>1, <1>2 DEF finishVars, StatusTypes, Lived
<1>3. ASSUME NEW r \in Requests, Arrive(r) PROVE StatusTypes' /\ Lived'
  <2>1. /\ requests' = [requests EXCEPT ![r] = "ACTIVE"] /\ r \in come
        /\ requests[r] = "PENDING" /\ UNCHANGED <<come, late, stages, node, delayed>>
    BY <1>3 DEF Arrive
  <2>2. StatusTypes'
    BY <1>1, <2>1 DEF StatusTypes, RequestStatuses, Unresolved
  <2>3. requests'[r] = "ACTIVE" /\ \A q \in Requests \ {r} : requests'[q] = requests[q]
    BY <1>1, <2>1 DEF StatusTypes
  <2>4. QED
    BY <1>1, <2>1, <2>2, <2>3, OfRequest DEF Lived, Unresolved
<1>4. ASSUME NEW s \in Stages, Readies(s) PROVE StatusTypes' /\ Lived'
  <2>1. /\ stages' = [stages EXCEPT ![s] = "READY"] /\ Active(RequestOf[s])
        /\ UNCHANGED <<requests, come, late, node, delayed>>
    BY <1>4 DEF Readies, MayBeReady
  <2>2. /\ node[s] = None /\ stages[s] # "SUCCEEDED"
        /\ \A d \in Dependencies[s] : stages[d] = "SUCCEEDED"
    BY <1>1, <1>4 DEF Readies, MayBeReady, Lived
  <2>3. "READY" \in StageStatuses /\ delayed' \subseteq Stages
    BY <1>1, <2>1 DEF StageStatuses, StatusTypes
  <2>4. QED
    BY <1>1, <2>1, <2>2, <2>3, MovedStage
<1>5. ASSUME NEW s \in Stages,
             stages[s] \in Placed, \E to \in Placed : stages' = [stages EXCEPT ![s] = to],
             UNCHANGED <<requests, come, late, node>>, delayed' \subseteq Stages
      PROVE  StatusTypes' /\ Lived'
  <2>1. PICK to \in Placed : stages' = [stages EXCEPT ![s] = to]
    BY <1>5
  <2>2. /\ node[s] \in Nodes /\ stages[s] # "SUCCEEDED"
        /\ \A d \in Dependencies[s] : stages[d] = "SUCCEEDED"
    BY <1>1, <1>5 DEF Lived, Placed
  <2>3. to \in StageStatuses
    BY DEF StageStatuses, Placed
  <2>4. Active(RequestOf[s])
    <3>1. requests[RequestOf[s]] # "PENDING" /\ requests[RequestOf[s]] \in Unresolved
      BY <1>1, <1>5 DEF Lived, Placed, Over
    <3>2. QED
      BY <3>1 DEF Active, Unresolved
  <2>5. QED
    BY <1>1, <1>5, <2>1, <2>2, <2>3, <2>4, MovedStage
<1>6. ASSUME NEW s \in Stages, Gathered(s) \/ StartStage(s) \/ Switches(s)
      PROVE  StatusTypes' /\ Lived'
  <2>1. delayed' \subseteq Stages /\ UNCHANGED <<requests, come, late, node>>
    BY <1>1, <1>6 DEF Gathered, StartStage, Switches, StatusTypes
  <2>2. CASE Gathered(s)
    <3>1. job.for = s /\ pc = "data" /\ s # None
      BY <2>2, SetsAssumption DEF Gathered
    <3>2. stages[s] = "WAITING_DATA"
      BY <3>1 DEF ControlInv, Visiting
    <3>3. CASE job.ok
      <4>1. stages' = [stages EXCEPT ![s] = "QUEUED"]
        BY <2>2, <3>3 DEF Gathered
      <4>2. QED
        BY <1>5, <2>1, <3>2, <4>1 DEF Placed
    <3>4. CASE ~job.ok
      <4>1. UNCHANGED <<stages, delayed>>
        BY <2>2, <3>4 DEF Gathered
      <4>2. QED
        BY <1>1, <2>1, <4>1 DEF StatusTypes, Lived
    <3>5. QED
      BY <3>3, <3>4
  <2>3. CASE StartStage(s)
    <3>1. job.for = s /\ pc = "dispatch" /\ s # None
      BY <2>3, SetsAssumption DEF StartStage
    <3>2. stages[s] = "QUEUED" /\ stages' = [stages EXCEPT ![s] = "RUNNING"]
      BY <2>3, <3>1 DEF ControlInv, Visiting, Dispatchable, StartStage
    <3>3. QED
      BY <1>5, <2>1, <3>2 DEF Placed
  <2>4. CASE Switches(s)
    BY <1>5, <2>1, <2>4 DEF Switches, Placed
  <2>5. QED
    BY <1>6, <2>2, <2>3, <2>4
<1>7. CASE Wakes
  BY <1>1, <1>7 DEF Wakes, StatusTypes, Lived
<1>8. CASE Closes
  BY <1>1, <1>8 DEF Closes, StatusTypes, Lived
<1>9. ASSUME NEW a \in Artifacts, JoinTransfer(a) \/ NoRoom(a) \/ StartTransfer(a) \/ ReserveOutput(a)
      PROVE  StatusTypes' /\ Lived'
  <2>1. UNCHANGED <<requests, come, late, stages, node, delayed>>
    BY <1>9 DEF JoinTransfer, NoRoom, StartTransfer, ReserveOutput, fetchFrame
  <2>2. QED
    BY <1>1, <2>1 DEF StatusTypes, Lived
<1>10. CASE Collect
  BY <1>1, <1>10 DEF Collect, StatusTypes, Lived
<1>11. QED
  BY <1>1, <1>2, <1>3, <1>4, <1>6, <1>7, <1>8, <1>9, <1>10, ResolvedLived, ReapedLived, PlacedLived
  DEF StepKinds

-----------------------------------------------------------------------------
(***************************************************************************)
(* The control invariant: activities and data.                             *)
(***************************************************************************)
LEMMA ActivitiesKeep ==
    ASSUME ControlInv, StepKinds, pc' # "closed" => pc # "closed"
    PROVE  ExecTypes' /\ Executing'
<1>1. StatusTypes /\ ExecTypes /\ Lived /\ Executing
  BY TypeParts DEF ControlInv
<1> USE DEF requestVars, stageVars, execVars, engineVars
<1>2. CASE UNCHANGED finishVars
  BY <1>1, <1>2 DEF finishVars, ExecTypes, Executing
<1>3. ASSUME NEW r \in Requests, Resolve(r) PROVE ExecTypes' /\ Executing'
  <2>1. PICK o \in Outcomes : Finish(r, o)
    BY <1>3 DEF Resolve
  <2>2. /\ stages' = [s \in Stages |-> IF s \in Cancelled(r) THEN "CANCELLED" ELSE stages[s]]
        /\ execs' = execs \ Cancelled(r) /\ ended' = ended \ Cancelled(r)
        /\ memory' = [n \in Nodes |-> memory[n] \ Cancelled(r)]
    BY <2>1, FinishStatus
  <2>3. ExecTypes'
    BY <1>1, <2>2 DEF ExecTypes
  <2>4. \A s \in Stages : IF s \in Cancelled(r) THEN stages'[s] = "CANCELLED" ELSE stages'[s] = stages[s]
    BY <2>2
  <2>5. QED
    BY <1>1, <2>2, <2>3, <2>4 DEF Executing, ExecTypes
<1>4. CASE Reap
  <2> DEFINE done == {s \in ended : stages[s] # "SUSPENDED"}
  <2>1. /\ stages' = [s \in Stages |-> IF s \in done THEN "SUCCEEDED" ELSE stages[s]]
        /\ execs' = execs \ done /\ ended' = ended \ done
        /\ memory' = [n \in Nodes |-> memory[n] \ done]
    BY <1>4 DEF Reap
  <2> HIDE DEF done
  <2>2. \A s \in Stages : IF s \in done THEN stages'[s] = "SUCCEEDED" ELSE stages'[s] = stages[s]
    BY <2>1
  <2>3. ExecTypes'
    BY <1>1, <2>1 DEF ExecTypes
  <2>4. QED
    BY <1>1, <2>1, <2>2, <2>3 DEF Executing, ExecTypes
<1>5. ASSUME NEW r \in Requests, Arrive(r) PROVE ExecTypes' /\ Executing'
  BY <1>1, <1>5 DEF Arrive, ExecTypes, Executing
<1>6. ASSUME NEW s \in Stages, Readies(s) \/ Gathered(s) \/ StartStage(s) \/ Switches(s)
      PROVE  ExecTypes' /\ Executing'
  <2>1. CASE Readies(s)
    <3>1. stages' = [stages EXCEPT ![s] = "READY"] /\ UNCHANGED <<execs, ended, memory>> /\ s \notin execs
      BY <1>1, <2>1 DEF Readies, MayBeReady, Executing
    <3>2. \A u \in Stages : stages'[u] = IF u = s THEN "READY" ELSE stages[u]
      BY <1>1, <3>1 DEF StatusTypes
    <3>3. QED
      BY <1>1, <3>1, <3>2 DEF ExecTypes, Executing
  <2>2. CASE Gathered(s)
    <3>1. stages[s] = "WAITING_DATA"
      BY <2>2, SetsAssumption DEF Gathered, ControlInv, Visiting
    <3>2. /\ UNCHANGED <<execs, ended, memory>> /\ s \notin execs
          /\ stages' = stages \/ stages' = [stages EXCEPT ![s] = "QUEUED"]
      BY <1>1, <2>2, <3>1 DEF Gathered, Executing
    <3>3. \A u \in Stages : stages'[u] = stages[u] \/ (u = s /\ stages'[u] = "QUEUED")
      BY <1>1, <3>2 DEF StatusTypes
    <3>4. QED
      BY <1>1, <3>2, <3>3 DEF ExecTypes, Executing
  <2>3. CASE StartStage(s)
    <3>1. /\ stages' = [stages EXCEPT ![s] = "RUNNING"] /\ execs' = execs \cup {s}
          /\ memory' = [memory EXCEPT ![node[s]] = @ \cup {s}]
          /\ ended' \in {ended, ended \cup {s}}
      BY <2>3 DEF StartStage
    <3>2. \A u \in Stages : stages'[u] = IF u = s THEN "RUNNING" ELSE stages[u]
      BY <1>1, <3>1 DEF StatusTypes
    <3>3. ExecTypes'
      BY <1>1, <3>1 DEF ExecTypes
    <3>4. QED
      BY <1>1, <3>1, <3>2, <3>3 DEF ExecTypes, Executing
  <2>4. CASE Switches(s)
    <3>1. /\ \/ stages[s] = "RUNNING" /\ stages' = [stages EXCEPT ![s] = "SUSPENDED"]
             \/ stages[s] = "SUSPENDED" /\ stages' = [stages EXCEPT ![s] = "QUEUED"]
          /\ UNCHANGED <<execs, ended, memory>>
      BY <2>4 DEF Switches
    <3>2. \A u \in Stages \ {s} : stages'[u] = stages[u]
      BY <1>1, <3>1 DEF StatusTypes
    <3>3. \/ stages[s] = "RUNNING" /\ stages'[s] = "SUSPENDED"
          \/ stages[s] = "SUSPENDED" /\ stages'[s] = "QUEUED"
      BY <1>1, <3>1 DEF StatusTypes
    <3>4. QED
      BY <1>1, <3>1, <3>2, <3>3 DEF ExecTypes, Executing
  <2>5. QED
    BY <1>6, <2>1, <2>2, <2>3, <2>4
<1>7. ASSUME NEW P \in SUBSET Stages, Places(P) PROVE ExecTypes' /\ Executing'
  <2>1. /\ stages' = [s \in Stages |-> IF s \in P THEN "WAITING_DATA" ELSE stages[s]]
        /\ UNCHANGED <<execs, ended, memory>> /\ \A s \in P : stages[s] = "READY"
    BY <1>7 DEF Places
  <2>2. \A s \in Stages : IF s \in P THEN stages'[s] = "WAITING_DATA" ELSE stages'[s] = stages[s]
    BY <2>1
  <2>3. QED
    BY <1>1, <2>1, <2>2 DEF ExecTypes, Executing
<1>8. CASE Wakes
  BY <1>1, <1>8 DEF Wakes, ExecTypes, Executing, Computing, Having
<1>9. CASE Closes
  BY <1>1, <1>9 DEF Closes, ExecTypes, Executing
<1>10. ASSUME NEW a \in Artifacts, JoinTransfer(a) \/ NoRoom(a) \/ StartTransfer(a) \/ ReserveOutput(a)
      PROVE  ExecTypes' /\ Executing'
  <2>1. UNCHANGED <<stages, execs, ended, memory>>
    BY <1>10 DEF JoinTransfer, NoRoom, StartTransfer, ReserveOutput, fetchFrame
  <2>2. QED
    BY <1>1, <1>10, <2>1 DEF ExecTypes, Executing
<1>11. CASE Collect
  BY <1>1, <1>11 DEF Collect, ExecTypes, Executing
<1>12. QED
  BY <1>2, <1>3, <1>4, <1>5, <1>6, <1>7, <1>8, <1>9, <1>10, <1>11 DEF StepKinds

\* Where a visit fetches to, or reserves.
LEMMA VisitPlace ==
    ASSUME ControlInv, job.for # None
    PROVE  /\ At(job.for) \in Nodes
           /\ pc \in {"deliver", "data", "dispatch"}
           /\ pc = "dispatch" => node[job.for] \in Nodes
<1>1. pc \in {"deliver", "data", "dispatch"}
  BY DEF ControlInv, Visiting
<1>2. CASE pc = "deliver"
  BY <1>2, WorkflowAssumption DEF ControlInv, Visiting, At
<1>3. CASE pc \in {"data", "dispatch"}
  <2>1. job.for \in Stages /\ stages[job.for] \in Placed
    BY <1>3 DEF ControlInv, Visiting, Dispatchable, Placed
  <2>2. node[job.for] \in Nodes /\ job.for \notin Requests
    BY <2>1, SetsAssumption DEF ControlInv, Lived
  <2>3. QED
    BY <1>1, <2>2 DEF At
<1>4. QED
  BY <1>1, <1>2, <1>3

\* What Finish does to transfers and replicas.
Left(r, k) == waiters[k] \ ({r} \cup StagesOf(r))
Dropped(r) == {k \in Keys : source[k] # None /\ Left(r, k) = {}}
LEMMA FinishData ==
    ASSUME NEW r, NEW o, Finish(r, o)
    PROVE  /\ waiters' = [k \in Keys |-> Left(r, k)]
           /\ source' = [k \in Keys |-> IF k \in Dropped(r) THEN None ELSE source[k]]
           /\ landed' = landed \ Dropped(r)
           /\ replicas' \in Collected(replicas, requests', stages', source')
           /\ storage' = [n \in Nodes |->
                storage[n] \ ((UNION {FreedOutputs(s, n) : s \in Cancelled(r)})
                              \cup {a \in Artifacts : \/ <<a, n>> \in Dropped(r)
                                                      \/ <<a, n>> \in replicas \ replicas'})]
<1> DEFINE mine == {s \in StagesOf(r) : stages[s] \notin Over}
           left == [k \in Keys |-> waiters[k] \ ({r} \cup StagesOf(r))]
           dropped == {k \in Keys : source[k] # None /\ left[k] = {}}
<1>1. mine = Cancelled(r)
  BY DEF Cancelled
<1>2. left = [k \in Keys |-> Left(r, k)] /\ dropped = Dropped(r)
  BY DEF Left, Dropped
<1>3. /\ waiters' = left
      /\ source' = [k \in Keys |-> IF k \in dropped THEN None ELSE source[k]]
      /\ landed' = landed \ dropped
  BY DEF Finish
<1>4. /\ requests' = [requests EXCEPT ![r] = o]
      /\ stages' = [s \in Stages |-> IF s \in mine THEN "CANCELLED" ELSE stages[s]]
  BY DEF Finish
<1>5. PICK R \in Collected(replicas, requests', stages', source') :
            /\ replicas' = R
            /\ storage' = [n \in Nodes |->
                 storage[n] \ ((UNION {FreedOutputs(s, n) : s \in mine})
                               \cup {a \in Artifacts : \/ <<a, n>> \in dropped
                                                       \/ <<a, n>> \in replicas \ R})]
  BY <1>3, <1>4 DEF Finish
<1>6. QED
  BY <1>1, <1>2, <1>3, <1>5

LEMMA CollectedSubset ==
    \A R, rq, st, src : \A K \in Collected(R, rq, st, src) : K \subseteq R
  BY DEF Collected

LEMMA DataKeeps ==
    ASSUME ControlInv, StepKinds
    PROVE  DataTypes'
<1>1. StatusTypes /\ DataTypes
  BY TypeParts DEF ControlInv
<1> USE DEF dataVars, engineVars
<1>2. CASE UNCHANGED finishVars
  BY <1>1, <1>2 DEF finishVars, DataTypes, Transferring
<1>3. ASSUME NEW r \in Requests, Resolve(r) PROVE DataTypes'
  <2>1. PICK o \in Outcomes : Finish(r, o)
    BY <1>3 DEF Resolve
  <2>2. /\ waiters' = [k \in Keys |-> Left(r, k)]
        /\ source' = [k \in Keys |-> IF k \in Dropped(r) THEN None ELSE source[k]]
        /\ landed' = landed \ Dropped(r)
        /\ replicas' \in Collected(replicas, requests', stages', source')
    BY <2>1, FinishData
  <2>3. PICK freed : storage' = [n \in Nodes |-> storage[n] \ freed[n]]
    <3> DEFINE f == [n \in Nodes |-> (UNION {FreedOutputs(s, n) : s \in Cancelled(r)})
                              \cup {a \in Artifacts : \/ <<a, n>> \in Dropped(r)
                                                      \/ <<a, n>> \in replicas \ replicas'}]
    <3>1. storage' = [n \in Nodes |-> storage[n] \ f[n]]
      BY <2>1, FinishData
    <3>2. QED
      BY <3>1
  <2>4. storage' \in [Nodes -> SUBSET Artifacts]
    BY <1>1, <2>3 DEF DataTypes
  <2>5. replicas' \subseteq Keys
    BY <1>1, <2>2, CollectedSubset DEF DataTypes
  <2>6. source' \in [Keys -> Nodes \cup {None}]
    BY <1>1, <2>2 DEF DataTypes
  <2>7. waiters' \in [Keys -> SUBSET (Stages \cup Requests)]
    BY <1>1, <2>2 DEF DataTypes, Left
  <2>8. \A k \in Keys : source'[k] = None <=> waiters'[k] = {}
    BY <1>1, <2>2 DEF DataTypes, Left, Dropped
  <2>9. landed' \subseteq {k \in Keys : source'[k] # None}
    BY <1>1, <2>2 DEF DataTypes, Transferring
  <2>10. QED
    BY <2>4, <2>5, <2>6, <2>7, <2>8, <2>9 DEF DataTypes, Transferring
<1>4. CASE Reap
  <2> DEFINE done == {s \in ended : stages[s] # "SUSPENDED"}
  <2>1. /\ replicas' = replicas \cup landed \cup UNION {Outputs[s] \X {node[s]} : s \in done}
        /\ source' = [k \in Keys |-> IF k \in landed THEN None ELSE source[k]]
        /\ waiters' = [k \in Keys |-> WaitersAfter(k, landed)]
        /\ landed' = {} /\ UNCHANGED storage
    BY <1>4 DEF Reap
  <2>2. \A s \in done : Outputs[s] \subseteq Artifacts /\ node[s] \in Nodes
    <3>1. \A s \in done : s \in Stages /\ stages[s] \in Placed
      BY DEF ControlInv, TypeOK, Executing, Placed
    <3>2. QED
      BY <3>1, WorkflowAssumption DEF ControlInv, Lived
  <2>3. replicas' \subseteq Keys
    BY <1>1, <2>1, <2>2 DEF DataTypes, Keys, Transferring
  <2>4. QED
    BY <1>1, <2>1, <2>3 DEF DataTypes, Transferring, WaitersAfter
<1>5. ASSUME NEW r \in Requests, Arrive(r) PROVE DataTypes'
  BY <1>1, <1>5 DEF Arrive, DataTypes, Transferring
<1>6. ASSUME NEW s \in Stages, Readies(s) \/ Gathered(s) \/ StartStage(s) \/ Switches(s)
      PROVE  DataTypes'
  <2>1. UNCHANGED <<dataVars, landed>>
    BY <1>6 DEF Readies, Gathered, StartStage, Switches
  <2>2. QED
    BY <1>1, <2>1 DEF DataTypes, Transferring
<1>7. ASSUME NEW P \in SUBSET Stages, Places(P) PROVE DataTypes'
  BY <1>1, <1>7 DEF Places, DataTypes, Transferring
<1>8. CASE Wakes
  BY <1>1, <1>8 DEF Wakes, DataTypes, Transferring
<1>9. CASE Closes
  BY <1>1, <1>9 DEF Closes, DataTypes, Transferring
<1>10. ASSUME NEW a \in Artifacts, JoinTransfer(a) \/ NoRoom(a) \/ StartTransfer(a)
      PROVE  DataTypes'
  <2> DEFINE n == At(job.for)
             k == <<a, n>>
  <2>1. job.for # None /\ n \in Nodes /\ k \in Keys /\ pc \in {"deliver", "data"} /\ landed' = landed
    <3>1. Fetch(a) /\ landed' = landed
      BY <1>10 DEF JoinTransfer, NoRoom, StartTransfer, Wanted, fetchFrame
    <3>2. job.for # None
      BY <3>1 DEF Fetch, ControlInv, Visiting, NoJob
    <3>3. QED
      BY <3>1, <3>2, VisitPlace DEF Fetch, Keys
  <2>2. job.for \in Stages \cup Requests
    BY <2>1 DEF ControlInv, TypeOK
  <2>3. CASE JoinTransfer(a)
    <3>1. /\ source[k] # None /\ waiters' = [waiters EXCEPT ![k] = @ \cup {job.for}]
          /\ UNCHANGED <<replicas, source, storage>>
      BY <2>3 DEF JoinTransfer
    <3> HIDE DEF k
    <3>2. QED
      BY <1>1, <2>1, <2>2, <3>1 DEF DataTypes, Transferring
  <2>4. CASE NoRoom(a)
    <3>1. PICK E : /\ replicas' = replicas \ (E \X {n})
                   /\ storage' = [storage EXCEPT ![n] = @ \ E]
                   /\ UNCHANGED <<source, waiters>>
      BY <2>4 DEF NoRoom, Evicted
    <3>2. QED
      BY <1>1, <2>1, <3>1 DEF DataTypes, Transferring
  <2>5. CASE StartTransfer(a)
    <3>1. PICK m \in Sources(a, n), v \in Reservations(a, n) :
            /\ storage' = [storage EXCEPT ![n] = (@ \ v.evicted) \cup {a}]
            /\ IF Size[a] = 0 /\ <<m, n>> \in Instant
               THEN /\ replicas' = (replicas \ (v.evicted \X {n})) \cup {k}
                    /\ UNCHANGED <<source, waiters>>
               ELSE /\ replicas' = replicas \ (v.evicted \X {n})
                    /\ source' = [source EXCEPT ![k] = m]
                    /\ waiters' = [waiters EXCEPT ![k] = {job.for}]
      BY <2>5 DEF StartTransfer, Evicted
    <3>2. m \in Nodes /\ m # None
      BY <3>1, SetsAssumption DEF Sources, Copies
    <3>3. storage' \in [Nodes -> SUBSET Artifacts]
      BY <1>1, <2>1, <3>1 DEF DataTypes
    <3> HIDE DEF k
    <3>4. CASE Size[a] = 0 /\ <<m, n>> \in Instant
      BY <1>1, <2>1, <3>1, <3>3, <3>4 DEF DataTypes, Transferring
    <3>5. CASE ~(Size[a] = 0 /\ <<m, n>> \in Instant)
      BY <1>1, <2>1, <2>2, <3>1, <3>2, <3>3, <3>5 DEF DataTypes, Transferring
    <3>6. QED
      BY <3>4, <3>5
  <2>6. QED
    BY <1>10, <2>3, <2>4, <2>5
<1>11. ASSUME NEW a \in Artifacts, ReserveOutput(a) PROVE DataTypes'
  <2> DEFINE n == node[job.for]
  <2>1. n \in Nodes
    <3>1. job.for # None /\ pc = "dispatch"
      BY <1>11 DEF ReserveOutput, ControlInv, Visiting, NoJob
    <3>2. QED
      BY <3>1, VisitPlace
  <2>2. PICK E : /\ replicas' = replicas \ (E \X {n})
                 /\ \/ storage' = [storage EXCEPT ![n] = (@ \ E) \cup {a}]
                    \/ storage' = [storage EXCEPT ![n] = @ \ (E \cup GiveBack)]
                 /\ UNCHANGED <<source, waiters, landed>>
    BY <1>11 DEF ReserveOutput, Evicted, fetchFrame
  <2> HIDE DEF n
  <2>3. storage' \in [Nodes -> SUBSET Artifacts]
    BY <1>1, <2>1, <2>2 DEF DataTypes
  <2>4. QED
    BY <1>1, <2>2, <2>3 DEF DataTypes, Transferring
<1>12. CASE Collect
  <2>1. PICK R \in Collected(replicas, requests, stages, source) :
         /\ replicas' = R
         /\ storage' = [n \in Nodes |->
                          storage[n] \ {a \in Artifacts : <<a, n>> \in replicas \ R}]
    BY <1>12 DEF Collect
  <2>2. UNCHANGED <<source, waiters, landed>>
    BY <1>12 DEF Collect
  <2>3. storage' \in [Nodes -> SUBSET Artifacts] /\ R \subseteq replicas
    BY <1>1, <2>1, CollectedSubset DEF DataTypes
  <2>4. QED
    BY <1>1, <2>1, <2>2, <2>3 DEF DataTypes, Transferring
<1>13. QED
  BY <1>2, <1>3, <1>4, <1>5, <1>6, <1>7, <1>8, <1>9, <1>10, <1>11, <1>12 DEF StepKinds

-----------------------------------------------------------------------------
(***************************************************************************)
(* The control invariant: the loops, and the client's commands.            *)
(***************************************************************************)
LEMMA PassBound == MaxPasses \in Nat /\ 1 \in 0 .. MaxPasses /\ 0 \in 0 .. MaxPasses
<1>1. Cardinality(Stages) \in Nat /\ Cardinality(Artifacts) \in Nat
  BY SetsAssumption, FS_CardinalityType
<1>2. QED
  BY <1>1 DEF MaxPasses

LEMMA NoVisit ==
    ASSUME job' = NoJob
    PROVE  Visiting' /\ job' \in JobTypes
  BY DEF Visiting, NoJob, JobTypes

LEMMA LoopsKeep ==
    ASSUME ControlInv, [Next]_vars
    PROVE  LoopTypes' /\ Visiting'
<1> USE DEF requestVars, stageVars, dataVars, execVars, engineVars, loopVars, clientVars
<1>1. StatusTypes /\ DataTypes /\ ExecTypes /\ LoopTypes /\ Visiting /\ Executing /\ Lived
  BY TypeParts DEF ControlInv
<1>2. pc \notin {"deliver", "data", "dispatch"} \/ job.for = None => job = NoJob
  BY <1>1 DEF Visiting
<1>3. ASSUME job = NoJob, job' = job PROVE Visiting' /\ job' \in JobTypes
  BY <1>3, NoVisit
<1>4. CASE Reap \/ PlaceAll
  <2>1. job = NoJob /\ job' = job
    BY <1>2, <1>4 DEF Reap, PlaceAll
  <2>2. CASE Reap
    BY <1>1, <1>3, <2>1, <2>2 DEF Reap, Loop, LoopTypes, Phases
  <2>3. CASE PlaceAll
    <3>1. placements' \in [Stages -> Nodes \cup {None}]
      BY <2>3 DEF PlaceAll
    <3>2. QED
      BY <1>1, <1>3, <2>1, <2>3, <3>1 DEF PlaceAll, Loop, LoopTypes, Phases
  <2>4. QED
    BY <1>4, <2>2, <2>3
<1>5. ASSUME NEW r \in Requests,
             Deliver(r) \/ Delivered(r) \/ Expire(r) \/ Arrive(r) \/ Refuse(r) \/ Fail(r)
      PROVE  LoopTypes' /\ Visiting'
  <2>1. CASE Deliver(r)
    <3>1. /\ job' = JobFor(r, Deliverables[r]) /\ Active(r) /\ AllSucceeded(r) /\ pc = "deliver"
          /\ UNCHANGED <<pc, requests, stages, round, changed, passes, expired, placements>>
          /\ todo' = todo \ {r}
      BY <2>1 DEF Deliver, Visit, finishVars
    <3>2. Deliverables[r] \subseteq Artifacts
      BY WorkflowAssumption
    <3>3. job' \in JobTypes
      BY <3>1, <3>2 DEF JobTypes, JobFor
    <3>4. Visiting'
      BY <3>1, SetsAssumption DEF Visiting, JobFor, Active, AllSucceeded
    <3>5. QED
      BY <1>1, <3>1, <3>3, <3>4 DEF LoopTypes
  <2>2. CASE Delivered(r)
    <3>1. job' = NoJob /\ UNCHANGED <<pc, round, todo, passes, expired, placements>>
          /\ changed' \in BOOLEAN
      BY <1>1, <2>2 DEF Delivered, LoopTypes
    <3>2. QED
      BY <1>1, <3>1, NoVisit DEF LoopTypes
  <2>3. CASE Expire(r)
    <3>1. job = NoJob /\ job' = job
      BY <1>2, <2>3 DEF Expire
    <3>2. QED
      BY <1>1, <1>3, <2>3, <3>1 DEF Expire, LoopTypes
  <2>4. CASE Arrive(r) \/ Refuse(r) \/ Fail(r)
    <3>1. job = NoJob /\ UNCHANGED <<pc, loopVars>>
      BY <1>2, <2>4 DEF Arrive, Refuse, Fail
    <3>2. QED
      BY <1>1, <1>3, <3>1 DEF LoopTypes
  <2>5. QED
    BY <1>5, <2>1, <2>2, <2>3, <2>4
<1>6. ASSUME NEW a \in Artifacts,
             HaveReplica(a) \/ JoinTransfer(a) \/ NoSource(a) \/ NoRoom(a) \/ StartTransfer(a)
      PROVE  LoopTypes' /\ Visiting'
  <2>1. /\ UNCHANGED <<fetchFrame>> /\ Fetch(a)
        /\ job' \in {[job EXCEPT !.rest = @ \ {a}], [job EXCEPT !.rest = @ \ {a}, !.ok = FALSE]}
    BY <1>6 DEF HaveReplica, JoinTransfer, NoSource, NoRoom, StartTransfer, Wanted, Fetched, NotFetched,
                fetchFrame
  <2>2. job \in JobTypes
    BY <1>1 DEF LoopTypes
  <2>3. /\ job' \in JobTypes /\ job'.for = job.for /\ job'.rest = job.rest \ {a}
        /\ job'.taken = job.taken
    BY <2>1, <2>2 DEF JobTypes
  <2>4. UNCHANGED <<pc, requests, stages, node, todo, round, changed, passes, expired, placements>>
    BY <2>1 DEF fetchFrame
  <2>5. job.for # None /\ pc \in {"deliver", "data"}
    BY <1>1, <2>1 DEF Fetch, Visiting, NoJob
  <2>6. Visiting'
    BY <1>1, <2>3, <2>4, <2>5 DEF Visiting, Active, AllSucceeded
  <2>7. QED
    BY <1>1, <2>3, <2>4, <2>6 DEF LoopTypes
<1>7. ASSUME NEW a \in Artifacts, ReserveOutput(a)
      PROVE  LoopTypes' /\ Visiting'
  <2>1. job \in JobTypes
    BY <1>1 DEF LoopTypes
  <2>2. UNCHANGED <<pc, requests, stages, node, delayed, memory, todo, round, changed, passes, expired, placements>>
    BY <1>7 DEF ReserveOutput, fetchFrame
  <2>3. pc = "dispatch" /\ a \in job.rest
    BY <1>7 DEF ReserveOutput
  <2>4. job.for # None
    BY <1>1, <2>3 DEF Visiting, NoJob
  <2>5. CASE job' = NoJob
    BY <1>1, <2>2, <2>5, NoVisit DEF LoopTypes
  <2>6. CASE job' = [job EXCEPT !.rest = @ \ {a}, !.taken = @ \cup {a}]
    <3>1. /\ job' \in JobTypes /\ job'.for = job.for /\ job'.rest = job.rest \ {a}
          /\ job'.taken = job.taken \cup {a}
      BY <2>1, <2>6 DEF JobTypes
    <3>2. Dispatchable(job.for) => Dispatchable(job.for)'
      BY <2>2, <3>1 DEF Dispatchable, Running, MemoryFits
    <3>3. Visiting'
      BY <1>1, <2>2, <2>3, <2>4, <3>1, <3>2 DEF Visiting
    <3>4. QED
      BY <1>1, <2>2, <3>1, <3>3 DEF LoopTypes
  <2>7. QED
    BY <1>7, <2>5, <2>6 DEF ReserveOutput
<1>8. ASSUME NEW s \in Stages, MakeReady(s) \/ Gather(s) \/ Gathered(s)
      PROVE  LoopTypes' /\ Visiting'
  <2>1. CASE MakeReady(s)
    <3>1. job = NoJob /\ job' = job
      BY <1>2, <2>1 DEF MakeReady
    <3>2. /\ UNCHANGED <<pc, round, passes, expired>> /\ todo' = todo \ {s}
          /\ changed' \in BOOLEAN
          /\ placements' = placements \/ \E n \in Candidates(s) : placements' = [placements EXCEPT ![s] = n]
      BY <2>1, <1>1 DEF MakeReady, Visit, LoopTypes
    <3>3. Candidates(s) \subseteq Nodes
      BY PlatformAssumption DEF Candidates, Feasible
    <3>4. placements' \in [Stages -> Nodes \cup {None}]
      BY <1>1, <3>2, <3>3 DEF LoopTypes
    <3>5. QED
      BY <1>1, <1>3, <3>1, <3>2, <3>4 DEF LoopTypes
  <2>2. CASE Gather(s)
    <3>1. /\ job' = JobFor(s, Inputs[s]) /\ stages[s] = "WAITING_DATA" /\ pc = "data"
          /\ UNCHANGED <<pc, requests, stages, round, changed, passes, expired, placements>>
          /\ todo' = todo \ {s}
      BY <2>2 DEF Gather, Visit, finishVars
    <3>2. Inputs[s] \subseteq Artifacts
      BY WorkflowAssumption
    <3>3. job' \in JobTypes
      BY <3>1, <3>2 DEF JobTypes, JobFor
    <3>4. Visiting'
      BY <3>1, SetsAssumption DEF Visiting, JobFor
    <3>5. QED
      BY <1>1, <3>1, <3>3, <3>4 DEF LoopTypes
  <2>3. CASE Gathered(s)
    <3>1. job' = NoJob /\ UNCHANGED <<pc, round, todo, passes, expired, placements>>
          /\ changed' \in BOOLEAN
      BY <1>1, <2>3 DEF Gathered, LoopTypes
    <3>2. QED
      BY <1>1, <3>1, NoVisit DEF LoopTypes
  <2>4. QED
    BY <1>8, <2>1, <2>2, <2>3
<1>9. ASSUME NEW s \in Stages, Dispatch(s) \/ SkipStage(s) \/ StartStage(s)
      PROVE  LoopTypes' /\ Visiting'
  <2>1. CASE Dispatch(s)
    <3>1. /\ job' = JobFor(s, Outputs[s] \ storage[node[s]]) /\ Dispatchable(s) /\ pc = "dispatch"
          /\ UNCHANGED <<pc, finishVars, round, changed, passes, expired, placements>>
          /\ todo' = todo \ {s}
      BY <2>1 DEF Dispatch, Visit
    <3>2. Outputs[s] \subseteq Artifacts
      BY WorkflowAssumption
    <3>3. job' \in JobTypes
      BY <3>1, <3>2 DEF JobTypes, JobFor
    <3>4. Dispatchable(s)'
      BY <3>1 DEF finishVars, Dispatchable, Running, MemoryFits
    <3>5. Visiting'
      BY <3>1, <3>4, SetsAssumption DEF Visiting, JobFor
    <3>6. QED
      BY <1>1, <3>1, <3>3, <3>5 DEF LoopTypes
  <2>2. CASE SkipStage(s)
    <3>1. job = NoJob /\ job' = job
      BY <1>2, <2>2 DEF SkipStage, Visit
    <3>2. QED
      BY <1>1, <1>3, <2>2, <3>1 DEF SkipStage, Visit, LoopTypes
  <2>3. CASE StartStage(s)
    <3>1. job' = NoJob /\ changed' = TRUE /\ UNCHANGED <<pc, round, todo, passes, expired, placements>>
      BY <2>3 DEF StartStage
    <3>2. QED
      BY <1>1, <3>1, NoVisit DEF LoopTypes
  <2>4. QED
    BY <1>9, <2>1, <2>2, <2>3
<1>10. CASE EndDeliver
  <2>1. job = NoJob /\ job' = job
    BY <1>2, <1>10 DEF EndDeliver, restFrame
  <2>2. /\ UNCHANGED <<round, expired, placements>>
        /\ changed' = FALSE /\ pc' \in {"reap", "ready", "collect", "expire"} /\ todo' \in {{}, Stages}
        /\ passes' \in {passes, 0} \/ (passes < MaxPasses /\ passes' = passes + 1)
    <3>1. CASE changed /\ round = "first"
      BY <1>10, <3>1 DEF EndDeliver, restFrame, Loop
    <3>2. CASE changed /\ round # "first" /\ passes < MaxPasses
      BY <1>10, <3>2 DEF EndDeliver, restFrame, Loop, Pass
    <3>3. CASE ~(changed /\ round = "first") /\ ~(changed /\ round # "first" /\ passes < MaxPasses)
      BY <1>10, <3>3 DEF EndDeliver, restFrame, Loop
    <3>4. QED
      BY <3>1, <3>2, <3>3
  <2>3. passes' \in 0 .. MaxPasses
    BY <1>1, <2>2, PassBound DEF LoopTypes
  <2>4. QED
    BY <1>1, <1>3, <2>1, <2>2, <2>3 DEF LoopTypes, Phases
<1>11. CASE EndExpire \/ EndArrive
  <2>1. job = NoJob /\ job' = job
    BY <1>2, <1>11 DEF EndExpire, EndArrive, restFrame
  <2>2. /\ UNCHANGED placements /\ expired' \in {FALSE, expired} /\ round' \in {round, "again", "active"}
        /\ changed' \in {changed, FALSE} /\ pc' \in {"ready", "arrive", "collect"}
        /\ todo' \in {{}, Stages} /\ passes' \in {passes, 1}
    BY <1>11 DEF EndExpire, EndArrive, restFrame, Loop, Pass
  <2>3. passes' \in 0 .. MaxPasses
    BY <1>1, <2>2, PassBound DEF LoopTypes
  <2>4. QED
    BY <1>1, <1>3, <2>1, <2>2, <2>3 DEF LoopTypes, Phases
<1>12. CASE EndData \/ EndDispatch
  <2>1. job = NoJob /\ job' = job
    BY <1>2, <1>12 DEF EndData, EndDispatch, restFrame
  <2>2. /\ UNCHANGED <<round, changed, passes, expired, placements>> /\ pc' \in {"dispatch", "reap"}
        /\ todo' \subseteq Stages
    BY <1>12 DEF EndData, EndDispatch, restFrame, Loop, Having
  <2>3. QED
    BY <1>1, <1>3, <2>1, <2>2 DEF LoopTypes, Phases
<1>13. CASE Collect \/ Return \/ Deadlock
  <2>1. UNCHANGED loopVars /\ job = NoJob /\ pc' \in {"return", "idle", "wait", "fail"}
    BY <1>2, <1>13 DEF Collect, Return, Deadlock
  <2>2. QED
    BY <1>1, <1>3, <2>1 DEF LoopTypes, Phases
<1>14. CASE EndFail \/ Sleep \/ \E limit \in Boundaries : Advance(limit)
  <2>1. /\ job = NoJob /\ job' = job /\ Settling
        /\ UNCHANGED <<passes, expired, placements>>
    BY <1>2, <1>14 DEF EndFail, Sleep, Wait, Advance
  <2>2. QED
    BY <1>1, <1>3, <2>1 DEF LoopTypes, Phases, Settling, Loop
<1>15. CASE Decision
  <2>1. UNCHANGED loopVars /\ pc' \in {pc, "apply", "idle"} /\ pc \in {"idle", "apply"}
    BY <1>15 DEF Decision, Apply, ApplyCommand, EndApply
  <2>2. QED
    BY <1>1, <1>2, <1>3, <2>1 DEF LoopTypes, Phases
<1>16. CASE (Close /\ UNCHANGED since)
  BY <1>1, <1>2, <1>3, <1>16 DEF Close, LoopTypes, Phases
<1>17. CASE Closed \/ UNCHANGED vars
  BY <1>1, <1>17 DEF Closed, vars, LoopTypes, Visiting, Active, AllSucceeded, Dispatchable, Running, MemoryFits
<1>18. QED
  BY <1>4, <1>5, <1>6, <1>7, <1>8, <1>9, <1>10, <1>11, <1>12, <1>13, <1>14, <1>15, <1>16, <1>17
  DEF Next, Settle

LEMMA CommandForms ==
    ASSUME NEW c \in Commands
    PROVE  /\ c[1] = "place" => c = <<"place", c[2], c[3]>> /\ c[3] \in Nodes
           /\ c[1] \in {"suspend", "resume", "reject"} => c = <<c[1], c[2], None>>
           /\ c[1] = "defer" => c = <<"defer", None, None>>
           /\ c[1] \in {"place", "suspend", "resume", "reject", "defer"}
           /\ c[1] \in {"place", "suspend", "resume"} => c[2] \in Stages
           /\ c[1] = "reject" => c[2] \in Requests
  BY DEF Commands, Having

\* A command concerns its own stage or request only.
LEMMA CommandsStay ==
    ASSUME ControlInv, NEW c \in batch, ApplyCommand(c), NEW d \in batch \ {c}
    PROVE  d \in Commands'
<1>1. c \in Commands /\ d \in Commands /\ StatusTypes /\ c[2] # d[2]
  BY TypeParts DEF ControlInv, ClientTypes, Batched
<1>2. ASSUME NEW s \in Stages, s = d[2], d[1] \in {"place", "suspend", "resume"}
      PROVE  stages'[s] = stages[s]
  <2>1. CASE c[1] = "reject"
    <3>1. c[2] \in Requests /\ Finish(c[2], "REJECTED") /\ RequestOf[s] # c[2]
      BY <1>1, <1>2, <2>1, CommandForms DEF ApplyCommand, ControlInv, Batched
    <3>2. stages' = [u \in Stages |-> IF u \in Cancelled(c[2]) THEN "CANCELLED" ELSE stages[u]]
      BY <3>1, FinishStatus
    <3>3. s \notin Cancelled(c[2])
      BY <3>1 DEF Cancelled, StagesOf
    <3>4. QED
      BY <3>2, <3>3
  <2>2. CASE c[1] = "defer"
    BY <2>2 DEF ApplyCommand, stageVars
  <2>3. CASE c[1] \in {"place", "suspend", "resume"}
    <3>1. \E to : stages' = [stages EXCEPT ![c[2]] = to]
      BY <2>3 DEF ApplyCommand
    <3>2. s # c[2]
      BY <1>1, <1>2
    <3>3. QED
      BY <1>1, <3>1, <3>2 DEF StatusTypes
  <2>4. QED
    BY <1>1, <2>1, <2>2, <2>3, CommandForms
<1>3. ASSUME NEW r \in Requests, r = d[2], d[1] = "reject"
      PROVE  requests'[r] = requests[r]
  <2>1. CASE c[1] = "reject"
    <3>1. c[2] \in Requests /\ Finish(c[2], "REJECTED") /\ r # c[2]
      BY <1>1, <1>3, <2>1, CommandForms DEF ApplyCommand
    <3>2. requests' = [requests EXCEPT ![c[2]] = "REJECTED"]
      BY <3>1, FinishStatus
    <3>3. QED
      BY <1>1, <3>1, <3>2 DEF StatusTypes
  <2>2. CASE c[1] # "reject"
    BY <2>2 DEF ApplyCommand, requestVars
  <2>3. QED
    BY <2>1, <2>2
<1>4. CASE d[1] = "place"
  <2>1. /\ d = <<"place", d[2], d[3]>> /\ d[3] \in Nodes
        /\ d[2] \in Stages /\ stages[d[2]] = "READY"
    BY <1>1, <1>4, CommandForms, CommandFacts DEF Having
  <2>2. stages'[d[2]] = "READY"
    BY <1>2, <1>4, <2>1
  <2>3. QED
    BY <2>1, <2>2 DEF Commands, Having
<1>5. CASE d[1] = "suspend"
  <2>1. d = <<"suspend", d[2], None>> /\ d[2] \in Stages /\ stages[d[2]] = "RUNNING"
    BY <1>1, <1>5, CommandForms, CommandFacts DEF Having
  <2>2. stages'[d[2]] = "RUNNING"
    BY <1>2, <1>5, <2>1
  <2>3. QED
    BY <2>1, <2>2 DEF Commands, Having
<1>6. CASE d[1] = "resume"
  <2>1. d = <<"resume", d[2], None>> /\ d[2] \in Stages /\ stages[d[2]] = "SUSPENDED"
    BY <1>1, <1>6, CommandForms, CommandFacts DEF Having
  <2>2. stages'[d[2]] = "SUSPENDED"
    BY <1>2, <1>6, <2>1
  <2>3. QED
    BY <2>1, <2>2 DEF Commands, Having
<1>7. CASE d[1] = "reject"
  <2>1. d = <<"reject", d[2], None>> /\ d[2] \in Requests /\ requests[d[2]] = "ACTIVE"
    BY <1>1, <1>7, CommandForms, CommandFacts DEF Active
  <2>2. requests'[d[2]] = "ACTIVE"
    BY <1>3, <1>7, <2>1
  <2>3. QED
    BY <2>1, <2>2 DEF Commands, Active
<1>8. CASE d[1] = "defer"
  BY <1>1, <1>8, CommandForms DEF Commands
<1>9. QED
  BY <1>1, <1>4, <1>5, <1>6, <1>7, <1>8, CommandForms

\* Steps that leave the client's variables alone, out of a batch.
LEMMA ClientFrame ==
    ASSUME ControlInv, pc # "apply", UNCHANGED clientVars, since' \in BOOLEAN, pc' # "apply"
    PROVE  ClientTypes' /\ Batched'
  BY TypeParts DEF ControlInv, ClientTypes, Batched, clientVars

LEMMA ClientKeeps ==
    ASSUME ControlInv, [Next]_vars
    PROVE  ClientTypes' /\ Batched'
<1> USE DEF clientVars
<1>1. ClientTypes /\ Batched
  BY TypeParts DEF ControlInv
<1>2. since' \in BOOLEAN
  <2>1. Settle => since' \in BOOLEAN
    <3>1. External \in BOOLEAN /\ since \in BOOLEAN /\ Emits \in BOOLEAN
      BY <1>1, ControlAssumption DEF ClientTypes, Emits
    <3>2. Settle => since' = (External /\ (since \/ Emits))
      BY DEF Settle
    <3>3. QED
      BY <3>1, <3>2
  <2>2. Sleep => since' \in BOOLEAN
    BY ControlAssumption DEF Sleep
  <2>3. (\E limit \in Boundaries : Advance(limit)) => since' \in BOOLEAN
    BY <1>1 DEF Advance, ClientTypes
  <2>4. UNCHANGED since => since' \in BOOLEAN
    BY <1>1 DEF ClientTypes
  <2>5. QED
    BY <2>1, <2>2, <2>3, <2>4 DEF Next, Decision, Closed, vars
<1>3. CASE Reap \/ PlaceAll
  BY <1>2, <1>3, ClientFrame DEF Reap, PlaceAll, Loop
<1>4. ASSUME NEW r \in Requests,
             Deliver(r) \/ Delivered(r) \/ Expire(r) \/ Arrive(r) \/ Refuse(r) \/ Fail(r)
      PROVE  ClientTypes' /\ Batched'
  BY <1>2, <1>4, ClientFrame DEF Deliver, Delivered, Expire, Arrive, Refuse, Fail
<1>5. ASSUME NEW a \in Artifacts,
             HaveReplica(a) \/ JoinTransfer(a) \/ NoSource(a) \/ NoRoom(a) \/ StartTransfer(a) \/ ReserveOutput(a)
      PROVE  ClientTypes' /\ Batched'
  <2>1. UNCHANGED <<pc, clientVars>> /\ pc # "apply"
    BY <1>5 DEF HaveReplica, JoinTransfer, NoSource, NoRoom, StartTransfer, ReserveOutput, Wanted, Fetch,
                fetchFrame
  <2>2. QED
    BY <1>2, <2>1, ClientFrame
<1>6. ASSUME NEW s \in Stages,
             MakeReady(s) \/ Gather(s) \/ Gathered(s) \/ Dispatch(s) \/ SkipStage(s) \/ StartStage(s)
      PROVE  ClientTypes' /\ Batched'
  BY <1>2, <1>6, ClientFrame DEF MakeReady, Gather, Gathered, Dispatch, SkipStage, StartStage
<1>7. CASE EndDeliver \/ EndExpire \/ EndArrive \/ EndData \/ EndDispatch
  <2>1. UNCHANGED clientVars /\ pc # "apply" /\ pc' # "apply"
    <3>1. CASE EndDeliver
      <4>1. pc' \in {"reap", "ready", "collect", "expire"}
        <5>1. CASE changed /\ round = "first"
          BY <3>1, <5>1 DEF EndDeliver, Loop
        <5>2. CASE changed /\ round # "first" /\ passes < MaxPasses
          BY <3>1, <5>2 DEF EndDeliver, Loop, Pass
        <5>3. CASE ~(changed /\ round = "first") /\ ~(changed /\ round # "first" /\ passes < MaxPasses)
          BY <3>1, <5>3 DEF EndDeliver, Loop
        <5>4. QED
          BY <5>1, <5>2, <5>3
      <4>2. QED
        BY <3>1, <4>1 DEF EndDeliver, restFrame
    <3>2. CASE EndExpire \/ EndArrive \/ EndData \/ EndDispatch
      BY <3>2 DEF EndExpire, EndArrive, EndData, EndDispatch, restFrame, Loop, Pass
    <3>3. QED
      BY <1>7, <3>1, <3>2
  <2>2. QED
    BY <1>2, <2>1, ClientFrame
<1>8. CASE Collect \/ EndFail
  BY <1>2, <1>8, ClientFrame DEF Collect, EndFail, Settling, Loop
<1>9. CASE Return \/ Deadlock
  <2>1. UNCHANGED <<batch, dirty, boundary, horizon>> /\ pc # "apply" /\ pc' # "apply"
    BY <1>9 DEF Return, Deadlock
  <2>2. wake' \in {wake, "none"} /\ pending' \in BOOLEAN
    BY <1>1, <1>9 DEF Return, Deadlock, ClientTypes
  <2>3. reason' \in {reason, "completed", "truncated", "deadlock"}
    BY <1>9 DEF Return, Deadlock
  <2>4. QED
    BY <1>1, <1>2, <2>1, <2>2, <2>3 DEF ClientTypes, Batched, Timers
<1>10. CASE Sleep
  <2>1. /\ UNCHANGED <<pending, batch, dirty, reason>> /\ pc # "apply" /\ pc' # "apply"
        /\ wake' \in {wake, "due"} /\ boundary' \in {boundary, "due"} /\ horizon' \in {horizon, "due"}
    BY <1>10 DEF Sleep, Wait, Reached, Settling, Loop
  <2>2. QED
    BY <1>1, <1>2, <2>1 DEF ClientTypes, Batched, Timers
<1>11. ASSUME NEW limit \in Boundaries, Advance(limit)
       PROVE  ClientTypes' /\ Batched'
  <2>1. /\ UNCHANGED <<pending, batch, wake, horizon, reason>> /\ pc # "apply" /\ pc' # "apply"
        /\ boundary' \in Timers /\ dirty' = FALSE
    BY <1>11 DEF Advance, Settling, Loop, Timers
  <2>2. QED
    BY <1>1, <1>2, <2>1 DEF ClientTypes, Batched
<1>12. ASSUME NEW B \in SUBSET Commands, Apply(B), UNCHANGED since
       PROVE  ClientTypes' /\ Batched'
  <2>1. /\ batch' = B /\ pc' = "apply" /\ \A c \in B : Valid(c, B)
        /\ UNCHANGED <<requests, stages, pending, dirty, wake, boundary, horizon, reason>>
    BY <1>12 DEF Apply, finishVars, requestVars, stageVars
  <2>2. Commands' = Commands
    BY <2>1 DEF Commands, Having, Active
  <2>3. ASSUME NEW c \in B, NEW d \in B
        PROVE  /\ c # d => c[2] # d[2]
               /\ c[1] = "reject" /\ d[1] \in {"place", "suspend", "resume"} => RequestOf[d[2]] # c[2]
    <3>1. c # d => c[2] # d[2]
      BY <2>1 DEF Valid
    <3>2. ASSUME c[1] = "reject", d[1] \in {"place", "suspend", "resume"} PROVE RequestOf[d[2]] # c[2]
      <4>1. c = <<"reject", c[2], None>>
        BY <3>2, CommandForms
      <4>2. <<"reject", RequestOf[d[2]], None>> \notin B
        BY <2>1, <3>2 DEF Valid
      <4>3. QED
        BY <4>1, <4>2
    <3>3. QED
      BY <3>1, <3>2
  <2>4. Batched'
    BY <2>1, <2>3 DEF Batched
  <2>5. QED
    BY <1>1, <1>2, <2>1, <2>2, <2>4 DEF ClientTypes
<1>13. ASSUME NEW c \in batch, ApplyCommand(c), UNCHANGED since
       PROVE  ClientTypes' /\ Batched'
  <2>1. /\ batch' = batch \ {c} /\ pc = "apply" /\ pc' = pc /\ wake' \in {wake, "set"}
        /\ UNCHANGED <<pending, dirty, boundary, horizon, reason>>
    BY <1>13 DEF ApplyCommand
  <2>2. batch' \subseteq Commands'
    BY <1>13, <2>1, CommandsStay
  <2>3. Batched'
    BY <1>1, <2>1 DEF Batched
  <2>4. QED
    BY <1>1, <1>2, <2>1, <2>2, <2>3 DEF ClientTypes, Timers
<1>14. CASE EndApply /\ UNCHANGED since
  <2>1. /\ batch' = {} /\ pending' = FALSE /\ dirty' = TRUE /\ pc' = "idle"
        /\ UNCHANGED <<wake, boundary, horizon, reason>>
    BY <1>14 DEF EndApply
  <2>2. QED
    BY <1>1, <1>2, <2>1 DEF ClientTypes, Batched
<1>15. CASE (Close /\ UNCHANGED since)
  BY <1>2, <1>15, ClientFrame DEF Close
<1>16. CASE Closed \/ UNCHANGED vars
  <2>1. UNCHANGED <<pc, requests, stages, clientVars, since>>
    BY <1>16 DEF Closed, vars, requestVars, stageVars
  <2>2. Commands' = Commands
    BY <2>1 DEF Commands, Having, Active
  <2>3. QED
    BY <1>1, <2>1, <2>2 DEF ClientTypes, Batched
<1>17. QED
  BY <1>3, <1>4, <1>5, <1>6, <1>7, <1>8, <1>9, <1>10, <1>11, <1>12, <1>13, <1>14, <1>15, <1>16
  DEF Next, Settle, Decision

LEMMA ControlStart == Init => ControlInv
<1> SUFFICES ASSUME Init PROVE ControlInv
  OBVIOUS
<1>1. \A r \in Requests : requests[r] = "PENDING"
  BY DEF Init
<1>2. \A s \in Stages : stages[s] = "WAITING_DEPENDENCIES" /\ node[s] = None
  BY DEF Init
<1>3. StatusTypes
  BY DEF Init, StatusTypes, RequestStatuses, StageStatuses, Unresolved
<1>4. DataTypes
  BY PlatformAssumption DEF Init, DataTypes, Keys
<1>5. ExecTypes
  BY DEF Init, ExecTypes
<1>6. LoopTypes
  BY PassBound DEF Init, LoopTypes, Phases, JobTypes, NoJob
<1>7. ClientTypes
  BY DEF Init, ClientTypes, Timers
<1>8. Lived
  BY <1>1, <1>2, OfRequest DEF Lived, Unresolved, Placed
<1>9. Executing
  BY <1>2 DEF Init, Executing
<1>10. Visiting /\ Batched
  BY DEF Init, Visiting, Batched, NoJob
<1>11. QED
  BY <1>3, <1>4, <1>5, <1>6, <1>7, <1>8, <1>9, <1>10, TypeParts DEF ControlInv

LEMMA ControlStep == ControlInv /\ [Next]_vars => ControlInv'
<1> SUFFICES ASSUME ControlInv, [Next]_vars PROVE ControlInv'
  OBVIOUS
<1>1. StepKinds /\ (pc' # "closed" => pc # "closed")
  BY Kinds
<1>2. StatusTypes' /\ Lived' /\ ExecTypes' /\ Executing' /\ DataTypes'
  BY <1>1, LivedKeeps, ActivitiesKeep, DataKeeps
<1>3. LoopTypes' /\ Visiting' /\ ClientTypes' /\ Batched'
  BY LoopsKeep, ClientKeeps
<1>4. (TypeOK <=> StatusTypes /\ DataTypes /\ ExecTypes /\ LoopTypes /\ ClientTypes)'
  BY TypeParts, PTL
<1>5. QED
  BY <1>2, <1>3, <1>4 DEF ControlInv

\* Whatever the policies choose and whatever ends when, requests, stages,
\* activities, visits and batches of commands fit together.
LEMMA ControlInvariant == Spec => []ControlInv
  BY ControlStart, ControlStep, PTL DEF Spec

-----------------------------------------------------------------------------
(***************************************************************************)
(* Transfers and replicas.                                                 *)
(***************************************************************************)
LEMMA PlacedActive ==
    ASSUME ControlInv, NEW s \in Stages, stages[s] \in Placed \cup {"READY"}
    PROVE  Active(RequestOf[s]) /\ stages[s] \notin Over /\ stages[s] # "SUCCEEDED"
<1>1. requests[RequestOf[s]] # "PENDING" /\ requests[RequestOf[s]] \in Unresolved
  BY DEF ControlInv, Lived, Placed, Over
<1>2. QED
  BY <1>1 DEF Active, Unresolved, Placed, Over

LEMMA NeededHere ==
    ASSUME NEW s \in Stages, NEW a \in Inputs[s], NEW rq, NEW st,
           rq[RequestOf[s]] = "ACTIVE", st[s] \notin Over, node[s] \in Nodes
    PROVE  node[s] \in Destinations(a, rq, st)
  BY SetsAssumption DEF Destinations

LEMMA SparedReads ==
    ASSUME NEW K, NEW rq, NEW st, NEW src, Spared(K, rq, st, src),
           NEW k \in Keys, src[k] # None, <<k[1], src[k]>> \in replicas
    PROVE  <<k[1], src[k]>> \in K
<1>1. Read(k[1], src[k], src)
  BY DEF Read
<1>2. QED
  BY <1>1 DEF Spared

\* The evictions of a reservation.
LEMMA Evicting ==
    ASSUME ControlInv, NEW n \in Nodes, NEW E \in SUBSET Evictable(n)
    PROVE  /\ Spared(replicas \ (E \X {n}), requests, stages, source)
           /\ E \subseteq Artifacts
  BY EvictionSpares DEF ControlInv, TypeOK, Evictable

\* A visit that fetches goes to its node, for what it wants.
LEMMA Fetching ==
    ASSUME ControlInv, NEW a \in Artifacts, Fetch(a)
    PROVE  /\ job.for # None /\ At(job.for) \in Nodes /\ <<a, At(job.for)>> \in Keys
           /\ job.for \in Stages \cup Requests
           /\ WaitsAt(job.for, <<a, At(job.for)>>)
           /\ job.for \in Stages \/ pc # "data"
<1>1. job.for # None
  BY DEF Fetch, ControlInv, Visiting, NoJob
<1>2. At(job.for) \in Nodes /\ <<a, At(job.for)>> \in Keys
  BY <1>1, VisitPlace DEF Keys
<1>3. CASE pc = "deliver"
  BY <1>1, <1>2, <1>3 DEF Fetch, ControlInv, Visiting, WaitsAt, At
<1>4. CASE pc = "data"
  <2>1. job.for \in Stages /\ job.for \notin Requests
    BY <1>1, <1>4, SetsAssumption DEF ControlInv, Visiting
  <2>2. QED
    BY <1>1, <1>2, <1>4, <2>1 DEF Fetch, ControlInv, Visiting, WaitsAt, At
<1>5. QED
  BY <1>1, <1>2, <1>3, <1>4 DEF Fetch

LEMMA StartsTransfer ==
    ASSUME ControlInv, NEW a \in Artifacts, StartTransfer(a)
    PROVE  \E m \in Sources(a, At(job.for)), v \in Reservations(a, At(job.for)) :
              LET n == At(job.for)
                  k == <<a, n>>
                  K == replicas \ (v.evicted \X {n})
              IN /\ v.ok /\ m \in Nodes /\ m # n /\ <<a, m>> \in replicas /\ <<a, m>> \in K
                 /\ k \notin replicas /\ source[k] = None
                 /\ v.evicted \subseteq Artifacts
                 /\ Spared(K, requests, stages, source)
                 /\ storage' = [storage EXCEPT ![n] = (@ \ v.evicted) \cup {a}]
                 /\ \/ /\ replicas' = K \cup {k} /\ Fetched(a)
                       /\ UNCHANGED <<source, waiters>>
                    \/ /\ replicas' = K /\ NotFetched(a)
                       /\ source' = [source EXCEPT ![k] = m]
                       /\ waiters' = [waiters EXCEPT ![k] = {job.for}]
<1> DEFINE n == At(job.for)
           k == <<a, n>>
<1>1. Fetch(a) /\ k \notin replicas /\ source[k] = None
  BY DEF StartTransfer, Wanted
<1>2. n \in Nodes
  BY <1>1, Fetching
<1>3. PICK m \in Sources(a, n), v \in Reservations(a, n) :
            /\ v.ok
            /\ storage' = [storage EXCEPT ![n] = (@ \ v.evicted) \cup {a}]
            /\ IF Size[a] = 0 /\ <<m, n>> \in Instant
               THEN /\ replicas' = (replicas \ (v.evicted \X {n})) \cup {k}
                    /\ Fetched(a)
                    /\ UNCHANGED <<source, waiters>>
               ELSE /\ replicas' = replicas \ (v.evicted \X {n})
                    /\ source' = [source EXCEPT ![k] = m]
                    /\ waiters' = [waiters EXCEPT ![k] = {job.for}]
                    /\ NotFetched(a)
  BY DEF StartTransfer, Evicted
<1>4. m \in Nodes /\ <<a, m>> \in replicas
  BY DEF Sources, Copies
<1>5. m # n
  BY <1>1, <1>4
<1>6. v.evicted \in SUBSET Evictable(n)
  BY <1>2, ReservationFacts
<1>7. Spared(replicas \ (v.evicted \X {n}), requests, stages, source) /\ v.evicted \subseteq Artifacts
  BY <1>2, <1>6, Evicting
<1>8. <<a, m>> \in replicas \ (v.evicted \X {n})
  BY <1>4, <1>5
<1>9. QED
  BY <1>1, <1>3, <1>4, <1>5, <1>7, <1>8

LEMMA FindsNoRoom ==
    ASSUME ControlInv, NEW a \in Artifacts, NoRoom(a)
    PROVE  \E E \in SUBSET Artifacts :
              LET n == At(job.for)
                  K == replicas \ (E \X {n})
              IN /\ E \in SUBSET Evictable(n) /\ n \in Nodes
                 /\ Spared(K, requests, stages, source)
                 /\ replicas' = K /\ UNCHANGED <<source, waiters>> /\ NotFetched(a)
                 /\ storage' = [storage EXCEPT ![n] = @ \ E]
<1> DEFINE n == At(job.for)
<1>1. n \in Nodes
  BY Fetching DEF NoRoom, Wanted
<1>2. PICK v \in Reservations(a, n) :
            /\ replicas' = replicas \ (v.evicted \X {n})
            /\ storage' = [storage EXCEPT ![n] = @ \ v.evicted]
  BY DEF NoRoom, Evicted
<1>3. v.evicted \in SUBSET Evictable(n)
  BY <1>1, ReservationFacts
<1>4. Spared(replicas \ (v.evicted \X {n}), requests, stages, source) /\ v.evicted \subseteq Artifacts
  BY <1>1, <1>3, Evicting
<1>5. UNCHANGED <<source, waiters>> /\ NotFetched(a)
  BY DEF NoRoom
<1>6. QED
  BY <1>1, <1>2, <1>3, <1>4, <1>5

LEMMA ReservesOutput ==
    ASSUME ControlInv, NEW a \in Artifacts, ReserveOutput(a)
    PROVE  \E v \in Reservations(a, node[job.for]) :
              LET n == node[job.for]
                  K == replicas \ (v.evicted \X {n})
              IN /\ v.evicted \in SUBSET Evictable(n) /\ n \in Nodes
                 /\ v.evicted \subseteq Artifacts
                 /\ pc = "dispatch" /\ job.for \in Stages /\ a \in job.rest
                 /\ Spared(K, requests, stages, source)
                 /\ replicas' = K /\ UNCHANGED <<source, waiters>>
                 /\ \/ /\ v.ok
                       /\ storage' = [storage EXCEPT ![n] = (@ \ v.evicted) \cup {a}]
                       /\ job' = [job EXCEPT !.rest = @ \ {a}, !.taken = @ \cup {a}]
                    \/ /\ storage' = [storage EXCEPT ![n] = @ \ (v.evicted \cup job.taken)]
                       /\ job' = NoJob
<1> DEFINE n == node[job.for]
<1>1. pc = "dispatch" /\ a \in job.rest
  BY DEF ReserveOutput
<1>2. job.for # None /\ job.for \in Stages
  BY <1>1 DEF ControlInv, Visiting, NoJob
<1>3. n \in Nodes
  BY <1>1, <1>2, VisitPlace
<1>4. PICK v \in Reservations(a, n) :
            /\ replicas' = replicas \ (v.evicted \X {n})
            /\ IF v.ok
               THEN /\ storage' = [storage EXCEPT ![n] = (@ \ v.evicted) \cup {a}]
                    /\ job' = [job EXCEPT !.rest = @ \ {a}, !.taken = @ \cup {a}]
               ELSE /\ storage' = [storage EXCEPT ![n] = @ \ (v.evicted \cup job.taken)]
                    /\ job' = NoJob
  BY DEF ReserveOutput, Evicted, GiveBack
<1>5. v.evicted \in SUBSET Evictable(n)
  BY <1>3, ReservationFacts
<1>6. Spared(replicas \ (v.evicted \X {n}), requests, stages, source) /\ v.evicted \subseteq Artifacts
  BY <1>3, <1>5, Evicting
<1>7. UNCHANGED <<source, waiters>>
  BY DEF ReserveOutput
<1>8. QED
  BY <1>1, <1>2, <1>3, <1>4, <1>5, <1>6, <1>7

\* Fetching steps, as they change replicas and transfers.
LEMMA SparedTransfers ==
    ASSUME TransfersSound, NEW K, Spared(K, requests, stages, source)
    PROVE  \A k \in Transferring : <<k[1], source[k]>> \in K /\ k \notin K
  BY SparedReads DEF TransfersSound, Transferring, Spared

\* What is brought somewhere has been made.
LEMMA MadeOnce ==
    ASSUME Made, NEW s \in Stages, NEW a \in Outputs[s], NEW m \in Nodes, <<a, m>> \in replicas
    PROVE  stages[s] = "SUCCEEDED"
  BY DEF Made, Copies

\* Fewer replicas, with every source among those left.
LEMMA LosesReplicas ==
    ASSUME Made, TransfersSound, Spared(replicas', requests, stages, source),
           UNCHANGED <<requests, stages, node, source, waiters>>
    PROVE  Made' /\ TransfersSound'
<1>1. replicas' \subseteq replicas
  BY DEF Spared
<1>2. Made'
  BY <1>1 DEF Made, Copies
<1>3. \A k \in Transferring : <<k[1], source[k]>> \in replicas' /\ k \notin replicas'
  BY SparedTransfers
<1>4. QED
  BY <1>2, <1>3 DEF TransfersSound, Transferring, WaitsAt, Active

LEMMA ResolveKeepsData ==
    ASSUME ControlInv, Made, TransfersSound, NEW r \in Requests, Resolve(r)
    PROVE  Made' /\ TransfersSound' /\ Spared(replicas', requests', stages', source')
<1>1. PICK o \in Outcomes : Finish(r, o)
  BY DEF Resolve
<1>2. /\ requests' = [requests EXCEPT ![r] = o]
      /\ stages' = [s \in Stages |-> IF s \in Cancelled(r) THEN "CANCELLED" ELSE stages[s]]
      /\ UNCHANGED node
  BY <1>1, FinishStatus
<1>3. /\ waiters' = [k \in Keys |-> Left(r, k)]
      /\ source' = [k \in Keys |-> IF k \in Dropped(r) THEN None ELSE source[k]]
      /\ replicas' \in Collected(replicas, requests', stages', source')
  BY <1>1, FinishData
<1>4. StatusTypes /\ DataTypes
  BY TypeParts DEF ControlInv
<1>5. Spared(replicas', requests', stages', source')
  BY <1>3, <1>4, CollectionSpares DEF DataTypes
<1>6. replicas' \subseteq replicas
  BY <1>5 DEF Spared
<1>7. \A s \in Stages : IF s \in Cancelled(r) THEN stages'[s] = "CANCELLED" ELSE stages'[s] = stages[s]
  BY <1>2
<1>8. \A s \in Cancelled(r) : stages[s] # "SUCCEEDED"
  BY DEF Cancelled, Over
<1>9. Made'
  BY <1>6, <1>7, <1>8 DEF Made, Copies
<1>10. ASSUME NEW k \in Keys, source'[k] # None
       PROVE  /\ <<k[1], source'[k]>> \in replicas' /\ k \notin replicas'
              /\ \A w \in waiters'[k] : WaitsAt(w, k)'
  <2>1. source'[k] = source[k] /\ source[k] # None
    BY <1>3, <1>10
  <2>2. k \in Transferring
    BY <2>1 DEF Transferring
  <2>3. <<k[1], source'[k]>> \in replicas' /\ k \notin replicas'
    BY <1>5, <1>6, <1>10, <2>1, <2>2, SparedReads DEF TransfersSound
  <2>4. ASSUME NEW w \in waiters'[k] PROVE WaitsAt(w, k)'
    <3>1. w \in waiters[k] /\ w # r /\ w \notin StagesOf(r) /\ WaitsAt(w, k)
      BY <1>3, <2>2 DEF Left, TransfersSound
    <3>2. CASE w \in Requests
      <4>1. requests'[w] = requests[w]
        BY <1>2, <1>4, <3>1, <3>2 DEF StatusTypes
      <4>2. QED
        BY <3>1, <3>2, <4>1 DEF WaitsAt, Active
    <3>3. CASE w \notin Requests
      <4>1. w \in Stages
        BY <1>4, <3>1, <3>3 DEF DataTypes
      <4>2. stages'[w] = stages[w]
        BY <1>7, <3>1, <4>1 DEF Cancelled
      <4>3. QED
        BY <1>2, <3>1, <3>3, <4>2 DEF WaitsAt
    <3>4. QED
      BY <3>2, <3>3
  <2>5. QED
    BY <2>3, <2>4
<1>11. QED
  BY <1>5, <1>9, <1>10 DEF TransfersSound, Transferring

LEMMA ReapKeepsData ==
    ASSUME ControlInv, Made, TransfersSound, Reap
    PROVE  Made' /\ TransfersSound' /\ replicas \subseteq replicas'
<1> DEFINE done == {s \in ended : stages[s] # "SUSPENDED"}
<1>1. /\ replicas' = replicas \cup landed \cup UNION {Outputs[s] \X {node[s]} : s \in done}
      /\ source' = [k \in Keys |-> IF k \in landed THEN None ELSE source[k]]
      /\ waiters' = [k \in Keys |-> WaitersAfter(k, landed)]
      /\ stages' = [s \in Stages |-> IF s \in done THEN "SUCCEEDED" ELSE stages[s]]
      /\ UNCHANGED <<requests, node>>
  BY DEF Reap, requestVars
<1>2. \A s \in done : s \in Stages /\ stages[s] \in {"QUEUED", "RUNNING"}
  BY DEF ControlInv, TypeOK, Executing
<1>3. DataTypes
  BY TypeParts DEF ControlInv
<1> HIDE DEF done
<1>4. \A s \in Stages : IF s \in done THEN stages'[s] = "SUCCEEDED" ELSE stages'[s] = stages[s]
  BY <1>1
<1>5. ASSUME NEW s \in Stages, stages'[s] # "SUCCEEDED", NEW a \in Outputs[s], NEW m \in Nodes,
             <<a, m>> \in replicas'
      PROVE  FALSE
  <2>1. s \notin done /\ stages[s] # "SUCCEEDED"
    BY <1>4, <1>5
  <2>2. \A q \in Nodes : <<a, q>> \notin replicas
    BY <2>1, MadeOnce
  <2>3. CASE <<a, m>> \in landed
    <3>1. <<a, m>> \in Transferring
      BY <1>3, <2>3 DEF DataTypes
    <3>2. <<a, source[<<a, m>>]>> \in replicas
      BY <3>1 DEF TransfersSound
    <3>3. source[<<a, m>>] \in Nodes
      BY <1>3, <3>1 DEF DataTypes, Transferring
    <3>4. QED
      BY <2>2, <3>2, <3>3
  <2>4. CASE <<a, m>> \in UNION {Outputs[u] \X {node[u]} : u \in done}
    <3>1. PICK u \in done : a \in Outputs[u]
      BY <2>4
    <3>2. u # s
      BY <2>1
    <3>3. QED
      BY <1>2, <3>1, <3>2, WorkflowAssumption
  <2>5. QED
    BY <1>1, <1>5, <2>2, <2>3, <2>4
<1>6. Made'
  BY <1>5 DEF Made, Copies
<1>7. ASSUME NEW k \in Keys, source'[k] # None
      PROVE  /\ <<k[1], source'[k]>> \in replicas' /\ k \notin replicas'
             /\ \A w \in waiters'[k] : WaitsAt(w, k)'
  <2>1. source'[k] = source[k] /\ k \notin landed /\ k \in Transferring /\ waiters'[k] = waiters[k]
    BY <1>1, <1>7 DEF Transferring, WaitersAfter
  <2>2. <<k[1], source[k]>> \in replicas /\ k \notin replicas /\ \A w \in waiters[k] : WaitsAt(w, k)
    BY <2>1 DEF TransfersSound
  <2>3. k \notin UNION {Outputs[u] \X {node[u]} : u \in done}
    <3>1. SUFFICES ASSUME NEW u \in done, k \in Outputs[u] \X {node[u]} PROVE FALSE
      OBVIOUS
    <3>2. k[1] \in Outputs[u] /\ source[k] \in Nodes
      BY <1>3, <2>1, <3>1 DEF DataTypes, Transferring
    <3>3. stages[u] = "SUCCEEDED"
      BY <1>2, <2>2, <3>2, MadeOnce
    <3>4. QED
      BY <1>2, <3>3
  <2>4. ASSUME NEW w \in waiters[k] PROVE WaitsAt(w, k)'
    <3>1. WaitsAt(w, k) /\ w \in Stages \cup Requests
      BY <1>3, <2>2 DEF DataTypes
    <3>2. w \notin Requests => stages'[w] = stages[w]
      BY <1>2, <1>4, <3>1 DEF WaitsAt
    <3>3. QED
      BY <1>1, <3>1, <3>2 DEF WaitsAt, Active
  <2>5. QED
    BY <1>1, <2>1, <2>2, <2>3, <2>4
<1>8. QED
  BY <1>1, <1>6, <1>7 DEF TransfersSound, Transferring

\* Stages that do not wait for data move; the data stand.
LEMMA MovesKeepData ==
    ASSUME ControlInv, Made, TransfersSound, UNCHANGED <<requests, replicas, source, waiters>>,
           \A s \in Stages : stages'[s] = "SUCCEEDED" <=> stages[s] = "SUCCEEDED",
           \A s \in Stages : (\E k \in Transferring : s \in waiters[k]) =>
              stages'[s] = stages[s] /\ node'[s] = node[s]
    PROVE  Made' /\ TransfersSound'
<1>1. Made'
  BY DEF Made, Copies
<1>2. DataTypes
  BY TypeParts DEF ControlInv
<1>3. ASSUME NEW k \in Transferring, NEW w \in waiters[k] PROVE WaitsAt(w, k)'
  <2>1. WaitsAt(w, k) /\ w \in Stages \cup Requests
    BY <1>2 DEF TransfersSound, DataTypes, Transferring
  <2>2. w \notin Requests => stages'[w] = stages[w] /\ node'[w] = node[w]
    BY <2>1
  <2>3. QED
    BY <2>1, <2>2 DEF WaitsAt, Active
<1>4. QED
  BY <1>1, <1>3 DEF TransfersSound, Transferring

LEMMA FetchKeepsData ==
    ASSUME ControlInv, Made, TransfersSound, NEW a \in Artifacts, StartTransfer(a)
    PROVE  Made' /\ TransfersSound'
<1> DEFINE n == At(job.for)
           k == <<a, n>>
<1>1. PICK m \in Sources(a, n), v \in Reservations(a, n) :
              LET K == replicas \ (v.evicted \X {n})
              IN /\ m \in Nodes /\ m # n /\ <<a, m>> \in replicas /\ <<a, m>> \in K
                 /\ k \notin replicas /\ source[k] = None
                 /\ Spared(K, requests, stages, source)
                 /\ \/ /\ replicas' = K \cup {k}
                       /\ UNCHANGED <<source, waiters>>
                    \/ /\ replicas' = K
                       /\ source' = [source EXCEPT ![k] = m]
                       /\ waiters' = [waiters EXCEPT ![k] = {job.for}]
  BY StartsTransfer
<1> DEFINE K == replicas \ (v.evicted \X {n})
<1>2. UNCHANGED <<requests, stages, node>>
  BY DEF StartTransfer, fetchFrame, requestVars, stageVars
<1>3. k \in Keys /\ n \in Nodes /\ WaitsAt(job.for, k) /\ DataTypes
  BY Fetching, TypeParts DEF StartTransfer, Wanted, ControlInv
<1>4. /\ \A t \in Transferring : <<t[1], source[t]>> \in K /\ t \notin K /\ t # k
      /\ K \subseteq replicas
  BY <1>1, SparedTransfers DEF Transferring
<1>5. \A s \in Stages : stages[s] # "SUCCEEDED" => a \notin Outputs[s]
  BY <1>1, MadeOnce
<1> HIDE DEF n
<1>6. Made'
  <2>1. \A t \in replicas' : t \in replicas \/ t = k
    BY <1>1
  <2>2. ASSUME NEW s \in Stages, stages[s] # "SUCCEEDED", NEW b \in Outputs[s], NEW q \in Nodes,
               <<b, q>> \in replicas'
        PROVE  FALSE
    <3>1. <<b, q>> \in replicas \/ b = a
      BY <2>1, <2>2
    <3>2. QED
      BY <1>5, <2>2, <3>1, MadeOnce
  <2>3. QED
    BY <1>2, <2>2 DEF Made, Copies
<1>7. \A t \in Transferring : <<t[1], source[t]>> \in replicas' /\ t \notin replicas'
  BY <1>1, <1>4
<1>8. \A t \in Transferring : \A w \in waiters[t] : WaitsAt(w, t)'
  BY <1>2 DEF TransfersSound, WaitsAt, Active
<1>9. CASE UNCHANGED <<source, waiters>>
  BY <1>6, <1>7, <1>8, <1>9 DEF TransfersSound, Transferring
<1>10. CASE replicas' = K /\ source' = [source EXCEPT ![k] = m] /\ waiters' = [waiters EXCEPT ![k] = {job.for}]
  <2> DEFINE w0 == job.for
  <2>1. k[1] = a /\ k \notin K /\ <<a, m>> \in K
    BY <1>1, <1>4
  <2>2. \A w : WaitsAt(w, k) => (IF w \in Requests
                                THEN requests'[w] = "ACTIVE" /\ k[1] \in Deliverables[w] /\ k[2] = Receiver[w]
                                ELSE stages'[w] = "WAITING_DATA" /\ k[1] \in Inputs[w] /\ k[2] = node'[w])
    BY <1>2 DEF WaitsAt, Active
  <2> HIDE DEF k, K, w0
  <2>3. /\ source'[k] = m /\ waiters'[k] = {w0}
        /\ \A t \in Keys \ {k} : source'[t] = source[t] /\ waiters'[t] = waiters[t]
    BY <1>3, <1>10 DEF DataTypes, w0
  <2>4. ASSUME NEW t \in Keys, source'[t] # None
        PROVE  /\ <<t[1], source'[t]>> \in replicas' /\ t \notin replicas'
               /\ \A w \in waiters'[t] :
                     IF w \in Requests
                     THEN requests'[w] = "ACTIVE" /\ t[1] \in Deliverables[w] /\ t[2] = Receiver[w]
                     ELSE stages'[w] = "WAITING_DATA" /\ t[1] \in Inputs[w] /\ t[2] = node'[w]
    <3>1. CASE t = k
      BY <1>3, <1>10, <2>1, <2>2, <2>3, <3>1 DEF w0
    <3>2. CASE t # k
      <4>1. t \in Transferring /\ source'[t] = source[t] /\ waiters'[t] = waiters[t]
        BY <2>3, <2>4, <3>2 DEF Transferring
      <4>2. QED
        BY <1>7, <1>8, <4>1 DEF WaitsAt, Active
    <3>3. QED
      BY <3>1, <3>2
  <2>5. QED
    BY <1>6, <2>4 DEF TransfersSound, Transferring, WaitsAt, Active
<1>11. QED
  BY <1>1, <1>9, <1>10

LEMMA JoinKeepsData ==
    ASSUME ControlInv, Made, TransfersSound, NEW a \in Artifacts, JoinTransfer(a)
    PROVE  Made' /\ TransfersSound'
<1> DEFINE k == <<a, At(job.for)>>
           w0 == job.for
<1>1. /\ waiters' = [waiters EXCEPT ![k] = @ \cup {w0}] /\ source[k] # None
      /\ UNCHANGED <<requests, stages, node, replicas, source>> /\ Fetch(a)
  BY DEF JoinTransfer, fetchFrame, requestVars, stageVars
<1>2. k \in Keys /\ WaitsAt(w0, k) /\ DataTypes
  BY <1>1, Fetching, TypeParts DEF ControlInv
<1>3. Made'
  BY <1>1 DEF Made, Copies
<1> HIDE DEF k, w0
<1>4. waiters'[k] = waiters[k] \cup {w0} /\ \A t \in Keys \ {k} : waiters'[t] = waiters[t]
  BY <1>1, <1>2 DEF DataTypes
<1>5. \A t \in Keys : source[t] # None => \A w \in waiters'[t] : WaitsAt(w, t)
  BY <1>1, <1>2, <1>4 DEF TransfersSound, Transferring
<1>6. QED
  BY <1>1, <1>3, <1>5 DEF TransfersSound, Transferring, WaitsAt, Active

\* A stage that has gathered its inputs is a waiter no more.
LEMMA GatheredAll ==
    ASSUME ControlInv, Found, TransfersSound, NEW s \in Stages, Gathered(s), job.ok
    PROVE  /\ \A a \in Inputs[s] : <<a, node[s]>> \in replicas
           /\ \A k \in Transferring : s \notin waiters[k]
<1>1. job.for = s /\ job.rest = {} /\ pc = "data" /\ s # None /\ s \notin Requests
  BY SetsAssumption DEF Gathered
<1>2. \A a \in Inputs[s] : <<a, node[s]>> \in replicas
  BY <1>1 DEF Found
<1>3. ASSUME NEW k \in Transferring, s \in waiters[k] PROVE FALSE
  <2>1. WaitsAt(s, k) /\ k \notin replicas /\ k \in Keys
    BY <1>3 DEF TransfersSound, Transferring
  <2>2. k[1] \in Inputs[s] /\ k = <<k[1], node[s]>>
    BY <1>1, <2>1 DEF WaitsAt, Keys
  <2>3. QED
    BY <1>2, <2>1, <2>2
<1>4. QED
  BY <1>2, <1>3

LEMMA MoveStepsKeepData ==
    ASSUME ControlInv, DataInv, NEW s \in Stages,
           Readies(s) \/ Gathered(s) \/ StartStage(s) \/ Switches(s)
    PROVE  Made' /\ TransfersSound'
<1>1. StatusTypes
  BY TypeParts DEF ControlInv
<1>2. UNCHANGED <<requests, node, replicas, source, waiters>>
  BY DEF Readies, Gathered, StartStage, Switches, requestVars, dataVars
<1>3. /\ stages' = stages \/ \E to : to # "SUCCEEDED" /\ stages' = [stages EXCEPT ![s] = to]
      /\ stages' = stages \/ stages[s] # "SUCCEEDED"
  <2>1. CASE Readies(s)
    BY <2>1 DEF Readies, MayBeReady
  <2>2. CASE Gathered(s)
    <3>1. job.for = s /\ pc = "data" /\ s # None
      BY <2>2, SetsAssumption DEF Gathered
    <3>2. stages[s] = "WAITING_DATA"
      BY <3>1 DEF ControlInv, Visiting
    <3>3. stages' = stages \/ stages' = [stages EXCEPT ![s] = "QUEUED"]
      BY <2>2 DEF Gathered
    <3>4. QED
      BY <3>2, <3>3
  <2>3. CASE StartStage(s)
    <3>1. job.for = s /\ pc = "dispatch" /\ s # None
      BY <2>3, SetsAssumption DEF StartStage
    <3>2. stages[s] = "QUEUED" /\ stages' = [stages EXCEPT ![s] = "RUNNING"]
      BY <2>3, <3>1 DEF ControlInv, Visiting, Dispatchable, StartStage
    <3>3. QED
      BY <3>2
  <2>4. CASE Switches(s)
    BY <2>4 DEF Switches
  <2>5. QED
    BY <2>1, <2>2, <2>3, <2>4
<1>4. \A u \in Stages : stages'[u] = "SUCCEEDED" <=> stages[u] = "SUCCEEDED"
  BY <1>1, <1>3 DEF StatusTypes
<1>5. stages' = stages \/ \A k \in Transferring : s \notin waiters[k]
  <2>1. stages[s] # "WAITING_DATA" => \A k \in Transferring : s \notin waiters[k]
    BY SetsAssumption DEF DataInv, TransfersSound, WaitsAt
  <2>2. CASE Gathered(s)
    BY <2>2, GatheredAll DEF Gathered, DataInv
  <2>3. CASE Readies(s)
    BY <2>1, <2>3 DEF Readies, MayBeReady
  <2>4. CASE StartStage(s)
    BY <2>1, <2>4, SetsAssumption DEF StartStage, ControlInv, Visiting, Dispatchable
  <2>5. CASE Switches(s)
    BY <2>1, <2>5 DEF Switches
  <2>6. QED
    BY <2>2, <2>3, <2>4, <2>5
<1>6. \A u \in Stages : (\E k \in Transferring : u \in waiters[k]) => stages'[u] = stages[u]
  BY <1>1, <1>3, <1>5 DEF StatusTypes
<1>7. QED
  BY <1>2, <1>4, <1>6, MovesKeepData DEF DataInv

LEMMA TransfersKeep ==
    ASSUME ControlInv, DataInv, StepKinds
    PROVE  Made' /\ TransfersSound'
<1> USE DEF requestVars, stageVars, dataVars, execVars, engineVars
<1>1. StatusTypes /\ DataTypes /\ Made /\ TransfersSound
  BY TypeParts DEF ControlInv, DataInv
<1>2. CASE UNCHANGED <<requests, stages, node, replicas, source, waiters>>
  BY <1>1, <1>2 DEF Made, Copies, TransfersSound, Transferring, WaitsAt, Active
<1>3. CASE UNCHANGED finishVars \/ Wakes \/ Closes
  BY <1>2, <1>3 DEF finishVars, Wakes, Closes
<1>4. ASSUME NEW r \in Requests, Arrive(r) PROVE Made' /\ TransfersSound'
  <2>1. /\ requests' = [requests EXCEPT ![r] = "ACTIVE"]
        /\ UNCHANGED <<stages, node, replicas, source, waiters>>
    BY <1>4 DEF Arrive
  <2>2. Made'
    BY <1>1, <2>1 DEF Made, Copies
  <2>3. \A q \in Requests : Active(q) => requests'[q] = "ACTIVE"
    BY <1>1, <2>1 DEF StatusTypes, Active
  <2>4. \A k \in Transferring : \A w \in waiters[k] : WaitsAt(w, k)'
    BY <1>1, <2>1, <2>3 DEF TransfersSound, WaitsAt, Active
  <2>5. QED
    BY <1>1, <2>1, <2>2, <2>4 DEF TransfersSound, Transferring
<1>5. ASSUME NEW P \in SUBSET Stages, Places(P) PROVE Made' /\ TransfersSound'
  <2>1. /\ stages' = [s \in Stages |-> IF s \in P THEN "WAITING_DATA" ELSE stages[s]]
        /\ node' = [s \in Stages |-> IF s \in P THEN node'[s] ELSE node[s]]
        /\ \A s \in P : stages[s] = "READY"
        /\ UNCHANGED <<requests, replicas, source, waiters>>
    BY <1>5 DEF Places
  <2>2. \A s \in Stages : stages'[s] = "SUCCEEDED" <=> stages[s] = "SUCCEEDED"
    BY <2>1
  <2>3. \A s \in P : \A k \in Transferring : s \notin waiters[k]
    BY <1>1, <2>1, SetsAssumption DEF TransfersSound, WaitsAt
  <2>4. \A s \in Stages : (\E k \in Transferring : s \in waiters[k]) =>
              stages'[s] = stages[s] /\ node'[s] = node[s]
    BY <2>1, <2>3
  <2>5. QED
    BY <1>1, <2>1, <2>2, <2>4, MovesKeepData
<1>6. ASSUME NEW a \in Artifacts, NoRoom(a) PROVE Made' /\ TransfersSound'
  <2>1. UNCHANGED <<requests, stages, node, source, waiters>>
    BY <1>6 DEF NoRoom, fetchFrame
  <2>2. Spared(replicas', requests, stages, source)
    BY <1>6, FindsNoRoom
  <2>3. QED
    BY <1>1, <2>1, <2>2, LosesReplicas
<1>7. ASSUME NEW a \in Artifacts, ReserveOutput(a) PROVE Made' /\ TransfersSound'
  <2>1. UNCHANGED <<requests, stages, node, source, waiters>>
    BY <1>7 DEF ReserveOutput, fetchFrame
  <2>2. Spared(replicas', requests, stages, source)
    BY <1>7, ReservesOutput
  <2>3. QED
    BY <1>1, <2>1, <2>2, LosesReplicas
<1>8. CASE Collect
  <2>1. UNCHANGED <<requests, stages, node, source, waiters>>
    BY <1>8 DEF Collect
  <2>2. replicas' \in Collected(replicas, requests, stages, source)
    BY <1>8 DEF Collect
  <2>3. QED
    BY <1>1, <2>1, <2>2, LosesReplicas, CollectionSpares DEF DataTypes
<1>9. QED
  BY <1>1, <1>3, <1>4, <1>5, <1>6, <1>7, <1>8, ResolveKeepsData, ReapKeepsData, FetchKeepsData,
     JoinKeepsData, MoveStepsKeepData DEF StepKinds

\* The steps of a visit that gathers the inputs of a stage.
LEMMA Gathering ==
    ASSUME ControlInv, [Next]_vars, job'.for # None, pc' = "data"
    PROVE  \/ UNCHANGED vars
           \/ \E s \in Stages : Gather(s)
           \/ \E a \in Artifacts : \/ HaveReplica(a) \/ JoinTransfer(a) \/ NoSource(a)
                                   \/ NoRoom(a) \/ StartTransfer(a)
<1> SUFFICES ASSUME ~UNCHANGED vars, ~\E s \in Stages : Gather(s),
                    ~\E a \in Artifacts : \/ HaveReplica(a) \/ JoinTransfer(a) \/ NoSource(a)
                                          \/ NoRoom(a) \/ StartTransfer(a)
             PROVE  FALSE
  OBVIOUS
<1> USE DEF loopVars
<1>1. pc \notin {"deliver", "data", "dispatch"} => job.for = None
  BY DEF ControlInv, Visiting
<1>2. ~Reap /\ ~PlaceAll
  BY <1>1 DEF Reap, PlaceAll, Loop
<1>3. \A r \in Requests : /\ ~Deliver(r) /\ ~Delivered(r) /\ ~Expire(r)
                          /\ ~Arrive(r) /\ ~Refuse(r) /\ ~Fail(r)
  BY <1>1 DEF Deliver, Delivered, Expire, Arrive, Refuse, Fail, NoJob
<1>4. \A a \in Artifacts : ~ReserveOutput(a)
  BY DEF ReserveOutput, fetchFrame
<1>5. \A s \in Stages : /\ ~MakeReady(s) /\ ~Gathered(s) /\ ~Dispatch(s) /\ ~SkipStage(s)
                        /\ ~StartStage(s)
  BY <1>1 DEF MakeReady, Gathered, Dispatch, SkipStage, StartStage, NoJob
<1>6. ~EndDeliver /\ ~EndExpire /\ ~EndArrive /\ ~EndData /\ ~EndDispatch
  BY <1>1 DEF EndDeliver, EndExpire, EndArrive, EndData, EndDispatch, restFrame, Loop, Pass
<1>7. ~Collect /\ ~Return /\ ~Deadlock /\ ~EndFail
  BY <1>1 DEF Collect, Return, Deadlock, EndFail, Settling, Loop
<1>8. ~Sleep /\ ~Decision /\ \A limit \in Boundaries : ~Advance(limit)
  BY <1>1 DEF Sleep, Wait, Decision, Apply, ApplyCommand, EndApply, Advance, Settling, Loop
<1>9. ~(Close /\ UNCHANGED since) /\ ~Closed
  BY DEF Close, Closed
<1>10. QED
  BY <1>2, <1>3, <1>4, <1>5, <1>6, <1>7, <1>8, <1>9 DEF Next, Settle

LEMMA FoundKeeps ==
    ASSUME ControlInv, DataInv, [Next]_vars
    PROVE  Found'
<1> SUFFICES ASSUME job'.for # None, pc' = "data", job'.ok
             PROVE  \A a \in Inputs[job'.for] \ job'.rest : <<a, node'[job'.for]>> \in replicas'
  BY DEF Found
<1>1. job \in JobTypes
  BY TypeParts DEF ControlInv, LoopTypes
<1>2. CASE UNCHANGED vars
  BY <1>2 DEF vars, loopVars, stageVars, dataVars, DataInv, Found
<1>3. ASSUME NEW s \in Stages, Gather(s)
      PROVE  \A a \in Inputs[job'.for] \ job'.rest : <<a, node'[job'.for]>> \in replicas'
  BY <1>3 DEF Gather, JobFor
<1>4. ASSUME NEW a \in Artifacts, HaveReplica(a)
      PROVE  \A b \in Inputs[job'.for] \ job'.rest : <<b, node'[job'.for]>> \in replicas'
  <2>1. /\ job' = [job EXCEPT !.rest = @ \ {a}] /\ pc' = pc
        /\ UNCHANGED <<node, replicas>> /\ <<a, At(job.for)>> \in replicas
    BY <1>4 DEF HaveReplica, Fetched, fetchFrame, stageVars, dataVars
  <2>2. job'.for = job.for /\ job'.rest = job.rest \ {a} /\ job'.ok = job.ok
    BY <1>1, <2>1 DEF JobTypes
  <2>3. job.for \in Stages /\ job.for \notin Requests
    BY <2>1, <2>2, SetsAssumption DEF ControlInv, Visiting
  <2>4. At(job.for) = node[job.for]
    BY <2>3 DEF At
  <2>5. QED
    BY <2>1, <2>2, <2>4 DEF DataInv, Found
<1>5. ASSUME NEW a \in Artifacts, StartTransfer(a)
      PROVE  \A b \in Inputs[job'.for] \ job'.rest : <<b, node'[job'.for]>> \in replicas'
  <2> DEFINE n == At(job.for)
             s == job.for
  <2>1. PICK m \in Sources(a, n), v \in Reservations(a, n) :
              LET K == replicas \ (v.evicted \X {n})
              IN /\ Spared(K, requests, stages, source)
                 /\ \/ replicas' = K \cup {<<a, n>>} /\ Fetched(a)
                    \/ replicas' = K /\ NotFetched(a)
    BY <1>5, StartsTransfer
  <2> DEFINE K == replicas \ (v.evicted \X {n})
  <2>2. pc = "data" /\ UNCHANGED node
    BY <1>5 DEF StartTransfer, fetchFrame, stageVars
  <2>3. ~NotFetched(a)
    BY <1>1 DEF NotFetched, JobTypes
  <2>4. /\ replicas' = K \cup {<<a, n>>} /\ Spared(K, requests, stages, source)
        /\ job' = [job EXCEPT !.rest = @ \ {a}]
    BY <2>1, <2>3 DEF Fetched
  <2>5. job'.for = s /\ job'.rest = job.rest \ {a} /\ job'.ok = job.ok
    BY <1>1, <2>4 DEF JobTypes
  <2>6. s \in Stages /\ s \notin Requests /\ stages[s] = "WAITING_DATA" /\ s # None
    BY <2>2, <2>5, SetsAssumption DEF ControlInv, Visiting
  <2>7. n = node[s] /\ n \in Nodes
    BY <2>6, VisitPlace DEF At
  <2>8. Active(RequestOf[s]) /\ stages[s] \notin Over
    BY <2>6, PlacedActive DEF Placed
  <2>9. ASSUME NEW b \in Inputs[s] \ job.rest PROVE <<b, n>> \in K
    <3>1. <<b, n>> \in replicas
      BY <2>2, <2>5, <2>6, <2>7 DEF DataInv, Found
    <3>2. n \in Destinations(b, requests, stages)
      BY <2>6, <2>7, <2>8, NeededHere DEF Active
    <3>3. QED
      BY <2>4, <3>1, <3>2 DEF Spared
  <2>10. QED
    BY <2>2, <2>4, <2>5, <2>7, <2>9
<1>6. ASSUME NEW a \in Artifacts, JoinTransfer(a) \/ NoSource(a) \/ NoRoom(a)
      PROVE  FALSE
  <2>1. NotFetched(a)
    BY <1>6 DEF JoinTransfer, NoSource, NoRoom
  <2>2. QED
    BY <1>1, <2>1 DEF NotFetched, JobTypes
<1>7. QED
  BY <1>2, <1>3, <1>4, <1>5, <1>6, Gathering

LEMMA DataStart == Init => DataInv
<1> SUFFICES ASSUME Init PROVE DataInv
  OBVIOUS
<1>1. Made
  BY WorkflowAssumption DEF Init, Made, Copies
<1>2. Found
  BY DEF Init, Found
<1>3. TransfersSound
  BY DEF Init, TransfersSound, Transferring
<1>4. QED
  BY <1>1, <1>2, <1>3 DEF DataInv

LEMMA DataStep == ControlInv /\ DataInv /\ [Next]_vars => DataInv'
  BY Kinds, TransfersKeep, FoundKeeps DEF DataInv

LEMMA DataInvariant == Spec => []DataInv
<1>1. Init => DataInv
  BY DataStart
<1>2. ControlInv /\ DataInv /\ [Next]_vars => DataInv'
  BY DataStep
<1>3. QED
  BY <1>1, <1>2, ControlInvariant, PTL DEF Spec

\* A transfer reads a replica that no eviction and no collection takes away
\* (_pin), brings what is not there yet (_reap, _finish_request), and serves
\* only stages and requests that still wait for it, for every workload,
\* platform and policy.
THEOREM TransfersAreSound == Spec => []TransfersSound
  BY DataInvariant, PTL DEF DataInv

-----------------------------------------------------------------------------
(***************************************************************************)
(* Inputs and offers.                                                      *)
(***************************************************************************)
\* Whether what there is of an artifact can reach a node, as _candidates asks.
InReach(R, a, d) ==
    \/ \A m \in Nodes : <<a, m>> \notin R
    \/ \E m \in Nodes : <<a, m>> \in R /\ Reaches(m, d)

LEMMA CandidateReach ==
    ASSUME NEW s
    PROVE  Candidates(s) = {n \in Feasible(s) : \A a \in Inputs[s] : InReach(replicas, a, n)}
<1>1. \A a, n : (Copies(a) = {} \/ \E m \in Copies(a) : Reaches(m, n)) <=> InReach(replicas, a, n)
  BY DEF Copies, InReach
<1>2. QED
  BY <1>1 DEF Candidates

\* The ways replicas change: some go that may be spared, one is fetched, or a
\* reap adds some.
LEMMA ReplicaSteps ==
    ASSUME ControlInv, DataInv, StepKinds
    PROVE  \/ Spared(replicas', requests', stages', source')
           \/ \E K, b, n : /\ Spared(K, requests', stages', source)
                           /\ replicas' = K \cup {<<b, n>>}
                           /\ \E m \in Nodes : <<b, m>> \in K
           \/ Reap
<1> USE DEF requestVars, stageVars, dataVars, execVars, engineVars
<1>1. DataTypes /\ Made /\ TransfersSound
  BY TypeParts DEF ControlInv, DataInv
<1>2. CASE UNCHANGED replicas
  <2>1. \A a \in Artifacts : \A d : (\E m \in Copies(a) : Reaches(m, d)) =>
              \E m \in Nodes : <<a, m>> \in replicas /\ Reaches(m, d)
    BY DEF Copies
  <2>2. \A rq, st, src : Spared(replicas, rq, st, src)
    BY <2>1 DEF Spared
  <2>3. QED
    BY <1>2, <2>2
<1>3. CASE UNCHANGED finishVars \/ Wakes \/ Closes
  BY <1>2, <1>3 DEF finishVars, Wakes, Closes
<1>4. CASE \E s \in Stages : Readies(s) \/ Gathered(s) \/ StartStage(s) \/ Switches(s)
  BY <1>2, <1>4 DEF Readies, Gathered, StartStage, Switches
<1>5. CASE \/ \E r \in Requests : Arrive(r)
           \/ \E P \in SUBSET Stages : Places(P)
           \/ \E a \in Artifacts : JoinTransfer(a)
  BY <1>2, <1>5 DEF Arrive, Places, JoinTransfer
<1>6. ASSUME NEW a \in Artifacts, NoRoom(a) PROVE Spared(replicas', requests', stages', source')
  <2>1. UNCHANGED <<requests, stages, source>>
    BY <1>6 DEF NoRoom, fetchFrame
  <2>2. Spared(replicas', requests, stages, source)
    BY <1>6, FindsNoRoom
  <2>3. QED
    BY <2>1, <2>2
<1>7. ASSUME NEW a \in Artifacts, ReserveOutput(a) PROVE Spared(replicas', requests', stages', source')
  <2>1. UNCHANGED <<requests, stages, source>>
    BY <1>7 DEF ReserveOutput, fetchFrame
  <2>2. Spared(replicas', requests, stages, source)
    BY <1>7, ReservesOutput
  <2>3. QED
    BY <2>1, <2>2
<1>8. CASE Collect
  <2>1. UNCHANGED <<requests, stages, source>>
    BY <1>8 DEF Collect
  <2>2. replicas' \in Collected(replicas, requests, stages, source)
    BY <1>8 DEF Collect
  <2>3. QED
    BY <1>1, <2>1, <2>2, CollectionSpares DEF DataTypes
<1>9. ASSUME NEW a \in Artifacts, StartTransfer(a)
      PROVE  \E K, b, n : /\ Spared(K, requests', stages', source)
                          /\ replicas' = K \/ replicas' = K \cup {<<b, n>>}
                          /\ \E m \in Nodes : <<b, m>> \in K
                          /\ replicas' = K => Spared(K, requests', stages', source')
  <2>1. UNCHANGED <<requests, stages>>
    BY <1>9 DEF StartTransfer, fetchFrame
  <2> DEFINE n == At(job.for)
  <2>2. PICK m \in Sources(a, n), v \in Reservations(a, n) :
              LET K == replicas \ (v.evicted \X {n})
              IN /\ m \in Nodes /\ <<a, m>> \in K /\ <<a, n>> \notin replicas
                 /\ Spared(K, requests, stages, source)
                 /\ \/ /\ replicas' = K \cup {<<a, n>>}
                    \/ /\ replicas' = K
                       /\ source' = [source EXCEPT ![<<a, n>>] = m]
    BY <1>9, StartsTransfer
  <2> DEFINE K == replicas \ (v.evicted \X {n})
  <2>3. replicas' = K => Spared(K, requests, stages, source')
    <3>1. SUFFICES ASSUME replicas' = K PROVE Spared(K, requests, stages, source')
      OBVIOUS
    <3>2. source' = [source EXCEPT ![<<a, n>>] = m]
      <4>1. <<a, n>> \notin K
        BY <2>2
      <4>2. QED
        BY <2>2, <3>1, <4>1
    <3>3. \A k \in replicas \ K : k \in Keys /\ ~Read(k[1], k[2], source) /\ k[2] = n
      BY <1>1, <2>2 DEF Spared, DataTypes
    <3>4. m # n
      BY <2>2
    <3> HIDE DEF K, n
    <3>5. \A k \in replicas \ K : ~Read(k[1], k[2], source')
      BY <1>1, <3>2, <3>3, <3>4 DEF Read, DataTypes
    <3>6. QED
      BY <2>2, <3>5 DEF Spared, K, n
  <2>4. Spared(K, requests, stages, source) /\ <<a, m>> \in K /\ m \in Nodes
    BY <2>2
  <2>5. replicas' = K \/ replicas' = K \cup {<<a, n>>}
    BY <2>2
  <2> HIDE DEF K, n
  <2>6. QED
    BY <2>1, <2>3, <2>4, <2>5
<1>10. QED
  BY <1>1, <1>3, <1>4, <1>5, <1>6, <1>7, <1>8, <1>9, ResolveKeepsData DEF StepKinds

\* A node where a stage is, or may be, keeps in reach what the stage reads.
LEMMA SparedReach ==
    ASSUME replicas \subseteq Keys, NEW K, NEW rq, NEW st, NEW src, Spared(K, rq, st, src),
           NEW s \in Stages, rq[RequestOf[s]] = "ACTIVE", st[s] \notin Over,
           NEW a \in Inputs[s], NEW d \in Seats(s)
    PROVE  /\ InReach(replicas, a, d) => InReach(K, a, d)
           /\ <<a, d>> \in replicas => <<a, d>> \in K
<1>1. d \in Destinations(a, rq, st)
  BY DEF Destinations, Seats
<1>2. a \in Artifacts
  BY WorkflowAssumption
<1>3. K \subseteq replicas
  BY DEF Spared
<1>4. ASSUME NEW m \in Nodes, <<a, m>> \in replicas, Reaches(m, d)
      PROVE  \E q \in Nodes : <<a, q>> \in K /\ Reaches(q, d)
  <2>1. m \in Copies(a)
    BY <1>4 DEF Copies
  <2>2. QED
    BY <1>1, <1>2, <1>4, <2>1 DEF Spared
<1>5. InReach(replicas, a, d) => InReach(K, a, d)
  BY <1>3, <1>4 DEF InReach
<1>6. <<a, d>> \in replicas => <<a, d>> \in K
  BY <1>1 DEF Spared
<1>7. QED
  BY <1>5, <1>6

LiveRequests ==
    \A s \in Stages : stages[s] \in Placed \cup {"READY"} =>
        Active(RequestOf[s]) /\ stages[s] \notin Over
LEMMA RequestsLive == ControlInv => LiveRequests
  BY PlacedActive DEF LiveRequests

LEMMA ReachKept ==
    ASSUME ControlInv, ControlInv', DataInv, StepKinds,
           NEW s \in Stages, stages[s] \in Placed \cup {"READY"},
           stages'[s] \in Placed \cup {"READY"}, NEW a \in Inputs[s], NEW d \in Seats(s)
    PROVE  /\ InReach(replicas, a, d) => InReach(replicas', a, d)
           /\ <<a, d>> \in replicas => <<a, d>> \in replicas'
<1>1. DataTypes /\ Made /\ TransfersSound
  BY TypeParts DEF ControlInv, DataInv
<1>2. requests'[RequestOf[s]] = "ACTIVE" /\ stages'[s] \notin Over
  <2>1. (ControlInv => LiveRequests)'
    BY RequestsLive, PTL
  <2>2. QED
    BY <2>1 DEF LiveRequests, Active
<1>3. CASE Spared(replicas', requests', stages', source')
  BY <1>1, <1>2, <1>3, SparedReach DEF DataTypes
<1>4. ASSUME NEW K, NEW b, NEW n, Spared(K, requests', stages', source),
             replicas' = K \cup {<<b, n>>}, NEW m \in Nodes, <<b, m>> \in K
      PROVE  /\ InReach(replicas, a, d) => InReach(replicas', a, d)
             /\ <<a, d>> \in replicas => <<a, d>> \in replicas'
  <2>1. /\ InReach(replicas, a, d) => InReach(K, a, d)
        /\ <<a, d>> \in replicas => <<a, d>> \in K
    BY <1>1, <1>2, <1>4, SparedReach DEF DataTypes
  <2>2. InReach(K, a, d) => InReach(replicas', a, d)
    BY <1>4 DEF InReach
  <2>3. QED
    BY <1>4, <2>1, <2>2
<1>5. CASE Reap
  <2> DEFINE done == {u \in ended : stages[u] # "SUSPENDED"}
  <2>1. /\ replicas' = replicas \cup landed \cup UNION {Outputs[u] \X {node[u]} : u \in done}
        /\ replicas \subseteq replicas'
    BY <1>5 DEF Reap
  <2>2. \A u \in done : u \in Stages /\ stages[u] # "SUCCEEDED"
    BY DEF ControlInv, TypeOK, Executing
  <2> HIDE DEF done
  <2>3. ASSUME \A m \in Nodes : <<a, m>> \notin replicas, NEW m \in Nodes, <<a, m>> \in replicas'
        PROVE  FALSE
    <3>1. CASE <<a, m>> \in landed
      <4>1. <<a, m>> \in Transferring
        BY <1>1, <3>1 DEF DataTypes
      <4>2. <<a, source[<<a, m>>]>> \in replicas
        BY <1>1, <4>1 DEF TransfersSound
      <4>3. source[<<a, m>>] \in Nodes
        BY <1>1, <4>1 DEF DataTypes, Transferring
      <4>4. QED
        BY <2>3, <4>2, <4>3
    <3>2. CASE <<a, m>> \in UNION {Outputs[u] \X {node[u]} : u \in done}
      <4>1. PICK u \in done : a \in Outputs[u]
        BY <3>2
      <4>2. u \in Dependencies[s]
        BY <2>2, <4>1, WorkflowAssumption
      <4>3. stages[u] = "SUCCEEDED"
        BY <4>2 DEF ControlInv, Lived
      <4>4. QED
        BY <2>2, <4>1, <4>3
    <3>3. QED
      BY <2>1, <2>3, <3>1, <3>2
  <2>4. QED
    BY <2>1, <2>3 DEF InReach
<1>6. QED
  BY <1>3, <1>4, <1>5, ReplicaSteps

\* How one stage moves on.
LEMMA StageMoves ==
    ASSUME ControlInv, ControlInv', DataInv, StepKinds, NEW s \in Stages,
           stages'[s] \in Placed
    PROVE  \/ stages'[s] = stages[s] /\ node'[s] = node[s]
           \/ /\ stages[s] = "READY" /\ stages'[s] = "WAITING_DATA" /\ UNCHANGED replicas
              /\ node'[s] \in Candidates(s) \/ <<"place", s, node'[s]>> \in batch
           \/ /\ stages[s] = "WAITING_DATA" /\ UNCHANGED <<replicas, node>>
              /\ \A a \in Inputs[s] : <<a, node[s]>> \in replicas
           \/ /\ stages[s] \in {"QUEUED", "RUNNING", "SUSPENDED"}
              /\ stages'[s] \in {"QUEUED", "RUNNING", "SUSPENDED"}
              /\ node'[s] = node[s]
<1> USE DEF requestVars, stageVars, dataVars, execVars, engineVars
<1>1. StatusTypes /\ Found /\ TransfersSound
  BY TypeParts DEF ControlInv, DataInv
<1>2. CASE UNCHANGED <<stages, node>>
  BY <1>2
<1>3. CASE UNCHANGED finishVars \/ Wakes \/ Closes \/ Collect
  BY <1>2, <1>3 DEF finishVars, Wakes, Closes, Collect
<1>4. ASSUME NEW r \in Requests, Resolve(r)
      PROVE  stages'[s] = stages[s] /\ node'[s] = node[s]
  BY <1>4, FinishStatus DEF Resolve, Placed
<1>5. CASE Reap
  BY <1>5 DEF Reap, Placed
<1>6. CASE \/ \E r \in Requests : Arrive(r)
           \/ \E a \in Artifacts : JoinTransfer(a) \/ NoRoom(a) \/ StartTransfer(a) \/ ReserveOutput(a)
  BY <1>2, <1>6 DEF Arrive, JoinTransfer, NoRoom, StartTransfer, ReserveOutput, fetchFrame
<1>7. ASSUME NEW u \in Stages, Readies(u) PROVE stages'[s] = stages[s] /\ node'[s] = node[s]
  BY <1>1, <1>7 DEF Readies, StatusTypes, Placed
<1>8. ASSUME NEW u \in Stages, Gathered(u), ~UNCHANGED stages
      PROVE  \/ stages'[s] = stages[s] /\ node'[s] = node[s]
             \/ /\ stages[s] = "WAITING_DATA" /\ UNCHANGED <<replicas, node>>
                /\ \A a \in Inputs[s] : <<a, node[s]>> \in replicas
  <2>1. job.ok /\ stages' = [stages EXCEPT ![u] = "QUEUED"] /\ UNCHANGED <<node, replicas>>
        /\ job.for = u /\ pc = "data" /\ u # None
    BY <1>8, SetsAssumption DEF Gathered
  <2>2. stages[u] = "WAITING_DATA"
    BY <2>1 DEF ControlInv, Visiting
  <2>3. \A a \in Inputs[u] : <<a, node[u]>> \in replicas
    BY <1>1, <1>8, <2>1, GatheredAll
  <2>4. QED
    BY <1>1, <2>1, <2>2, <2>3 DEF StatusTypes
<1>9. ASSUME NEW u \in Stages, StartStage(u)
      PROVE  \/ stages'[s] = stages[s] /\ node'[s] = node[s]
             \/ /\ stages[s] \in {"QUEUED", "RUNNING", "SUSPENDED"}
                /\ stages'[s] \in {"QUEUED", "RUNNING", "SUSPENDED"}
                /\ node'[s] = node[s]
  <2>1. stages' = [stages EXCEPT ![u] = "RUNNING"] /\ UNCHANGED node
        /\ job.for = u /\ pc = "dispatch" /\ u # None
    BY <1>9, SetsAssumption DEF StartStage
  <2>2. stages[u] = "QUEUED"
    BY <2>1 DEF ControlInv, Visiting, Dispatchable
  <2>3. QED
    BY <1>1, <2>1, <2>2 DEF StatusTypes
<1>10. ASSUME NEW u \in Stages, Switches(u)
       PROVE  \/ stages'[s] = stages[s] /\ node'[s] = node[s]
              \/ /\ stages[s] \in {"QUEUED", "RUNNING", "SUSPENDED"}
                 /\ stages'[s] \in {"QUEUED", "RUNNING", "SUSPENDED"}
                 /\ node'[s] = node[s]
  BY <1>1, <1>10 DEF Switches, StatusTypes
<1>11. ASSUME NEW P \in SUBSET Stages, Places(P)
       PROVE  \/ stages'[s] = stages[s] /\ node'[s] = node[s]
              \/ /\ stages[s] = "READY" /\ stages'[s] = "WAITING_DATA" /\ UNCHANGED replicas
                 /\ node'[s] \in Candidates(s) \/ <<"place", s, node'[s]>> \in batch
  <2>1. /\ stages'[s] = IF s \in P THEN "WAITING_DATA" ELSE stages[s]
        /\ s \notin P => node'[s] = node[s]
        /\ UNCHANGED replicas
        /\ s \in P => /\ stages[s] = "READY"
                      /\ node'[s] \in Candidates(s) \/ <<"place", s, node'[s]>> \in batch
    BY <1>11 DEF Places
  <2>2. QED
    BY <2>1
<1>12. CASE \E u \in Stages : Gathered(u) /\ UNCHANGED stages
  BY <1>2, <1>12 DEF Gathered
<1>13. QED
  BY <1>3, <1>4, <1>5, <1>6, <1>7, <1>8, <1>9, <1>10, <1>11, <1>12 DEF StepKinds

\* A batch loses commands only, once it has been accepted.
LEMMA BatchSteps ==
    ASSUME ControlInv, [Next]_vars, NEW c \in batch'
    PROVE  \/ c \in batch
           \/ UNCHANGED finishVars /\ (c[1] = "place" => c[3] \in Candidates(c[2]))
<1> SUFFICES ASSUME c \notin batch
             PROVE  UNCHANGED finishVars /\ (c[1] = "place" => c[3] \in Candidates(c[2]))
  OBVIOUS
<1> USE DEF clientVars
<1>1. ~UNCHANGED batch
  OBVIOUS
<1>2. ~Reap /\ ~PlaceAll
  BY <1>1 DEF Reap, PlaceAll
<1>3. \A r \in Requests : /\ ~Deliver(r) /\ ~Delivered(r) /\ ~Expire(r)
                          /\ ~Arrive(r) /\ ~Refuse(r) /\ ~Fail(r)
  BY <1>1 DEF Deliver, Delivered, Expire, Arrive, Refuse, Fail
<1>4. \A a \in Artifacts : /\ ~HaveReplica(a) /\ ~JoinTransfer(a) /\ ~NoSource(a) /\ ~NoRoom(a)
                           /\ ~StartTransfer(a) /\ ~ReserveOutput(a)
  BY <1>1 DEF HaveReplica, JoinTransfer, NoSource, NoRoom, StartTransfer, ReserveOutput, fetchFrame
<1>5. \A s \in Stages : /\ ~MakeReady(s) /\ ~Gather(s) /\ ~Gathered(s) /\ ~Dispatch(s)
                        /\ ~SkipStage(s) /\ ~StartStage(s)
  BY <1>1 DEF MakeReady, Gather, Gathered, Dispatch, SkipStage, StartStage
<1>6. ~EndDeliver /\ ~EndExpire /\ ~EndArrive /\ ~EndData /\ ~EndDispatch
  BY <1>1 DEF EndDeliver, EndExpire, EndArrive, EndData, EndDispatch, restFrame
<1>7. ~Collect /\ ~Return /\ ~Deadlock /\ ~EndFail
  BY <1>1 DEF Collect, Return, Deadlock, EndFail
<1>8. ~Sleep /\ \A limit \in Boundaries : ~Advance(limit)
  BY <1>1 DEF Sleep, Wait, Advance
<1>9. (\A d \in batch : ~ApplyCommand(d)) /\ ~EndApply
  BY DEF ApplyCommand, EndApply
<1>10. ~(Close /\ UNCHANGED since) /\ ~Closed /\ ~UNCHANGED vars
  BY <1>1 DEF Close, Closed, vars
<1>11. PICK B \in SUBSET Commands : Apply(B)
  BY <1>2, <1>3, <1>4, <1>5, <1>6, <1>7, <1>8, <1>9, <1>10 DEF Next, Settle, Decision
<1>12. QED
  BY <1>11 DEF Apply, Valid

LEMMA CandidatesStay ==
    ASSUME ControlInv, ControlInv', DataInv, StepKinds, NEW s \in Stages, stages[s] = "READY",
           stages'[s] \in {"READY", "WAITING_DATA"}
    PROVE  Candidates(s) \subseteq Candidates(s)'
<1>1. Seats(s) = Feasible(s)
  BY DEF Seats, ControlInv, Lived
<1>2. \A n \in Feasible(s) : \A a \in Inputs[s] : InReach(replicas, a, n) => InReach(replicas', a, n)
  BY <1>1, ReachKept DEF Placed
<1>3. Candidates(s) = {n \in Feasible(s) : \A a \in Inputs[s] : InReach(replicas, a, n)}
  BY CandidateReach
<1>4. \A a, n : (Copies(a) = {} \/ \E m \in Copies(a) : Reaches(m, n))' <=> InReach(replicas', a, n)
  BY DEF Copies, InReach, Reaches
<1>5. Candidates(s)' = {n \in Feasible(s) : \A a \in Inputs[s] : InReach(replicas', a, n)}
  BY <1>4 DEF Candidates
<1>6. QED
  BY <1>2, <1>3, <1>5

LEMMA InputStep ==
    ASSUME ControlInv, ControlInv', DataInv, InputInv, [Next]_vars
    PROVE  InputInv'
<1>1. StepKinds
  BY Kinds
<1>2. \A a, d : (Copies(a) = {} \/ \E m \in Copies(a) : Reaches(m, d)) <=> InReach(replicas, a, d)
  BY DEF Copies, InReach
<1>3. \A a, d : (Copies(a) = {} \/ \E m \in Copies(a) : Reaches(m, d))' <=> InReach(replicas', a, d)
  BY DEF Copies, InReach, Reaches
<1>4. \A s \in Stages : stages[s] = "WAITING_DATA" => \A a \in Inputs[s] : InReach(replicas, a, node[s])
  BY <1>2 DEF InputInv, Near
<1>5. \A s \in Stages : stages[s] \in {"QUEUED", "RUNNING", "SUSPENDED"} =>
            \A a \in Inputs[s] : <<a, node[s]>> \in replicas
  BY DEF InputInv, InputsHeld
<1>6. \A s \in Stages : stages[s] \in Placed => node[s] \in Seats(s)
  BY SetsAssumption DEF ControlInv, Lived, Seats
<1>7. ASSUME NEW c \in batch, c[1] = "place"
      PROVE  c[2] \in Stages /\ stages[c[2]] = "READY" /\ c[3] \in Candidates(c[2])
  BY <1>7, CommandFacts DEF ControlInv, TypeOK, Having, InputInv, Offered
<1>8. ASSUME NEW s \in Stages, stages'[s] = "WAITING_DATA", NEW a \in Inputs[s]
      PROVE  InReach(replicas', a, node'[s])
  <2>1. CASE stages'[s] = stages[s] /\ node'[s] = node[s]
    BY <1>1, <1>4, <1>6, <1>8, <2>1, ReachKept DEF Placed
  <2>2. CASE /\ stages[s] = "READY" /\ UNCHANGED replicas
             /\ node'[s] \in Candidates(s) \/ <<"place", s, node'[s]>> \in batch
    <3>1. node'[s] \in Candidates(s)
      BY <1>7, <2>2
    <3>2. QED
      BY <2>2, <3>1, CandidateReach
  <2>3. QED
    BY <1>1, <1>8, <2>1, <2>2, StageMoves DEF Placed
<1>9. ASSUME NEW s \in Stages, stages'[s] \in {"QUEUED", "RUNNING", "SUSPENDED"}, NEW a \in Inputs[s]
      PROVE  <<a, node'[s]>> \in replicas'
  <2>1. CASE /\ stages[s] \in {"QUEUED", "RUNNING", "SUSPENDED"} /\ node'[s] = node[s]
    BY <1>1, <1>5, <1>6, <1>9, <2>1, ReachKept DEF Placed
  <2>2. CASE /\ UNCHANGED <<replicas, node>> /\ \A b \in Inputs[s] : <<b, node[s]>> \in replicas
    BY <2>2
  <2>3. QED
    BY <1>1, <1>9, <2>1, <2>2, StageMoves DEF Placed
<1>10. InputsHeld' /\ Near'
  BY <1>3, <1>8, <1>9 DEF InputsHeld, Near
<1>11. ASSUME NEW c \in batch', c[1] = "place"
       PROVE  c[3] \in Candidates(c[2])'
  <2>1. (\A d \in Commands : d[1] = "place" => d[2] \in Stages /\ stages[d[2]] = "READY")'
    BY DEF Commands, Having
  <2>2. c[2] \in Stages /\ stages'[c[2]] = "READY"
    BY <1>11, <2>1 DEF ControlInv, TypeOK
  <2>3. CASE c \in batch
    BY <1>1, <1>7, <1>11, <2>2, <2>3, CandidatesStay
  <2>4. CASE UNCHANGED finishVars /\ c[3] \in Candidates(c[2])
    BY <2>4 DEF finishVars, dataVars, Candidates, Copies
  <2>5. QED
    BY <1>11, <2>3, <2>4, BatchSteps
<1>12. QED
  BY <1>10, <1>11 DEF InputInv, Offered

LEMMA InputStart == Init => InputInv
  BY DEF Init, InputInv, InputsHeld, Near, Offered

LEMMA InputInvariant == Spec => []InputInv
<1>1. ControlInv /\ ControlInv' /\ DataInv /\ InputInv /\ [Next]_vars => InputInv'
  BY InputStep
<1>2. QED
  BY <1>1, InputStart, ControlInvariant, DataInvariant, PTL DEF Spec

\* A place that needs an artifact after a step, and could reach a copy before it,
\* can reach one after it.
LEMMA ReachableKept ==
    ASSUME ControlInv, DataInv, StepKinds, NEW a \in Artifacts,
           NEW d \in Destinations(a, requests', stages'), Reachable(a, d)
    PROVE  Reachable(a, d)'
<1>1. DataTypes
  BY TypeParts DEF ControlInv
<1>2. SUFFICES \E m \in Nodes : <<a, m>> \in replicas' /\ Reaches(m, d)
  BY DEF Reachable, Copies, Reaches
<1>3. \E m \in Copies(a) : Reaches(m, d)
  BY DEF Reachable
<1>4. CASE Spared(replicas', requests', stages', source')
  BY <1>3, <1>4 DEF Spared
<1>5. ASSUME NEW K, NEW b, NEW n, Spared(K, requests', stages', source),
             replicas' = K \cup {<<b, n>>}
      PROVE  \E m \in Nodes : <<a, m>> \in replicas' /\ Reaches(m, d)
  <2>1. \E m \in Nodes : <<a, m>> \in K /\ Reaches(m, d)
    BY <1>3, <1>5 DEF Spared
  <2>2. QED
    BY <1>5, <2>1
<1>6. CASE Reap
  <2>1. replicas \subseteq replicas'
    BY <1>6 DEF Reap
  <2>2. QED
    BY <1>3, <2>1 DEF Copies
<1>7. QED
  BY <1>4, <1>5, <1>6, ReplicaSteps

\* The last source that a stage which has not ended, or an active request, can
\* reach is not lost (_pin, _collect_data, _reserve_data, _finish_request), for
\* every workload, platform and policy.
LEMMA SourcesKept == Spec => SourcesStay
<1> DEFINE Stay ==
        /\ \A s \in Stages : Unfinished(s) /\ Unfinished(s)' =>
              \A a \in Inputs[s], n \in Seats(s) : Reachable(a, n) => Reachable(a, n)'
        /\ \A r \in Requests : Active(r) /\ Active(r)' =>
              \A a \in Deliverables[r] :
                 Reachable(a, Receiver[r]) => Reachable(a, Receiver[r])'
<1>1. ControlInv /\ DataInv /\ [Next]_vars => Stay
  <2> SUFFICES ASSUME ControlInv, DataInv, [Next]_vars PROVE Stay
    OBVIOUS
  <2>1. StepKinds
    BY Kinds
  <2>2. ASSUME NEW s \in Stages, Unfinished(s)', NEW a \in Inputs[s], NEW n \in Seats(s),
               Reachable(a, n)
        PROVE  Reachable(a, n)'
    <3>1. requests'[RequestOf[s]] = "ACTIVE" /\ stages'[s] \notin Over
      BY <2>2 DEF Unfinished, Active
    <3>2. a \in Artifacts /\ n \in Destinations(a, requests', stages')
      BY <3>1, WorkflowAssumption DEF Destinations, Seats
    <3>3. QED
      BY <2>1, <2>2, <3>2, ReachableKept
  <2>3. ASSUME NEW r \in Requests, Active(r)', NEW a \in Deliverables[r],
               Reachable(a, Receiver[r])
        PROVE  Reachable(a, Receiver[r])'
    <3>1. a \in Artifacts /\ Receiver[r] \in Destinations(a, requests', stages')
      BY <2>3, WorkflowAssumption DEF Destinations, Active
    <3>2. QED
      BY <2>1, <2>3, <3>1, ReachableKept
  <2>4. QED
    BY <2>2, <2>3
<1>2. QED
  BY <1>1, ControlInvariant, DataInvariant, PTL DEF Spec, SourcesStay

\* The inputs a stage has gathered stay on its node until it ends, and the last
\* source within reach of those who need it is not taken (_pin, _collect_data,
\* _reserve_data, _finish_request), for every workload, platform and policy.
THEOREM InputsKept == Spec => InputsStay
<1>1. Spec => []InputsHeld
  BY InputInvariant, PTL DEF InputInv
<1>2. QED
  BY <1>1, SourcesKept DEF InputsStay

\* A node offered to the policy for a stage stays a candidate until the stage is
\* placed, its request ends or the policy has chosen (_candidates, _pin).
THEOREM OffersKept == Spec => OffersStand
<1> DEFINE Stand == \A s \in Stages :
                       stages[s] = "READY" /\ stages'[s] \in {"READY", "WAITING_DATA"} =>
                          Offer[s] \subseteq Candidates(s)'
<1>1. ControlInv /\ ControlInv' /\ DataInv /\ [Next]_vars => Stand
  <2> SUFFICES ASSUME ControlInv, ControlInv', DataInv, [Next]_vars, NEW s \in Stages,
                      stages[s] = "READY", stages'[s] \in {"READY", "WAITING_DATA"}
               PROVE  Offer[s] \subseteq Candidates(s)'
    OBVIOUS
  <2>1. Offer[s] = Candidates(s)
    BY DEF Offer, Having
  <2>2. QED
    BY <2>1, Kinds, CandidatesStay
<1>2. QED
  BY <1>1, ControlInvariant, DataInvariant, PTL DEF Spec, OffersStand

-----------------------------------------------------------------------------
(***************************************************************************)
(* The ledgers.                                                            *)
(***************************************************************************)
\* An artifact is held on a node by one of four things.
Holds(a, n) ==
    \/ <<a, n>> \in replicas
    \/ source[<<a, n>>] # None
    \/ \E s \in execs : node[s] = n /\ a \in Outputs[s]
    \/ job.for \in Stages /\ node[job.for] = n /\ a \in job.taken
StorageExact == \A n \in Nodes : \A a \in Artifacts : a \in storage[n] <=> Holds(a, n)
MemoryExact == \A n \in Nodes : memory[n] = {s \in execs : node[s] = n}
Exact == pc # "closed" => StorageExact /\ MemoryExact

LEMMA ExactParts == TypeOK => (LedgersExact <=> Exact)
<1> SUFFICES ASSUME TypeOK PROVE LedgersExact <=> Exact
  OBVIOUS
<1>1. \A s \in Stages : Outputs[s] \subseteq Artifacts
  BY WorkflowAssumption
<1>2. job.taken \subseteq Artifacts /\ execs \subseteq Stages /\ replicas \subseteq Keys
  BY DEF TypeOK
<1>3. \A n \in Nodes : storage[n] \subseteq Artifacts
  BY DEF TypeOK
<1>4. ASSUME NEW n \in Nodes
      PROVE  storage[n] =
                 {a \in Artifacts : <<a, n>> \in replicas \/ source[<<a, n>>] # None}
                 \cup (UNION {Outputs[s] : s \in {u \in execs : node[u] = n}})
                 \cup (IF job.for \in Stages /\ node[job.for] = n THEN job.taken ELSE {})
             <=> \A a \in Artifacts : a \in storage[n] <=> Holds(a, n)
  <2> DEFINE F == {a \in Artifacts : <<a, n>> \in replicas \/ source[<<a, n>>] # None}
             G == UNION {Outputs[s] : s \in {u \in execs : node[u] = n}}
             T == IF job.for \in Stages /\ node[job.for] = n THEN job.taken ELSE {}
             H == F \cup G \cup T
  <2>a. \A a : a \in G <=> \E s \in execs : node[s] = n /\ a \in Outputs[s]
    OBVIOUS
  <2>b. \A a \in Artifacts : a \in F <=> <<a, n>> \in replicas \/ source[<<a, n>>] # None
    OBVIOUS
  <2>c. \A a : a \in T <=> job.for \in Stages /\ node[job.for] = n /\ a \in job.taken
    OBVIOUS
  <2>d. F \subseteq Artifacts /\ T \subseteq Artifacts
    BY <1>2
  <2> HIDE DEF F, G, T
  <2>1. \A a \in Artifacts : a \in H <=> Holds(a, n)
    BY <2>a, <2>b, <2>c DEF Holds
  <2>2. H \subseteq Artifacts
    BY <1>1, <1>2, <2>a, <2>d
  <2> HIDE DEF H
  <2>3. storage[n] = H <=> \A a \in Artifacts : a \in storage[n] <=> Holds(a, n)
    BY <1>3, <2>1, <2>2
  <2>4. QED
    BY <2>3 DEF H, F, G, T
<1>5. QED
  BY <1>4 DEF LedgersExact, Exact, StorageExact, MemoryExact

\* What has a replica somewhere, or is on its way, is no output of a stage with
\* an activity or in a visit; and nothing is stored and brought at once.
LEMMA HeldApart ==
    ASSUME ControlInv, DataInv, NEW a \in Artifacts, NEW n \in Nodes,
           <<a, n>> \in replicas \/ source[<<a, n>>] # None
    PROVE  /\ \A s \in Stages : a \in Outputs[s] => stages[s] = "SUCCEEDED"
           /\ \A s \in execs : a \notin Outputs[s]
           /\ a \notin job.taken
           /\ <<a, n>> \notin replicas \/ source[<<a, n>>] = None
<1>1. Made /\ TransfersSound /\ DataTypes
  BY TypeParts DEF DataInv, ControlInv
<1>2. <<a, n>> \in Keys
  BY DEF Keys
<1>3. source[<<a, n>>] # None => <<a, source[<<a, n>>]>> \in replicas /\ <<a, n>> \notin replicas
  BY <1>1, <1>2 DEF TransfersSound, Transferring
<1>4. \E m \in Nodes : <<a, m>> \in replicas
  BY <1>1, <1>2, <1>3 DEF DataTypes
<1>5. \A s \in Stages : a \in Outputs[s] => stages[s] = "SUCCEEDED"
  BY <1>1, <1>4, MadeOnce
<1>6. \A s \in execs : a \notin Outputs[s]
  BY <1>5 DEF ControlInv, TypeOK, Executing
<1>7. a \notin job.taken
  <2>1. SUFFICES ASSUME a \in job.taken PROVE FALSE
    OBVIOUS
  <2>2. job.for # None /\ pc = "dispatch"
    BY <2>1 DEF ControlInv, Visiting, NoJob
  <2>3. job.for \in Stages /\ a \in Outputs[job.for] /\ stages[job.for] = "QUEUED"
    BY <2>1, <2>2 DEF ControlInv, Visiting, Dispatchable
  <2>4. QED
    BY <1>5, <2>3
<1>8. QED
  BY <1>3, <1>5, <1>6, <1>7

\* Only reservations and starts change what a visit has taken.
LEMMA TakenSteps ==
    ASSUME ControlInv, [Next]_vars
    PROVE  \/ UNCHANGED vars
           \/ \E a \in Artifacts : ReserveOutput(a)
           \/ \E s \in Stages : StartStage(s)
           \/ job.taken = {} /\ job'.taken = {}
<1> SUFFICES ASSUME ~UNCHANGED vars, ~\E a \in Artifacts : ReserveOutput(a),
                    ~\E s \in Stages : StartStage(s)
             PROVE  job.taken = {} /\ job'.taken = {}
  OBVIOUS
<1> USE DEF loopVars
<1>1. job \in JobTypes /\ (job.taken # {} => pc = "dispatch" /\ job.for # None)
  BY TypeParts DEF ControlInv, LoopTypes, Visiting, NoJob
<1>2. NoJob.taken = {} /\ \A w, S : JobFor(w, S).taken = {}
  BY DEF NoJob, JobFor
<1>3. CASE Reap \/ PlaceAll
  BY <1>1, <1>3 DEF Reap, PlaceAll
<1>4. ASSUME NEW r \in Requests,
             Deliver(r) \/ Delivered(r) \/ Expire(r) \/ Arrive(r) \/ Refuse(r) \/ Fail(r)
      PROVE  job.taken = {} /\ job'.taken = {}
  BY <1>1, <1>2, <1>4 DEF Deliver, Delivered, Expire, Arrive, Refuse, Fail
<1>5. ASSUME NEW a \in Artifacts,
             HaveReplica(a) \/ JoinTransfer(a) \/ NoSource(a) \/ NoRoom(a) \/ StartTransfer(a)
      PROVE  job.taken = {} /\ job'.taken = {}
  <2>1. pc # "dispatch"
    BY <1>5 DEF HaveReplica, JoinTransfer, NoSource, NoRoom, StartTransfer, Wanted, Fetch
  <2>2. Fetched(a) \/ NotFetched(a)
    BY <1>5 DEF HaveReplica, JoinTransfer, NoSource, NoRoom, StartTransfer
  <2>3. job'.taken = job.taken
    BY <1>1, <2>2 DEF Fetched, NotFetched, JobTypes
  <2>4. QED
    BY <1>1, <2>1, <2>3
<1>6. ASSUME NEW s \in Stages,
             MakeReady(s) \/ Gather(s) \/ Gathered(s) \/ Dispatch(s) \/ SkipStage(s)
      PROVE  job.taken = {} /\ job'.taken = {}
  BY <1>1, <1>2, <1>6 DEF MakeReady, Gather, Gathered, Dispatch, SkipStage, Visit
<1>7. CASE EndDeliver \/ EndExpire \/ EndArrive \/ EndData \/ EndDispatch
  BY <1>1, <1>7 DEF EndDeliver, EndExpire, EndArrive, EndData, EndDispatch, restFrame
<1>8. CASE Collect \/ Return \/ Deadlock \/ EndFail
  BY <1>1, <1>8 DEF Collect, Return, Deadlock, EndFail
<1>9. CASE Sleep \/ Decision \/ \E limit \in Boundaries : Advance(limit)
  BY <1>1, <1>9 DEF Sleep, Wait, Decision, Apply, ApplyCommand, EndApply, Advance
<1>10. CASE Close /\ UNCHANGED since
  BY <1>1, <1>10 DEF Close
<1>11. QED
  BY <1>3, <1>4, <1>5, <1>6, <1>7, <1>8, <1>9, <1>10 DEF Next, Settle, Closed

\* The ledger of storage when some replicas go.
LEMMA ReplicasGo ==
    ASSUME ControlInv, DataInv, StorageExact, replicas' \subseteq replicas,
           UNCHANGED <<source, execs, node>>,
           (job.taken = {} /\ job'.taken = {}) \/ UNCHANGED job,
           NEW n \in Nodes, NEW a \in Artifacts,
           a \in storage'[n] <=> a \in storage[n] /\ <<a, n>> \notin replicas \ replicas'
    PROVE  a \in storage'[n] <=> Holds(a, n)'
<1>1. CASE <<a, n>> \in replicas
  <2>1. source[<<a, n>>] = None /\ a \notin job.taken /\ \A s \in execs : a \notin Outputs[s]
    BY <1>1, HeldApart
  <2>2. a \in storage[n]
    BY <1>1 DEF StorageExact, Holds
  <2>3. a \notin job'.taken
    BY <2>1
  <2>4. Holds(a, n)' <=> <<a, n>> \in replicas'
    BY <2>1, <2>3 DEF Holds
  <2>5. QED
    BY <1>1, <2>2, <2>4
<1>2. CASE <<a, n>> \notin replicas
  <2>1. Holds(a, n)' <=> Holds(a, n)
    BY <1>2 DEF Holds
  <2>2. QED
    BY <1>2, <2>1 DEF StorageExact
<1>3. QED
  BY <1>1, <1>2

LEMMA ResolveKeepsStorage ==
    ASSUME ControlInv, DataInv, StorageExact, NEW r \in Requests, Resolve(r),
           job.taken = {}, job'.taken = {}
    PROVE  StorageExact'
<1>1. PICK o \in Outcomes : Finish(r, o)
  BY DEF Resolve
<1>2. /\ source' = [k \in Keys |-> IF k \in Dropped(r) THEN None ELSE source[k]]
      /\ replicas' \in Collected(replicas, requests', stages', source')
      /\ storage' = [n \in Nodes |->
                storage[n] \ ((UNION {FreedOutputs(s, n) : s \in Cancelled(r)})
                              \cup {a \in Artifacts : \/ <<a, n>> \in Dropped(r)
                                                      \/ <<a, n>> \in replicas \ replicas'})]
      /\ execs' = execs \ Cancelled(r) /\ UNCHANGED node
  BY <1>1, FinishData, FinishStatus
<1>3. replicas' \subseteq replicas
  BY <1>2 DEF Collected
<1>4. ASSUME NEW n \in Nodes, NEW a \in Artifacts
      PROVE  a \in storage'[n] <=> /\ a \in storage[n]
                                   /\ ~\E s \in Cancelled(r) : a \in FreedOutputs(s, n)
                                   /\ <<a, n>> \notin Dropped(r)
                                   /\ <<a, n>> \notin replicas \ replicas'
  BY <1>2
<1>5. \A s \in Cancelled(r) : s \in Stages /\ stages[s] # "SUCCEEDED"
  BY DEF Cancelled, StagesOf, Over
<1>6. ASSUME NEW n \in Nodes, NEW a \in Artifacts
      PROVE  a \in storage'[n] <=> Holds(a, n)'
  <2> DEFINE k == <<a, n>>
  <2>1. k \in Keys
    BY DEF Keys
  <2>2. source'[k] = IF k \in Dropped(r) THEN None ELSE source[k]
    BY <1>2, <2>1
  <2>3. a \in storage[n] <=> Holds(a, n)
    BY DEF StorageExact
  <2>4. Holds(a, n)' <=> \/ k \in replicas' \/ source'[k] # None
                         \/ \E s \in execs \ Cancelled(r) : node[s] = n /\ a \in Outputs[s]
    BY <1>2 DEF Holds
  <2>5. k \in Dropped(r) => source[k] # None
    BY DEF Dropped
  <2>6. CASE k \in replicas \/ source[k] # None
    <3>1. /\ \A s \in execs : a \notin Outputs[s]
          /\ \A s \in Stages : a \in Outputs[s] => stages[s] = "SUCCEEDED"
          /\ k \notin replicas \/ source[k] = None
      BY <2>6, HeldApart
    <3>2. ~\E s \in Cancelled(r) : a \in FreedOutputs(s, n)
      BY <1>5, <3>1 DEF FreedOutputs
    <3>3. a \in storage[n]
      BY <2>3, <2>6 DEF Holds
    <3>4. QED
      BY <1>3, <1>4, <2>2, <2>4, <2>5, <2>6, <3>1, <3>2, <3>3
  <2>7. CASE k \notin replicas /\ source[k] = None
    <3>1. Holds(a, n) <=> \E s \in execs : node[s] = n /\ a \in Outputs[s]
      BY <2>7 DEF Holds
    <3>2. Holds(a, n)' <=> \E s \in execs \ Cancelled(r) : node[s] = n /\ a \in Outputs[s]
      BY <1>3, <2>2, <2>4, <2>7
    <3>3. (\E s \in Cancelled(r) : a \in FreedOutputs(s, n)) <=>
               \E s \in Cancelled(r) : node[s] = n /\ a \in Outputs[s]
      BY <2>7 DEF FreedOutputs
    <3>4. \A s, t \in execs \cup Cancelled(r) : a \in Outputs[s] /\ a \in Outputs[t] => s = t
      BY <1>5, WorkflowAssumption DEF ControlInv, TypeOK
    <3>5. QED
      BY <1>4, <2>3, <2>5, <2>7, <3>1, <3>2, <3>3, <3>4
  <2>8. QED
    BY <2>6, <2>7
<1>7. QED
  BY <1>6 DEF StorageExact

LEMMA ReapKeepsStorage ==
    ASSUME ControlInv, DataInv, StorageExact, Reap, job.taken = {}, job'.taken = {}
    PROVE  StorageExact'
<1> DEFINE done == {s \in ended : stages[s] # "SUSPENDED"}
<1>1. /\ replicas' = replicas \cup landed \cup UNION {Outputs[s] \X {node[s]} : s \in done}
      /\ source' = [k \in Keys |-> IF k \in landed THEN None ELSE source[k]]
      /\ execs' = execs \ done
      /\ UNCHANGED <<node, storage>>
  BY DEF Reap
<1>2. done \subseteq execs /\ DataTypes
  BY TypeParts DEF ControlInv, TypeOK
<1> HIDE DEF done
<1>3. ASSUME NEW n \in Nodes, NEW a \in Artifacts
      PROVE  Holds(a, n)' <=> Holds(a, n)
  <2>1. <<a, n>> \in UNION {Outputs[s] \X {node[s]} : s \in done} <=>
           \E s \in done : node[s] = n /\ a \in Outputs[s]
    OBVIOUS
  <2>2. source'[<<a, n>>] = IF <<a, n>> \in landed THEN None ELSE source[<<a, n>>]
    BY <1>1 DEF Keys
  <2>3. <<a, n>> \in landed => source[<<a, n>>] # None
    BY <1>2 DEF DataTypes, Transferring
  <2>4. Holds(a, n)' <=> \/ <<a, n>> \in replicas' \/ source'[<<a, n>>] # None
                         \/ \E s \in execs \ done : node[s] = n /\ a \in Outputs[s]
    BY <1>1 DEF Holds
  <2>5. <<a, n>> \in replicas' <=> \/ <<a, n>> \in replicas \/ <<a, n>> \in landed
                                   \/ \E s \in done : node[s] = n /\ a \in Outputs[s]
    BY <1>1, <2>1
  <2>6. (\E s \in execs : node[s] = n /\ a \in Outputs[s]) <=>
           \/ \E s \in execs \ done : node[s] = n /\ a \in Outputs[s]
           \/ \E s \in done : node[s] = n /\ a \in Outputs[s]
    BY <1>2
  <2>7. QED
    BY <2>2, <2>3, <2>4, <2>5, <2>6 DEF Holds
<1>4. QED
  BY <1>1, <1>3 DEF StorageExact

LEMMA FetchKeepsStorage ==
    ASSUME ControlInv, DataInv, StorageExact, NEW a \in Artifacts, StartTransfer(a),
           job.taken = {}, job'.taken = {}
    PROVE  StorageExact'
<1> DEFINE n == At(job.for)
           k == <<a, n>>
<1>1. PICK m \in Sources(a, n), v \in Reservations(a, n) :
              LET K == replicas \ (v.evicted \X {n})
              IN /\ m \in Nodes /\ <<a, m>> \in replicas
                 /\ k \notin replicas /\ source[k] = None
                 /\ storage' = [storage EXCEPT ![n] = (@ \ v.evicted) \cup {a}]
                 /\ \/ replicas' = K \cup {k} /\ UNCHANGED source
                    \/ replicas' = K /\ source' = [source EXCEPT ![k] = m]
  BY StartsTransfer
<1> DEFINE E == v.evicted
           K == replicas \ (E \X {n})
<1>2. n \in Nodes /\ UNCHANGED <<node, execs>>
  BY Fetching DEF StartTransfer, Wanted, fetchFrame, stageVars, execVars
<1>3. E \in SUBSET Evictable(n)
  BY <1>2, ReservationFacts
<1>4. \A b \in E : <<b, n>> \in replicas
  BY <1>3 DEF Evictable
<1>5. DataTypes /\ m # None /\ k \in Keys
  BY <1>1, <1>2, TypeParts, SetsAssumption DEF ControlInv, Keys
<1>6. \/ replicas' = K \cup {k} /\ UNCHANGED source
      \/ replicas' = K /\ source' = [source EXCEPT ![k] = m]
  BY <1>1
<1>7. storage' = [storage EXCEPT ![n] = (@ \ E) \cup {a}]
  BY <1>1
<1>8. k \notin replicas /\ source[k] = None
  BY <1>1
<1> HIDE DEF n, E
<1>9. ASSUME NEW q \in Nodes, NEW b \in Artifacts
      PROVE  b \in storage'[q] <=> Holds(b, q)'
  <2>1. b \in storage[q] <=> Holds(b, q)
    BY DEF StorageExact
  <2>2. b \in storage'[q] <=> \/ b \in storage[q] /\ ~(q = n /\ b \in E)
                              \/ q = n /\ b = a
    BY <1>2, <1>5, <1>7 DEF DataTypes
  <2>0. <<b, q>> \in Keys /\ (<<b, q>> = k <=> b = a /\ q = n)
    BY DEF Keys
  <2>k. /\ source'[<<b, q>>] = source[<<b, q>>] \/ <<b, q>> = k
        /\ <<b, q>> \in replicas' <=> \/ <<b, q>> \in replicas /\ ~(b \in E /\ q = n)
                                      \/ k \in replicas' /\ <<b, q>> = k
    <3> HIDE DEF k
    <3>1. <<b, q>> \in K <=> <<b, q>> \in replicas /\ ~(b \in E /\ q = n)
      OBVIOUS
    <3>2. source'[<<b, q>>] = source[<<b, q>>] \/ <<b, q>> = k
      BY <1>5, <1>6, <2>0 DEF DataTypes
    <3>3. QED
      BY <1>6, <3>1, <3>2
  <2>3. Holds(b, q)' <=> \/ <<b, q>> \in replicas' \/ source'[<<b, q>>] # None
                         \/ \E s \in execs : node[s] = q /\ b \in Outputs[s]
    BY <1>2 DEF Holds
  <2>4. CASE q = n /\ b = a
    BY <1>5, <1>6, <2>2, <2>3, <2>4 DEF DataTypes
  <2>5. CASE q = n /\ b \in E /\ b # a
    <3>1. source[<<b, q>>] = None /\ \A s \in execs : b \notin Outputs[s]
      BY <1>4, <2>5, HeldApart
    <3>2. <<b, q>> \notin replicas' /\ source'[<<b, q>>] = source[<<b, q>>]
      BY <2>0, <2>k, <2>5
    <3>3. QED
      BY <2>2, <2>3, <2>5, <3>1, <3>2
  <2>6. CASE ~(q = n /\ b \in E) /\ ~(q = n /\ b = a)
    <3>1. <<b, q>> \in replicas' <=> <<b, q>> \in replicas
      BY <2>0, <2>k, <2>6
    <3>2. source'[<<b, q>>] = source[<<b, q>>]
      BY <2>0, <2>k, <2>6
    <3>3. QED
      BY <2>1, <2>2, <2>3, <2>6, <3>1, <3>2 DEF Holds
  <2>7. QED
    BY <2>4, <2>5, <2>6
<1>10. QED
  BY <1>9 DEF StorageExact

LEMMA StartKeepsStorage ==
    ASSUME ControlInv, Reserved, StorageExact, NEW s \in Stages, StartStage(s)
    PROVE  StorageExact'
<1>1. /\ pc = "dispatch" /\ job.for = s /\ job.rest = {} /\ job' = NoJob
      /\ execs' = execs \cup {s} /\ UNCHANGED <<node, replicas, source, storage>> /\ s # None
  BY SetsAssumption DEF StartStage, stageVars, dataVars
<1>2. Outputs[s] \subseteq storage[node[s]]
  BY <1>1 DEF Reserved
<1>3. job.taken \subseteq Outputs[s]
  BY <1>1 DEF ControlInv, Visiting
<1>4. job'.for \notin Stages
  BY <1>1, SetsAssumption DEF NoJob
<1>5. ASSUME NEW q \in Nodes, NEW b \in Artifacts
      PROVE  b \in storage'[q] <=> Holds(b, q)'
  <2>1. b \in storage[q] <=> Holds(b, q)
    BY DEF StorageExact
  <2>2. Holds(b, q)' <=> \/ <<b, q>> \in replicas \/ source[<<b, q>>] # None
                         \/ \E u \in execs : node[u] = q /\ b \in Outputs[u]
                         \/ node[s] = q /\ b \in Outputs[s]
    BY <1>1, <1>4 DEF Holds
  <2>3. Holds(b, q) <=> \/ <<b, q>> \in replicas \/ source[<<b, q>>] # None
                        \/ \E u \in execs : node[u] = q /\ b \in Outputs[u]
                        \/ node[s] = q /\ b \in job.taken
    BY <1>1 DEF Holds
  <2>4. QED
    BY <1>1, <1>2, <1>3, <2>1, <2>2, <2>3
<1>6. QED
  BY <1>5 DEF StorageExact

\* The visit that reserves: its stage has no replica of its outputs anywhere.
LEMMA ReservingStage ==
    ASSUME ControlInv, DataInv, Reserved, NEW a \in Artifacts, a \in job.rest, pc = "dispatch"
    PROVE  /\ job.for \in Stages /\ job.for \notin execs /\ node[job.for] \in Nodes
           /\ a \in Outputs[job.for] /\ a \notin job.taken /\ job.taken \subseteq Outputs[job.for]
           /\ \A b \in Outputs[job.for] : \A q \in Nodes :
                 /\ <<b, q>> \notin replicas /\ source[<<b, q>>] = None
                 /\ \A u \in execs : b \notin Outputs[u]
<1>1. job.for # None
  BY DEF ControlInv, Visiting, NoJob
<1>2. job.for \in Stages /\ stages[job.for] = "QUEUED" /\ a \in Outputs[job.for]
      /\ job.taken \subseteq Outputs[job.for]
  BY <1>1 DEF ControlInv, Visiting, Dispatchable
<1>3. job.for \notin execs /\ a \notin job.taken
  BY <1>1 DEF Reserved
<1>4. node[job.for] \in Nodes
  BY <1>1, VisitPlace
<1>5. ASSUME NEW b \in Outputs[job.for], NEW q \in Nodes
      PROVE  /\ <<b, q>> \notin replicas /\ source[<<b, q>>] = None
             /\ \A u \in execs : b \notin Outputs[u]
  <2>1. b \in Artifacts
    BY <1>2, WorkflowAssumption
  <2>2. <<b, q>> \notin replicas /\ source[<<b, q>>] = None
    BY <1>2, <2>1, HeldApart
  <2>3. \A u \in execs : b \notin Outputs[u]
    BY <1>2, <1>3, WorkflowAssumption DEF ControlInv, TypeOK
  <2>4. QED
    BY <2>2, <2>3
<1>6. QED
  BY <1>2, <1>3, <1>4, <1>5

LEMMA ReserveKeepsStorage ==
    ASSUME ControlInv, DataInv, Reserved, StorageExact, NEW a \in Artifacts, ReserveOutput(a)
    PROVE  StorageExact' /\ Reserved'
<1> DEFINE s == job.for
           n == node[s]
<1>1. PICK v \in Reservations(a, n) :
              LET K == replicas \ (v.evicted \X {n})
              IN /\ v.evicted \in SUBSET Evictable(n)
                 /\ pc = "dispatch" /\ a \in job.rest
                 /\ replicas' = K /\ UNCHANGED <<source, waiters>>
                 /\ \/ /\ storage' = [storage EXCEPT ![n] = (@ \ v.evicted) \cup {a}]
                       /\ job' = [job EXCEPT !.rest = @ \ {a}, !.taken = @ \cup {a}]
                    \/ /\ storage' = [storage EXCEPT ![n] = @ \ (v.evicted \cup job.taken)]
                       /\ job' = NoJob
  BY ReservesOutput
<1> DEFINE E == v.evicted
<1>2. /\ s \in Stages /\ s \notin execs /\ n \in Nodes
      /\ a \in Outputs[s] /\ a \notin job.taken /\ job.taken \subseteq Outputs[s]
      /\ \A b \in Outputs[s] : \A q \in Nodes :
            /\ <<b, q>> \notin replicas /\ source[<<b, q>>] = None
            /\ \A u \in execs : b \notin Outputs[u]
  BY <1>1, ReservingStage
<1>3. \A b \in E : <<b, n>> \in replicas /\ b \in Artifacts
  BY <1>1 DEF Evictable
<1>4. UNCHANGED <<pc, node, execs>> /\ pc = "dispatch" /\ s # None
  BY <1>1, <1>2, SetsAssumption DEF ReserveOutput, fetchFrame, stageVars, execVars
<1>5. DataTypes /\ job \in JobTypes
  BY TypeParts DEF ControlInv, LoopTypes
<1>6. \A b \in E : /\ source[<<b, n>>] = None
                   /\ b \notin Outputs[s] /\ \A u \in execs : b \notin Outputs[u]
  <2>1. SUFFICES ASSUME NEW b \in E
                 PROVE  /\ source[<<b, n>>] = None
                        /\ b \notin Outputs[s] /\ \A u \in execs : b \notin Outputs[u]
    OBVIOUS
  <2>2. b \in Artifacts /\ <<b, n>> \in replicas
    BY <1>3
  <2>3. QED
    BY <1>2, <2>2, HeldApart
<1>7. replicas' = replicas \ (E \X {n}) /\ UNCHANGED source
  BY <1>1
<1>8. CASE /\ storage' = [storage EXCEPT ![n] = (@ \ E) \cup {a}]
           /\ job' = [job EXCEPT !.rest = @ \ {a}, !.taken = @ \cup {a}]
  <2>1. job'.for = s /\ job'.rest = job.rest \ {a} /\ job'.taken = job.taken \cup {a}
    BY <1>5, <1>8 DEF JobTypes
  <2>2. ASSUME NEW q \in Nodes, NEW b \in Artifacts
        PROVE  b \in storage'[q] <=> Holds(b, q)'
    <3>1. b \in storage[q] <=> Holds(b, q)
      BY DEF StorageExact
    <3>2. b \in storage'[q] <=> \/ b \in storage[q] /\ ~(q = n /\ b \in E)
                                \/ q = n /\ b = a
      BY <1>2, <1>5, <1>8 DEF DataTypes
    <3>3. Holds(b, q)' <=> \/ <<b, q>> \in replicas' \/ source[<<b, q>>] # None
                           \/ \E u \in execs : node[u] = q /\ b \in Outputs[u]
                           \/ n = q /\ (b \in job.taken \/ b = a)
      BY <1>2, <1>4, <1>7, <2>1 DEF Holds
    <3>4. Holds(b, q) <=> \/ <<b, q>> \in replicas \/ source[<<b, q>>] # None
                          \/ \E u \in execs : node[u] = q /\ b \in Outputs[u]
                          \/ n = q /\ b \in job.taken
      BY <1>2 DEF Holds
    <3>5. <<b, q>> \in replicas' <=> <<b, q>> \in replicas /\ ~(q = n /\ b \in E)
      BY <1>7
    <3> HIDE DEF n, s, E
    <3>6. q = n /\ b \in E => /\ source[<<b, q>>] = None /\ b \notin job.taken
                             /\ b # a /\ \A u \in execs : b \notin Outputs[u]
      BY <1>2, <1>6
    <3>7. QED
      BY <3>1, <3>2, <3>3, <3>4, <3>5, <3>6
  <2>3. Reserved'
    <3>1. Outputs[s] \subseteq storage[n] \cup job.rest /\ job.rest \cap job.taken = {}
      BY <1>4 DEF Reserved
    <3>2. storage'[n] = (storage[n] \ E) \cup {a}
      BY <1>2, <1>5, <1>8 DEF DataTypes
    <3>3. Outputs[s] \subseteq storage'[n] \cup job'.rest
      BY <1>6, <2>1, <3>1, <3>2
    <3>4. QED
      BY <1>2, <1>4, <2>1, <3>1, <3>3 DEF Reserved
  <2>4. QED
    BY <2>2, <2>3 DEF StorageExact
<1>9. CASE /\ storage' = [storage EXCEPT ![n] = @ \ (E \cup job.taken)]
           /\ job' = NoJob
  <2>1. job'.for \notin Stages /\ job'.for = None
    BY <1>9, SetsAssumption DEF NoJob
  <2>2. ASSUME NEW q \in Nodes, NEW b \in Artifacts
        PROVE  b \in storage'[q] <=> Holds(b, q)'
    <3>1. b \in storage[q] <=> Holds(b, q)
      BY DEF StorageExact
    <3>2. b \in storage'[q] <=> b \in storage[q] /\ ~(q = n /\ (b \in E \/ b \in job.taken))
      BY <1>2, <1>5, <1>9 DEF DataTypes
    <3>3. Holds(b, q)' <=> \/ <<b, q>> \in replicas' \/ source[<<b, q>>] # None
                           \/ \E u \in execs : node[u] = q /\ b \in Outputs[u]
      BY <1>4, <1>7, <2>1 DEF Holds
    <3>4. Holds(b, q) <=> \/ <<b, q>> \in replicas \/ source[<<b, q>>] # None
                          \/ \E u \in execs : node[u] = q /\ b \in Outputs[u]
                          \/ n = q /\ b \in job.taken
      BY <1>2 DEF Holds
    <3>5. <<b, q>> \in replicas' <=> <<b, q>> \in replicas /\ ~(q = n /\ b \in E)
      BY <1>7
    <3> HIDE DEF n, s, E
    <3>6. q = n /\ b \in E => source[<<b, q>>] = None /\ \A u \in execs : b \notin Outputs[u]
      BY <1>6
    <3>7. q = n /\ b \in job.taken =>
             /\ <<b, q>> \notin replicas /\ source[<<b, q>>] = None
             /\ \A u \in execs : b \notin Outputs[u]
      BY <1>2
    <3>8. QED
      BY <3>1, <3>2, <3>3, <3>4, <3>5, <3>6, <3>7
  <2>3. QED
    BY <2>1, <2>2 DEF StorageExact, Reserved
<1>10. QED
  BY <1>1, <1>8, <1>9

\* The steps of a visit that reserves the outputs of a stage.
LEMMA Reserving ==
    ASSUME ControlInv, [Next]_vars, job'.for # None, pc' = "dispatch"
    PROVE  \/ UNCHANGED vars
           \/ \E s \in Stages : Dispatch(s)
           \/ \E a \in Artifacts : ReserveOutput(a)
<1> SUFFICES ASSUME ~UNCHANGED vars, ~\E s \in Stages : Dispatch(s),
                    ~\E a \in Artifacts : ReserveOutput(a)
             PROVE  FALSE
  OBVIOUS
<1> USE DEF loopVars
<1>1. pc \notin {"deliver", "data", "dispatch"} => job.for = None
  BY DEF ControlInv, Visiting
<1>2. ~Reap /\ ~PlaceAll
  BY <1>1 DEF Reap, PlaceAll, Loop
<1>3. \A r \in Requests : /\ ~Deliver(r) /\ ~Delivered(r) /\ ~Expire(r)
                          /\ ~Arrive(r) /\ ~Refuse(r) /\ ~Fail(r)
  BY <1>1 DEF Deliver, Delivered, Expire, Arrive, Refuse, Fail, NoJob
<1>4. \A a \in Artifacts : /\ ~HaveReplica(a) /\ ~JoinTransfer(a) /\ ~NoSource(a) /\ ~NoRoom(a)
                           /\ ~StartTransfer(a)
  BY DEF HaveReplica, JoinTransfer, NoSource, NoRoom, StartTransfer, Wanted, Fetch, fetchFrame
<1>5. \A s \in Stages : /\ ~MakeReady(s) /\ ~Gather(s) /\ ~Gathered(s) /\ ~SkipStage(s)
                        /\ ~StartStage(s)
  BY <1>1 DEF MakeReady, Gather, Gathered, SkipStage, StartStage, NoJob, Visit
<1>6. ~EndDeliver /\ ~EndExpire /\ ~EndArrive /\ ~EndData /\ ~EndDispatch
  BY <1>1 DEF EndDeliver, EndExpire, EndArrive, EndData, EndDispatch, restFrame, Loop, Pass
<1>7. ~Collect /\ ~Return /\ ~Deadlock /\ ~EndFail
  BY <1>1 DEF Collect, Return, Deadlock, EndFail, Settling, Loop
<1>8. ~Sleep /\ ~Decision /\ \A limit \in Boundaries : ~Advance(limit)
  BY <1>1 DEF Sleep, Wait, Decision, Apply, ApplyCommand, EndApply, Advance, Settling, Loop
<1>9. ~(Close /\ UNCHANGED since) /\ ~Closed
  BY DEF Close, Closed
<1>10. QED
  BY <1>2, <1>3, <1>4, <1>5, <1>6, <1>7, <1>8, <1>9 DEF Next, Settle

LEMMA ReservedKeeps ==
    ASSUME ControlInv, DataInv, Reserved, Exact, [Next]_vars
    PROVE  Reserved'
<1> SUFFICES ASSUME job'.for # None, pc' = "dispatch" PROVE Reserved'
  BY DEF Reserved
<1>1. CASE UNCHANGED vars
  BY <1>1 DEF vars, loopVars, stageVars, dataVars, execVars, Reserved
<1>2. ASSUME NEW a \in Artifacts, ReserveOutput(a) PROVE Reserved'
  <2>1. pc = "dispatch"
    BY <1>2 DEF ReserveOutput
  <2>2. QED
    BY <1>2, <2>1, ReserveKeepsStorage DEF Exact
<1>3. ASSUME NEW s \in Stages, Dispatch(s) PROVE Reserved'
  <2>1. /\ pc = "dispatch" /\ stages[s] = "QUEUED"
        /\ job' = JobFor(s, Outputs[s] \ storage[node[s]])
        /\ UNCHANGED <<node, storage, execs>>
    BY <1>3 DEF Dispatch, Dispatchable, finishVars, stageVars, dataVars, execVars
  <2>2. job'.for = s /\ job'.rest = Outputs[s] \ storage[node[s]] /\ job'.taken = {}
    BY <2>1 DEF JobFor
  <2>3. node[s] \in Nodes
    BY <2>1 DEF ControlInv, Lived, Placed
  <2>4. s \in execs => Outputs[s] \subseteq storage[node[s]]
    BY <2>1, <2>3, WorkflowAssumption DEF Exact, StorageExact, Holds
  <2>5. QED
    BY <2>1, <2>2, <2>4 DEF Reserved
<1>4. QED
  BY <1>1, <1>2, <1>3, Reserving

LEMMA StorageKeeps ==
    ASSUME ControlInv, DataInv, Reserved, StorageExact, [Next]_vars, pc' # "closed"
    PROVE  StorageExact'
<1> USE DEF requestVars, stageVars, dataVars, execVars, engineVars
<1>1. CASE UNCHANGED vars
  <2>1. UNCHANGED <<replicas, source, execs, node, job, storage>>
    BY <1>1 DEF vars, loopVars
  <2>2. \A n \in Nodes : \A a \in Artifacts : Holds(a, n)' <=> Holds(a, n)
    BY <2>1 DEF Holds
  <2>3. QED
    BY <2>1, <2>2 DEF StorageExact
<1>2. CASE \E a \in Artifacts : ReserveOutput(a)
  BY <1>2, ReserveKeepsStorage
<1>3. CASE \E s \in Stages : StartStage(s)
  BY <1>3, StartKeepsStorage
<1>4. ASSUME job.taken = {}, job'.taken = {}, StepKinds,
             ~\E a \in Artifacts : ReserveOutput(a), ~\E s \in Stages : StartStage(s)
      PROVE  StorageExact'
  <2>1. ASSUME UNCHANGED <<replicas, source, execs, storage>>,
               \A s \in execs : node'[s] = node[s]
        PROVE  StorageExact'
    <3>1. \A n \in Nodes : \A a \in Artifacts : Holds(a, n)' <=> Holds(a, n)
      BY <1>4, <2>1 DEF Holds
    <3>2. QED
      BY <2>1, <3>1 DEF StorageExact
  <2>2. CASE UNCHANGED finishVars \/ Wakes
    BY <2>1, <2>2 DEF finishVars, Wakes
  <2>3. CASE \/ \E r \in Requests : Arrive(r)
             \/ \E s \in Stages : Readies(s) \/ Gathered(s) \/ Switches(s)
             \/ \E a \in Artifacts : JoinTransfer(a)
    BY <2>1, <2>3 DEF Arrive, Readies, Gathered, Switches, JoinTransfer, fetchFrame
  <2>4. ASSUME NEW P \in SUBSET Stages, Places(P) PROVE StorageExact'
    <3>1. /\ node' = [s \in Stages |-> IF s \in P THEN node'[s] ELSE node[s]]
          /\ \A s \in P : stages[s] = "READY"
          /\ UNCHANGED <<replicas, source, execs, storage>>
      BY <2>4 DEF Places
    <3>2. \A s \in execs : s \in Stages /\ s \notin P
      BY <3>1 DEF ControlInv, TypeOK, Executing
    <3>3. \A s \in execs : node'[s] = node[s]
      BY <3>1, <3>2
    <3>4. QED
      BY <2>1, <3>1, <3>3
  <2>5. CASE \E r \in Requests : Resolve(r)
    BY <1>4, <2>5, ResolveKeepsStorage
  <2>6. CASE Reap
    BY <1>4, <2>6, ReapKeepsStorage
  <2>7. CASE \E a \in Artifacts : StartTransfer(a)
    BY <1>4, <2>7, FetchKeepsStorage
  <2>8. ASSUME NEW a \in Artifacts, NoRoom(a) PROVE StorageExact'
    <3> DEFINE n == At(job.for)
    <3>1. PICK E \in SUBSET Artifacts :
                /\ E \in SUBSET Evictable(n) /\ n \in Nodes
                /\ replicas' = replicas \ (E \X {n}) /\ UNCHANGED source
                /\ storage' = [storage EXCEPT ![n] = @ \ E]
      BY <2>8, FindsNoRoom
    <3>2. UNCHANGED <<execs, node>>
      BY <2>8 DEF NoRoom, fetchFrame
    <3>3. \A b \in E : <<b, n>> \in replicas
      BY <3>1 DEF Evictable
    <3>4. DataTypes
      BY TypeParts DEF ControlInv
    <3> HIDE DEF n
    <3>5. \A q \in Nodes : \A b \in Artifacts :
              b \in storage'[q] <=> b \in storage[q] /\ <<b, q>> \notin replicas \ replicas'
      BY <3>1, <3>3, <3>4 DEF DataTypes
    <3>6. replicas' \subseteq replicas
      BY <3>1
    <3>7. QED
      BY <1>4, <3>1, <3>2, <3>5, <3>6, ReplicasGo DEF StorageExact
  <2>9. CASE Collect
    <3>1. PICK R \in Collected(replicas, requests, stages, source) :
             /\ replicas' = R
             /\ storage' = [n \in Nodes |->
                          storage[n] \ {a \in Artifacts : <<a, n>> \in replicas \ R}]
      BY <2>9 DEF Collect
    <3>2. UNCHANGED <<execs, node, source>>
      BY <2>9 DEF Collect
    <3>3. \A q \in Nodes : \A b \in Artifacts :
              b \in storage'[q] <=> b \in storage[q] /\ <<b, q>> \notin replicas \ replicas'
      BY <3>1
    <3>4. replicas' \subseteq replicas
      BY <3>1, CollectedSubset
    <3>5. QED
      BY <1>4, <3>2, <3>3, <3>4, ReplicasGo DEF StorageExact
  <2>10. QED
    BY <1>4, <2>2, <2>3, <2>4, <2>5, <2>6, <2>7, <2>8, <2>9 DEF StepKinds, Closes
<1>5. QED
  BY <1>1, <1>2, <1>3, <1>4, TakenSteps, Kinds

\* The memory of a node, and what runs there.
LEMMA MemoryKeeps ==
    ASSUME ControlInv, MemoryExact, StepKinds, pc' # "closed"
    PROVE  MemoryExact'
<1> USE DEF requestVars, stageVars, dataVars, execVars, engineVars
<1>1. ExecTypes /\ \A s \in execs : s \in Stages /\ stages[s] \in {"QUEUED", "RUNNING", "SUSPENDED"}
  BY TypeParts DEF ControlInv, ExecTypes, Executing
<1>2. ASSUME UNCHANGED <<execs, memory>>, \A s \in execs : node'[s] = node[s] PROVE MemoryExact'
  BY <1>2 DEF MemoryExact
<1>3. CASE \/ UNCHANGED finishVars \/ Wakes \/ Collect
           \/ \E r \in Requests : Arrive(r)
           \/ \E s \in Stages : Readies(s) \/ Gathered(s) \/ Switches(s)
           \/ \E a \in Artifacts : JoinTransfer(a) \/ NoRoom(a) \/ StartTransfer(a) \/ ReserveOutput(a)
  <2>1. UNCHANGED <<execs, memory, node>>
    BY <1>3 DEF finishVars, Wakes, Collect, Arrive, Readies, Gathered, Switches, JoinTransfer, NoRoom,
                StartTransfer, ReserveOutput, fetchFrame
  <2>2. QED
    BY <1>2, <2>1
<1>4. ASSUME NEW P \in SUBSET Stages, Places(P) PROVE MemoryExact'
  <2>1. /\ node' = [s \in Stages |-> IF s \in P THEN node'[s] ELSE node[s]]
        /\ \A s \in P : stages[s] = "READY"
        /\ UNCHANGED <<execs, memory>>
    BY <1>4 DEF Places
  <2>2. \A s \in execs : node'[s] = node[s]
    BY <1>1, <2>1
  <2>3. QED
    BY <1>2, <2>1, <2>2
<1>5. ASSUME NEW r \in Requests, Resolve(r) PROVE MemoryExact'
  <2>1. /\ execs' = execs \ Cancelled(r) /\ UNCHANGED node
        /\ memory' = [n \in Nodes |-> memory[n] \ Cancelled(r)]
    BY <1>5, FinishStatus DEF Resolve
  <2>2. QED
    BY <2>1 DEF MemoryExact
<1>6. CASE Reap
  BY <1>6 DEF Reap, MemoryExact
<1>7. ASSUME NEW s \in Stages, StartStage(s) PROVE MemoryExact'
  <2>1. /\ execs' = execs \cup {s} /\ UNCHANGED node
        /\ memory' = [memory EXCEPT ![node[s]] = @ \cup {s}]
    BY <1>7 DEF StartStage
  <2>2. QED
    BY <1>1, <2>1 DEF MemoryExact, ExecTypes
<1>8. QED
  BY <1>3, <1>4, <1>5, <1>6, <1>7 DEF StepKinds, Closes

\* A reservation that succeeds fits.
LEMMA ReservationFits ==
    ASSUME ControlInv, WithinCapacity, NEW n \in Nodes, NEW a \in Artifacts,
           NEW v \in Reservations(a, n), v.ok
    PROVE  Used((storage[n] \ v.evicted) \cup {a}) <= Storage[n]
<1>1. storage[n] \in SUBSET Artifacts /\ Storage[n] \in Nat /\ Size[a] \in Nat
  BY PlatformAssumption DEF ControlInv, TypeOK
<1>2. \/ a \in storage[n] /\ v.evicted = {}
      \/ Fits(a, n, v.evicted)
  BY ReservationFacts
<1>3. CASE a \in storage[n] /\ v.evicted = {}
  <2>1. (storage[n] \ v.evicted) \cup {a} = storage[n]
    BY <1>3
  <2>2. QED
    BY <2>1 DEF WithinCapacity
<1>4. CASE Fits(a, n, v.evicted)
  <2> DEFINE S == storage[n] \ v.evicted
  <2>1. S \in SUBSET Artifacts /\ S \cup {a} \in SUBSET Artifacts
    BY <1>1
  <2>2. Used(S) + Size[a] <= Storage[n]
    BY <1>4 DEF Fits
  <2> HIDE DEF S
  <2>3. Used(S) \in Nat /\ Used(S \cup {a}) \in Nat /\ Used(S \cup {a}) <= Used(S) + Size[a]
    BY <2>1, StorageSums
  <2>4. Used(S \cup {a}) <= Storage[n]
    BY <1>1, <2>2, <2>3
  <2>5. QED
    BY <2>4 DEF S
<1>5. QED
  BY <1>2, <1>3, <1>4

LEMMA StorageWithin ==
    ASSUME ControlInv, ControlInv', WithinCapacity, StepKinds, NEW n \in Nodes
    PROVE  Used(storage'[n]) <= Storage[n]
<1> USE DEF requestVars, stageVars, dataVars, execVars, engineVars
<1>1. /\ storage \in [Nodes -> SUBSET Artifacts] /\ storage'[n] \in SUBSET Artifacts
      /\ Used(storage[n]) <= Storage[n] /\ Storage[n] \in Nat
  BY PlatformAssumption DEF ControlInv, TypeOK, WithinCapacity
<1>2. ASSUME storage'[n] \subseteq storage[n] PROVE Used(storage'[n]) <= Storage[n]
  <2>1. Used(storage'[n]) <= Used(storage[n]) /\ Used(storage'[n]) \in Nat /\ Used(storage[n]) \in Nat
    BY <1>1, <1>2, StorageSums
  <2>2. QED
    BY <1>1, <2>1
<1>3. CASE \/ UNCHANGED finishVars \/ Wakes \/ Closes \/ Reap
           \/ \E r \in Requests : Arrive(r)
           \/ \E s \in Stages : Readies(s) \/ Gathered(s) \/ StartStage(s) \/ Switches(s)
           \/ \E P \in SUBSET Stages : Places(P)
           \/ \E a \in Artifacts : JoinTransfer(a)
  BY <1>2, <1>3 DEF finishVars, Wakes, Closes, Reap, Arrive, Readies, Gathered, StartStage, Switches,
                    Places, JoinTransfer
<1>4. ASSUME NEW r \in Requests, Resolve(r) PROVE storage'[n] \subseteq storage[n]
  BY <1>4, FinishData DEF Resolve
<1>5. CASE Collect
  <2>1. storage'[n] \subseteq storage[n]
    BY <1>5 DEF Collect
  <2>2. QED
    BY <1>2, <2>1
<1>6. ASSUME NEW a \in Artifacts, NoRoom(a) PROVE storage'[n] \subseteq storage[n]
  <2> DEFINE q == At(job.for)
  <2>1. PICK E \in SUBSET Artifacts : storage' = [storage EXCEPT ![q] = @ \ E]
    BY <1>6, FindsNoRoom
  <2> HIDE DEF q
  <2>2. QED
    BY <1>1, <2>1
<1>7. ASSUME NEW a \in Artifacts, StartTransfer(a) PROVE Used(storage'[n]) <= Storage[n]
  <2> DEFINE q == At(job.for)
  <2>1. PICK v \in Reservations(a, q) :
           v.ok /\ storage' = [storage EXCEPT ![q] = (@ \ v.evicted) \cup {a}]
    BY <1>7, StartsTransfer
  <2>2. q \in Nodes
    BY <1>7, Fetching DEF StartTransfer, Wanted
  <2>3. Used((storage[q] \ v.evicted) \cup {a}) <= Storage[q]
    BY <2>1, <2>2, ReservationFits
  <2> HIDE DEF q
  <2>4. CASE n = q
    BY <1>1, <2>1, <2>2, <2>3, <2>4
  <2>5. CASE n # q
    BY <1>1, <2>1, <2>2, <2>5
  <2>6. QED
    BY <2>4, <2>5
<1>8. ASSUME NEW a \in Artifacts, ReserveOutput(a) PROVE Used(storage'[n]) <= Storage[n]
  <2> DEFINE q == node[job.for]
  <2>1. PICK v \in Reservations(a, q) :
           /\ q \in Nodes
           /\ \/ v.ok /\ storage' = [storage EXCEPT ![q] = (@ \ v.evicted) \cup {a}]
              \/ storage' = [storage EXCEPT ![q] = @ \ (v.evicted \cup job.taken)]
    BY <1>8, ReservesOutput
  <2>2. v.ok => Used((storage[q] \ v.evicted) \cup {a}) <= Storage[q]
    BY <2>1, ReservationFits
  <2> HIDE DEF q
  <2>3. CASE v.ok /\ storage' = [storage EXCEPT ![q] = (@ \ v.evicted) \cup {a}] /\ n = q
    BY <1>1, <2>1, <2>2, <2>3
  <2>4. CASE storage' = [storage EXCEPT ![q] = @ \ (v.evicted \cup job.taken)] \/ n # q
    <3>1. storage'[n] \subseteq storage[n]
      BY <1>1, <2>1, <2>4
    <3>2. QED
      BY <1>2, <3>1
  <2>5. QED
    BY <2>1, <2>3, <2>4
<1>9. QED
  BY <1>2, <1>3, <1>4, <1>5, <1>6, <1>7, <1>8 DEF StepKinds

LEMMA MemoryWithin ==
    ASSUME ControlInv, ControlInv', WithinCapacity, StepKinds, NEW n \in Nodes
    PROVE  MemoryUsed(memory'[n]) <= Memory[n] /\ Cardinality(Running(n)') <= Cores[n]
<1> USE DEF requestVars, stageVars, dataVars, execVars, engineVars
<1>1. /\ memory \in [Nodes -> SUBSET Stages] /\ memory'[n] \in SUBSET Stages
      /\ MemoryUsed(memory[n]) <= Memory[n] /\ Memory[n] \in Nat /\ Cores[n] \in Nat
      /\ Cardinality(Running(n)) <= Cores[n] /\ StatusTypes
  BY TypeParts, PlatformAssumption DEF ControlInv, TypeOK, WithinCapacity
<1>2. IsFiniteSet(Running(n)) /\ Cardinality(Running(n)) \in Nat
  BY SetsAssumption, FS_Subset, FS_CardinalityType DEF Running
<1>3. ASSUME memory'[n] \subseteq memory[n], Running(n)' \subseteq Running(n)
      PROVE  MemoryUsed(memory'[n]) <= Memory[n] /\ Cardinality(Running(n)') <= Cores[n]
  <2>1. /\ MemoryUsed(memory'[n]) <= MemoryUsed(memory[n])
        /\ MemoryUsed(memory'[n]) \in Nat /\ MemoryUsed(memory[n]) \in Nat
    BY <1>1, <1>3, MemorySums
  <2>2. Cardinality(Running(n)') <= Cardinality(Running(n)) /\ Cardinality(Running(n)') \in Nat
    BY <1>2, <1>3, FS_Subset, FS_CardinalityType
  <2>3. QED
    BY <1>1, <1>2, <2>1, <2>2
<1>4. CASE \/ UNCHANGED finishVars \/ Wakes \/ Closes \/ Collect
           \/ \E r \in Requests : Arrive(r)
           \/ \E a \in Artifacts : JoinTransfer(a) \/ NoRoom(a) \/ StartTransfer(a) \/ ReserveOutput(a)
  <2>1. UNCHANGED <<memory, stages, node>>
    BY <1>4 DEF finishVars, Wakes, Closes, Collect, Arrive, JoinTransfer, NoRoom, StartTransfer,
                ReserveOutput, fetchFrame
  <2>2. QED
    BY <1>3, <2>1 DEF Running
<1>5. ASSUME NEW r \in Requests, Resolve(r)
      PROVE  memory'[n] \subseteq memory[n] /\ Running(n)' \subseteq Running(n)
  <2>1. /\ stages' = [s \in Stages |-> IF s \in Cancelled(r) THEN "CANCELLED" ELSE stages[s]]
        /\ memory' = [q \in Nodes |-> memory[q] \ Cancelled(r)] /\ UNCHANGED node
    BY <1>5, FinishStatus DEF Resolve
  <2>2. QED
    BY <2>1 DEF Running
<1>6. CASE Reap
  <2>1. memory'[n] \subseteq memory[n] /\ Running(n)' \subseteq Running(n)
    BY <1>6 DEF Reap, Running
  <2>2. QED
    BY <1>3, <2>1
<1>7. ASSUME NEW s \in Stages, NEW to, stages' = [stages EXCEPT ![s] = to], to # "RUNNING",
             UNCHANGED <<node, memory>>
      PROVE  memory'[n] \subseteq memory[n] /\ Running(n)' \subseteq Running(n)
  BY <1>1, <1>7 DEF Running, StatusTypes
<1>8. ASSUME NEW s \in Stages, Readies(s) \/ Gathered(s) \/ Switches(s)
      PROVE  memory'[n] \subseteq memory[n] /\ Running(n)' \subseteq Running(n)
  <2>1. UNCHANGED <<node, memory>>
    BY <1>8 DEF Readies, Gathered, Switches
  <2>2. CASE Readies(s)
    BY <1>7, <2>1, <2>2 DEF Readies
  <2>3. CASE Gathered(s)
    <3>1. UNCHANGED stages \/ stages' = [stages EXCEPT ![s] = "QUEUED"]
      BY <2>3 DEF Gathered
    <3>2. QED
      BY <1>7, <2>1, <3>1 DEF Running
  <2>4. CASE Switches(s)
    BY <1>7, <2>1, <2>4 DEF Switches
  <2>5. QED
    BY <1>8, <2>2, <2>3, <2>4
<1>9. ASSUME NEW P \in SUBSET Stages, Places(P)
      PROVE  memory'[n] \subseteq memory[n] /\ Running(n)' \subseteq Running(n)
  <2>1. /\ stages' = [s \in Stages |-> IF s \in P THEN "WAITING_DATA" ELSE stages[s]]
        /\ node' = [s \in Stages |-> IF s \in P THEN node'[s] ELSE node[s]]
        /\ UNCHANGED memory
    BY <1>9 DEF Places
  <2>2. \A s \in Stages : stages'[s] = "RUNNING" => stages[s] = "RUNNING" /\ node'[s] = node[s]
    BY <2>1
  <2>3. QED
    BY <2>1, <2>2 DEF Running
<1>10. ASSUME NEW s \in Stages, StartStage(s)
       PROVE  MemoryUsed(memory'[n]) <= Memory[n] /\ Cardinality(Running(n)') <= Cores[n]
  <2>1. /\ pc = "dispatch" /\ job.for = s /\ s # None /\ UNCHANGED node
        /\ stages' = [stages EXCEPT ![s] = "RUNNING"]
        /\ memory' = [memory EXCEPT ![node[s]] = @ \cup {s}]
    BY <1>10, SetsAssumption DEF StartStage
  <2>2. Dispatchable(s)
    BY <2>1 DEF ControlInv, Visiting
  <2>3. CASE node[s] # n
    <3>1. memory'[n] = memory[n] /\ Running(n)' = Running(n)
      BY <1>1, <2>1, <2>3 DEF Running, StatusTypes
    <3>2. QED
      BY <1>3, <3>1
  <2>4. CASE node[s] = n
    <3>1. memory'[n] = memory[n] \cup {s} /\ Running(n)' = Running(n) \cup {s}
      BY <1>1, <2>1, <2>4 DEF Running, StatusTypes
    <3>2. Cardinality(Running(n)) < Cores[n] /\ MemoryFits(s, n)
      BY <2>2, <2>4 DEF Dispatchable
    <3>3. Cardinality(Running(n) \cup {s}) <= Cardinality(Running(n)) + 1
      <4>1. Cardinality(Running(n) \cup {s}) =
                 IF s \in Running(n) THEN Cardinality(Running(n)) ELSE Cardinality(Running(n)) + 1
        BY <1>2, FS_AddElement
      <4>2. QED
        BY <1>2, <4>1
    <3>4. Cardinality(Running(n) \cup {s}) \in Nat
      BY <1>2, FS_AddElement, FS_CardinalityType
    <3>5. MemoryUsed(memory[n] \cup {s}) <= Memory[n]
      <4>1. CASE s \in memory[n]
        <5>1. memory[n] \cup {s} = memory[n]
          BY <4>1
        <5>2. QED
          BY <1>1, <5>1
      <4>2. CASE MemoryUsed(memory[n]) + MemoryOf[s] <= Memory[n]
        <5>1. /\ MemoryUsed(memory[n] \cup {s}) <= MemoryUsed(memory[n]) + MemoryOf[s]
              /\ MemoryUsed(memory[n]) \in Nat /\ MemoryUsed(memory[n] \cup {s}) \in Nat
              /\ MemoryOf[s] \in Nat
          <6>1. memory[n] \in SUBSET Stages /\ memory[n] \cup {s} \in SUBSET Stages
            BY <1>1
          <6>2. QED
            BY <6>1, MemorySums, PlatformAssumption
        <5>2. QED
          BY <1>1, <4>2, <5>1
      <4>3. QED
        BY <3>2, <4>1, <4>2 DEF MemoryFits
    <3>6. Cardinality(Running(n) \cup {s}) <= Cores[n]
      BY <1>1, <1>2, <3>2, <3>3, <3>4
    <3>7. QED
      BY <3>1, <3>5, <3>6
  <2>5. QED
    BY <2>3, <2>4
<1>11. QED
  BY <1>3, <1>4, <1>5, <1>6, <1>8, <1>9, <1>10 DEF StepKinds

LEMMA LedgerStart == Init => LedgerInv
<1> SUFFICES ASSUME Init PROVE LedgerInv
  OBVIOUS
<1>1. /\ storage = [n \in Nodes |-> {a \in Artifacts : <<a, n>> \in Origins}]
      /\ memory = [n \in Nodes |-> {}] /\ execs = {} /\ job = NoJob /\ replicas = Origins
      /\ source = [k \in Keys |-> None] /\ \A s \in Stages : stages[s] = "WAITING_DEPENDENCIES"
  BY DEF Init
<1>2. job.for = None /\ None \notin Stages
  BY <1>1, SetsAssumption DEF NoJob
<1>3. Reserved
  BY <1>2 DEF Reserved
<1>4. StorageExact
  <2>1. \A n \in Nodes : \A a \in Artifacts : Holds(a, n) <=> <<a, n>> \in Origins
    BY <1>1, <1>2 DEF Holds, Keys
  <2>2. QED
    BY <1>1, <2>1 DEF StorageExact
<1>5. MemoryExact
  BY <1>1 DEF MemoryExact
<1>6. TypeOK
  BY ControlStart DEF ControlInv
<1>7. LedgersExact
  BY <1>4, <1>5, <1>6, ExactParts DEF Exact
<1>8. ASSUME NEW n \in Nodes
      PROVE  /\ Used(storage[n]) <= Storage[n] /\ MemoryUsed(memory[n]) <= Memory[n]
             /\ Cardinality(Running(n)) <= Cores[n]
  <2>1. Used(storage[n]) <= Storage[n]
    BY <1>1, OriginsAssumption
  <2>2. MemoryUsed(memory[n]) = 0
    <3>1. UNION {{s} \X (1 .. MemoryOf[s]) : s \in {}} = {}
      OBVIOUS
    <3>2. QED
      BY <1>1, <3>1, FS_EmptySet DEF MemoryUsed
  <2>3. Running(n) = {}
    BY <1>1 DEF Running
  <2>4. QED
    BY <2>1, <2>2, <2>3, FS_EmptySet, PlatformAssumption
<1>9. QED
  BY <1>3, <1>7, <1>8 DEF LedgerInv, WithinCapacity

LEMMA LedgerStep ==
    ASSUME ControlInv, ControlInv', DataInv, LedgerInv, [Next]_vars
    PROVE  LedgerInv'
<1>1. StepKinds /\ (pc' # "closed" => pc # "closed")
  BY Kinds
<1>2. Exact /\ Reserved /\ WithinCapacity
  BY ExactParts DEF ControlInv, LedgerInv
<1>3. Exact'
  BY <1>1, <1>2, StorageKeeps, MemoryKeeps DEF Exact
<1>4. (TypeOK => (LedgersExact <=> Exact))'
  BY ExactParts, PTL
<1>5. LedgersExact'
  BY <1>3, <1>4 DEF ControlInv
<1>6. Reserved'
  BY <1>2, ReservedKeeps
<1>7. WithinCapacity'
  BY <1>1, <1>2, StorageWithin, MemoryWithin DEF WithinCapacity
<1>8. QED
  BY <1>5, <1>6, <1>7 DEF LedgerInv

LEMMA LedgerInvariant == Spec => []LedgerInv
<1>1. ControlInv /\ ControlInv' /\ DataInv /\ LedgerInv /\ [Next]_vars => LedgerInv'
  BY LedgerStep
<1>2. QED
  BY <1>1, LedgerStart, ControlInvariant, DataInvariant, PTL DEF Spec

\* The ledgers of storage and memory say exactly what is held, whatever was
\* cancelled, suspended, evicted or rolled back (ResourceLedger, _finish_request,
\* _reap, _reserve_data, _dispatch), and no node stores, remembers or computes
\* more than it can, for every workload, platform and policy.
THEOREM LedgersHold == Spec => []LedgersSound
<1>1. ControlInv /\ LedgerInv => LedgersSound
  BY DEF ControlInv, LedgerInv, LedgersSound
<1>2. QED
  BY <1>1, ControlInvariant, LedgerInvariant, PTL

-----------------------------------------------------------------------------
(***************************************************************************)
(* Nothing is left: what a pass has settled, and what the next one can do. *)
(***************************************************************************)
\* Who waits for artifacts, and for which: a placed stage, a request to deliver.
Waits(w) == IF w \in Requests THEN Active(w) /\ AllSucceeded(w) ELSE stages[w] = "WAITING_DATA"
Wants(w) == IF w \in Requests THEN Deliverables[w] ELSE Inputs[w]

\* What a node stores for good: neither evictable, nor taken for a stage that
\* may not start after all.
Taken(n) == IF job.for \in Stages /\ node[job.for] = n THEN job.taken ELSE {}
Base(n) == storage[n] \ Taken(n)
Kept(n) == Base(n) \ Evictable(n)
Crammed(S, n) == Used(Kept(n)) + Used(S) > Storage[n]

\* An artifact that no visit will find, whatever else is visited.
Blocked(w, a) ==
    /\ <<a, At(w)>> \notin replicas
    /\ \/ source[<<a, At(w)>>] # None /\ w \in waiters[<<a, At(w)>>]
       \/ Sources(a, At(w)) = {}
       \/ Size[a] > 0
Stuck(w) == Waits(w) => \E a \in Wants(w) : Blocked(w, a)

\* An artifact whose transfer no visit will start.
Shut(w, a) ==
    \/ <<a, At(w)>> \in replicas
    \/ source[<<a, At(w)>>] # None
    \/ Sources(a, At(w)) = {}
    \/ Crammed({a}, At(w))
Dry(w) == Waits(w) => \A a \in Wants(w) : Shut(w, a)

\* A stage that is ready and, with a built-in policy, about to be placed.
Readied(s) == MayBeReady(s) => stages[s] = "READY" /\ (External \/ placements[s] # None)
\* A stage whose outputs have no room, if nothing else keeps it from starting.
Owed(s) == IF s \in execs THEN {} ELSE Outputs[s]
Tight(s) == Dispatchable(s) => Crammed(Owed(s), node[s])

\* What the running pass has been through.
Under == round # "first" /\ pc \in {"ready", "data", "dispatch", "reap", "deliver"}
Through == pc \in {"collect", "return", "wait"} \/ (pc = "expire" /\ round # "first" /\ ~expired)
SeenReady(s) == pc # "ready" \/ s \notin todo
SeenData(s) == pc \in {"dispatch", "reap", "deliver"} \/ (pc = "data" /\ s \notin todo /\ s # job.for)
SeenQueue(s) == pc \in {"reap", "deliver"} \/ (pc = "dispatch" /\ s \notin todo /\ s # job.for)
SeenRequest(r) == pc = "deliver" /\ r \notin todo /\ r # job.for

Settled ==
    \A s \in Stages : /\ SeenReady(s) => Readied(s)
                      /\ SeenData(s) => Stuck(s)
                      /\ SeenQueue(s) => Tight(s)
Dried ==
    /\ \A s \in Stages : SeenData(s) => Dry(s)
    /\ \A r \in Requests : SeenRequest(r) => Dry(r)
StagesStill == \A s \in Stages : Readied(s) /\ Stuck(s) /\ Tight(s)
RequestsStill == \A r \in Requests : Stuck(r)
Still == StagesStill /\ RequestsStill /\ \A w \in Stages \cup Requests : Dry(w)

Succeeded == Having("SUCCEEDED")

\* Facts of the whole run that the passes rest on: who may be placed or served
\* was admitted with somewhere to run, or something to fetch; and how the loops
\* follow one another.
Admitted ==
    /\ \A s \in Stages : stages[s] = "READY" => Candidates(s) # {}
    /\ \A r \in Requests : Active(r) => ~ReceiverInfeasible(r)
    /\ Origins \subseteq replicas
Looping ==
    /\ \A s \in Stages : placements[s] # None => pc = "ready" /\ changed
    /\ landed # {} => pc = "reap" /\ round = "first"
    /\ pc \in {"ready", "data", "dispatch"} => round # "first"
    /\ pc = "expire" => round # "again"
    /\ Under => passes >= 1
    /\ pc \in {"deliver", "expire", "arrive", "ready", "data"} \/ (Under /\ ~changed) =>
          \A s \in ended : stages[s] = "SUSPENDED"
Grounds == Admitted /\ Looping

\* The visit of a stage or a request that fetches.
Visited ==
    job.for # None /\ pc \in {"data", "deliver"} =>
        /\ job.ok => \A a \in Wants(job.for) \ job.rest : <<a, At(job.for)>> \in replicas
        /\ ~job.ok => Stuck(job.for)
        /\ Under /\ ~changed => \A a \in Wants(job.for) \ job.rest : Shut(job.for, a)

Counted ==
    \/ Cardinality(Succeeded) >= passes - 1
    \/ /\ Cardinality(Succeeded) = passes - 2
       /\ Settled /\ RequestsStill /\ (changed => Succeeded # Stages)
    \/ ~changed /\ StagesStill /\ RequestsStill

PassInv ==
    /\ Visited
    /\ Under =>
        /\ \A r \in Requests : SeenRequest(r) => Stuck(r)
        /\ passes >= 2 /\ pc # "deliver" => RequestsStill
        /\ pc # "deliver" \/ ~changed => Settled
        /\ ~changed => Dried
        /\ passes >= 2 => Counted
    /\ Through => Still

-----------------------------------------------------------------------------
(***************************************************************************)
(* Sums of two sets, and what a node keeps.                                *)
(***************************************************************************)
LEMMA UnitsJoin ==
    ASSUME NEW A, IsFiniteSet(A), NEW W \in [A -> Nat], NEW S \in SUBSET A, NEW T \in SUBSET A
    PROVE  /\ Cardinality(Units(S \cup T, W)) <= Cardinality(Units(S, W)) + Cardinality(Units(T, W))
           /\ S \cap T = {} =>
                Cardinality(Units(S \cup T, W)) = Cardinality(Units(S, W)) + Cardinality(Units(T, W))
<1> DEFINE U == Units(S, W)
           V == Units(T, W)
<1>1. IsFiniteSet(U) /\ Cardinality(U) \in Nat /\ IsFiniteSet(V) /\ Cardinality(V) \in Nat
  BY UnitsFinite
<1>2. Units(S \cup T, W) = U \cup V
  BY DEF Units
<1>3. S \cap T = {} => U \cap V = {}
  BY DEF Units
<1> HIDE DEF U, V
<1>4. Cardinality(U \cup V) = Cardinality(U) + Cardinality(V) - Cardinality(U \cap V)
  BY <1>1, FS_Union
<1>5. Cardinality(U \cap V) \in Nat
  BY <1>1, FS_Intersection, FS_CardinalityType
<1>6. S \cap T = {} => Cardinality(U \cap V) = 0
  BY <1>3, FS_EmptySet
<1> DEFINE u == Cardinality(U)
           v == Cardinality(V)
           i == Cardinality(U \cap V)
           c == Cardinality(U \cup V)
<1>7. u \in Nat /\ v \in Nat /\ i \in Nat /\ c = u + v - i /\ (S \cap T = {} => i = 0)
  BY <1>1, <1>4, <1>5, <1>6
<1> HIDE DEF u, v, i, c
<1>8. c <= u + v /\ (S \cap T = {} => c = u + v)
  BY <1>7
<1>9. QED
  BY <1>2, <1>8 DEF U, V, u, v, c

LEMMA JoinedSums ==
    ASSUME NEW S \in SUBSET Artifacts, NEW T \in SUBSET Artifacts
    PROVE  /\ Used(S \cup T) <= Used(S) + Used(T)
           /\ S \cap T = {} => Used(S \cup T) = Used(S) + Used(T)
<1>1. IsFiniteSet(Artifacts) /\ Size \in [Artifacts -> Nat] /\ S \cup T \in SUBSET Artifacts
  BY SetsAssumption, PlatformAssumption
<1>2. /\ Used(S) = Cardinality(Units(S, Size)) /\ Used(T) = Cardinality(Units(T, Size))
      /\ Used(S \cup T) = Cardinality(Units(S \cup T, Size))
  BY <1>1, UsedUnits
<1>3. QED
  BY <1>1, <1>2, UnitsJoin

LEMMA OneSum ==
    ASSUME NEW a \in Artifacts
    PROVE  Used({a}) = Size[a]
<1>1. {a} \in SUBSET Artifacts /\ Size[a] \in Nat
  BY PlatformAssumption
<1>2. Units({a}, Size) = {a} \X (1 .. Size[a])
  BY DEF Units
<1>3. Used({a}) = Cardinality({a} \X (1 .. Size[a]))
  BY <1>1, <1>2, UsedUnits
<1>4. QED
  BY <1>1, <1>3, UnitsOfOne

\* What is empty does not count.
LEMMA SolidSum ==
    ASSUME NEW S \in SUBSET Artifacts, NEW T \in SUBSET Artifacts,
           \A a \in S : Size[a] > 0 => a \in T
    PROVE  Used(S) <= Used(T)
<1> DEFINE P == {a \in S : Size[a] > 0}
<1>1. P \in SUBSET Artifacts /\ P \in SUBSET T
  OBVIOUS
<1>2. ASSUME NEW a \in Artifacts, ~(Size[a] > 0) PROVE {a} \X (1 .. Size[a]) = {}
  <2>1. Size[a] \in Nat /\ Size[a] = 0
    BY <1>2, PlatformAssumption
  <2>2. 1 .. Size[a] = {}
    BY <2>1
  <2>3. QED
    BY <2>2
<1>3. Units(S, Size) = Units(P, Size)
  BY <1>2 DEF Units
<1>4. Used(S) = Used(P)
  BY <1>1, <1>3, UsedUnits
<1> HIDE DEF P
<1>5. QED
  BY <1>1, <1>4, StorageSums

\* What reservations can never evict counts for as long as replicas only go or
\* come empty, reads and destinations stay, and the ledger only lets go what is
\* evicted or was only taken.
LEMMA PinStays ==
    ASSUME NEW n \in Nodes, NEW x \in Artifacts, <<x, n>> \in replicas,
           Pinned(<<x, n>>, replicas, requests, stages, source),
           \A m \in Nodes : <<x, m>> \in replicas' => <<x, m>> \in replicas,
           Destinations(x, requests, stages) \subseteq Destinations(x, requests, stages)',
           \A k \in Keys : source[k] # None => source'[k] = source[k]
    PROVE  Pinned(<<x, n>>, replicas, requests, stages, source)'
<1>1. CASE <<x, n>> \in Origins
  BY <1>1 DEF Pinned
<1>2. CASE Read(x, n, source)
  <2>1. Read(x, n, source')
    BY <1>2, SetsAssumption DEF Read
  <2>2. QED
    BY <2>1 DEF Pinned, Read
<1>3. CASE \E d \in Destinations(x, requests, stages) : n = d \/ NeededAt(x, n, d, replicas)
  <2>1. PICK d \in Destinations(x, requests, stages) : n = d \/ NeededAt(x, n, d, replicas)
    BY <1>3
  <2>2. d \in Destinations(x, requests, stages)' /\ (n = d \/ NeededAt(x, n, d, replicas'))
    BY <2>1 DEF NeededAt
  <2>3. QED
    BY <2>2 DEF Pinned, NeededAt, Reaches
<1>4. QED
  BY <1>1, <1>2, <1>3 DEF Pinned

LEMMA KeptStays ==
    ASSUME TypeOK, TypeOK', NEW n \in Nodes,
           \A k \in replicas' : k \in replicas \/ Size[k[1]] = 0,
           \A x \in Artifacts : Destinations(x, requests, stages) \subseteq Destinations(x, requests, stages)',
           \A k \in Keys : source[k] # None => source'[k] = source[k],
           \A x \in Kept(n) : Size[x] > 0 => x \in Base(n)'
    PROVE  Used(Kept(n)) <= Used(Kept(n))'
<1>1. Kept(n) \in SUBSET Artifacts /\ Kept(n)' \in SUBSET Artifacts
  BY DEF Kept, Base, TypeOK
<1>2. ASSUME NEW x \in Kept(n), Size[x] > 0 PROVE x \in Kept(n)'
  <2>1. x \in Artifacts /\ x \in Base(n)' /\ x \notin Evictable(n)
    BY <1>1, <1>2 DEF Kept
  <2>2. SUFFICES ASSUME x \in Evictable(n)' PROVE FALSE
    BY <2>1 DEF Kept
  <2>3. \A m \in Nodes : <<x, m>> \in replicas' => <<x, m>> \in replicas
    <3>1. Size[x] \in Nat
      BY <2>1, PlatformAssumption
    <3>2. Size[x] # 0
      BY <1>2, <3>1
    <3>3. QED
      BY <3>2
  <2>4. <<x, n>> \in replicas' /\ ~Pinned(<<x, n>>, replicas, requests, stages, source)'
    BY <2>2 DEF Evictable
  <2>5. <<x, n>> \in replicas /\ Pinned(<<x, n>>, replicas, requests, stages, source)
    BY <2>1, <2>3, <2>4 DEF Evictable
  <2>6. Pinned(<<x, n>>, replicas, requests, stages, source)'
    BY <2>1, <2>3, <2>5, PinStays
  <2>7. QED
    BY <2>4, <2>6
<1>3. Used(Kept(n)) <= Used(Kept(n)')
  BY <1>1, <1>2, SolidSum
<1>4. QED
  BY <1>3 DEF Used

-----------------------------------------------------------------------------
(***************************************************************************)
(* The steps of a visit that look for data and room.                       *)
(***************************************************************************)
Fetches(a) == HaveReplica(a) \/ JoinTransfer(a) \/ NoSource(a) \/ NoRoom(a) \/ StartTransfer(a)
Lands(k) == /\ Size[k[1]] = 0 /\ source[k] = None /\ Sources(k[1], k[2]) # {}
            /\ Fetch(k[1]) /\ k[2] = At(job.for)

\* What such a step does to data: replicas that may go do, an empty one may
\* come at once, transfers go on, and what is kept stays in the ledger.
Shifts ==
    /\ UNCHANGED <<requestVars, stageVars, execVars>>
    /\ Spared(replicas \cap replicas', requests, stages, source)
    /\ \A k \in replicas' : k \in replicas \/ Lands(k)
    /\ \A k \in Keys : source[k] # None => source'[k] = source[k] /\ waiters[k] \subseteq waiters'[k]
    /\ \A n \in Nodes : \A x \in Kept(n) : x \in Base(n)'

LEMMA SameSpared ==
    \A rq, st, src : Spared(replicas, rq, st, src)
<1>1. \A a \in Artifacts : \A d : (\E m \in Copies(a) : Reaches(m, d)) =>
            \E m \in Nodes : <<a, m>> \in replicas /\ Reaches(m, d)
  BY DEF Copies
<1>2. QED
  BY <1>1 DEF Spared

LEMMA FetchShifts ==
    ASSUME ControlInv, NEW a \in Artifacts, Fetches(a)
    PROVE  Shifts
<1> DEFINE n == At(job.for)
           k == <<a, n>>
<1>1. Fetch(a) /\ UNCHANGED <<fetchFrame>> /\ (Fetched(a) \/ NotFetched(a))
  BY DEF Fetches, HaveReplica, JoinTransfer, NoSource, NoRoom, StartTransfer, Wanted, Fetched, NotFetched
<1>2. n \in Nodes /\ k \in Keys /\ job.for # None
  BY <1>1, Fetching
<1>3. /\ source \in [Keys -> Nodes \cup {None}] /\ waiters \in [Keys -> SUBSET (Stages \cup Requests)]
      /\ storage \in [Nodes -> SUBSET Artifacts] /\ job \in JobTypes /\ replicas \subseteq Keys
  BY TypeParts DEF ControlInv, DataTypes, LoopTypes
<1>4. job.taken = {} /\ job'.taken = {}
  <2>1. job'.taken = job.taken
    BY <1>1, <1>3 DEF Fetched, NotFetched, JobTypes
  <2>2. pc \in {"data", "deliver"}
    BY <1>1 DEF Fetch
  <2>3. QED
    BY <1>2, <2>1, <2>2 DEF ControlInv, Visiting
<1>5. UNCHANGED <<pc, requestVars, stageVars, execVars, engineVars, round, todo, changed, passes,
                  expired, placements>>
  BY <1>1 DEF fetchFrame
<1>6. \A q \in Nodes : Base(q) = storage[q] /\ Base(q)' = storage'[q]
  BY <1>4 DEF Base, Taken
<1>7. CASE UNCHANGED <<replicas, storage>> /\ (UNCHANGED <<source, waiters>> \/ JoinTransfer(a))
  <2>1. Spared(replicas \cap replicas', requests, stages, source)
    <3>1. replicas \cap replicas' = replicas
      BY <1>7
    <3>2. QED
      BY <3>1, SameSpared
  <2>2. \A q \in Nodes : \A x \in Kept(q) : x \in Base(q)'
    BY <1>6, <1>7 DEF Kept
  <2>3. \A j \in Keys : source[j] # None => source'[j] = source[j] /\ waiters[j] \subseteq waiters'[j]
    BY <1>3, <1>7 DEF JoinTransfer
  <2>4. QED
    BY <1>5, <1>7, <2>1, <2>2, <2>3 DEF Shifts
<1>8. CASE NoRoom(a) \/ StartTransfer(a)
  <2>1. PICK m \in Sources(a, n), v \in Reservations(a, n) :
              /\ \/ storage' = [storage EXCEPT ![n] = @ \ v.evicted]
                 \/ storage' = [storage EXCEPT ![n] = (@ \ v.evicted) \cup {a}]
              /\ \/ replicas' = replicas \ (v.evicted \X {n})
                 \/ replicas' = (replicas \ (v.evicted \X {n})) \cup {k} /\ Size[a] = 0
              /\ \/ UNCHANGED <<source, waiters>>
                 \/ /\ source' = [source EXCEPT ![k] = m]
                    /\ waiters' = [waiters EXCEPT ![k] = {job.for}]
    BY <1>8 DEF NoRoom, StartTransfer, Evicted
  <2>2. k \notin replicas /\ source[k] = None /\ Sources(a, n) # {}
    BY <1>8 DEF NoRoom, StartTransfer, Wanted
  <2>3. v.evicted \in SUBSET Evictable(n)
    BY <1>2, ReservationFacts
  <2>4. Spared(replicas \ (v.evicted \X {n}), requests, stages, source)
    BY <1>2, <2>3, Evicting
  <2>5. replicas \cap replicas' = replicas \ (v.evicted \X {n})
    BY <2>1, <2>2
  <2>6. \A j \in replicas' : j \in replicas \/ Lands(j)
    BY <1>1, <1>2, <2>1, <2>2 DEF Lands
  <2>7. \A j \in Keys : source[j] # None => source'[j] = source[j] /\ waiters[j] \subseteq waiters'[j]
    BY <1>3, <2>1, <2>2
  <2>8. ASSUME NEW q \in Nodes, NEW x \in Kept(q) PROVE x \in Base(q)'
    <3>1. x \in storage[q] /\ x \notin Evictable(q)
      BY <1>6 DEF Kept
    <3>2. q = n => x \notin v.evicted
      BY <2>3, <3>1
    <3>3. x \in storage'[q]
      BY <1>2, <1>3, <2>1, <3>1, <3>2
    <3>4. QED
      BY <1>6, <3>3
  <2>9. QED
    BY <1>5, <2>4, <2>5, <2>6, <2>7, <2>8 DEF Shifts
<1>9. QED
  BY <1>7, <1>8 DEF Fetches, HaveReplica, JoinTransfer, NoSource, dataVars

LEMMA ReserveShifts ==
    ASSUME ControlInv, DataInv, LedgerInv, NEW a \in Artifacts, ReserveOutput(a)
    PROVE  Shifts
<1> DEFINE n == node[job.for]
<1>1. PICK v \in Reservations(a, n) :
            LET K == replicas \ (v.evicted \X {n})
            IN /\ v.evicted \in SUBSET Evictable(n) /\ n \in Nodes
               /\ v.evicted \subseteq Artifacts
               /\ pc = "dispatch" /\ job.for \in Stages /\ a \in job.rest
               /\ Spared(K, requests, stages, source)
               /\ replicas' = K /\ UNCHANGED <<source, waiters>>
               /\ \/ /\ v.ok
                     /\ storage' = [storage EXCEPT ![n] = (@ \ v.evicted) \cup {a}]
                     /\ job' = [job EXCEPT !.rest = @ \ {a}, !.taken = @ \cup {a}]
                  \/ /\ storage' = [storage EXCEPT ![n] = @ \ (v.evicted \cup job.taken)]
                     /\ job' = NoJob
  BY ReservesOutput
<1>2. UNCHANGED <<pc, requestVars, stageVars, execVars, engineVars, round, todo, changed, passes,
                  expired, placements>>
  BY DEF ReserveOutput, fetchFrame
<1>3. storage \in [Nodes -> SUBSET Artifacts] /\ job \in JobTypes
  BY TypeParts DEF ControlInv, DataTypes, LoopTypes
<1>4. a \notin storage[n]
  <2>1. /\ job.for \notin execs /\ a \in Outputs[job.for] /\ a \notin job.taken
        /\ <<a, n>> \notin replicas /\ source[<<a, n>>] = None /\ \A u \in execs : a \notin Outputs[u]
    BY <1>1, ReservingStage DEF LedgerInv
  <2>2. StorageExact
    BY <1>1, ExactParts DEF LedgerInv, ControlInv, Exact
  <2>3. ~Holds(a, n)
    BY <2>1 DEF Holds
  <2>4. QED
    BY <1>1, <2>2, <2>3 DEF StorageExact
<1>5. replicas \cap replicas' = replicas \ (v.evicted \X {n}) /\ replicas' \subseteq replicas
  BY <1>1
<1>6. ASSUME NEW q \in Nodes, NEW x \in Kept(q) PROVE x \in Base(q)'
  <2>1. x \in storage[q] /\ x \notin Evictable(q) /\ x \notin Taken(q)
    BY DEF Kept, Base
  <2>2. q = n => x \notin v.evicted /\ x \notin job.taken /\ x # a
    BY <1>1, <1>4, <2>1 DEF Taken
  <2>3. x \in storage'[q]
    BY <1>1, <1>3, <2>1, <2>2
  <2>4. x \notin Taken(q)'
    <3>1. CASE job' = NoJob
      BY <3>1, SetsAssumption DEF Taken, NoJob
    <3>2. CASE job' = [job EXCEPT !.rest = @ \ {a}, !.taken = @ \cup {a}]
      <4>1. job'.for = job.for /\ job'.taken = job.taken \cup {a} /\ node' = node
        BY <1>2, <1>3, <3>2 DEF JobTypes, stageVars
      <4>2. QED
        BY <2>1, <2>2, <4>1 DEF Taken
    <3>3. QED
      BY <1>1, <3>1, <3>2
  <2>5. QED
    BY <2>3, <2>4 DEF Base
<1>7. /\ Spared(replicas \cap replicas', requests, stages, source)
      /\ \A k \in replicas' : k \in replicas
  BY <1>1, <1>5
<1>8. \A k \in Keys : source'[k] = source[k] /\ waiters'[k] = waiters[k]
  BY <1>1
<1>9. QED
  BY <1>2, <1>6, <1>7, <1>8 DEF Shifts

LEMMA WaitPlace ==
    ASSUME ControlInv, NEW w \in Stages \cup Requests, Waits(w)
    PROVE  /\ At(w) \in Nodes /\ Wants(w) \in SUBSET Artifacts
           /\ \A a \in Wants(w) : <<a, At(w)>> \in Keys /\ At(w) \in Destinations(a, requests, stages)
<1>1. CASE w \in Requests
  <2>1. Receiver[w] \in Nodes /\ Deliverables[w] \in SUBSET Artifacts /\ Active(w)
    BY <1>1, WorkflowAssumption DEF Waits
  <2>2. At(w) = Receiver[w] /\ Wants(w) = Deliverables[w]
    BY <1>1 DEF At, Wants
  <2>3. \A a \in Deliverables[w] : Receiver[w] \in Destinations(a, requests, stages)
    BY <1>1, <2>1 DEF Destinations, Active
  <2>4. QED
    BY <2>1, <2>2, <2>3 DEF Keys
<1>2. CASE w \notin Requests
  <2>1. w \in Stages /\ stages[w] = "WAITING_DATA" /\ At(w) = node[w] /\ Wants(w) = Inputs[w]
    BY <1>2 DEF Waits, At, Wants
  <2>2. node[w] \in Nodes
    BY <2>1 DEF ControlInv, Lived, Placed
  <2>3. Active(RequestOf[w]) /\ stages[w] \notin Over
    BY <2>1, PlacedActive DEF Placed
  <2>4. Inputs[w] \in SUBSET Artifacts
    BY <2>1, WorkflowAssumption
  <2>5. \A a \in Inputs[w] : node[w] \in Destinations(a, requests, stages)
    BY <2>1, <2>2, <2>3, NeededHere DEF Active
  <2>6. QED
    BY <2>1, <2>2, <2>4, <2>5 DEF Keys
<1>3. QED
  BY <1>1, <1>2

\* What has no source for one who waits for it is not brought anywhere: a stage
\* was placed in reach of its inputs, a request without stages was admitted in
\* reach of its content, and the rest only its own request fetches.
LEMMA NoSourceStays ==
    ASSUME ControlInv, InputInv, Grounds, NEW w \in Stages \cup Requests, Waits(w), NEW a \in Wants(w),
           <<a, At(w)>> \notin replicas, Sources(a, At(w)) = {},
           NEW m, Lands(<<a, m>>)
    PROVE  FALSE
<1>1. /\ At(w) \in Nodes /\ a \in Artifacts
      /\ Fetch(a) /\ m = At(job.for) /\ Sources(a, m) # {}
  BY WaitPlace DEF Lands
<1>2. ASSUME NEW q \in Copies(a) PROVE ~Reaches(q, At(w))
  BY <1>2 DEF Copies, Sources, Reaches
<1>3. Copies(a) # {}
  BY <1>1 DEF Sources
<1>4. CASE w \notin Requests
  <2>1. w \in Stages /\ stages[w] = "WAITING_DATA" /\ a \in Inputs[w] /\ At(w) = node[w]
    BY <1>4 DEF Waits, Wants, At
  <2>2. \E q \in Copies(a) : Reaches(q, node[w])
    BY <1>3, <2>1 DEF InputInv, Near
  <2>3. QED
    BY <1>2, <2>1, <2>2
<1>5. CASE w \in Requests
  <2>1. Active(w) /\ a \in Deliverables[w] /\ At(w) = Receiver[w]
    BY <1>5 DEF Waits, Wants, At
  <2>2. CASE ~\E s \in Stages : RequestOf[s] = w \/ a \in Outputs[s]
    <3>1. StagesOf(w) = {}
      BY <2>2 DEF StagesOf
    <3>2. PICK q \in Nodes : <<a, q>> \in Origins /\ Reaches(q, Receiver[w])
      BY <1>5, <2>1, <3>1 DEF Grounds, Admitted, ReceiverInfeasible
    <3>3. q \in Copies(a)
      BY <3>2 DEF Grounds, Admitted, Copies
    <3>4. QED
      BY <1>2, <2>1, <3>2, <3>3
  <2>3. ASSUME NEW s \in Stages, RequestOf[s] = w, a \in Outputs[s],
               \A u \in Stages : RequestOf[u] = w => a \notin Inputs[u]
        PROVE  FALSE
    <3>1. job.for \in Stages \cup Requests /\ WaitsAt(job.for, <<a, m>>)
      BY <1>1, Fetching
    <3>2. CASE job.for \in Requests
      <4>1. a \in Deliverables[job.for]
        BY <3>1, <3>2 DEF WaitsAt
      <4>2. job.for # w
        BY <1>1 DEF Sources
      <4>3. PICK u \in Stages : RequestOf[u] = job.for /\ a \in Outputs[u]
        BY <2>3, <3>2, <4>1, WorkflowAssumption
      <4>4. u # s
        BY <2>3, <4>2, <4>3
      <4>5. QED
        BY <2>3, <4>3, <4>4, WorkflowAssumption
    <3>3. CASE job.for \notin Requests
      <4>1. job.for \in Stages /\ a \in Inputs[job.for]
        BY <3>1, <3>3 DEF WaitsAt
      <4>2. RequestOf[job.for] = w
        BY <2>3, <4>1, WorkflowAssumption
      <4>3. QED
        BY <2>3, <4>1, <4>2
    <3>4. QED
      BY <3>2, <3>3
  <2>4. QED
    BY <1>5, <2>1, <2>2, <2>3, WorkflowAssumption
<1>6. QED
  BY <1>4, <1>5

\* Whatever a step does, what was kept on the nodes is, who waits goes on
\* waiting for what it waited for, and nothing becomes possible.
Quiet ==
    /\ \A n \in Nodes : Used(Kept(n)) <= Used(Kept(n))'
    /\ \A w \in Stages \cup Requests : Waits(w) => \A a \in Wants(w) :
          /\ Blocked(w, a) => Blocked(w, a)'
          /\ Shut(w, a) => Shut(w, a)'
          /\ <<a, At(w)>> \in replicas => <<a, At(w)>> \in replicas'

LEMMA KeptTypes ==
    ASSUME TypeOK, NEW n \in Nodes
    PROVE  Kept(n) \in SUBSET Artifacts /\ Used(Kept(n)) \in Nat
<1>1. Kept(n) \in SUBSET Artifacts
  BY DEF Kept, Base, TypeOK
<1>2. QED
  BY <1>1, StorageSums

LEMMA CrammedStays ==
    ASSUME TypeOK, TypeOK', NEW n \in Nodes, Used(Kept(n)) <= Used(Kept(n))',
           NEW S \in SUBSET Artifacts, Crammed(S, n)
    PROVE  Crammed(S, n)'
<1> DEFINE k == Used(Kept(n))
           l == Used(Kept(n))'
           u == Used(S)
<1>1. k \in Nat
  BY KeptTypes
<1>2. (TypeOK => Kept(n) \in SUBSET Artifacts /\ Used(Kept(n)) \in Nat)'
  BY KeptTypes, PTL
<1>3. u \in Nat /\ Storage[n] \in Nat
  BY StorageSums, PlatformAssumption
<1>4. k <= l /\ k + u > Storage[n] /\ l \in Nat
  BY <1>2 DEF Crammed
<1>5. Used(S)' = u
  BY DEF Used
<1> HIDE DEF k, l, u
<1>6. l + u > Storage[n]
  BY <1>1, <1>3, <1>4
<1>7. QED
  BY <1>5, <1>6 DEF Crammed, l

LEMMA ShiftsQuiet ==
    ASSUME ControlInv, ControlInv', InputInv, Grounds, Shifts
    PROVE  Quiet
<1>1. TypeOK /\ TypeOK'
  BY DEF ControlInv
<1>2. UNCHANGED <<requests, stages, node>>
  BY DEF Shifts, requestVars, stageVars
<1>3. \A x : Destinations(x, requests, stages)' = Destinations(x, requests, stages)
  BY <1>2 DEF Destinations
<1>4. ASSUME NEW n \in Nodes PROVE Used(Kept(n)) <= Used(Kept(n))'
  <2>1. \A k \in replicas' : k \in replicas \/ Size[k[1]] = 0
    BY DEF Shifts, Lands
  <2>2. \A k \in Keys : source[k] # None => source'[k] = source[k]
    BY DEF Shifts
  <2>3. \A x \in Kept(n) : x \in Base(n)'
    BY DEF Shifts
  <2>4. QED
    BY <1>1, <1>3, <2>1, <2>2, <2>3, KeptStays
<1>5. ASSUME NEW w \in Stages \cup Requests, Waits(w), NEW a \in Wants(w)
      PROVE  /\ Blocked(w, a) => Blocked(w, a)'
             /\ Shut(w, a) => Shut(w, a)'
             /\ <<a, At(w)>> \in replicas => <<a, At(w)>> \in replicas'
  <2> DEFINE n == At(w)
             k == <<a, n>>
  <2>1. n \in Nodes /\ k \in Keys /\ a \in Artifacts /\ n \in Destinations(a, requests, stages)
    BY <1>5, WaitPlace
  <2>2. At(w)' = n
    BY <1>2 DEF At
  <2>3. k \in replicas => k \in replicas'
    <3>1. \A j \in replicas \ replicas' : j[2] \notin Destinations(j[1], requests, stages)
      BY DEF Shifts, Spared
    <3>2. QED
      BY <2>1, <3>1
  <2>4. source[k] # None => source'[k] # None /\ waiters[k] \subseteq waiters'[k]
    BY <2>1 DEF Shifts
  <2>5. k \notin replicas /\ Sources(a, n) = {} => Sources(a, n)' = {}
    <3>1. SUFFICES ASSUME k \notin replicas, Sources(a, n) = {} PROVE Sources(a, n)' = {}
      BY <2>2
    <3>2. \A m \in Nodes : ~Lands(<<a, m>>)
      BY <1>5, <3>1, NoSourceStays
    <3>3. \A m \in Nodes : <<a, m>> \in replicas' => <<a, m>> \in replicas
      BY <3>2 DEF Shifts
    <3> HIDE DEF n, k
    <3>4. {m \in {q \in Nodes : <<a, q>> \in replicas'} : <<m, n>> \in Routes} = {}
      BY <3>1, <3>3 DEF Sources, Copies
    <3>5. QED
      BY <2>2, <3>4 DEF Sources, Copies, n
  <2>6. Blocked(w, a) => Blocked(w, a)'
    <3>1. SUFFICES ASSUME Blocked(w, a) PROVE Blocked(w, a)'
      OBVIOUS
    <3>2. k \notin replicas
      BY <3>1 DEF Blocked
    <3>3. k \notin replicas'
      <4>1. SUFFICES ASSUME Lands(k) PROVE FALSE
        BY <3>2 DEF Shifts
      <4>2. Size[a] = 0 /\ source[k] = None /\ Sources(a, n) # {}
        BY <4>1 DEF Lands
      <4>3. QED
        BY <3>1, <4>2 DEF Blocked
    <3>4. \/ source'[k] # None /\ w \in waiters'[k]
          \/ Sources(a, n)' = {}
          \/ Size[a] > 0
      BY <2>4, <2>5, <3>1, <3>2 DEF Blocked
    <3>5. QED
      BY <2>2, <3>3, <3>4 DEF Blocked
  <2>7. Shut(w, a) => Shut(w, a)'
    <3>1. CASE Crammed({a}, n)
      <4>1. Crammed({a}, n)'
        BY <1>1, <1>4, <2>1, <2>2, <3>1, CrammedStays
      <4>2. QED
        BY <2>2, <4>1 DEF Shut
    <3>2. CASE ~Crammed({a}, n)
      BY <2>2, <2>3, <2>4, <2>5, <3>2 DEF Shut
    <3>3. QED
      BY <3>1, <3>2
  <2>8. QED
    BY <2>3, <2>6, <2>7
<1>6. QED
  BY <1>4, <1>5 DEF Quiet

\* A reservation fails when even all evictions make no room.
LEMMA ReservationFails ==
    ASSUME TypeOK, WithinCapacity, NEW a \in Artifacts, NEW n \in Nodes,
           NEW v \in Reservations(a, n), ~v.ok
    PROVE  /\ a \notin storage[n] /\ Size[a] > 0
           /\ Used(storage[n] \ Evictable(n)) + Size[a] > Storage[n]
<1>1. storage[n] \in SUBSET Artifacts /\ Size[a] \in Nat /\ Storage[n] \in Nat
  BY PlatformAssumption DEF TypeOK
<1>2. \A E : Used(storage[n] \ E) \in Nat
  BY <1>1, StorageSums
<1>3. Used(storage[n]) <= Storage[n] /\ storage[n] \ {} = storage[n]
  BY DEF WithinCapacity
<1>4. a \notin storage[n]
  BY DEF Reservations
<1> DEFINE l == Used(storage[n] \ Evictable(n))
           u == Used(storage[n])
<1>a. l \in Nat /\ u \in Nat
  BY <1>2, <1>3
<1>b. u <= Storage[n]
  BY <1>3
<1>5. CASE Size[a] > Storage[n]
  <2> HIDE DEF l, u
  <2>1. Size[a] > 0 /\ l + Size[a] > Storage[n]
    BY <1>1, <1>5, <1>a
  <2>2. QED
    BY <1>4, <2>1 DEF l
<1>6. CASE ~(Size[a] > Storage[n])
  <2>1. PICK E \in Evictions(a, n) : ~Fits(a, n, E)
    BY <1>4, <1>6 DEF Reservations
  <2>2. ~Fits(a, n, {})
    BY <2>1 DEF Evictions
  <2>3. E = Evictable(n)
    BY <2>1, <2>2 DEF Evictions
  <2>4. ~(Used(storage[n]) + Size[a] <= Storage[n])
    BY <1>3, <2>2 DEF Fits
  <2>5. ~(Used(storage[n] \ Evictable(n)) + Size[a] <= Storage[n])
    BY <2>1, <2>3 DEF Fits
  <2> HIDE DEF l, u
  <2>6. ~(u + Size[a] <= Storage[n]) /\ ~(l + Size[a] <= Storage[n])
    BY <2>4, <2>5 DEF l, u
  <2>7. Size[a] > 0 /\ l + Size[a] > Storage[n]
    BY <1>1, <1>a, <1>b, <2>6
  <2>8. QED
    BY <1>4, <2>7 DEF l
<1>7. QED
  BY <1>5, <1>6

\* One artifact of a visit: it is there, or blocked; and no transfer is left to start.
LEMMA FetchOutcome ==
    ASSUME ControlInv, ControlInv', LedgerInv, Quiet, NEW a \in Artifacts, Fetches(a)
    PROVE  /\ Waits(job.for) /\ a \in Wants(job.for) /\ job.for # None
           /\ job.for \in Stages \cup Requests /\ pc \in {"data", "deliver"}
           /\ job'.for = job.for /\ job'.rest = job.rest \ {a}
           /\ job'.ok => job.ok /\ <<a, At(job.for)>> \in replicas'
           /\ ~job'.ok => ~job.ok \/ Blocked(job.for, a)'
           /\ Shut(job.for, a)'
<1> DEFINE w == job.for
           n == At(w)
           k == <<a, n>>
<1>1. Fetch(a) /\ UNCHANGED <<fetchFrame>> /\ (Fetched(a) \/ NotFetched(a))
  BY DEF Fetches, HaveReplica, JoinTransfer, NoSource, NoRoom, StartTransfer, Wanted, Fetched, NotFetched
<1>2. /\ w # None /\ n \in Nodes /\ k \in Keys /\ w \in Stages \cup Requests /\ WaitsAt(w, k)
      /\ pc \in {"data", "deliver"}
  BY <1>1, Fetching DEF Fetch
<1>3. Waits(w) /\ a \in Wants(w)
  <2>1. a \in job.rest
    BY <1>1 DEF Fetch
  <2>2. CASE pc = "deliver"
    BY <1>2, <2>1, <2>2 DEF ControlInv, Visiting, Waits, Wants
  <2>3. CASE pc = "data"
    <3>1. w \in Stages /\ w \notin Requests
      BY <1>2, <2>3, SetsAssumption DEF ControlInv, Visiting
    <3>2. QED
      BY <1>2, <2>1, <2>3, <3>1 DEF ControlInv, Visiting, Waits, Wants
  <2>4. QED
    BY <1>2, <2>2, <2>3
<1>4. job \in JobTypes /\ source \in [Keys -> Nodes \cup {None}]
      /\ waiters \in [Keys -> SUBSET (Stages \cup Requests)] /\ storage \in [Nodes -> SUBSET Artifacts]
  BY TypeParts DEF ControlInv, LoopTypes, DataTypes
<1>5. /\ job'.for = w /\ job'.rest = job.rest \ {a}
      /\ Fetched(a) => job'.ok = job.ok
      /\ NotFetched(a) => job'.ok = FALSE
  BY <1>1, <1>4 DEF Fetched, NotFetched, JobTypes
<1>6. At(w)' = At(w) /\ job.taken = {} /\ UNCHANGED <<requests, stages, node>>
  <2>1. UNCHANGED <<requests, stages, node>>
    BY <1>1 DEF fetchFrame, requestVars, stageVars
  <2>2. At(w)' = At(w)
    BY <1>5, <2>1 DEF At
  <2>3. QED
    BY <1>2, <2>1, <2>2 DEF ControlInv, Visiting
<1>7. job.ok \in BOOLEAN
  BY <1>4 DEF JobTypes
<1>8. CASE HaveReplica(a)
  <2>1. k \in replicas' /\ Fetched(a)
    BY <1>8 DEF HaveReplica, dataVars
  <2>2. QED
    BY <1>2, <1>3, <1>5, <1>6, <2>1 DEF Shut
<1>9. CASE JoinTransfer(a)
  <2>1. k \notin replicas' /\ source'[k] # None /\ w \in waiters'[k] /\ NotFetched(a)
    BY <1>2, <1>4, <1>9 DEF JoinTransfer
  <2>2. QED
    BY <1>2, <1>3, <1>5, <1>6, <2>1 DEF Shut, Blocked
<1>10. CASE NoSource(a)
  <2>1. k \notin replicas' /\ Sources(a, n)' = {} /\ NotFetched(a)
    <3>1. replicas' = replicas /\ k \notin replicas /\ Sources(a, n) = {} /\ NotFetched(a)
      BY <1>10 DEF NoSource, Wanted, dataVars
    <3>2. QED
      BY <1>6, <3>1 DEF Sources, Copies
  <2>2. QED
    BY <1>2, <1>3, <1>5, <1>6, <2>1 DEF Shut, Blocked
<1>11. CASE NoRoom(a)
  <2>1. PICK v \in Reservations(a, n) : ~v.ok /\ replicas' = replicas \ (v.evicted \X {n})
    BY <1>11 DEF NoRoom, Evicted
  <2>2. k \notin replicas' /\ NotFetched(a)
    BY <1>11, <2>1 DEF NoRoom, Wanted
  <2>3. Size[a] > 0 /\ Used(storage[n] \ Evictable(n)) + Size[a] > Storage[n]
    BY <1>2, <2>1, ReservationFails DEF ControlInv, LedgerInv
  <2>4. Kept(n) = storage[n] \ Evictable(n)
    BY <1>6 DEF Kept, Base, Taken
  <2>5. Used({a}) = Size[a] /\ {a} \in SUBSET Artifacts
    BY OneSum
  <2>6. Crammed({a}, n)
    BY <2>3, <2>4, <2>5 DEF Crammed
  <2>7. Crammed({a}, n)'
    BY <1>2, <1>6, <2>5, <2>6, CrammedStays DEF ControlInv, Quiet
  <2>8. QED
    BY <1>2, <1>3, <1>5, <1>6, <2>2, <2>3, <2>7 DEF Shut, Blocked
<1>12. CASE StartTransfer(a)
  <2>1. PICK m \in Sources(a, n), v \in Reservations(a, n) :
          IF Size[a] = 0 /\ <<m, n>> \in Instant
          THEN replicas' = (replicas \ (v.evicted \X {n})) \cup {k} /\ Fetched(a)
          ELSE /\ replicas' = replicas \ (v.evicted \X {n})
               /\ source' = [source EXCEPT ![k] = m]
               /\ waiters' = [waiters EXCEPT ![k] = {w}]
               /\ NotFetched(a)
    BY <1>12 DEF StartTransfer, Evicted
  <2>2. k \notin replicas
    BY <1>12 DEF StartTransfer, Wanted
  <2>3. m # None
    BY SetsAssumption DEF Sources, Copies
  <2>4. CASE k \in replicas' /\ Fetched(a)
    BY <1>2, <1>3, <1>5, <1>6, <2>4 DEF Shut
  <2>5. CASE k \notin replicas' /\ source'[k] = m /\ waiters'[k] = {w} /\ NotFetched(a)
    BY <1>2, <1>3, <1>5, <1>6, <2>3, <2>5 DEF Shut, Blocked
  <2>6. QED
    BY <1>2, <1>4, <2>1, <2>2, <2>4, <2>5
<1>13. QED
  BY <1>8, <1>9, <1>10, <1>11, <1>12 DEF Fetches

-----------------------------------------------------------------------------
(***************************************************************************)
(* What the steps keep of what a pass has settled.                         *)
(***************************************************************************)
LEMMA QueuedPlace ==
    ASSUME ControlInv, NEW s \in Stages, Dispatchable(s)
    PROVE  node[s] \in Nodes /\ Owed(s) \in SUBSET Artifacts
<1>1. stages[s] \in Placed
  BY DEF Dispatchable, Placed
<1>2. Outputs[s] \in SUBSET Artifacts
  BY WorkflowAssumption
<1>3. QED
  BY <1>1, <1>2 DEF ControlInv, Lived, Owed

\* Data steps keep all of it.
LEMMA ShiftKeeps ==
    ASSUME ControlInv, ControlInv', Shifts, Quiet
    PROVE  /\ \A w \in Stages \cup Requests : (Stuck(w) => Stuck(w)') /\ (Dry(w) => Dry(w)')
           /\ \A s \in Stages : Tight(s) => Tight(s)'
           /\ placements' = placements => \A s \in Stages : Readied(s) => Readied(s)'
<1>1. UNCHANGED <<requests, stages, node, delayed, execs, memory>>
  BY DEF Shifts, requestVars, stageVars, execVars
<1>2. \A w : (Waits(w)' <=> Waits(w)) /\ Wants(w)' = Wants(w)
  BY <1>1 DEF Waits, Wants, Active, AllSucceeded
<1>3. ASSUME NEW w \in Stages \cup Requests
      PROVE  (Stuck(w) => Stuck(w)') /\ (Dry(w) => Dry(w)')
  <2>1. Waits(w) => \A a \in Wants(w) : (Blocked(w, a) => Blocked(w, a)') /\ (Shut(w, a) => Shut(w, a)')
    BY DEF Quiet
  <2>2. Stuck(w) => Stuck(w)'
    BY <1>2, <2>1 DEF Stuck
  <2>3. Dry(w) => Dry(w)'
    BY <1>2, <2>1 DEF Dry
  <2>4. QED
    BY <2>2, <2>3
<1>4. ASSUME NEW s \in Stages, Tight(s), Dispatchable(s)' PROVE Crammed(Owed(s), node[s])'
  <2>1. Dispatchable(s) /\ Owed(s)' = Owed(s)
    BY <1>1, <1>4 DEF Dispatchable, Running, MemoryFits, Owed
  <2>2. node[s] \in Nodes /\ Owed(s) \in SUBSET Artifacts
    BY <2>1, QueuedPlace
  <2>3. Crammed(Owed(s), node[s])
    BY <1>4, <2>1 DEF Tight
  <2> DEFINE S == Owed(s)
             n == node[s]
  <2>4. S' = S /\ n' = n
    BY <1>1, <2>1
  <2> HIDE DEF S, n
  <2>5. Crammed(S, n)'
    BY <2>2, <2>3, <2>4, CrammedStays DEF ControlInv, Quiet, S, n
  <2>6. QED
    BY <2>5 DEF S, n
<1>5. \A s \in Stages : Tight(s) => Tight(s)'
  BY <1>4 DEF Tight
<1>6. placements' = placements => \A s \in Stages : Readied(s) => Readied(s)'
  BY <1>1 DEF Readied, MayBeReady, Active
<1>7. QED
  BY <1>3, <1>5, <1>6

\* So do steps that leave data alone, for who did not begin to wait with them.
Moves ==
    /\ UNCHANGED <<replicas, source, waiters, storage, requests, node>>
    /\ \A s \in Stages : stages'[s] \in Over <=> stages[s] \in Over
    /\ \A n \in Nodes : Taken(n)' \subseteq Taken(n)
LEMMA MoveKeeps ==
    ASSUME ControlInv, ControlInv', Moves
    PROVE  /\ \A w \in Stages \cup Requests :
                 (Waits(w)' => Waits(w)) => (Stuck(w) => Stuck(w)') /\ (Dry(w) => Dry(w)')
           /\ \A s \in Stages :
                 (Dispatchable(s)' => Dispatchable(s) /\ Owed(s)' = Owed(s)) => (Tight(s) => Tight(s)')
<1>1. UNCHANGED <<replicas, source, waiters, storage, requests, node>>
  BY DEF Moves
<1>2. \A x : Destinations(x, requests, stages)' = Destinations(x, requests, stages)
  <2>1. {u \in Stages : requests[RequestOf[u]] = "ACTIVE" /\ stages'[u] \notin Over /\ TRUE} =
        {u \in Stages : requests[RequestOf[u]] = "ACTIVE" /\ stages[u] \notin Over /\ TRUE}
    BY DEF Moves
  <2>2. \A x : {u \in Stages : requests[RequestOf[u]] = "ACTIVE" /\ stages'[u] \notin Over /\ x \in Inputs[u]} =
               {u \in Stages : requests[RequestOf[u]] = "ACTIVE" /\ stages[u] \notin Over /\ x \in Inputs[u]}
    BY DEF Moves
  <2>3. QED
    BY <1>1, <2>2 DEF Destinations
<1>3. ASSUME NEW n \in Nodes PROVE Used(Kept(n)) <= Used(Kept(n))'
  <2>1. \A x \in Kept(n) : x \in Base(n)'
    BY <1>1 DEF Moves, Kept, Base
  <2>2. \A k \in replicas' : k \in replicas
    BY <1>1
  <2>3. \A k \in Keys : source[k] # None => source'[k] = source[k]
    BY <1>1
  <2>4. QED
    BY <1>2, <2>1, <2>2, <2>3, KeptStays DEF ControlInv
<1>4. ASSUME NEW w \in Stages \cup Requests, Waits(w), NEW a \in Wants(w)
      PROVE  (Blocked(w, a) => Blocked(w, a)') /\ (Shut(w, a) => Shut(w, a)')
  <2>1. At(w) \in Nodes /\ a \in Artifacts
    BY <1>4, WaitPlace
  <2>2. At(w)' = At(w) /\ Sources(a, At(w))' = Sources(a, At(w))
    BY <1>1 DEF At, Sources, Copies
  <2>3. Blocked(w, a) => Blocked(w, a)'
    BY <1>1, <2>2 DEF Blocked
  <2>4. Crammed({a}, At(w)) => Crammed({a}, At(w))'
    BY <1>3, <2>1, <2>2, CrammedStays DEF ControlInv
  <2>5. Shut(w, a) => Shut(w, a)'
    BY <1>1, <2>2, <2>4 DEF Shut
  <2>6. QED
    BY <2>3, <2>5
<1>5. ASSUME NEW w \in Stages \cup Requests, Waits(w)' => Waits(w)
      PROVE  (Stuck(w) => Stuck(w)') /\ (Dry(w) => Dry(w)')
  <2>1. Wants(w)' = Wants(w)
    BY DEF Wants
  <2>2. Stuck(w) => Stuck(w)'
    BY <1>4, <1>5, <2>1 DEF Stuck
  <2>3. Dry(w) => Dry(w)'
    BY <1>4, <1>5, <2>1 DEF Dry
  <2>4. QED
    BY <2>2, <2>3
<1>6. ASSUME NEW s \in Stages, Dispatchable(s)' => Dispatchable(s) /\ Owed(s)' = Owed(s),
             Tight(s), Dispatchable(s)'
      PROVE  Crammed(Owed(s), node[s])'
  <2>1. Dispatchable(s) /\ Owed(s)' = Owed(s)
    BY <1>6
  <2>2. node[s] \in Nodes /\ Owed(s) \in SUBSET Artifacts
    BY <2>1, QueuedPlace
  <2>3. Crammed(Owed(s), node[s])
    BY <1>6, <2>1 DEF Tight
  <2> DEFINE S == Owed(s)
             n == node[s]
  <2>4. S' = S /\ n' = n
    BY <1>1, <2>1
  <2> HIDE DEF S, n
  <2>5. Crammed(S, n)'
    BY <1>3, <2>2, <2>3, <2>4, CrammedStays DEF ControlInv, S, n
  <2>6. QED
    BY <2>5 DEF S, n
<1>7. \A s \in Stages : (Dispatchable(s)' => Dispatchable(s) /\ Owed(s)' = Owed(s)) => (Tight(s) => Tight(s)')
  BY <1>6 DEF Tight
<1>8. QED
  BY <1>5, <1>7

\* _collect_data takes nothing that an eviction could not take.
LEMMA CollectShifts ==
    ASSUME ControlInv, Collect
    PROVE  Shifts
<1>1. UNCHANGED <<requestVars, stageVars, source, waiters, execVars, job>>
  BY DEF Collect, loopVars
<1>2. /\ replicas' \in Collected(replicas, requests, stages, source)
      /\ storage' = [n \in Nodes |-> storage[n] \ {a \in Artifacts : <<a, n>> \in replicas \ replicas'}]
  BY DEF Collect
<1>3. replicas \subseteq Keys /\ storage \in [Nodes -> SUBSET Artifacts] /\ job.taken = {}
  BY TypeParts DEF ControlInv, DataTypes, Collect, Visiting, NoJob
<1>4. replicas' \subseteq replicas
  BY <1>2, CollectedSubset
<1>5. replicas \cap replicas' = replicas' /\ Spared(replicas', requests, stages, source)
  BY <1>2, <1>3, <1>4, CollectionSpares
<1>6. ASSUME NEW n \in Nodes, NEW x \in Kept(n) PROVE x \in Base(n)'
  <2>1. x \in storage[n] /\ x \notin Evictable(n) /\ x \in Artifacts
    BY <1>3 DEF Kept, Base
  <2>2. ASSUME <<x, n>> \in replicas, <<x, n>> \notin replicas' PROVE FALSE
    <3>1. Pinned(<<x, n>>, replicas, requests, stages, source)
      BY <2>1, <2>2 DEF Evictable
    <3>2. ~Pinned(<<x, n>>, replicas' \cup {<<x, n>>}, requests, stages, source)
      BY <1>2, <2>2 DEF Collected
    <3>3. replicas' \cup {<<x, n>>} \subseteq replicas
      BY <1>4, <2>2
    <3>4. \A d : NeededAt(x, n, d, replicas) => NeededAt(x, n, d, replicas' \cup {<<x, n>>})
      BY <3>3 DEF NeededAt
    <3>5. QED
      BY <3>1, <3>2, <3>4 DEF Pinned
  <2>3. x \in storage'[n]
    BY <1>2, <2>1, <2>2
  <2>4. Taken(n)' = {}
    BY <1>1, <1>3 DEF Taken
  <2>5. QED
    BY <2>3, <2>4 DEF Base
<1>7. /\ \A k \in replicas' : k \in replicas
      /\ \A k \in Keys : source'[k] = source[k] /\ waiters'[k] = waiters[k]
  BY <1>1, <1>4
<1>8. QED
  BY <1>1, <1>5, <1>6, <1>7 DEF Shifts

\* A stage moves on, not to wait for data and not to its end.
LEMMA StatusMoves ==
    ASSUME ControlInv, NEW s \in Stages, NEW to \in {"READY", "QUEUED", "RUNNING"},
           stages' = [stages EXCEPT ![s] = to], stages[s] \notin Over,
           UNCHANGED <<requests, node, replicas, source, waiters, storage>>,
           \A n \in Nodes : Taken(n)' \subseteq Taken(n)
    PROVE  Moves /\ \A w \in Stages \cup Requests : Waits(w)' => Waits(w)
<1>1. stages \in [Stages -> StageStatuses]
  BY DEF ControlInv, TypeOK
<1>2. stages'[s] = to /\ \A u \in Stages \ {s} : stages'[u] = stages[u]
  BY <1>1
<1>3. \A u \in Stages : stages'[u] \in Over <=> stages[u] \in Over
  BY <1>2 DEF Over
<1>4. \A u \in Stages : stages'[u] \in {"WAITING_DATA", "SUCCEEDED"} => stages[u] = stages'[u]
  BY <1>2
<1>5. \A r : \A u \in StagesOf(r) : u \in Stages
  BY DEF StagesOf
<1>6. ASSUME NEW w \in Stages \cup Requests, Waits(w)' PROVE Waits(w)
  <2>1. CASE w \in Requests
    <3>1. Active(w) /\ AllSucceeded(w)
      BY <1>4, <1>5, <1>6, <2>1 DEF Waits, Active, AllSucceeded
    <3>2. QED
      BY <2>1, <3>1 DEF Waits
  <2>2. CASE w \notin Requests
    BY <1>4, <1>6, <2>2 DEF Waits
  <2>3. QED
    BY <2>1, <2>2
<1>7. QED
  BY <1>3, <1>6 DEF Moves

\* A stage begins to run.
LEMMA StartMoves ==
    ASSUME ControlInv, ControlInv', NEW s \in Stages, StartStage(s)
    PROVE  /\ Moves /\ UNCHANGED <<requests, placements>> /\ job' = NoJob
           /\ stages' = [stages EXCEPT ![s] = "RUNNING"] /\ stages[s] = "QUEUED"
           /\ \A w \in Stages \cup Requests : Waits(w)' => Waits(w)
           /\ \A u \in Stages \ {s} : Dispatchable(u)' => Dispatchable(u) /\ Owed(u)' = Owed(u)
<1>1. /\ stages' = [stages EXCEPT ![s] = "RUNNING"] /\ job' = NoJob
      /\ memory' = [memory EXCEPT ![node[s]] = @ \cup {s}] /\ execs' = execs \cup {s}
      /\ UNCHANGED <<requests, node, delayed, replicas, source, waiters, storage, placements>>
  BY DEF StartStage, requestVars, dataVars
<1>2. job.for = s /\ pc = "dispatch" /\ s # None
  BY SetsAssumption DEF StartStage
<1>3. Dispatchable(s) /\ stages[s] = "QUEUED" /\ node[s] \in Nodes
  <2>1. Dispatchable(s)
    BY <1>2 DEF ControlInv, Visiting
  <2>2. QED
    BY <2>1, QueuedPlace DEF Dispatchable
<1>4. stages \in [Stages -> StageStatuses] /\ memory \in [Nodes -> SUBSET Stages] /\ execs \subseteq Stages
  BY DEF ControlInv, TypeOK
<1>5. /\ stages'[s] = "RUNNING" /\ \A u \in Stages \ {s} : stages'[u] = stages[u]
      /\ \A n \in Nodes : memory'[n] = IF n = node[s] THEN memory[n] \cup {s} ELSE memory[n]
  BY <1>1, <1>3, <1>4
<1>6. \A n \in Nodes : Taken(n)' \subseteq Taken(n)
  BY <1>1, SetsAssumption DEF Taken, NoJob
<1>7. stages[s] \notin Over
  BY <1>3 DEF Over
<1>8. Moves /\ \A w \in Stages \cup Requests : Waits(w)' => Waits(w)
  BY <1>1, <1>6, <1>7, StatusMoves
<1>9. ASSUME NEW u \in Stages \ {s}, Dispatchable(u)'
      PROVE  Dispatchable(u) /\ Owed(u)' = Owed(u)
  <2>1. stages[u] = "QUEUED" /\ u \notin delayed /\ node' = node
    BY <1>1, <1>5, <1>9 DEF Dispatchable
  <2>2. node[u] \in Nodes
    BY <2>1 DEF ControlInv, Lived, Placed
  <2> DEFINE n == node[u]
             R == {v \in Stages : stages[v] = "RUNNING" /\ node[v] = n}
             Q == {v \in Stages : stages'[v] = "RUNNING" /\ node[v] = n}
  <2>3. R \subseteq Q /\ Q \subseteq Stages
    BY <1>3, <1>5
  <2>4. Cardinality(R) <= Cardinality(Q) /\ Cardinality(R) \in Nat /\ Cardinality(Q) \in Nat
    <3>1. IsFiniteSet(Q) /\ IsFiniteSet(R)
      BY <2>3, SetsAssumption, FS_Subset
    <3> HIDE DEF Q, R
    <3>2. QED
      BY <2>3, <3>1, FS_Subset, FS_CardinalityType
  <2>5. Running(n) = R /\ Running(n)' = Q
    BY <1>1 DEF Running
  <2>6. Cardinality(Q) < Cores[n]
    BY <1>9, <2>1, <2>5 DEF Dispatchable, Running
  <2>7. Cores[n] \in Nat
    BY <2>2, PlatformAssumption
  <2> HIDE DEF Q, R
  <2>8. Cardinality(Running(n)) < Cores[n]
    BY <2>4, <2>5, <2>6, <2>7
  <2>9. MemoryFits(u, n)
    <3>1. u \in memory'[n] \/ MemoryUsed(memory'[n]) + MemoryOf[u] <= Memory[n]
      BY <1>9, <2>1 DEF Dispatchable, MemoryFits, MemoryUsed
    <3>2. memory[n] \in SUBSET memory'[n] /\ memory'[n] \in SUBSET Stages /\ (u \in memory'[n] => u \in memory[n])
      BY <1>4, <1>5, <2>2
    <3>3. MemoryUsed(memory[n]) <= MemoryUsed(memory'[n])
          /\ MemoryUsed(memory[n]) \in Nat /\ MemoryUsed(memory'[n]) \in Nat
      BY <3>2, MemorySums
    <3>4. MemoryOf[u] \in Nat /\ Memory[n] \in Nat
      BY <2>2, PlatformAssumption
    <3>6. CASE u \in memory'[n]
      BY <3>2, <3>6 DEF MemoryFits
    <3>7. CASE MemoryUsed(memory'[n]) + MemoryOf[u] <= Memory[n]
      <4>1. MemoryUsed(memory[n]) + MemoryOf[u] <= Memory[n]
        BY <3>3, <3>4, <3>7
      <4>2. QED
        BY <4>1 DEF MemoryFits
    <3>8. QED
      BY <3>1, <3>6, <3>7
  <2>10. Dispatchable(u)
    BY <2>1, <2>8, <2>9 DEF Dispatchable
  <2>11. Owed(u)' = Owed(u)
    BY <1>1 DEF Owed
  <2>12. QED
    BY <2>10, <2>11
<1>10. QED
  BY <1>1, <1>3, <1>8, <1>9

\* A step that only goes on with the loops.
LEMMA IdleKeeps ==
    ASSUME ControlInv, ControlInv', job.taken = {}, job'.taken = {},
           UNCHANGED <<requests, stages, node, delayed, replicas, source, waiters, storage, execs, memory>>
    PROVE  /\ \A w \in Stages \cup Requests : (Stuck(w) => Stuck(w)') /\ (Dry(w) => Dry(w)')
           /\ \A s \in Stages : Tight(s) => Tight(s)'
           /\ placements' = placements => \A s \in Stages : Readied(s) => Readied(s)'
<1>1. Moves
  BY DEF Moves, Taken
<1>2. \A w : Waits(w)' <=> Waits(w)
  BY DEF Waits, Active, AllSucceeded
<1>3. \A s \in Stages : (Dispatchable(s)' <=> Dispatchable(s)) /\ Owed(s)' = Owed(s)
  BY DEF Dispatchable, Running, MemoryFits, Owed
<1>4. placements' = placements => \A s \in Stages : Readied(s) => Readied(s)'
  BY DEF Readied, MayBeReady, Active
<1>5. QED
  BY <1>1, <1>2, <1>3, <1>4, MoveKeeps

\* The end of a request leaves those of the others blocked that were.
LEMMA FinishKeeps ==
    ASSUME ControlInv, NEW r \in Requests, NEW o \in Outcomes, Finish(r, o)
    PROVE  /\ \A w \in Stages \cup Requests : Stuck(w) => Stuck(w)'
           /\ Having("SUCCEEDED")' = Having("SUCCEEDED")
           /\ placements' = placements => \A s \in Stages : Readied(s) => Readied(s)'
<1>1. /\ requests' = [requests EXCEPT ![r] = o]
      /\ stages' = [s \in Stages |-> IF s \in Cancelled(r) THEN "CANCELLED" ELSE stages[s]]
      /\ UNCHANGED node
  BY FinishStatus
<1>2. /\ waiters' = [k \in Keys |-> Left(r, k)]
      /\ source' = [k \in Keys |-> IF k \in Dropped(r) THEN None ELSE source[k]]
      /\ replicas' \in Collected(replicas, requests', stages', source')
  BY FinishData
<1>3. replicas' \subseteq replicas
  BY <1>2, CollectedSubset
<1>4. requests \in [Requests -> RequestStatuses] /\ o \notin {"ACTIVE", "PENDING"}
  BY DEF ControlInv, TypeOK, Outcomes
<1>5. \A s \in Stages : s \in Cancelled(r) => stages[s] \notin Over /\ RequestOf[s] = r
  BY DEF Cancelled, StagesOf
<1>6. Having("SUCCEEDED")' = Having("SUCCEEDED")
  <2>1. \A s \in Stages : stages'[s] = "SUCCEEDED" <=> stages[s] = "SUCCEEDED"
    BY <1>1, <1>5 DEF Over
  <2>2. QED
    BY <2>1 DEF Having
<1>7. \A q \in Requests : requests'[q] = "ACTIVE" => requests[q] = "ACTIVE" /\ q # r
  BY <1>1, <1>4
<1>8. ASSUME NEW w \in Stages \cup Requests, Waits(w)'
      PROVE  Waits(w) /\ w # r /\ w \notin StagesOf(r)
  <2>1. CASE w \in Requests
    <3>1. Active(w) /\ w # r
      BY <1>7, <1>8, <2>1 DEF Waits, Active
    <3>2. \A s \in StagesOf(w) : s \in Stages /\ stages'[s] = "SUCCEEDED"
      BY <1>8, <2>1 DEF Waits, AllSucceeded, StagesOf
    <3>3. AllSucceeded(w)
      BY <1>1, <3>2 DEF AllSucceeded
    <3>4. QED
      BY <2>1, <3>1, <3>3, SetsAssumption DEF Waits, StagesOf
  <2>2. CASE w \notin Requests
    <3>1. w \in Stages /\ stages'[w] = "WAITING_DATA"
      BY <1>8, <2>2 DEF Waits
    <3>2. stages[w] = "WAITING_DATA" /\ w \notin Cancelled(r)
      BY <1>1, <3>1
    <3>3. QED
      BY <2>2, <3>1, <3>2 DEF Waits, Cancelled, StagesOf, Over
  <2>3. QED
    BY <2>1, <2>2
<1>9. ASSUME NEW w \in Stages \cup Requests, Stuck(w), Waits(w)'
      PROVE  \E a \in Wants(w)' : Blocked(w, a)'
  <2>1. Waits(w) /\ w # r /\ w \notin StagesOf(r) /\ Wants(w)' = Wants(w) /\ At(w)' = At(w)
    BY <1>1, <1>8, <1>9 DEF Wants, At
  <2>2. PICK a \in Wants(w) : Blocked(w, a)
    BY <1>9, <2>1 DEF Stuck
  <2> DEFINE k == <<a, At(w)>>
  <2>3. k \in Keys
    BY <2>1, WaitPlace
  <2>4. k \notin replicas'
    BY <1>3, <2>2 DEF Blocked
  <2>5. source[k] # None /\ w \in waiters[k] => source'[k] # None /\ w \in waiters'[k]
    <3>1. w \in waiters[k] => w \in Left(r, k)
      BY <2>1 DEF Left
    <3>2. w \in Left(r, k) => k \notin Dropped(r)
      BY DEF Dropped
    <3>3. QED
      BY <1>2, <2>3, <3>1, <3>2
  <2>6. Sources(a, At(w)) = {} => Sources(a, At(w))' = {}
    BY <1>3, <2>1 DEF Sources, Copies
  <2>7. QED
    BY <2>1, <2>2, <2>4, <2>5, <2>6 DEF Blocked
<1>10. \A w \in Stages \cup Requests : Stuck(w) => Stuck(w)'
  BY <1>9 DEF Stuck
<1>11. ASSUME placements' = placements, NEW s \in Stages, Readied(s), MayBeReady(s)'
       PROVE  stages'[s] = "READY" /\ (External \/ placements'[s] # None)
  <2>1. Active(RequestOf[s]) /\ stages'[s] \in {"READY", "WAITING_DEPENDENCIES"}
    BY <1>7, <1>11, OfRequest DEF MayBeReady, Active
  <2>2. stages'[s] = stages[s]
    BY <1>1, <2>1
  <2>3. \A d \in Dependencies[s] : d \in Stages
    BY WorkflowAssumption
  <2>4. stages[s] = "WAITING_DEPENDENCIES" => \A d \in Dependencies[s] : stages'[d] = "SUCCEEDED"
    BY <1>11, <2>2 DEF MayBeReady
  <2>5. stages[s] = "WAITING_DEPENDENCIES" => \A d \in Dependencies[s] : stages[d] = "SUCCEEDED"
    BY <1>1, <2>3, <2>4
  <2>6. MayBeReady(s)
    BY <2>1, <2>2, <2>5 DEF MayBeReady
  <2>7. QED
    BY <1>11, <2>2, <2>6 DEF Readied
<1>12. QED
  BY <1>6, <1>10, <1>11 DEF Readied

-----------------------------------------------------------------------------
(***************************************************************************)
(* The grounds.                                                            *)
(***************************************************************************)
LEMMA OriginsStay ==
    ASSUME ControlInv, Origins \subseteq replicas, StepKinds
    PROVE  Origins \subseteq replicas'
<1>1. ASSUME NEW rq, NEW st, NEW src, NEW K \in Collected(replicas, rq, st, src)
      PROVE  Origins \subseteq K
  <2>1. \A k \in replicas \ K : k[1] \notin Cacheable /\ ~Pinned(k, K \cup {k}, rq, st, src)
    BY DEF Collected
  <2>2. QED
    BY <2>1 DEF Pinned
<1>2. ASSUME NEW n \in Nodes, NEW E \in SUBSET Evictable(n)
      PROVE  Origins \subseteq replicas \ (E \X {n})
  <2>1. \A k \in E \X {n} : ~Pinned(<<k[1], n>>, replicas, requests, stages, source) /\ k = <<k[1], n>>
    BY DEF Evictable
  <2>2. QED
    BY <2>1 DEF Pinned
<1>3. ASSUME NEW r \in Requests, Resolve(r) PROVE Origins \subseteq replicas'
  BY <1>1, <1>3, FinishData DEF Resolve
<1>4. CASE Collect
  BY <1>1, <1>4 DEF Collect
<1>5. ASSUME NEW a \in Artifacts, NoRoom(a) PROVE Origins \subseteq replicas'
  BY <1>2, <1>5, FindsNoRoom
<1>6. ASSUME NEW a \in Artifacts, ReserveOutput(a) PROVE Origins \subseteq replicas'
  BY <1>2, <1>6, ReservesOutput
<1>7. ASSUME NEW a \in Artifacts, StartTransfer(a) PROVE Origins \subseteq replicas'
  <2> DEFINE n == At(job.for)
  <2>1. PICK v \in Reservations(a, n) : replicas \ (v.evicted \X {n}) \subseteq replicas'
    BY <1>7 DEF StartTransfer, Evicted
  <2>2. n \in Nodes
    BY <1>7, Fetching DEF StartTransfer, Wanted
  <2>3. v.evicted \in SUBSET Evictable(n)
    BY <2>2, ReservationFacts
  <2>4. QED
    BY <1>2, <2>1, <2>2, <2>3
<1>8. CASE Reap
  BY <1>8 DEF Reap
<1>9. QED
  BY <1>3, <1>4, <1>5, <1>6, <1>7, <1>8
     DEF StepKinds, finishVars, dataVars, Arrive, Readies, Gathered, StartStage, Switches, Places, Wakes,
         Closes, JoinTransfer

LEMMA AdmittedKeeps ==
    ASSUME ControlInv, ControlInv', DataInv, Admitted, StepKinds
    PROVE  Admitted'
<1>1. requests \in [Requests -> RequestStatuses] /\ stages \in [Stages -> StageStatuses]
  BY DEF ControlInv, TypeOK
<1>2. ASSUME NEW r \in Requests, requests'[r] = "ACTIVE" PROVE requests[r] = "ACTIVE" \/ Arrive(r)
  <2>1. ASSUME NEW q \in Requests, Resolve(q) PROVE requests[r] = "ACTIVE"
    <3>1. PICK o \in Outcomes : Finish(q, o)
      BY <2>1 DEF Resolve
    <3>2. requests' = [requests EXCEPT ![q] = o] /\ o # "ACTIVE"
      BY <3>1, FinishStatus DEF Outcomes
    <3>3. QED
      BY <1>1, <1>2, <3>2
  <2>2. ASSUME NEW q \in Requests, Arrive(q) PROVE requests[r] = "ACTIVE" \/ Arrive(r)
    BY <1>1, <1>2, <2>2 DEF Arrive
  <2>3. QED
    BY <1>2, <2>1, <2>2
       DEF StepKinds, finishVars, requestVars, Readies, Gathered, StartStage, Switches, Places, Wakes, Reap,
           Closes, JoinTransfer, NoRoom, StartTransfer, ReserveOutput, fetchFrame, Collect
<1>3. ASSUME NEW r \in Requests, Active(r)' PROVE ~ReceiverInfeasible(r)
  BY <1>2, <1>3 DEF Active, Admitted, Arrive
<1>4. ASSUME NEW s \in Stages, stages'[s] = "READY" PROVE stages[s] = "READY" \/ Readies(s)
  <2>1. ASSUME NEW q \in Requests, Resolve(q) PROVE stages[s] = "READY"
    <3>1. PICK o \in Outcomes : Finish(q, o)
      BY <2>1 DEF Resolve
    <3>2. stages' = [u \in Stages |-> IF u \in Cancelled(q) THEN "CANCELLED" ELSE stages[u]]
      BY <3>1, FinishStatus
    <3>3. QED
      BY <1>4, <3>2
  <2>2. ASSUME NEW u \in Stages, Readies(u) \/ Gathered(u) \/ StartStage(u) \/ Switches(u)
        PROVE  stages[s] = "READY" \/ Readies(s)
    BY <1>1, <1>4, <2>2 DEF Readies, Gathered, StartStage, Switches
  <2>3. CASE Reap
    BY <1>4, <2>3 DEF Reap
  <2>4. ASSUME NEW P \in SUBSET Stages, Places(P) PROVE stages[s] = "READY"
    BY <1>4, <2>4 DEF Places
  <2>5. QED
    BY <1>4, <2>1, <2>2, <2>3, <2>4
       DEF StepKinds, finishVars, stageVars, Arrive, Wakes, Closes, JoinTransfer, NoRoom, StartTransfer,
           ReserveOutput, fetchFrame, Collect
<1>5. ASSUME NEW s \in Stages, stages'[s] = "READY" PROVE Candidates(s)' # {}
  <2>1. CASE stages[s] = "READY"
    <3>1. Candidates(s) \subseteq Candidates(s)'
      BY <1>5, <2>1, CandidatesStay
    <3>2. QED
      BY <2>1, <3>1 DEF Admitted
  <2>2. CASE Readies(s)
    <3>1. Candidates(s)' = Candidates(s) /\ Candidates(s) # {}
      BY <2>2 DEF Readies, dataVars, Candidates, Copies
    <3>2. QED
      BY <3>1
  <2>3. QED
    BY <1>4, <1>5, <2>1, <2>2
<1>6. \A r \in Requests : ReceiverInfeasible(r)' <=> ReceiverInfeasible(r)
  BY DEF ReceiverInfeasible, StagesOf, Reaches, Used
<1>7. Origins \subseteq replicas'
  BY OriginsStay DEF Admitted
<1>8. QED
  BY <1>3, <1>5, <1>6, <1>7 DEF Admitted

\* How the loops follow one another.
LEMMA LoopingKeeps ==
    ASSUME ControlInv, Looping, [Next]_vars
    PROVE  Looping'
<1> USE DEF requestVars, stageVars, dataVars, execVars, engineVars, loopVars, clientVars
<1>1. /\ \A s \in Stages : placements[s] # None => pc = "ready" /\ changed
      /\ landed # {} => pc = "reap" /\ round = "first"
      /\ pc \in {"ready", "data", "dispatch"} => round # "first"
      /\ pc = "expire" => round # "again"
      /\ Under => passes >= 1
      /\ pc \in {"deliver", "expire", "arrive", "ready", "data"} \/ (Under /\ ~changed) =>
            \A s \in ended : stages[s] = "SUSPENDED"
  BY DEF Looping
<1>2. /\ stages \in [Stages -> StageStatuses] /\ ended \subseteq execs /\ execs \subseteq Stages
      /\ placements \in [Stages -> Nodes \cup {None}] /\ round \in {"first", "active", "again"}
      /\ passes \in Nat
  BY PassBound DEF ControlInv, TypeOK
<1>3. ASSUME NEW r \in Requests, NEW o, Finish(r, o)
      PROVE  /\ landed' \subseteq landed /\ ended' \subseteq ended
             /\ \A s \in ended' : stages'[s] = stages[s]
  <2>1. /\ stages' = [s \in Stages |-> IF s \in Cancelled(r) THEN "CANCELLED" ELSE stages[s]]
        /\ ended' = ended \ Cancelled(r)
    BY <1>3, FinishStatus
  <2>2. landed' = landed \ Dropped(r)
    BY <1>3, FinishData
  <2>3. QED
    BY <1>2, <2>1, <2>2
<1>4. CASE Reap
  <2>1. landed' = {} /\ pc' = "deliver" /\ UNCHANGED <<round, passes, placements>> /\ pc = "reap"
    BY <1>4 DEF Reap, Loop
  <2>2. \A s \in ended' : stages'[s] = "SUSPENDED"
    BY <1>2, <1>4 DEF Reap
  <2>3. QED
    BY <1>1, <2>1, <2>2 DEF Looping, Under
<1>5. CASE PlaceAll
  <2>1. /\ pc = "ready" /\ pc' = "data" /\ UNCHANGED <<landed, ended, round, passes, changed>>
        /\ \A s \in Stages : placements'[s] = None
        /\ \A s \in Stages : stages[s] = "SUSPENDED" => stages'[s] = stages[s]
    BY <1>5 DEF PlaceAll, Loop
  <2>2. QED
    BY <1>1, <1>2, <2>1 DEF Looping, Under
<1>6. ASSUME NEW r \in Requests, Deliver(r) \/ Delivered(r) PROVE Looping'
  <2>1. pc = "deliver" /\ UNCHANGED <<pc, round, passes, placements>>
    BY <1>6 DEF Deliver, Delivered
  <2>2. landed' \subseteq landed /\ \A s \in ended' : s \in ended /\ stages'[s] = stages[s]
    BY <1>3, <1>6 DEF Deliver, Delivered, finishVars
  <2>3. QED
    BY <1>1, <2>1, <2>2 DEF Looping, Under
<1>7. ASSUME NEW r \in Requests, Expire(r) \/ Arrive(r) \/ Refuse(r) \/ Fail(r) PROVE Looping'
  <2>1. pc \in {"expire", "arrive", "fail"} /\ UNCHANGED <<pc, round, passes, placements, changed>>
    BY <1>7 DEF Expire, Arrive, Refuse, Fail
  <2>2. landed' \subseteq landed /\ \A s \in ended' : s \in ended /\ stages'[s] = stages[s]
    BY <1>3, <1>7 DEF Expire, Arrive, Refuse, Fail
  <2>3. QED
    BY <1>1, <2>1, <2>2 DEF Looping, Under
<1>8. ASSUME NEW a \in Artifacts, Fetches(a) \/ ReserveOutput(a) PROVE Looping'
  <2>1. /\ UNCHANGED <<pc, stages, landed, ended, round, changed, passes, placements>>
    BY <1>8 DEF Fetches, HaveReplica, JoinTransfer, NoSource, NoRoom, StartTransfer, ReserveOutput, fetchFrame
  <2>2. QED
    BY <1>1, <2>1 DEF Looping, Under
<1>9. ASSUME NEW s \in Stages, MakeReady(s) PROVE Looping'
  <2>1. /\ pc = "ready" /\ UNCHANGED <<pc, round, passes>>
        /\ changed' = FALSE => placements' = placements /\ changed = FALSE
    <3>1. pc = "ready" /\ UNCHANGED <<pc, round, passes>>
      BY <1>9 DEF MakeReady
    <3>2. \/ changed' = TRUE
          \/ changed' = (changed \/ stages[s] # "READY") /\ placements' = placements
      BY <1>9 DEF MakeReady
    <3>3. changed \in BOOLEAN
      BY DEF ControlInv, TypeOK
    <3>4. QED
      BY <3>1, <3>2, <3>3
  <2>2. landed' \subseteq landed /\ \A u \in ended' : u \in ended /\ (stages[u] = "SUSPENDED" => stages'[u] = stages[u])
    <3>1. CASE Finish(RequestOf[s], "REJECTED")
      BY <1>3, <3>1, OfRequest
    <3>2. CASE stages' = [stages EXCEPT ![s] = "READY"] /\ UNCHANGED engineVars
      BY <1>2, <1>9, <3>2 DEF MakeReady, MayBeReady
    <3>3. QED
      BY <1>9, <3>1, <3>2 DEF MakeReady
  <2>3. changed' \in BOOLEAN /\ (changed' = FALSE => changed = FALSE)
    BY <1>2, <1>9 DEF MakeReady, ControlInv, TypeOK
  <2>4. \A u \in Stages : placements'[u] # None => changed'
    BY <1>1, <2>1, <2>3
  <2>5. QED
    BY <1>1, <2>1, <2>2, <2>4 DEF Looping, Under
<1>10. ASSUME NEW s \in Stages, Gather(s) \/ Gathered(s) \/ Dispatch(s) \/ SkipStage(s) PROVE Looping'
  <2>1. /\ pc \in {"data", "dispatch"} /\ UNCHANGED <<pc, round, passes, placements, landed, ended>>
        /\ ~changed' => ~changed
    BY <1>10 DEF Gather, Gathered, Dispatch, SkipStage, finishVars
  <2>2. \A u \in Stages : stages[u] = "SUSPENDED" => stages'[u] = stages[u]
    <3>1. CASE Gathered(s)
      <4>1. job.for = s /\ s # None
        BY <3>1, SetsAssumption DEF Gathered
      <4>2. stages[s] = "WAITING_DATA"
        BY <3>1, <4>1 DEF Gathered, ControlInv, Visiting
      <4>3. QED
        BY <1>2, <3>1, <4>2 DEF Gathered
    <3>2. QED
      BY <1>10, <3>1 DEF Gather, Dispatch, SkipStage, finishVars
  <2>3. QED
    BY <1>1, <1>2, <2>1, <2>2 DEF Looping, Under
<1>11. ASSUME NEW s \in Stages, StartStage(s) PROVE Looping'
  <2>1. pc = "dispatch" /\ UNCHANGED <<pc, round, passes, placements, landed>> /\ changed' = TRUE
    BY <1>11 DEF StartStage
  <2>2. QED
    BY <1>1, <2>1 DEF Looping, Under
<1>12. CASE EndDeliver
  <2>1. /\ pc = "deliver" /\ UNCHANGED <<round, placements, landed, ended, stages>>
        /\ pc' \in {"reap", "ready", "collect", "expire"}
        /\ pc' = "reap" => round = "first"
        /\ pc' = "ready" => round # "first" /\ passes' = passes + 1
        /\ pc' = "expire" => round # "again"
    BY <1>12 DEF EndDeliver, Loop, Pass, restFrame, finishVars
  <2>2. QED
    BY <1>1, <1>2, <2>1 DEF Looping, Under
<1>13. CASE EndExpire \/ EndArrive
  <2>1. /\ pc \in {"expire", "arrive"} /\ UNCHANGED <<placements, landed, ended, stages>>
        /\ pc' \in {"ready", "arrive", "collect"}
        /\ pc' = "ready" => round' # "first" /\ passes' = 1
    BY <1>13 DEF EndExpire, EndArrive, Loop, Pass, restFrame, finishVars
  <2>2. QED
    BY <1>1, <1>2, <2>1 DEF Looping, Under
<1>14. CASE EndData \/ EndDispatch
  <2>1. /\ pc \in {"data", "dispatch"} /\ pc' \in {"dispatch", "reap"}
        /\ UNCHANGED <<round, passes, changed, placements, landed, ended, stages>>
    BY <1>14 DEF EndData, EndDispatch, Loop, restFrame, finishVars
  <2>2. QED
    BY <1>1, <1>2, <2>1 DEF Looping, Under
<1>15. CASE Collect \/ Return \/ Deadlock \/ EndFail \/ Decision \/ \E limit \in Boundaries : Advance(limit)
  <2>1. pc \notin {"reap", "deliver", "expire", "arrive", "ready", "data", "dispatch"}
    BY <1>15 DEF Collect, Return, Deadlock, EndFail, Decision, Apply, ApplyCommand, EndApply, Advance
  <2>2. /\ placements' = placements
        /\ pc' = "reap" => round' = "first"
        /\ pc' \notin {"deliver", "expire", "arrive", "ready", "data", "dispatch"}
    BY <1>15, <2>1 DEF Collect, Return, Deadlock, EndFail, Decision, Apply, ApplyCommand, EndApply, Advance,
                       Settling, Loop
  <2>3. landed' = {}
    <3>1. landed = {}
      BY <1>1, <2>1
    <3>2. CASE \E c \in batch : ApplyCommand(c)
      <4>1. PICK c \in batch : ApplyCommand(c)
        BY <3>2
      <4>2. c[1] = "reject" => c[2] \in Requests
        BY CommandFacts DEF ControlInv, TypeOK
      <4>3. landed' = landed \/ (c[1] = "reject" /\ Finish(c[2], "REJECTED"))
        BY <4>1 DEF ApplyCommand
      <4>4. QED
        BY <1>3, <3>1, <4>2, <4>3
    <3>3. QED
      BY <1>15, <3>1, <3>2
         DEF Collect, Return, Deadlock, EndFail, Decision, Apply, EndApply, Advance, finishVars
  <2>4. QED
    BY <1>1, <2>1, <2>2, <2>3 DEF Looping, Under
<1>16. CASE Sleep
  <2>1. pc = "wait" /\ pc' = "reap" /\ round' = "first" /\ placements' = placements
    BY <1>16 DEF Sleep, Wait, Settling, Loop
  <2>2. QED
    BY <1>1, <2>1 DEF Looping, Under
<1>17. CASE Close
  <2>1. pc = "idle" /\ pc' = "closed" /\ landed' = {} /\ placements' = placements
    BY <1>17 DEF Close
  <2>2. QED
    BY <1>1, <2>1 DEF Looping, Under
<1>18. CASE Closed \/ UNCHANGED vars
  <2>1. UNCHANGED <<pc, round, landed, ended, stages, placements, changed, passes>>
    BY <1>18 DEF Closed, vars
  <2>2. QED
    BY <1>1, <2>1 DEF Looping, Under
<1>19. QED
  BY <1>4, <1>5, <1>6, <1>7, <1>8, <1>9, <1>10, <1>11, <1>12, <1>13, <1>14, <1>15, <1>16, <1>17, <1>18
     DEF Next, Settle, Fetches

LEMMA GroundsStart == Init => Grounds
<1> SUFFICES ASSUME Init PROVE Grounds
  OBVIOUS
<1>1. /\ \A s \in Stages : stages[s] = "WAITING_DEPENDENCIES" /\ placements[s] = None
      /\ \A r \in Requests : requests[r] = "PENDING"
      /\ replicas = Origins /\ landed = {} /\ ended = {} /\ pc = "idle"
  BY DEF Init
<1>2. Admitted
  BY <1>1 DEF Admitted, Active
<1>3. Looping
  BY <1>1 DEF Looping, Under
<1>4. QED
  BY <1>2, <1>3 DEF Grounds

LEMMA GroundsInvariant == Spec => []Grounds
<1>1. Init => Grounds
  BY GroundsStart
<1>2. ControlInv /\ ControlInv' /\ DataInv /\ Grounds /\ [Next]_vars => Grounds'
  BY Kinds, AdmittedKeeps, LoopingKeeps DEF Grounds
<1>3. QED
  BY <1>1, <1>2, ControlInvariant, DataInvariant, PTL DEF Spec

-----------------------------------------------------------------------------
(***************************************************************************)
(* The steps of a pass.                                                    *)
(***************************************************************************)
\* What all steps of a pass that keep what is settled have in common.
Passing == pc \in {"ready", "data", "dispatch", "reap", "deliver"}
Goes ==
    /\ UNCHANGED <<round, passes, Succeeded>>
    /\ Passing /\ Passing' /\ (pc = "deliver" => pc' = "deliver")
    /\ ~changed' => ~changed
    /\ \A r \in Requests : Stuck(r) => Stuck(r)'
    /\ Under => /\ Settled => Settled'
                /\ \A r \in Requests : SeenRequest(r)' => SeenRequest(r) \/ Stuck(r)'
                /\ ~changed' => (StagesStill => StagesStill') /\ (Dried => Dried')
                /\ changed' => changed \/ (Succeeded # Stages /\ ~(StagesStill /\ RequestsStill))

LEMMA PassGoes ==
    ASSUME PassInv, Goes, Visited'
    PROVE  PassInv'
<1>1. ~Through'
  BY DEF Goes, Passing, Through
<1>2. SUFFICES ASSUME Under' PROVE
        /\ \A r \in Requests : SeenRequest(r)' => Stuck(r)'
        /\ passes' >= 2 /\ pc' # "deliver" => RequestsStill'
        /\ pc' # "deliver" \/ ~changed' => Settled'
        /\ ~changed' => Dried'
        /\ passes' >= 2 => Counted'
  BY <1>1 DEF PassInv
<1>3. Under /\ passes' = passes /\ Succeeded' = Succeeded
  BY <1>2 DEF Goes, Under, Passing
<1>4. /\ \A r \in Requests : SeenRequest(r) => Stuck(r)
      /\ passes >= 2 /\ pc # "deliver" => RequestsStill
      /\ pc # "deliver" \/ ~changed => Settled
      /\ ~changed => Dried
      /\ passes >= 2 => Counted
  BY <1>3 DEF PassInv
<1>5. RequestsStill => RequestsStill'
  BY DEF Goes, RequestsStill
<1>6. \A r \in Requests : SeenRequest(r)' => Stuck(r)'
  BY <1>3, <1>4 DEF Goes
<1>7. passes' >= 2 /\ pc' # "deliver" => RequestsStill'
  BY <1>3, <1>4, <1>5 DEF Goes
<1>8. pc' # "deliver" \/ ~changed' => Settled'
  BY <1>3, <1>4 DEF Goes
<1>9. ~changed' => Dried'
  BY <1>3, <1>4 DEF Goes
<1>10. ASSUME passes >= 2 PROVE Counted'
  <2>1. CASE Cardinality(Succeeded) >= passes - 1
    BY <1>3, <2>1 DEF Counted
  <2>2. CASE Cardinality(Succeeded) = passes - 2 /\ Settled /\ RequestsStill /\ (changed => Succeeded # Stages)
    <3>1. Settled' /\ RequestsStill' /\ (changed' => Succeeded' # Stages)
      BY <1>3, <1>5, <2>2 DEF Goes
    <3>2. QED
      BY <1>3, <2>2, <3>1 DEF Counted
  <2>3. CASE ~changed /\ StagesStill /\ RequestsStill
    <3>1. ~changed' /\ StagesStill' /\ RequestsStill'
      BY <1>3, <1>5, <2>3 DEF Goes
    <3>2. QED
      BY <3>1 DEF Counted
  <2>4. QED
    BY <1>4, <1>10, <2>1, <2>2, <2>3 DEF Counted
<1>11. QED
  BY <1>3, <1>6, <1>7, <1>8, <1>9, <1>10

\* The steps that look for data or for room.
LEMMA ShiftGoes ==
    ASSUME ControlInv, ControlInv', Shifts, Quiet, Passing,
           UNCHANGED <<pc, round, todo, changed, passes, placements>>,
           \/ job'.for = job.for
           \/ pc = "dispatch" /\ \A s \in Stages : s = job.for => Tight(s)'
    PROVE  Goes
<1>1. /\ \A w \in Stages \cup Requests : (Stuck(w) => Stuck(w)') /\ (Dry(w) => Dry(w)')
      /\ \A s \in Stages : Tight(s) => Tight(s)'
      /\ \A s \in Stages : Readied(s) => Readied(s)'
  BY ShiftKeeps
<1>2. Succeeded' = Succeeded /\ Passing'
  BY DEF Succeeded, Having, Shifts, stageVars, Passing
<1>3. \A s \in Stages : /\ SeenReady(s)' <=> SeenReady(s)
                        /\ SeenData(s)' <=> SeenData(s)
                        /\ SeenQueue(s)' => SeenQueue(s) \/ Tight(s)'
  BY DEF SeenReady, SeenData, SeenQueue
<1>4. \A r \in Requests : SeenRequest(r)' => SeenRequest(r)
  BY DEF SeenRequest
<1>5. Settled => Settled'
  BY <1>1, <1>3 DEF Settled
<1>6. (StagesStill => StagesStill') /\ (Dried => Dried')
  BY <1>1, <1>3, <1>4 DEF StagesStill, Dried
<1>7. QED
  BY <1>1, <1>2, <1>4, <1>5, <1>6 DEF Goes

\* A visit that goes on: what it found stays found, or blocked.
LEMMA FetchVisited ==
    ASSUME ControlInv, ControlInv', InputInv, LedgerInv, Grounds, Visited,
           NEW a \in Artifacts, Fetches(a)
    PROVE  Shifts /\ Quiet /\ Visited'
<1>1. Shifts /\ Quiet
  BY FetchShifts, ShiftsQuiet
<1> DEFINE w == job.for
<1>2. /\ Waits(w) /\ a \in Wants(w) /\ w # None /\ w \in Stages \cup Requests /\ pc \in {"data", "deliver"}
      /\ job'.for = w /\ job'.rest = job.rest \ {a}
      /\ job'.ok => job.ok /\ <<a, At(w)>> \in replicas'
      /\ ~job'.ok => ~job.ok \/ Blocked(w, a)'
      /\ Shut(w, a)'
  BY <1>1, FetchOutcome
<1>3. UNCHANGED <<pc, requests, stages, node, round, changed>>
  BY DEF Fetches, HaveReplica, JoinTransfer, NoSource, NoRoom, StartTransfer, fetchFrame, requestVars, stageVars
<1>4. Wants(w)' = Wants(w) /\ At(w)' = At(w)
  BY <1>2, <1>3 DEF Wants, At
<1>5. \A b \in Wants(w) : (<<b, At(w)>> \in replicas => <<b, At(w)>> \in replicas') /\ (Shut(w, b) => Shut(w, b)')
  BY <1>1, <1>2 DEF Quiet
<1>6. Wants(w) \ job'.rest \subseteq (Wants(w) \ job.rest) \cup {a}
  BY <1>2
<1>7. Wants(w)' \ job'.rest \subseteq (Wants(w) \ job.rest) \cup {a}
  BY <1>4, <1>6
<1>8. job'.ok => \A b \in Wants(w)' \ job'.rest : <<b, At(w)'>> \in replicas'
  BY <1>2, <1>4, <1>5, <1>6, <1>7 DEF Visited
<1>9. ~job'.ok => Stuck(w)'
  <2>1. Stuck(w) => Stuck(w)'
    BY <1>1, <1>2, ShiftKeeps
  <2>2. Blocked(w, a)' => Stuck(w)'
    BY <1>2, <1>4 DEF Stuck
  <2>3. QED
    BY <1>2, <2>1, <2>2 DEF Visited
<1>10. Under' /\ ~changed' => \A b \in Wants(w)' \ job'.rest : Shut(w, b)'
  <2>1. Under' /\ ~changed' => Under /\ ~changed
    BY <1>3 DEF Under
  <2>2. QED
    BY <1>2, <1>5, <1>6, <1>7, <2>1 DEF Visited
<1>11. QED
  BY <1>1, <1>8, <1>9, <1>10 DEF Visited

LEMMA FetchPasses ==
    ASSUME ControlInv, ControlInv', InputInv, LedgerInv, Grounds, PassInv,
           NEW a \in Artifacts, Fetches(a)
    PROVE  PassInv'
<1>1. Shifts /\ Quiet /\ Visited'
  BY FetchVisited DEF PassInv
<1>2. /\ UNCHANGED <<pc, round, todo, changed, passes, placements>>
      /\ pc \in {"data", "deliver"}
  BY DEF Fetches, HaveReplica, JoinTransfer, NoSource, NoRoom, StartTransfer, Wanted, Fetch, fetchFrame
<1>3. job'.for = job.for
  BY <1>1, FetchOutcome
<1>4. Goes
  BY <1>1, <1>2, <1>3, ShiftGoes DEF Passing
<1>5. QED
  BY <1>1, <1>4, PassGoes

\* A stage whose outputs find no room would not find any from the start.
LEMMA NoRoomForAll ==
    ASSUME ControlInv, DataInv, LedgerInv, NEW a \in Artifacts, ReserveOutput(a),
           NEW s \in Stages, s = job.for, NEW v \in Reservations(a, node[s]), ~v.ok
    PROVE  Crammed(Owed(s), node[s])
<1> DEFINE n == node[s]
           T == job.taken
           K == Kept(n)
<1>1. /\ pc = "dispatch" /\ a \in job.rest
      /\ n \in Nodes /\ s \notin execs /\ a \in Outputs[s] /\ a \notin T /\ T \subseteq Outputs[s]
  <2>1. pc = "dispatch" /\ a \in job.rest
    BY DEF ReserveOutput
  <2>2. QED
    BY <2>1, ReservingStage DEF LedgerInv
<1>2. /\ Size[a] > 0 /\ Used(storage[n] \ Evictable(n)) + Size[a] > Storage[n]
  BY <1>1, ReservationFails DEF ControlInv, LedgerInv
<1>3. Taken(n) = T
  BY DEF Taken
<1>4. storage[n] \in SUBSET Artifacts /\ K \in SUBSET Artifacts /\ Outputs[s] \in SUBSET Artifacts
  BY <1>1, WorkflowAssumption DEF ControlInv, TypeOK, Kept, Base
<1>5. storage[n] \ Evictable(n) \in SUBSET (K \cup T)
  BY <1>3 DEF Kept, Base
<1>6. Owed(s) = Outputs[s] /\ T \in SUBSET Artifacts /\ {a} \in SUBSET Artifacts /\ T \cap {a} = {}
      /\ T \cup {a} \in SUBSET Outputs[s] /\ K \cup T \in SUBSET Artifacts
  BY <1>1, <1>4 DEF Owed
<1> DEFINE x == Used(storage[n] \ Evictable(n))
           k == Used(K)
           t == Used(T)
           o == Used(Outputs[s])
           j == Used(K \cup T)
           u == Used(T \cup {a})
<1>7. x \in Nat /\ k \in Nat /\ t \in Nat /\ o \in Nat /\ j \in Nat /\ u \in Nat
  <2>1. storage[n] \ Evictable(n) \in SUBSET Artifacts /\ T \cup {a} \in SUBSET Artifacts
    BY <1>4, <1>6
  <2>2. QED
    BY <1>4, <1>6, <2>1, StorageSums
<1>8. x <= j
  BY <1>5, <1>6, StorageSums
<1>9. j <= k + t
  BY <1>4, <1>6, JoinedSums
<1>10. u = t + Size[a]
  <2>1. u = t + Used({a})
    BY <1>6, JoinedSums
  <2>2. QED
    BY <2>1, OneSum
<1>11. u <= o
  BY <1>4, <1>6, StorageSums
<1>12. x + Size[a] > Storage[n] /\ Size[a] \in Nat /\ Storage[n] \in Nat
  BY <1>1, <1>2, PlatformAssumption
<1>13. Crammed(Owed(s), n) <=> k + o > Storage[n]
  BY <1>6 DEF Crammed
<1> HIDE DEF x, k, t, o, j, u
<1>14. k + o > Storage[n]
  BY <1>7, <1>8, <1>9, <1>10, <1>11, <1>12
<1>15. QED
  BY <1>13, <1>14

LEMMA ReservePasses ==
    ASSUME ControlInv, ControlInv', DataInv, InputInv, LedgerInv, Grounds, PassInv,
           NEW a \in Artifacts, ReserveOutput(a)
    PROVE  PassInv'
<1>1. Shifts /\ Quiet
  BY ReserveShifts, ShiftsQuiet
<1>2. /\ UNCHANGED <<pc, round, todo, changed, passes, placements, node, execs>> /\ pc = "dispatch"
  BY DEF ReserveOutput, fetchFrame, stageVars, execVars
<1>3. job'.for = job.for \/ \A s \in Stages : s = job.for => Tight(s)'
  <2>1. PICK v \in Reservations(a, node[job.for]) :
          IF v.ok THEN job' = [job EXCEPT !.rest = @ \ {a}, !.taken = @ \cup {a}] ELSE job' = NoJob
    BY DEF ReserveOutput
  <2>2. CASE v.ok
    BY <2>1, <2>2 DEF ControlInv, TypeOK
  <2>3. CASE ~v.ok
    <3>1. ASSUME NEW s \in Stages, s = job.for PROVE Tight(s)'
      <4>1. Crammed(Owed(s), node[s])
        BY <2>3, <3>1, NoRoomForAll
      <4>2. Owed(s) \in SUBSET Artifacts /\ node[s] \in Nodes
        <5>1. Dispatchable(s)
          BY <1>2, <3>1, SetsAssumption DEF ControlInv, Visiting
        <5>2. QED
          BY <5>1, QueuedPlace
      <4> DEFINE S == Owed(s)
                 n == node[s]
      <4>3. S' = S /\ n' = n
        BY <1>2 DEF Owed
      <4> HIDE DEF S, n
      <4>4. Crammed(S, n)'
        BY <1>1, <4>1, <4>2, <4>3, CrammedStays DEF ControlInv, Quiet, S, n
      <4>5. QED
        BY <4>4 DEF Tight, S, n
    <3>2. QED
      BY <3>1
  <2>4. QED
    BY <2>2, <2>3
<1>4. Goes
  BY <1>1, <1>2, <1>3, ShiftGoes DEF Passing
<1>5. Visited'
  BY <1>2 DEF Visited
<1>6. QED
  BY <1>4, <1>5, PassGoes

\* The steps that only go on with the loops.
LEMMA IdleGoes ==
    ASSUME ControlInv, ControlInv', job.taken = {}, job'.taken = {},
           UNCHANGED <<requests, stages, node, delayed, replicas, source, waiters, storage, execs, memory,
                       round, passes, changed, placements>>,
           Passing, Passing', pc = "deliver" => pc' = "deliver",
           \A s \in Stages : /\ SeenReady(s)' => SeenReady(s)
                             /\ SeenQueue(s)' => SeenQueue(s) \/ Tight(s),
           Under => /\ \A s \in Stages : SeenData(s)' => SeenData(s) \/ (Stuck(s) /\ (~changed => Dry(s)))
                    /\ \A r \in Requests :
                          SeenRequest(r)' => SeenRequest(r) \/ (Stuck(r) /\ (~changed => Dry(r)))
    PROVE  Goes
<1>1. /\ \A w \in Stages \cup Requests : (Stuck(w) => Stuck(w)') /\ (Dry(w) => Dry(w)')
      /\ \A s \in Stages : Tight(s) => Tight(s)'
      /\ \A s \in Stages : Readied(s) => Readied(s)'
  BY IdleKeeps
<1>2. Succeeded' = Succeeded
  BY DEF Succeeded, Having
<1>3. ASSUME Under, Settled PROVE Settled'
  <2>1. ASSUME NEW s \in Stages
        PROVE  /\ SeenReady(s)' => Readied(s)'
               /\ SeenData(s)' => Stuck(s)'
               /\ SeenQueue(s)' => Tight(s)'
    BY <1>1, <1>3 DEF Settled
  <2>2. QED
    BY <2>1 DEF Settled
<1>4. StagesStill => StagesStill'
  BY <1>1 DEF StagesStill
<1>5. ASSUME Under, ~changed', Dried PROVE Dried'
  <2>1. \A s \in Stages : SeenData(s)' => Dry(s)'
    BY <1>1, <1>5 DEF Dried
  <2>2. \A r \in Requests : SeenRequest(r)' => Dry(r)'
    BY <1>1, <1>5 DEF Dried
  <2>3. QED
    BY <2>1, <2>2 DEF Dried
<1>6. Under => \A r \in Requests : SeenRequest(r)' => SeenRequest(r) \/ Stuck(r)'
  BY <1>1
<1>7. \A r \in Requests : Stuck(r) => Stuck(r)'
  BY <1>1
<1>8. QED
  BY <1>2, <1>3, <1>4, <1>5, <1>6, <1>7 DEF Goes

\* A visit that is over has found what it was for, or is blocked.
LEMMA VisitOver ==
    ASSUME ControlInv, Visited, job.for # None, job.rest = {}, pc \in {"data", "deliver"}
    PROVE  /\ job.for \in Stages \cup Requests /\ Waits(job.for) /\ job.taken = {}
           /\ job.ok => \A a \in Wants(job.for) : <<a, At(job.for)>> \in replicas
           /\ ~job.ok => Stuck(job.for)
           /\ Under /\ ~changed => Dry(job.for)
<1>1. Wants(job.for) \ job.rest = Wants(job.for)
  OBVIOUS
<1>2. CASE pc = "deliver"
  BY <1>1, <1>2 DEF ControlInv, Visiting, Waits, Visited, Dry
<1>3. CASE pc = "data"
  <2>1. job.for \in Stages /\ job.for \notin Requests
    BY <1>3, SetsAssumption DEF ControlInv, Visiting
  <2>2. QED
    BY <1>1, <1>3, <2>1 DEF ControlInv, Visiting, Waits, Visited, Dry
<1>4. QED
  BY <1>2, <1>3

LEMMA BeginPasses ==
    ASSUME ControlInv, ControlInv', PassInv,
           \/ \E r \in Requests : Deliver(r)
           \/ \E s \in Stages : Gather(s) \/ Dispatch(s) \/ SkipStage(s)
    PROVE  PassInv'
<1> USE DEF requestVars, stageVars, dataVars, execVars, engineVars, finishVars
<1>1. /\ UNCHANGED <<pc, requests, stages, node, delayed, replicas, source, waiters, storage, execs, memory,
                     round, passes, changed, placements>>
      /\ pc \in {"deliver", "data", "dispatch"}
      /\ job.for = None /\ job.taken = {} /\ job'.taken = {}
  BY DEF Deliver, Gather, Dispatch, SkipStage, Visit, ControlInv, Visiting, NoJob, JobFor
<1>2. PICK w \in Stages \cup Requests :
          /\ w \in todo /\ todo' = todo \ {w}
          /\ \/ w \in Requests /\ pc = "deliver" /\ job' = JobFor(w, Deliverables[w])
             \/ w \in Stages /\ pc = "data" /\ job' = JobFor(w, Inputs[w])
             \/ w \in Stages /\ pc = "dispatch" /\ job'.for = w
             \/ w \in Stages /\ pc = "dispatch" /\ job' = job /\ ~Dispatchable(w)
  BY DEF Deliver, Gather, Dispatch, SkipStage, Visit, JobFor
<1>3. ASSUME NEW s \in Stages
      PROVE  /\ SeenReady(s)' => SeenReady(s)
             /\ SeenData(s)' => SeenData(s)
             /\ SeenQueue(s)' => SeenQueue(s) \/ Tight(s)
  <2>1. s # None
    BY SetsAssumption
  <2>2. SeenReady(s)' => SeenReady(s)
    BY <1>1 DEF SeenReady
  <2>3. SeenData(s)' => SeenData(s)
    BY <1>1, <1>2, <2>1, SetsAssumption DEF SeenData, JobFor
  <2>4. SeenQueue(s)' => SeenQueue(s) \/ Tight(s)
    BY <1>1, <1>2, <2>1, SetsAssumption DEF SeenQueue, Tight
  <2>5. QED
    BY <2>2, <2>3, <2>4
<1>4. \A r \in Requests : SeenRequest(r)' => SeenRequest(r)
  BY <1>1, <1>2, SetsAssumption DEF SeenRequest, JobFor
<1>5. Passing /\ Passing'
  BY <1>1 DEF Passing
<1>6. Goes
  BY <1>1, <1>3, <1>4, <1>5, IdleGoes
<1>7. Visited'
  <2>1. CASE pc = "dispatch"
    BY <1>1, <2>1 DEF Visited
  <2>2. CASE pc # "dispatch"
    <3>1. job'.for = w /\ job'.ok /\ job'.rest = Wants(w)
      BY <1>2, <2>2, SetsAssumption DEF JobFor, Wants
    <3>2. Wants(job'.for) \ job'.rest = {}
      BY <3>1
    <3>3. Wants(job.for)' \ job'.rest = {}
      BY <3>2 DEF Wants
    <3>4. QED
      BY <3>1, <3>3 DEF Visited
  <2>3. QED
    BY <2>1, <2>2
<1>8. QED
  BY <1>6, <1>7, PassGoes

LEMMA EndPasses ==
    ASSUME ControlInv, ControlInv', PassInv,
           \/ \E r \in Requests : Delivered(r) /\ ~job.ok
           \/ \E s \in Stages : Gathered(s) /\ ~job.ok
           \/ EndData \/ EndDispatch
    PROVE  PassInv'
<1> USE DEF requestVars, stageVars, dataVars, execVars, engineVars, finishVars, restFrame
<1>1. /\ UNCHANGED <<requests, stages, node, delayed, replicas, source, waiters, storage, execs, memory,
                     round, passes, changed, placements>>
      /\ pc \in {"deliver", "data", "dispatch"}
  BY DEF Delivered, Gathered, EndData, EndDispatch
<1>2. job' = NoJob /\ job'.taken = {} /\ job'.for = None
  <2>1. CASE EndData \/ EndDispatch
    BY <2>1 DEF EndData, EndDispatch, ControlInv, Visiting, NoJob
  <2>2. CASE ~(EndData \/ EndDispatch)
    BY <2>2 DEF Delivered, Gathered, NoJob
  <2>3. QED
    BY <2>1, <2>2
<1>3. Visited'
  BY <1>2 DEF Visited
<1>4. CASE EndData
  <2>1. /\ pc = "data" /\ pc' = "dispatch" /\ todo' = Having("QUEUED") /\ job.for = None /\ job.taken = {}
        /\ ~\E s \in todo : Active(RequestOf[s]) /\ stages[s] = "WAITING_DATA"
    BY <1>4 DEF EndData, Loop, ControlInv, Visiting, NoJob
  <2>2. ASSUME NEW s \in Stages
        PROVE  /\ SeenReady(s)' => SeenReady(s)
               /\ SeenData(s)' => SeenData(s) \/ (Stuck(s) /\ Dry(s))
               /\ SeenQueue(s)' => SeenQueue(s) \/ Tight(s)
    <3>1. s # None /\ s \notin Requests
      BY SetsAssumption
    <3>2. SeenReady(s)
      BY <2>1 DEF SeenReady
    <3>3. CASE s \in todo
      <4>1. ~Waits(s)
        BY <2>1, <3>1, <3>3, PlacedActive DEF Waits, Placed
      <4>2. Stuck(s) /\ Dry(s)
        BY <4>1 DEF Stuck, Dry
      <4>3. QED
        BY <2>1, <3>2, <4>2 DEF SeenQueue, Having, Tight, Dispatchable
    <3>4. CASE s \notin todo
      BY <2>1, <3>1, <3>2, <3>4 DEF SeenData, SeenQueue, Having, Tight, Dispatchable
    <3>5. QED
      BY <3>3, <3>4
  <2>3. \A r \in Requests : ~SeenRequest(r)'
    BY <2>1 DEF SeenRequest
  <2>4. Goes
    BY <1>1, <1>2, <2>1, <2>2, <2>3, IdleGoes DEF Passing
  <2>5. QED
    BY <1>3, <2>4, PassGoes
<1>5. CASE EndDispatch
  <2>1. pc = "dispatch" /\ pc' = "reap" /\ todo = {} /\ job.for = None /\ job.taken = {}
    BY <1>5 DEF EndDispatch, Loop, ControlInv, Visiting, NoJob
  <2>2. \A s \in Stages : SeenReady(s) /\ SeenData(s) /\ SeenQueue(s)
    BY <2>1, SetsAssumption DEF SeenReady, SeenData, SeenQueue
  <2>3. \A r \in Requests : ~SeenRequest(r)'
    BY <2>1 DEF SeenRequest
  <2>4. Goes
    BY <1>1, <1>2, <2>1, <2>2, <2>3, IdleGoes DEF Passing
  <2>5. QED
    BY <1>3, <2>4, PassGoes
<1>6. CASE (\E r \in Requests : Delivered(r) /\ ~job.ok) \/ (\E s \in Stages : Gathered(s) /\ ~job.ok)
  <2>1. /\ job.for # None /\ job.rest = {} /\ ~job.ok /\ pc' = pc /\ todo' = todo
        /\ pc \in {"data", "deliver"}
    BY <1>6, SetsAssumption DEF Delivered, Gathered
  <2>2. /\ job.taken = {} /\ Stuck(job.for) /\ (Under /\ ~changed => Dry(job.for))
    BY <2>1, VisitOver DEF PassInv
  <2>3. \A s \in Stages : /\ SeenReady(s)' => SeenReady(s)
                          /\ SeenData(s)' => SeenData(s) \/ s = job.for
                          /\ SeenQueue(s)' => SeenQueue(s)
    BY <2>1 DEF SeenReady, SeenData, SeenQueue
  <2>4. \A r \in Requests : SeenRequest(r)' => SeenRequest(r) \/ r = job.for
    BY <2>1 DEF SeenRequest
  <2>5. Under => /\ \A s \in Stages : SeenData(s)' => SeenData(s) \/ (Stuck(s) /\ (~changed => Dry(s)))
                 /\ \A r \in Requests : SeenRequest(r)' => SeenRequest(r) \/ (Stuck(r) /\ (~changed => Dry(r)))
    BY <2>2, <2>3, <2>4
  <2>6. Goes
    BY <1>1, <1>2, <2>1, <2>2, <2>3, <2>5, IdleGoes DEF Passing
  <2>7. QED
    BY <1>3, <2>6, PassGoes
<1>7. QED
  BY <1>4, <1>5, <1>6

\* A stage that is found ready, and one whose request is rejected instead.
LEMMA ReadyPasses ==
    ASSUME ControlInv, ControlInv', Grounds, PassInv, NEW s \in Stages, MakeReady(s)
    PROVE  PassInv'
<1> USE DEF requestVars, stageVars, dataVars, execVars, engineVars
<1>1. /\ pc = "ready" /\ UNCHANGED <<pc, round, job, passes>> /\ todo' = todo \ {s} /\ MayBeReady(s)
      /\ job = NoJob /\ job.for = None /\ job.taken = {}
  BY DEF MakeReady, Visit, ControlInv, Visiting, NoJob
<1>2. /\ \A u \in Stages : SeenReady(u)' => u = s \/ SeenReady(u)
      /\ \A u \in Stages : ~SeenData(u)' /\ ~SeenQueue(u)'
      /\ \A r \in Requests : ~SeenRequest(r)'
      /\ Passing /\ Passing'
  BY <1>1 DEF SeenReady, SeenData, SeenQueue, SeenRequest, Passing
<1>3. Visited'
  BY <1>1 DEF Visited
<1>4. Dried'
  BY <1>2 DEF Dried
<1>5. stages[s] \in {"READY", "WAITING_DEPENDENCIES"} /\ Succeeded # Stages
  BY <1>1 DEF MayBeReady, Succeeded, Having
<1>6. stages \in [Stages -> StageStatuses] /\ changed \in BOOLEAN /\ placements \in [Stages -> Nodes \cup {None}]
  BY DEF ControlInv, TypeOK
<1>7. ~changed => \A u \in Stages : placements[u] = None
  BY DEF Grounds, Looping
<1>8. CASE Candidates(s) = {} /\ Finish(RequestOf[s], "REJECTED") /\ changed' = TRUE /\ UNCHANGED placements
  <2>1. RequestOf[s] \in Requests /\ "REJECTED" \in Outcomes
    BY OfRequest DEF Outcomes
  <2>2. /\ \A w \in Stages \cup Requests : Stuck(w) => Stuck(w)'
        /\ Succeeded' = Succeeded
        /\ \A u \in Stages : Readied(u) => Readied(u)'
    BY <1>8, <2>1, FinishKeeps DEF Succeeded
  <2>3. Readied(s)'
    <3>1. requests' = [requests EXCEPT ![RequestOf[s]] = "REJECTED"] /\ requests \in [Requests -> RequestStatuses]
      BY <1>8, FinishStatus DEF ControlInv, TypeOK
    <3>2. requests'[RequestOf[s]] # "ACTIVE"
      BY <2>1, <3>1
    <3>3. QED
      BY <3>2 DEF Readied, MayBeReady, Active
  <2>4. Settled => Settled'
    BY <1>2, <2>2, <2>3 DEF Settled
  <2>5. changed \/ ~StagesStill
    <3>1. SUFFICES ASSUME StagesStill PROVE FALSE
      OBVIOUS
    <3>2. stages[s] = "READY"
      BY <1>1, <3>1 DEF StagesStill, Readied
    <3>3. QED
      BY <1>8, <3>2 DEF Grounds, Admitted
  <2>6. Goes
    BY <1>1, <1>2, <1>5, <1>8, <2>2, <2>4, <2>5 DEF Goes
  <2>7. QED
    BY <1>3, <2>6, PassGoes
<1>9. CASE /\ stages' = [stages EXCEPT ![s] = "READY"]
           /\ \/ External /\ changed' = (changed \/ stages[s] # "READY") /\ UNCHANGED placements
              \/ ~External /\ changed' = TRUE
                 /\ \E n \in Candidates(s) : placements' = [placements EXCEPT ![s] = n]
           /\ UNCHANGED <<requestVars, node, delayed, dataVars, execVars, engineVars>>
  <2>1. /\ stages'[s] = "READY" /\ \A u \in Stages \ {s} : stages'[u] = stages[u]
        /\ \A u \in Stages : stages'[u] = "SUCCEEDED" <=> stages[u] = "SUCCEEDED"
    BY <1>5, <1>6, <1>9
  <2>2. Moves /\ \A w \in Stages \cup Requests : Waits(w)' => Waits(w)
    <3>1. \A n \in Nodes : Taken(n)' \subseteq Taken(n)
      BY <1>1 DEF Taken
    <3>2. stages[s] \notin Over
      BY <1>5 DEF Over
    <3>3. QED
      BY <1>9, <3>1, <3>2, StatusMoves
  <2>3. \A w \in Stages \cup Requests : Stuck(w) => Stuck(w)'
    BY <2>2, MoveKeeps
  <2>4. Succeeded' = Succeeded
    BY <2>1 DEF Succeeded, Having
  <2>5. Readied(s)'
    <3>1. External \/ placements'[s] # None
      <4>1. ASSUME NEW n \in Candidates(s), placements' = [placements EXCEPT ![s] = n] PROVE placements'[s] # None
        <5>1. n \in Nodes
          BY PlatformAssumption DEF Candidates, Feasible
        <5>2. QED
          BY <1>6, <4>1, <5>1, SetsAssumption
      <4>2. QED
        BY <1>9, <4>1
    <3>2. QED
      BY <2>1, <3>1 DEF Readied
  <2>6. ASSUME NEW u \in Stages \ {s}, Readied(u) PROVE Readied(u)'
    <3>1. placements'[u] = placements[u] /\ stages'[u] = stages[u] /\ UNCHANGED requests
      BY <1>6, <1>9, <2>1
    <3>2. \A d \in Dependencies[u] : d \in Stages
      BY WorkflowAssumption
    <3>3. MayBeReady(u)' => MayBeReady(u)
      BY <2>1, <3>1, <3>2 DEF MayBeReady, Active
    <3>4. QED
      BY <2>6, <3>1, <3>3 DEF Readied
  <2>7. Settled => Settled'
    BY <1>2, <2>5, <2>6 DEF Settled
  <2>8. ~changed' => ~changed /\ stages[s] = "READY"
    BY <1>6, <1>9
  <2>9. ASSUME ~changed', StagesStill PROVE StagesStill'
    <3>1. stages' = stages
      BY <1>6, <1>9, <2>8, <2>9
    <3>2. \A u \in Stages : Tight(u) => Tight(u)'
      BY <1>1, <1>9, <3>1, IdleKeeps
    <3>3. QED
      BY <2>3, <2>5, <2>6, <2>9, <3>2 DEF StagesStill
  <2>10. changed' => changed \/ ~StagesStill
    <3>1. SUFFICES ASSUME changed', ~changed, StagesStill PROVE FALSE
      OBVIOUS
    <3>2. stages[s] = "READY" /\ (External \/ placements[s] # None)
      BY <1>1, <3>1 DEF StagesStill, Readied
    <3>3. QED
      BY <1>7, <1>9, <3>1, <3>2
  <2>11. Goes
    BY <1>1, <1>2, <1>4, <1>5, <2>3, <2>4, <2>7, <2>8, <2>9, <2>10 DEF Goes
  <2>12. QED
    BY <1>3, <2>11, PassGoes
<1>10. QED
  BY <1>8, <1>9 DEF MakeReady

LEMMA PlacePasses ==
    ASSUME ControlInv, ControlInv', Grounds, PassInv, PlaceAll
    PROVE  PassInv'
<1> DEFINE placed == {s \in Stages : placements[s] # None /\ Active(RequestOf[s])}
<1>1. /\ pc = "ready" /\ pc' = "data" /\ todo' = Stages
      /\ \A s \in todo : ~MayBeReady(s)
      /\ \A s \in placed : stages[s] = "READY"
      /\ stages' = [s \in Stages |-> IF s \in placed THEN "WAITING_DATA" ELSE stages[s]]
      /\ node' = [s \in Stages |-> IF s \in placed THEN placements[s] ELSE node[s]]
      /\ \A s \in Stages : placements'[s] = None
      /\ UNCHANGED <<requests, delayed, replicas, source, waiters, storage, execs, memory, round, job,
                     changed, passes>>
  BY DEF PlaceAll, Loop, requestVars, dataVars, execVars
<1>2. /\ job.for = None /\ job.taken = {} /\ job'.taken = {} /\ job'.for = None
      /\ stages \in [Stages -> StageStatuses] /\ node \in [Stages -> Nodes \cup {None}]
      /\ placements \in [Stages -> Nodes \cup {None}]
  BY <1>1 DEF ControlInv, Visiting, NoJob, TypeOK
<1>3. ~changed => placed = {}
  BY DEF Grounds, Looping
<1> HIDE DEF placed
<1>4. placed \subseteq Stages
  BY DEF placed
<1>5. /\ \A u \in Stages : SeenReady(u)' /\ ~SeenData(u)' /\ ~SeenQueue(u)'
      /\ \A r \in Requests : ~SeenRequest(r)'
      /\ Passing /\ Passing'
  BY <1>1 DEF SeenReady, SeenData, SeenQueue, SeenRequest, Passing
<1>6. Visited' /\ Dried'
  BY <1>2, <1>5 DEF Visited, Dried
<1>7. \A u \in Stages : (stages'[u] = "SUCCEEDED" <=> stages[u] = "SUCCEEDED")
  BY <1>1
<1>8. Succeeded' = Succeeded
  BY <1>7 DEF Succeeded, Having
<1>9. ASSUME NEW r \in Requests, Stuck(r) PROVE Stuck(r)'
  <2>1. Waits(r)' => Waits(r)
    BY <1>1, <1>7 DEF Waits, Active, AllSucceeded, StagesOf
  <2>2. \A a : Blocked(r, a)' <=> Blocked(r, a)
    BY <1>1 DEF Blocked, At, Sources, Copies
  <2>3. QED
    BY <1>9, <2>1, <2>2 DEF Stuck, Wants
<1>10. ASSUME NEW s \in Stages, Under, Settled PROVE Readied(s)'
  <2>1. SUFFICES ASSUME MayBeReady(s)' PROVE stages'[s] = "READY" /\ External
    BY DEF Readied
  <2>2. s \notin placed /\ stages'[s] = stages[s]
    BY <1>1, <2>1 DEF MayBeReady
  <2>3. MayBeReady(s)
    <3>1. \A d \in Dependencies[s] : d \in Stages
      BY WorkflowAssumption
    <3>2. QED
      BY <1>1, <1>7, <2>1, <2>2, <3>1 DEF MayBeReady, Active
  <2>4. s \notin todo
    BY <1>1, <2>3
  <2>5. Readied(s)
    BY <1>1, <1>10, <2>4 DEF Settled, SeenReady
  <2>6. Active(RequestOf[s])
    BY <2>3 DEF MayBeReady
  <2>7. QED
    BY <2>2, <2>3, <2>5, <2>6 DEF Readied, placed
<1>11. Under /\ Settled => Settled'
  BY <1>5, <1>10 DEF Settled
<1>12. ASSUME ~changed PROVE StagesStill => StagesStill'
  <2>1. stages' = stages /\ node' = node
    BY <1>1, <1>2, <1>3, <1>12
  <2>2. placements' = placements
    <3>1. \A s \in Stages : placements[s] = None
      BY <1>12 DEF Grounds, Looping
    <3>2. placements' \in [Stages -> Nodes \cup {None}]
      BY DEF ControlInv, TypeOK
    <3>3. QED
      BY <1>1, <1>2, <3>1, <3>2
  <2>3. QED
    BY <1>1, <1>2, <2>1, <2>2, IdleKeeps DEF StagesStill
<1>13. Goes
  BY <1>1, <1>5, <1>6, <1>8, <1>9, <1>11, <1>12 DEF Goes
<1>14. QED
  BY <1>6, <1>13, PassGoes

\* A stage that has its inputs queues.
LEMMA GatherPasses ==
    ASSUME ControlInv, ControlInv', Grounds, PassInv, NEW s \in Stages, Gathered(s), job.ok
    PROVE  PassInv'
<1>1. /\ pc = "data" /\ job.for = s /\ job.for # None /\ job.rest = {} /\ job' = NoJob
      /\ stages' = [stages EXCEPT ![s] = "QUEUED"] /\ changed' = TRUE
      /\ UNCHANGED <<pc, requests, node, delayed, replicas, source, waiters, storage, execs, memory, round,
                     todo, passes, placements>>
  BY SetsAssumption DEF Gathered, requestVars, dataVars, execVars
<1>2. /\ Waits(s) /\ job.taken = {}
      /\ \A a \in Wants(s) : <<a, At(s)>> \in replicas
  BY <1>1, VisitOver DEF PassInv
<1>3. stages[s] = "WAITING_DATA" /\ stages \in [Stages -> StageStatuses]
  BY <1>2, SetsAssumption DEF Waits, ControlInv, TypeOK
<1>4. /\ stages'[s] = "QUEUED" /\ \A u \in Stages \ {s} : stages'[u] = stages[u]
      /\ \A u \in Stages : stages'[u] = "SUCCEEDED" <=> stages[u] = "SUCCEEDED"
  BY <1>1, <1>3
<1>5. Moves /\ \A w \in Stages \cup Requests : Waits(w)' => Waits(w)
  <2>1. \A n \in Nodes : Taken(n)' \subseteq Taken(n)
    BY <1>1 DEF Taken, NoJob
  <2>2. stages[s] \notin Over
    BY <1>3 DEF Over
  <2>3. QED
    BY <1>1, <2>1, <2>2, StatusMoves
<1>6. \A w \in Stages \cup Requests : Stuck(w) => Stuck(w)'
  BY <1>5, MoveKeeps
<1>7. Succeeded' = Succeeded /\ Succeeded # Stages
  BY <1>3, <1>4 DEF Succeeded, Having
<1>8. Stuck(s)'
  BY <1>4, SetsAssumption DEF Stuck, Waits
<1>9. ASSUME NEW u \in Stages, Readied(u) PROVE Readied(u)'
  <2>1. \A d \in Dependencies[u] : d \in Stages
    BY WorkflowAssumption
  <2>2. MayBeReady(u)' => MayBeReady(u) /\ stages'[u] = stages[u]
    BY <1>1, <1>4, <2>1 DEF MayBeReady, Active
  <2>3. QED
    BY <1>1, <1>9, <2>2 DEF Readied
<1>10. Settled => Settled'
  BY <1>1, <1>6, <1>8, <1>9 DEF Settled, SeenReady, SeenData, SeenQueue
<1>11. \A r \in Requests : SeenRequest(r)' => SeenRequest(r)
  BY <1>1 DEF SeenRequest
<1>12. ~StagesStill
  BY <1>2 DEF StagesStill, Stuck, Blocked
<1>13. Goes
  BY <1>1, <1>6, <1>7, <1>10, <1>11, <1>12 DEF Goes, Passing
<1>14. Visited'
  BY <1>1 DEF Visited, NoJob
<1>15. QED
  BY <1>13, <1>14, PassGoes

\* A stage that has room for its outputs was not short of it.
LEMMA RoomFound ==
    ASSUME ControlInv, DataInv, LedgerInv, NEW s \in Stages, StartStage(s)
    PROVE  ~Tight(s)
<1> DEFINE n == node[s]
           K == Kept(n)
<1>1. pc = "dispatch" /\ job.for = s /\ job.for # None /\ job.rest = {}
  BY SetsAssumption DEF StartStage
<1>2. Dispatchable(s) /\ stages[s] = "QUEUED"
  BY <1>1 DEF ControlInv, Visiting, Dispatchable
<1>3. n \in Nodes /\ Owed(s) \in SUBSET Artifacts
  BY <1>2, QueuedPlace
<1>4. storage[n] \in SUBSET Artifacts /\ K \in SUBSET storage[n] /\ Used(storage[n]) <= Storage[n]
      /\ Storage[n] \in Nat
  BY <1>3, PlatformAssumption DEF ControlInv, TypeOK, Kept, Base, LedgerInv, WithinCapacity
<1>5. Owed(s) \in SUBSET storage[n]
  BY <1>1 DEF LedgerInv, Reserved, Owed
<1>6. K \cap Owed(s) = {}
  <2>1. SUFFICES ASSUME NEW a \in K, a \in Owed(s) PROVE FALSE
    OBVIOUS
  <2>2. s \notin execs /\ a \in Outputs[s] /\ a \in Artifacts /\ a \in storage[n]
    BY <1>4, <2>1 DEF Owed
  <2>3. StorageExact
    BY <1>1, ExactParts DEF LedgerInv, ControlInv, Exact
  <2>4. Holds(a, n)
    BY <1>3, <2>2, <2>3 DEF StorageExact
  <2>5. <<a, n>> \notin replicas /\ source[<<a, n>>] = None
    BY <1>2, <1>3, <2>2, HeldApart
  <2>6. \A u \in execs : a \notin Outputs[u]
    BY <2>2, WorkflowAssumption DEF ControlInv, TypeOK
  <2>7. a \in job.taken
    BY <2>4, <2>5, <2>6 DEF Holds
  <2>8. QED
    BY <1>1, <2>1, <2>7 DEF Kept, Base, Taken
<1> DEFINE k == Used(K)
           o == Used(Owed(s))
           j == Used(K \cup Owed(s))
           u == Used(storage[n])
<1>7. k \in Nat /\ o \in Nat /\ u \in Nat /\ j \in Nat /\ j <= u
  <2>1. K \in SUBSET Artifacts /\ K \cup Owed(s) \in SUBSET storage[n] /\ K \cup Owed(s) \in SUBSET Artifacts
    BY <1>4, <1>5
  <2>2. QED
    BY <1>3, <1>4, <2>1, StorageSums
<1>8. j = k + o
  BY <1>3, <1>4, <1>6, JoinedSums
<1>9. u <= Storage[n]
  BY <1>4
<1>10. Crammed(Owed(s), n) <=> k + o > Storage[n]
  BY DEF Crammed
<1> HIDE DEF k, o, j, u
<1>11. ~(k + o > Storage[n])
  BY <1>4, <1>7, <1>8, <1>9
<1>12. QED
  BY <1>2, <1>10, <1>11 DEF Tight

LEMMA StartPasses ==
    ASSUME ControlInv, ControlInv', DataInv, LedgerInv, PassInv, NEW s \in Stages, StartStage(s)
    PROVE  PassInv'
<1>1. /\ pc = "dispatch" /\ job.for = s /\ job' = NoJob /\ changed' = TRUE
      /\ UNCHANGED <<pc, round, todo, passes, node>>
  BY DEF StartStage
<1>2. /\ Moves /\ UNCHANGED <<requests, placements>>
      /\ stages' = [stages EXCEPT ![s] = "RUNNING"] /\ stages[s] = "QUEUED"
      /\ \A w \in Stages \cup Requests : Waits(w)' => Waits(w)
      /\ \A u \in Stages \ {s} : Dispatchable(u)' => Dispatchable(u) /\ Owed(u)' = Owed(u)
  BY StartMoves
<1>3. stages \in [Stages -> StageStatuses]
  BY DEF ControlInv, TypeOK
<1>4. /\ stages'[s] = "RUNNING" /\ \A u \in Stages \ {s} : stages'[u] = stages[u]
      /\ \A u \in Stages : stages'[u] = "SUCCEEDED" <=> stages[u] = "SUCCEEDED"
  BY <1>2, <1>3
<1>5. \A w \in Stages \cup Requests : Stuck(w) => Stuck(w)'
  BY <1>2, MoveKeeps
<1>6. \A u \in Stages \ {s} : Tight(u) => Tight(u)'
  BY <1>2, MoveKeeps
<1>7. Tight(s)'
  BY <1>4 DEF Tight, Dispatchable
<1>8. Succeeded' = Succeeded /\ Succeeded # Stages
  BY <1>2, <1>4 DEF Succeeded, Having
<1>9. ASSUME NEW u \in Stages, Readied(u) PROVE Readied(u)'
  <2>1. \A d \in Dependencies[u] : d \in Stages
    BY WorkflowAssumption
  <2>2. MayBeReady(u)' => MayBeReady(u) /\ stages'[u] = stages[u]
    BY <1>2, <1>4, <2>1 DEF MayBeReady, Active
  <2>3. QED
    BY <1>2, <1>9, <2>2 DEF Readied
<1>10. \A u \in Stages : SeenReady(u) /\ SeenData(u) /\ (SeenQueue(u)' => u = s \/ SeenQueue(u))
  BY <1>1 DEF SeenReady, SeenData, SeenQueue
<1>11. Settled => Settled'
  BY <1>5, <1>6, <1>7, <1>9, <1>10 DEF Settled
<1>12. \A r \in Requests : ~SeenRequest(r)'
  BY <1>1 DEF SeenRequest
<1>13. ~StagesStill
  BY RoomFound DEF StagesStill
<1>14. Goes
  BY <1>1, <1>5, <1>8, <1>11, <1>12, <1>13 DEF Goes, Passing
<1>15. Visited'
  BY <1>1 DEF Visited, NoJob
<1>16. QED
  BY <1>14, <1>15, PassGoes

\* A request that has what it is to deliver.
LEMMA DeliverPasses ==
    ASSUME ControlInv, PassInv, NEW r \in Requests, Delivered(r), job.ok
    PROVE  PassInv'
<1>1. /\ pc = "deliver" /\ job.for = r /\ job.for # None /\ job.rest = {} /\ job' = NoJob
      /\ Finish(r, "SUCCEEDED") /\ changed' = TRUE
      /\ UNCHANGED <<pc, round, todo, passes, placements>>
  BY SetsAssumption DEF Delivered
<1>2. Waits(r) /\ \A a \in Wants(r) : <<a, At(r)>> \in replicas
  BY <1>1, VisitOver DEF PassInv
<1>3. /\ \A w \in Stages \cup Requests : Stuck(w) => Stuck(w)'
      /\ Succeeded' = Succeeded
  BY <1>1, FinishKeeps DEF Outcomes, Succeeded
<1>4. ~RequestsStill
  BY <1>2 DEF RequestsStill, Stuck, Blocked
<1>5. Stuck(r)'
  <2>1. requests' = [requests EXCEPT ![r] = "SUCCEEDED"] /\ requests \in [Requests -> RequestStatuses]
    BY <1>1, FinishStatus DEF ControlInv, TypeOK
  <2>2. requests'[r] # "ACTIVE"
    BY <2>1
  <2>3. QED
    BY <2>2 DEF Stuck, Waits, Active
<1>6. Visited' /\ ~Through' /\ (Under' <=> Under)
  BY <1>1 DEF Visited, NoJob, Through, Under
<1>7. ASSUME Under PROVE \A q \in Requests : SeenRequest(q)' => Stuck(q)'
  <2>1. \A q \in Requests : SeenRequest(q)' => SeenRequest(q) \/ q = r
    BY <1>1 DEF SeenRequest
  <2>2. QED
    BY <1>3, <1>5, <1>7, <2>1 DEF PassInv
<1>8. ASSUME Under, passes >= 2 PROVE Counted'
  <2>1. Cardinality(Succeeded) >= passes - 1
    BY <1>4, <1>8 DEF PassInv, Counted
  <2>2. QED
    BY <1>1, <1>3, <2>1 DEF Counted
<1>9. QED
  BY <1>1, <1>6, <1>7, <1>8 DEF PassInv

\* What has ended is reaped: another stage has succeeded.
LEMMA ReapPasses ==
    ASSUME ControlInv, ControlInv', Grounds, PassInv, Reap
    PROVE  PassInv'
<1> DEFINE done == {s \in ended : stages[s] # "SUSPENDED"}
<1>1. /\ pc = "reap" /\ pc' = "deliver" /\ todo' = Requests
      /\ replicas' = replicas \cup landed \cup UNION {Outputs[s] \X {node[s]} : s \in done}
      /\ source' = [k \in Keys |-> IF k \in landed THEN None ELSE source[k]]
      /\ waiters' = [k \in Keys |-> WaitersAfter(k, landed)]
      /\ stages' = [s \in Stages |-> IF s \in done THEN "SUCCEEDED" ELSE stages[s]]
      /\ execs' = execs \ done
      /\ memory' = [n \in Nodes |-> memory[n] \ done]
      /\ changed' = (changed \/ landed # {} \/ done # {})
      /\ UNCHANGED <<requests, node, delayed, storage, round, job, passes, placements>>
  BY DEF Reap, Loop, requestVars
<1>2. job = NoJob /\ job.for = None /\ job.taken = {} /\ job'.for = None /\ job'.taken = {}
  BY <1>1 DEF ControlInv, Visiting, NoJob
<1>3. done \subseteq Stages /\ done \subseteq ended /\ \A s \in done : stages[s] # "SUCCEEDED"
  BY DEF ControlInv, TypeOK, Executing
<1>4. Under /\ ~changed => done = {}
  BY DEF Grounds, Looping
<1>5. TypeOK
  BY DEF ControlInv
<1> HIDE DEF done
<1>6. Visited' /\ ~Through' /\ (Under' <=> Under)
  BY <1>1, <1>2 DEF Visited, Through, Under
<1>7. CASE ~Under
  BY <1>6, <1>7 DEF PassInv
<1>8. CASE Under /\ done = {}
  <2>1. landed = {}
    BY <1>8 DEF Grounds, Looping, Under
  <2>2. /\ replicas' = replicas /\ source' = source /\ waiters' = waiters /\ stages' = stages
        /\ execs' = execs /\ memory' = memory
    BY <1>1, <1>5, <1>8, <2>1 DEF TypeOK, WaitersAfter
  <2>3. changed' = changed
    BY <1>1, <1>5, <1>8, <2>1 DEF TypeOK
  <2>4. /\ \A s \in Stages : SeenReady(s) /\ SeenData(s) /\ SeenQueue(s)
        /\ \A r \in Requests : ~SeenRequest(r)'
        /\ Passing /\ Passing'
    BY <1>1 DEF SeenReady, SeenData, SeenQueue, SeenRequest, Passing
  <2>5. Goes
    BY <1>1, <1>2, <2>2, <2>3, <2>4, IdleGoes
  <2>6. QED
    BY <1>6, <2>5, PassGoes
<1>9. CASE Under /\ done # {}
  <2>1. changed' /\ changed
    BY <1>1, <1>4, <1>9
  <2>2. \A r \in Requests : ~SeenRequest(r)'
    BY <1>1 DEF SeenRequest
  <2>3. ASSUME passes >= 2 PROVE Counted'
    <3> DEFINE S == Succeeded
               T == Succeeded'
    <3>1. S \subseteq T /\ S # T /\ T \subseteq Stages
      BY <1>1, <1>3, <1>9 DEF Succeeded, Having
    <3>2. IsFiniteSet(S) /\ IsFiniteSet(T)
      BY <3>1, SetsAssumption, FS_Subset
    <3> DEFINE c == Cardinality(S)
               d == Cardinality(T)
    <3>3. c \in Nat /\ d \in Nat /\ c <= d /\ c # d
      BY <3>1, <3>2, FS_CardinalityType, FS_Subset
    <3>4. c >= passes - 1 \/ c = passes - 2
      BY <1>9, <2>1, <2>3 DEF PassInv, Counted
    <3>5. passes \in Nat
      BY PassBound, <1>5 DEF TypeOK
    <3> HIDE DEF c, d
    <3>6. d >= passes - 1
      BY <3>3, <3>4, <3>5
    <3>7. QED
      BY <1>1, <3>6 DEF Counted, d
  <2>4. QED
    BY <1>1, <1>6, <2>1, <2>2, <2>3 DEF PassInv
<1>10. QED
  BY <1>7, <1>8, <1>9

\* A pass begins: nothing is settled in it yet.
LEMMA PassBegins ==
    ASSUME pc' = "ready", todo' = Stages, ~changed', job'.for = None,
           passes' >= 2 => RequestsStill' /\ Counted'
    PROVE  PassInv'
<1>1. /\ \A s \in Stages : ~SeenReady(s)' /\ ~SeenData(s)' /\ ~SeenQueue(s)'
      /\ \A r \in Requests : ~SeenRequest(r)'
  BY DEF SeenReady, SeenData, SeenQueue, SeenRequest
<1>2. Visited' /\ Settled' /\ Dried' /\ ~Through'
  BY <1>1 DEF Visited, Settled, Dried, Through
<1>3. QED
  BY <1>1, <1>2 DEF PassInv

\* The number of passes is enough: each but the first and the last two has
\* ended with one more stage that has succeeded.
LEMMA PassesSuffice ==
    ASSUME ControlInv, Counted, changed, passes >= 2
    PROVE  passes < MaxPasses
<1> DEFINE c == Cardinality(Succeeded)
           n == Cardinality(Stages)
           m == Cardinality(Artifacts)
<1>1. Succeeded \in SUBSET Stages /\ IsFiniteSet(Stages) /\ IsFiniteSet(Artifacts)
  BY SetsAssumption DEF Succeeded, Having
<1>2. c \in Nat /\ n \in Nat /\ m \in Nat /\ c <= n /\ (c = n => Succeeded = Stages)
  BY <1>1, FS_Subset, FS_CardinalityType
<1>3. c >= passes - 1 \/ (c = passes - 2 /\ Succeeded # Stages)
  BY DEF Counted
<1>4. MaxPasses = n + m + 2 /\ passes \in Nat
  BY PassBound DEF MaxPasses, ControlInv, TypeOK
<1> HIDE DEF c, n, m
<1>5. c >= passes - 1 \/ (c = passes - 2 /\ c # n)
  BY <1>2, <1>3
<1>6. QED
  BY <1>2, <1>4, <1>5

\* The deliveries are over: the next pass begins, or nothing is left.
LEMMA EndDeliverPasses ==
    ASSUME ControlInv, ControlInv', PassInv, EndDeliver
    PROVE  PassInv'
<1> USE DEF requestVars, stageVars, dataVars, execVars, engineVars, finishVars, restFrame
<1>1. /\ pc = "deliver" /\ job.for = None /\ job.taken = {} /\ job' = job /\ job'.taken = {}
      /\ \A r \in todo : ~(Active(r) /\ AllSucceeded(r))
      /\ UNCHANGED <<round, expired, requests, stages, node, delayed, replicas, source, waiters, storage,
                     execs, memory, placements>>
      /\ \/ changed /\ round = "first" /\ pc' = "reap"
         \/ /\ changed /\ round # "first" /\ passes < MaxPasses
            /\ pc' = "ready" /\ todo' = Stages /\ passes' = passes + 1 /\ changed' = FALSE
         \/ /\ ~(changed /\ round = "first") /\ ~(changed /\ round # "first" /\ passes < MaxPasses)
            /\ pc' = IF round = "again" THEN "collect" ELSE "expire"
  BY DEF EndDeliver, Loop, Pass, ControlInv, Visiting, NoJob
<1>2. /\ \A w \in Stages \cup Requests : (Stuck(w) => Stuck(w)') /\ (Dry(w) => Dry(w)')
      /\ \A s \in Stages : Tight(s) => Tight(s)'
      /\ \A s \in Stages : Readied(s) => Readied(s)'
  BY <1>1, IdleKeeps
<1>3. Succeeded' = Succeeded /\ passes \in Nat /\ passes <= MaxPasses /\ changed \in BOOLEAN
  <2>1. Succeeded' = Succeeded
    BY <1>1 DEF Succeeded, Having
  <2>2. MaxPasses \in Nat /\ passes \in 0 .. MaxPasses /\ changed \in BOOLEAN
    BY PassBound DEF ControlInv, TypeOK
  <2>3. QED
    BY <2>1, <2>2
<1>4. CASE round = "first"
  <2>1. pc' \in {"reap", "expire"} /\ round' = "first"
    BY <1>1, <1>4
  <2>2. QED
    BY <2>1 DEF PassInv, Visited, Under, Through
<1>5. CASE round # "first"
  <2>1. Under
    BY <1>1, <1>5 DEF Under
  <2>2. \A r \in Requests : SeenRequest(r) \/ ~Waits(r)
    BY <1>1, SetsAssumption DEF SeenRequest, Waits
  <2>3. RequestsStill
    BY <2>1, <2>2 DEF PassInv, RequestsStill, Stuck
  <2>4. \A s \in Stages : SeenReady(s) /\ SeenData(s) /\ SeenQueue(s)
    BY <1>1 DEF SeenReady, SeenData, SeenQueue
  <2>5. Settled <=> StagesStill
    BY <2>4 DEF Settled, StagesStill
  <2>6. /\ RequestsStill => RequestsStill'
        /\ StagesStill => StagesStill'
    BY <1>2 DEF RequestsStill, StagesStill
  <2>7. CASE pc' = "ready" /\ todo' = Stages /\ passes' = passes + 1 /\ changed' = FALSE /\ changed
    <3>1. ASSUME passes' >= 2 PROVE Counted'
      <4> DEFINE c == Cardinality(Succeeded)
      <4>1. c \in Nat /\ passes >= 1 /\ c' = c
        <5>1. IsFiniteSet(Succeeded)
          <6>1. Succeeded \subseteq Stages
            BY DEF Succeeded, Having
          <6>2. QED
            BY <6>1, SetsAssumption, FS_Subset
        <5>2. QED
          BY <1>3, <2>7, <3>1, <5>1, FS_CardinalityType
      <4>2. /\ Settled' /\ ~changed' /\ RequestsStill'
        <5>1. \A s \in Stages : ~SeenReady(s)' /\ ~SeenData(s)' /\ ~SeenQueue(s)'
          BY <2>7 DEF SeenReady, SeenData, SeenQueue
        <5>2. QED
          BY <2>3, <2>6, <2>7, <5>1 DEF Settled
      <4>3. passes = 1 \/ c >= passes - 1 \/ (passes >= 2 /\ StagesStill)
        <5>1. CASE passes >= 2
          <6>1. Counted
            BY <2>1, <5>1 DEF PassInv
          <6>2. QED
            BY <2>5, <2>7, <5>1, <6>1 DEF Counted
        <5>2. QED
          BY <1>3, <4>1, <5>1
      <4>4. CASE StagesStill
        BY <2>3, <2>6, <2>7, <4>4 DEF Counted
      <4>5. CASE ~StagesStill
        <5> HIDE DEF c
        <5>1. c >= passes' - 1 \/ c = passes' - 2
          BY <1>3, <2>7, <4>1, <4>3, <4>5
        <5>2. QED
          BY <4>1, <4>2, <5>1 DEF Counted, c
      <4>6. QED
        BY <4>4, <4>5
    <3>2. QED
      BY <1>1, <2>3, <2>6, <2>7, <3>1, PassBegins
  <2>8. CASE ~(passes < MaxPasses /\ changed) /\ pc' = IF round = "again" THEN "collect" ELSE "expire"
    <3>1. ~changed
      <4>1. SUFFICES ASSUME changed, ~(passes < MaxPasses) PROVE FALSE
        BY <1>3, <2>8
      <4>2. passes >= 2
        <5> DEFINE n == Cardinality(Stages)
                   m == Cardinality(Artifacts)
        <5>1. n \in Nat /\ m \in Nat
          BY SetsAssumption, FS_CardinalityType
        <5>2. MaxPasses = n + m + 2
          BY DEF MaxPasses
        <5> HIDE DEF n, m
        <5>3. QED
          BY <1>3, <4>1, <5>1, <5>2
      <4>3. QED
        BY <2>1, <4>1, <4>2, PassesSuffice DEF PassInv
    <3>2. StagesStill
      BY <2>1, <2>5, <3>1 DEF PassInv
    <3>3. \A w \in Stages \cup Requests : Dry(w)
      BY <2>1, <2>2, <2>4, <3>1 DEF PassInv, Dried, Dry
    <3>4. Still'
      BY <1>2, <2>3, <2>6, <3>2, <3>3 DEF Still
    <3>5. pc' \in {"collect", "expire"}
      BY <2>8
    <3>6. QED
      BY <3>4, <3>5 DEF PassInv, Visited, Under
  <2>9. QED
    BY <1>1, <1>3, <1>5, <2>7, <2>8
<1>6. QED
  BY <1>4, <1>5

\* What nobody can go on with stays so until the runtime sleeps.
LEMMA StillKeeps ==
    ASSUME ControlInv, ControlInv', InputInv, Grounds, PassInv, EndExpire \/ EndArrive \/ Collect \/ Return
    PROVE  PassInv'
<1> USE DEF requestVars, stageVars, dataVars, execVars, engineVars, finishVars, restFrame
<1>1. pc \in {"expire", "arrive", "collect", "return"} /\ job = NoJob /\ job' = NoJob /\ job.for = None
      /\ job'.for = None /\ job.taken = {} /\ job'.taken = {}
  <2>1. pc \in {"expire", "arrive", "collect", "return"} /\ job' = job
    BY DEF EndExpire, EndArrive, Collect, Return, loopVars
  <2>2. QED
    BY <2>1 DEF ControlInv, Visiting, NoJob
<1>2. Visited'
  BY <1>1 DEF Visited
<1>3. CASE pc' = "ready"
  <2>1. todo' = Stages /\ changed' = FALSE /\ passes' = 1
    BY <1>1, <1>3 DEF EndExpire, EndArrive, Collect, Return, Loop, Pass
  <2>2. QED
    BY <1>1, <1>3, <2>1, PassBegins
<1>4. CASE pc' # "ready"
  <2>1. ~Under'
    BY <1>4 DEF EndExpire, EndArrive, Collect, Return, Loop, Pass, Under
  <2>2. Through' => Through
    <3>1. CASE EndExpire
      <4>1. pc = "expire" /\ pc' = (IF round = "first" THEN "arrive" ELSE "collect")
            /\ ~(round = "active" /\ expired)
        BY <1>4, <3>1 DEF EndExpire, Loop, Pass
      <4>2. round \in {"first", "active"} /\ expired \in BOOLEAN
        BY <4>1 DEF Grounds, Looping, ControlInv, TypeOK
      <4>3. QED
        BY <4>1, <4>2 DEF Through
    <3>2. CASE ~EndExpire
      BY <1>4, <3>2 DEF EndArrive, Collect, Return, Pass, Loop, Through
    <3>3. QED
      BY <3>1, <3>2
  <2>3. ASSUME Still PROVE Still'
    <3>1. CASE Collect
      <4>1. Shifts /\ placements' = placements
        BY <3>1, CollectShifts DEF Collect, loopVars
      <4>2. QED
        BY <2>3, <4>1, ShiftsQuiet, ShiftKeeps DEF Still, StagesStill, RequestsStill
    <3>2. CASE ~Collect
      <4>1. UNCHANGED <<requests, stages, node, delayed, replicas, source, waiters, storage, execs, memory,
                        placements>>
        BY <3>2 DEF EndExpire, EndArrive, Return, loopVars
      <4>2. QED
        BY <1>1, <2>3, <4>1, IdleKeeps DEF Still, StagesStill, RequestsStill
    <3>3. QED
      BY <3>1, <3>2
  <2>4. QED
    BY <1>2, <2>1, <2>2, <2>3 DEF PassInv
<1>5. QED
  BY <1>3, <1>4

\* The steps outside the passes, and those of the first reaping.
LEMMA OtherPasses ==
    ASSUME ControlInv, ControlInv', InputInv, Grounds, PassInv,
           \/ \E r \in Requests : Expire(r) \/ Arrive(r) \/ Refuse(r) \/ Fail(r)
           \/ Deadlock \/ EndFail \/ Sleep \/ Decision \/ (\E limit \in Boundaries : Advance(limit))
           \/ Close \/ Closed
    PROVE  PassInv'
<1>1. \/ pc' \in {"arrive", "fail", "idle", "apply", "closed"}
      \/ pc' = "reap" /\ round' = "first"
      \/ pc' = "expire" /\ expired' = TRUE
  BY DEF Expire, Arrive, Refuse, Fail, Deadlock, EndFail, Sleep, Wait, Decision, Apply, ApplyCommand, EndApply,
         Advance, Close, Closed, Settling, Loop, vars
<1>2. QED
  BY <1>1 DEF PassInv, Visited, Under, Through

LEMMA StutterPasses ==
    ASSUME ControlInv, ControlInv', InputInv, Grounds, PassInv, UNCHANGED vars
    PROVE  PassInv'
<1>1. UNCHANGED <<pc, requestVars, stageVars, dataVars, execVars, loopVars>>
  BY DEF vars
<1>2. UNCHANGED <<pc, requestVars, stageVars, execVars, replicas, source, waiters, storage, round, todo, job,
                  changed, passes, expired, placements, node, requests, stages>>
  BY <1>1 DEF dataVars, loopVars, stageVars, requestVars
<1>3. Shifts
  <2>1. replicas \cap replicas' = replicas
    BY <1>2
  <2>2. Spared(replicas \cap replicas', requests, stages, source)
    BY <2>1, SameSpared
  <2>3. ASSUME NEW n \in Nodes, NEW x \in Kept(n) PROVE x \in Base(n)'
    BY <1>2 DEF Kept, Base, Taken
  <2>4. QED
    BY <1>2, <2>2, <2>3 DEF Shifts
<1>4. Quiet
  BY <1>3, ShiftsQuiet
<1>5. /\ \A w \in Stages \cup Requests : (Stuck(w) => Stuck(w)') /\ (Dry(w) => Dry(w)')
      /\ \A s \in Stages : Tight(s) => Tight(s)'
      /\ \A s \in Stages : Readied(s) => Readied(s)'
  BY <1>2, <1>3, <1>4, ShiftKeeps
<1>6. Still => Still'
  BY <1>5 DEF Still, StagesStill, RequestsStill
<1>7. (Through' <=> Through) /\ (Under' <=> Under) /\ (Passing' <=> Passing)
  BY <1>2 DEF Through, Under, Passing
<1>8. Visited'
  <2>1. SUFFICES ASSUME job.for # None, pc \in {"data", "deliver"} PROVE Visited'
    BY <1>2 DEF Visited
  <2>2. job.for \in Stages \cup Requests /\ Waits(job.for)
    <3>1. CASE pc = "deliver"
      BY <2>1, <3>1 DEF ControlInv, Visiting, Waits
    <3>2. CASE pc = "data"
      BY <2>1, <3>2, SetsAssumption DEF ControlInv, Visiting, Waits
    <3>3. QED
      BY <2>1, <3>1, <3>2
  <2> PICK w \in Stages \cup Requests : w = job.for /\ Waits(w)
    BY <2>2
  <2>3. Wants(w)' = Wants(w) /\ At(w)' = At(w)
    BY <1>2 DEF Wants, At
  <2>4. \A a \in Wants(w) : /\ Shut(w, a) => Shut(w, a)'
                            /\ <<a, At(w)>> \in replicas => <<a, At(w)>> \in replicas'
    BY <1>4, <2>2 DEF Quiet
  <2>5. Stuck(w) => Stuck(w)'
    BY <1>5, <2>2
  <2>6. /\ job.ok => \A a \in Wants(w) \ job.rest : <<a, At(w)>> \in replicas
        /\ ~job.ok => Stuck(w)
        /\ Under /\ ~changed => \A a \in Wants(w) \ job.rest : Shut(w, a)
    BY <2>1 DEF PassInv, Visited
  <2>7. /\ job'.ok => \A a \in Wants(w)' \ job'.rest : <<a, At(w)'>> \in replicas'
        /\ ~job'.ok => Stuck(w)'
        /\ Under' /\ ~changed' => \A a \in Wants(w)' \ job'.rest : Shut(w, a)'
    BY <1>2, <1>7, <2>3, <2>4, <2>5, <2>6
  <2>8. job'.for = w
    BY <1>2
  <2>9. QED
    BY <2>7, <2>8 DEF Visited
<1>9. CASE Passing
  <2>1. Goes
    BY <1>2, <1>3, <1>4, <1>9, ShiftGoes
  <2>2. QED
    BY <1>8, <2>1, PassGoes
<1>10. CASE ~Passing
  BY <1>6, <1>7, <1>8, <1>10 DEF PassInv, Under, Passing
<1>11. QED
  BY <1>9, <1>10

LEMMA PassStart == Init => PassInv
<1> SUFFICES ASSUME Init PROVE PassInv
  OBVIOUS
<1>1. pc = "idle"
  BY DEF Init
<1>2. QED
  BY <1>1 DEF PassInv, Visited, Under, Through

LEMMA PassStep ==
    ASSUME ControlInv, ControlInv', DataInv, InputInv, LedgerInv, Grounds, PassInv, [Next]_vars
    PROVE  PassInv'
<1>1. CASE Reap
  BY <1>1, ReapPasses
<1>2. CASE PlaceAll
  BY <1>2, PlacePasses
<1>3. ASSUME NEW r \in Requests, Deliver(r) \/ Delivered(r) PROVE PassInv'
  <2>1. CASE Delivered(r) /\ job.ok
    BY <2>1, DeliverPasses
  <2>2. CASE Delivered(r) /\ ~job.ok
    BY <2>2, EndPasses
  <2>3. CASE Deliver(r)
    BY <2>3, BeginPasses
  <2>4. QED
    BY <1>3, <2>1, <2>2, <2>3
<1>4. ASSUME NEW a \in Artifacts, Fetches(a) PROVE PassInv'
  BY <1>4, FetchPasses
<1>5. ASSUME NEW a \in Artifacts, ReserveOutput(a) PROVE PassInv'
  BY <1>5, ReservePasses
<1>6. ASSUME NEW s \in Stages, MakeReady(s) PROVE PassInv'
  BY <1>6, ReadyPasses
<1>7. ASSUME NEW s \in Stages, Gathered(s) PROVE PassInv'
  <2>1. CASE job.ok
    BY <1>7, <2>1, GatherPasses
  <2>2. CASE ~job.ok
    BY <1>7, <2>2, EndPasses
  <2>3. QED
    BY <2>1, <2>2
<1>8. ASSUME NEW s \in Stages, Gather(s) \/ Dispatch(s) \/ SkipStage(s) PROVE PassInv'
  BY <1>8, BeginPasses
<1>9. ASSUME NEW s \in Stages, StartStage(s) PROVE PassInv'
  BY <1>9, StartPasses
<1>10. CASE EndDeliver
  BY <1>10, EndDeliverPasses
<1>11. CASE EndData \/ EndDispatch
  BY <1>11, EndPasses
<1>12. CASE EndExpire \/ EndArrive \/ Collect \/ Return
  BY <1>12, StillKeeps
<1>13. CASE \/ \E r \in Requests : Expire(r) \/ Arrive(r) \/ Refuse(r) \/ Fail(r)
            \/ Deadlock \/ EndFail \/ Sleep \/ Decision \/ (\E limit \in Boundaries : Advance(limit))
            \/ Close \/ Closed
  BY <1>13, OtherPasses
<1>14. CASE UNCHANGED vars
  BY <1>14, StutterPasses
<1>15. QED
  BY <1>1, <1>2, <1>3, <1>4, <1>5, <1>6, <1>7, <1>8, <1>9, <1>10, <1>11, <1>12, <1>13, <1>14
     DEF Next, Settle, Fetches

LEMMA PassInvariant == Spec => []PassInv
<1>1. Init => PassInv
  BY PassStart
<1>2. /\ ControlInv /\ ControlInv' /\ DataInv /\ InputInv /\ LedgerInv /\ Grounds /\ PassInv /\ [Next]_vars
      => PassInv'
  BY PassStep
<1>3. QED
  BY <1>1, <1>2, ControlInvariant, DataInvariant, InputInvariant, LedgerInvariant, GroundsInvariant, PTL
     DEF Spec

-----------------------------------------------------------------------------
\* What is still is left with nothing it could do.
LEMMA StillIsNothing ==
    ASSUME ControlInv, DataInv, LedgerInv, Grounds, Still, pc = "wait"
    PROVE  NothingLeft
<1>1. job = NoJob /\ job.taken = {} /\ \A s \in Stages : placements[s] = None
  BY DEF ControlInv, Visiting, NoJob, Grounds, Looping
<1>2. \A n \in Nodes : Kept(n) = storage[n] \ Evictable(n)
  BY <1>1 DEF Kept, Base, Taken
<1>3. \A n \in Nodes : /\ storage[n] \in SUBSET Artifacts /\ Storage[n] \in Nat
                       /\ Used(storage[n] \ Evictable(n)) \in Nat
                       /\ Used(storage[n] \ Evictable(n)) <= Storage[n]
  <2>1. ASSUME NEW n \in Nodes
        PROVE  /\ storage[n] \in SUBSET Artifacts /\ Storage[n] \in Nat
               /\ Used(storage[n] \ Evictable(n)) \in Nat
               /\ Used(storage[n] \ Evictable(n)) <= Storage[n]
    <3> DEFINE u == Used(storage[n])
               x == Used(storage[n] \ Evictable(n))
    <3>1. storage[n] \in SUBSET Artifacts /\ Storage[n] \in Nat /\ u <= Storage[n]
      BY PlatformAssumption DEF ControlInv, TypeOK, LedgerInv, WithinCapacity
    <3>2. x \in Nat /\ u \in Nat /\ x <= u
      <4>1. storage[n] \ Evictable(n) \in SUBSET storage[n] /\ storage[n] \ Evictable(n) \in SUBSET Artifacts
        BY <3>1
      <4>2. QED
        BY <3>1, <4>1, StorageSums
    <3> HIDE DEF u, x
    <3>3. x <= Storage[n]
      BY <3>1, <3>2
    <3>4. QED
      BY <3>1, <3>2, <3>3 DEF x
  <2>2. QED
    BY <2>1
<1>4. ASSUME NEW n \in Nodes, NEW S \in SUBSET Artifacts, Crammed(S, n)
      PROVE  ~RoomFor(S, n)
  <2> DEFINE x == Used(storage[n] \ Evictable(n))
             u == Used(S)
  <2>1. x + u > Storage[n]
    BY <1>2, <1>4 DEF Crammed
  <2>2. x \in Nat /\ u \in Nat /\ Storage[n] \in Nat
    BY <1>3, StorageSums
  <2>3. RoomFor(S, n) <=> x + u <= Storage[n]
    BY DEF RoomFor
  <2> HIDE DEF x, u
  <2>4. QED
    BY <2>1, <2>2, <2>3
<1>5. ASSUME NEW w \in Stages \cup Requests, Waits(w)
      PROVE  /\ \E a \in Wants(w) : <<a, At(w)>> \notin replicas
             /\ ~\E a \in Wants(w) : CouldFetch(w, a, At(w))
  <2>1. Stuck(w) /\ Dry(w)
    BY DEF Still, StagesStill, RequestsStill
  <2>2. \E a \in Wants(w) : <<a, At(w)>> \notin replicas
    BY <1>5, <2>1 DEF Stuck, Blocked
  <2>3. ASSUME NEW a \in Wants(w), CouldFetch(w, a, At(w)) PROVE FALSE
    <3>1. Crammed({a}, At(w))
      BY <1>5, <2>1, <2>3 DEF Dry, Shut, CouldFetch
    <3>2. At(w) \in Nodes /\ {a} \in SUBSET Artifacts
      BY <1>5, WaitPlace
    <3>3. ~RoomFor({a}, At(w))
      BY <1>4, <3>1, <3>2
    <3>4. QED
      BY <2>3, <3>3 DEF CouldFetch
  <2>4. QED
    BY <2>2, <2>3
<1>6. ASSUME NEW s \in Stages, Active(RequestOf[s])
      PROVE  /\ stages[s] = "READY" => External
             /\ stages[s] = "WAITING_DEPENDENCIES" => ~MayBeReady(s)
  <2>1. Readied(s)
    BY DEF Still, StagesStill
  <2>2. QED
    BY <1>1, <1>6, <2>1 DEF Readied, MayBeReady
<1>7. ASSUME NEW s \in Stages, stages[s] = "WAITING_DATA"
      PROVE  /\ \E a \in Inputs[s] : <<a, node[s]>> \notin replicas
             /\ ~\E a \in Inputs[s] : CouldFetch(s, a, node[s])
  <2>1. s \notin Requests
    BY SetsAssumption
  <2>2. Waits(s) /\ Wants(s) = Inputs[s] /\ At(s) = node[s]
    BY <1>7, <2>1 DEF Waits, Wants, At
  <2>3. QED
    BY <1>5, <2>2
<1>8. ASSUME NEW r \in Requests, Active(r), AllSucceeded(r)
      PROVE  /\ \E a \in Deliverables[r] : <<a, Receiver[r]>> \notin replicas
             /\ ~\E a \in Deliverables[r] : CouldFetch(r, a, Receiver[r])
  <2>1. Waits(r) /\ Wants(r) = Deliverables[r] /\ At(r) = Receiver[r]
    BY <1>8 DEF Waits, Wants, At
  <2>2. QED
    BY <1>5, <2>1
<1>9. ASSUME NEW s \in Stages, Dispatchable(s)
      PROVE  ~RoomFor(Outputs[s] \ storage[node[s]], node[s])
  <2> DEFINE n == node[s]
  <2>1. n \in Nodes /\ Owed(s) \in SUBSET Artifacts
    BY <1>9, QueuedPlace
  <2>2. Crammed(Owed(s), n)
    BY <1>9 DEF Still, StagesStill, Tight
  <2>3. CASE s \in execs
    <3> DEFINE x == Used(storage[n] \ Evictable(n))
               z == Used({})
    <3>1. Owed(s) = {}
      BY <2>3 DEF Owed
    <3>2. x + z > Storage[n]
      BY <1>2, <2>1, <2>2, <3>1 DEF Crammed
    <3>3. x = x + z
      <4>1. storage[n] \ Evictable(n) \in SUBSET Artifacts /\ (storage[n] \ Evictable(n)) \cup {} = storage[n] \ Evictable(n)
        BY <1>3, <2>1
      <4>2. QED
        BY <4>1, JoinedSums
    <3>4. x \in Nat /\ x <= Storage[n] /\ Storage[n] \in Nat
      BY <1>3, <2>1
    <3> HIDE DEF x, z
    <3>5. QED
      BY <3>2, <3>3, <3>4
  <2>4. CASE s \notin execs
    <3>1. Owed(s) = Outputs[s] /\ stages[s] = "QUEUED"
      BY <1>9, <2>4 DEF Owed, Dispatchable
    <3>2. StorageExact
      BY ExactParts DEF LedgerInv, ControlInv, Exact
    <3>3. ASSUME NEW a \in Outputs[s], a \in storage[n] PROVE FALSE
      <4>1. a \in Artifacts
        BY <2>1, <3>1
      <4>2. Holds(a, n)
        BY <2>1, <3>2, <3>3, <4>1 DEF StorageExact
      <4>3. <<a, n>> \notin replicas /\ source[<<a, n>>] = None
        BY <2>1, <3>1, <3>3, <4>1, HeldApart
      <4>4. \A u \in execs : a \notin Outputs[u]
        BY <2>4, <3>3, WorkflowAssumption DEF ControlInv, TypeOK
      <4>5. QED
        BY <1>1, <4>2, <4>3, <4>4 DEF Holds
    <3>4. Outputs[s] \ storage[n] = Owed(s)
      BY <3>1, <3>3
    <3>5. QED
      BY <1>4, <2>1, <2>2, <3>4
  <2>5. QED
    BY <2>3, <2>4
<1>10. QED
  BY <1>6, <1>7, <1>8, <1>9 DEF NothingLeft

\* When the runtime sleeps nothing is left that it could do at once: the passes
\* of _settle_active reach their fixed point before the bound on them, the
\* deadlines that are looked at in between included, and what an eviction or a
\* stage that could not start gives back lets nothing else begin, for every
\* workload, platform and policy.
THEOREM NothingIsLeft == Spec => []NothingLeft
<1>1. ControlInv /\ DataInv /\ LedgerInv /\ Grounds /\ PassInv => NothingLeft
  <2> SUFFICES ASSUME ControlInv, DataInv, LedgerInv, Grounds, PassInv, pc = "wait" PROVE NothingLeft
    BY DEF NothingLeft
  <2>1. Still
    BY DEF PassInv, Through
  <2>2. QED
    BY <2>1, StillIsNothing
<1>2. QED
  BY <1>1, ControlInvariant, DataInvariant, LedgerInvariant, GroundsInvariant, PassInvariant, PTL
=============================================================================
