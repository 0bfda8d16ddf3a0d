-------------------------- MODULE BatchRunnerProofs --------------------------
(***************************************************************************)
(* Proofs about BatchRunner: its books agree at every moment, for any set  *)
(* of runs and any number of workers, and it keeps BatchContract; and      *)
(* about VectorEnv, whose environments use it: waves, episodes, close.     *)
(***************************************************************************)
EXTENDS VectorEnv, SequenceSets

-----------------------------------------------------------------------------
(* The queue as a sequence without repetitions. *)
LEMMA WithoutSet ==
    ASSUME NEW S, NEW s \in Seq(S), IsInjective(s), NEW e
    PROVE  /\ Without(s, e) \in Seq(S) /\ IsInjective(Without(s, e))
           /\ ToSet(Without(s, e)) = ToSet(s) \ {e}
<1>1. DOMAIN s = 1 .. Len(s)
  BY LenProperties
<1>2. CASE ~Contains(s, e)
  <2>1. e \notin ToSet(s)
    BY <1>1, <1>2 DEF Contains, ToSet
  <2>2. QED
    BY <1>2, <2>1 DEF Without
<1>3. CASE Contains(s, e)
  <2> DEFINE i == CHOOSE j \in 1 .. Len(s) : s[j] = e
  <2>1. i \in 1 .. Len(s) /\ s[i] = e /\ Without(s, e) = RemoveAt(s, i)
    BY <1>3 DEF Contains, Without
  <2> HIDE DEF i
  <2>2. QED
    BY <2>1, RemoveAtSet
<1>4. QED
  BY <1>2, <1>3

-----------------------------------------------------------------------------
(***************************************************************************)
(* The invariant.                                                          *)
(***************************************************************************)
Queued == ToSet(queue)

\* A known run is queued, active, finished, failed or lost, and only one of
\* these; a runner that was closed by a crash may have lost failed ones too.
Places ==
    /\ Queued \cup active \cup results \cup errors \cup lost \subseteq runs
    /\ Queued \cap (active \cup results \cup errors \cup lost) = {}
    /\ active \cap (results \cup errors \cup lost) = {}
    /\ results \cap (errors \cup lost) = {}
    /\ ~shut => runs \subseteq Queued \cup active \cup results \cup errors \cup lost
    /\ ~shut => errors \cap lost = {}

\* Requests are those of runs that can still answer; the sessions of the active
\* ones are in a call, and none of them has an answer that waits to be read.
Calls ==
    /\ requested \subseteq Queued \cup active \cup lost
    /\ \A r \in active : sess[r] \in {"calling", "answered"} <=> r \in requested
    /\ \A r \in requested : ready[r] = None /\ responses[r] = None

Barrier == op \in {"barrier", "run"}
Asking == pc = "ask" \/ (pc = "fill" /\ after = "ask")

\* What an operation has still to do is there to be done, and a barrier waits
\* for its targets only.  A run that had any leaves nothing in the queue.
Control ==
    /\ shut => pc = "idle" /\ queue = <<>> /\ active = {}
    /\ pc \in {"idle", "many"} => op = "none"
    /\ pc = "fill" /\ after = "idle" => op = "none"
    /\ ~Barrier => responses = Nothing
    /\ Asking =>
          /\ Barrier /\ responses = Nothing
          /\ todo \subseteq active \cap targets
          /\ \A r \in todo : r \notin requested /\ ready[r] = None
          /\ pc = "fill" \/ Held(ready) # {} => \E r \in targets : ready[r] # None
    /\ pc = "scan" => todo \subseteq active \cap requested
    /\ Barrier => requested \subseteq targets
    /\ pc = "heard" /\ HeardAll => ready = Nothing
    /\ op = "run" /\ pc \notin {"scan", "fill"} /\ active = {} => queue = <<>> \/ targets = {}

RunnerInv == TypeOK /\ Places /\ SlotsBounded /\ Calls /\ Control

LEMMA EmptyQueue == ToSet(<<>>) = {} /\ IsInjective(<<>>) /\ \A S : <<>> \in Seq(S)
  BY DEF ToSet, IsInjective

LEMMA InitRunner == Init => RunnerInv
<1> SUFFICES ASSUME Init PROVE RunnerInv
  OBVIOUS
<1>1. TypeOK
  BY EmptyQueue DEF Init, TypeOK, Nothing
<1>2. Places
  BY EmptyQueue DEF Init, Places, Queued
<1>3. SlotsBounded
  BY FS_EmptySet, BatchAssumption DEF Init, SlotsBounded, Live
<1>4. Calls
  BY DEF Init, Calls
<1>5. Control
  BY DEF Init, Control, Asking, Barrier
<1>6. QED
  BY <1>1, <1>2, <1>3, <1>4, <1>5 DEF RunnerInv

-----------------------------------------------------------------------------
(* Types. *)

Fields == <<runs, queue, active, requested, results, errors, ready, shut, lost>>
FieldTypes ==
    /\ runs \subseteq Runs /\ active \subseteq Runs /\ requested \subseteq Runs
    /\ results \subseteq Runs /\ errors \subseteq Runs /\ shut \in BOOLEAN
    /\ queue \in Seq(Runs) /\ IsInjective(queue)
    /\ ready \in [Runs -> Kinds \cup {None}] /\ lost \subseteq Runs
WorldTypes ==
    /\ sess \in [Runs -> {"none", "idle", "dead", "calling", "answered", "closed"}]
    /\ reply \in [Runs -> Outcomes \cup {None}] /\ late \subseteq Runs
ControlTypes ==
    /\ responses \in [Runs -> Kinds \cup {None}]
    /\ op \in {"none", "recv", "poll", "expired", "barrier", "run"}
    /\ pc \in {"idle", "fill", "many", "loop", "wait", "scan", "return", "ask", "heard"}
    /\ after \in {"idle", "loop", "return", "ask"}
    /\ targets \subseteq Runs /\ todo \subseteq Runs /\ got \subseteq Runs

LEMMA TypeParts == TypeOK <=> FieldTypes /\ WorldTypes /\ ControlTypes
  BY DEF TypeOK, FieldTypes, WorldTypes, ControlTypes

LEMMA WorldTypesStep ==
    ASSUME TypeOK, [Next]_vars PROVE WorldTypes'
<1>1. WorldTypes
  BY TypeParts
<1>2. ASSUME NEW S, NEW v \in {"none", "idle", "calling", "closed"}, Become(S, v)
      PROVE  WorldTypes'
  BY <1>1, <1>2 DEF Become, WorldTypes
<1>3. ASSUME NEW S, BootAndSend(S) PROVE WorldTypes'
  BY <1>1, <1>3 DEF BootAndSend, WorldTypes
<1>4. ASSUME NEW r \in Runs, Answer(r) \/ WorkerDies(r) \/ DeadlinePasses(r)
      PROVE  WorldTypes'
  BY <1>1, <1>4 DEF Answer, WorkerDies, DeadlinePasses, At, WorldTypes
<1>5. ASSUME NEW S, RecordErrors(S) PROVE WorldTypes'
  BY <1>2, <1>5 DEF RecordErrors
<1>6. ASSUME UNCHANGED world PROVE WorldTypes'
  BY <1>1, <1>6 DEF world, WorldTypes
<1>7. ASSUME NEW r \in Runs, Request(r) PROVE WorldTypes'
  BY <1>2, <1>6, <1>7 DEF Request
<1>8. ASSUME NEW r \in Runs, SubmitWindow(r) PROVE WorldTypes'
  BY <1>2, <1>8 DEF SubmitWindow, SendWindow
<1>9. ASSUME NEW r \in Runs, Take(r) PROVE WorldTypes'
  BY <1>2, <1>5, <1>9 DEF Take, Retire
<1>10. CASE Running
  BY <1>10, <1>2, <1>3, <1>5, <1>6, <1>7, <1>9
  DEF Running, Boot, BootFails, BootCrash, FillDone, BootMany, BootManyCrash, Shut, Wait,
      Poll, Scanned, Return, Asked, HearMore, BarrierEnds, RunContinues, StartBarrier,
      PassOver, Ask, Unreachable
<1>11. CASE Caller
  BY <1>11, <1>2, <1>5, <1>6, <1>7, <1>8
  DEF Caller, Submit, SubmitMany, SubmitAdvance, Unreachable, SessionCall, Cancel, Discard,
      RecvReady, AdvanceAll, RunAll, StartBarrier, Close, Shut
<1>12. CASE Clock \/ WorkerSteps
  BY <1>12, <1>4, <1>6 DEF Clock, WorkerSteps, PollExpires
<1>13. CASE UNCHANGED vars
  BY <1>13, <1>6 DEF vars, world
<1>14. QED
  BY <1>10, <1>11, <1>12, <1>13 DEF Next

LEMMA ControlTypesStep ==
    ASSUME TypeOK, [Next]_vars PROVE ControlTypes'
<1>1. ControlTypes /\ FieldTypes
  BY TypeParts
<1>2. ASSUME Home PROVE ControlTypes'
  BY <1>2 DEF Home, ControlTypes, Nothing
<1>3. ASSUME NEW p \in {"idle", "fill", "many", "loop", "wait", "scan", "return", "ask", "heard"},
             Goto(p)
      PROVE  ControlTypes'
  BY <1>1, <1>3 DEF Goto, ControlTypes
<1>4. ASSUME NEW p \in {"idle", "loop", "return", "ask"}, FillThen(p) PROVE ControlTypes'
  BY <1>1, <1>4 DEF FillThen, ControlTypes
<1>5. ASSUME UNCHANGED control PROVE ControlTypes'
  BY <1>1, <1>5 DEF control, ControlTypes
<1>6. ASSUME NEW r \in Runs, PassOver(r) \/ Take(r) \/ Ask(r) PROVE ControlTypes'
  BY <1>1, <1>6 DEF PassOver, Take, Ask, ControlTypes
<1>7. ASSUME StartBarrier, responses' \in {responses, Nothing}, op' \in {op, "barrier", "run"}
      PROVE  ControlTypes'
  BY <1>1, <1>7 DEF StartBarrier, ControlTypes, FieldTypes, Nothing
<1>8. CASE FillDone
  BY <1>8, <1>1, <1>2, <1>3 DEF FillDone, ControlTypes
<1>9. CASE Return
  BY <1>9, <1>1, <1>2 DEF Return, Merge, ControlTypes, FieldTypes
<1>10. CASE Poll
  BY <1>10, <1>1 DEF Poll, ControlTypes, FieldTypes, Waiting
<1>11. CASE Scanned
  BY <1>11, <1>1 DEF Scanned, FillAndLoop, BackToLoop, ControlTypes
<1>12. CASE Boot \/ BootFails \/ BootCrash \/ BootMany \/ BootManyCrash
  BY <1>12, <1>2, <1>4, <1>5 DEF Boot, BootFails, BootCrash, BootMany, BootManyCrash
<1>13. CASE Wait \/ Asked \/ HearMore \/ BarrierEnds \/ RunContinues
  BY <1>13, <1>2, <1>3, <1>7 DEF Wait, Asked, HearMore, BarrierEnds, RunContinues
<1>14. CASE Running
  BY <1>14, <1>6, <1>8, <1>9, <1>10, <1>11, <1>12, <1>13 DEF Running
<1>15. CASE Caller
  <2>1. CASE RecvReady
    BY <1>1, <2>1 DEF RecvReady, ControlTypes
  <2>2. CASE ~RecvReady
    BY <1>15, <2>2, <1>3, <1>4, <1>5, <1>7
    DEF Caller, Submit, SubmitMany, SubmitAdvance, SubmitWindow, SessionCall, Cancel,
        Discard, Refill, AdvanceAll, RunAll, Close
  <2>3. QED
    BY <2>1, <2>2
<1>16. CASE Clock \/ WorkerSteps
  BY <1>1, <1>5, <1>16
  DEF Clock, WorkerSteps, PollExpires, Answer, WorkerDies, DeadlinePasses, ControlTypes
<1>17. CASE UNCHANGED vars
  BY <1>17, <1>5 DEF vars, control
<1>18. QED
  BY <1>14, <1>15, <1>16, <1>17 DEF Next

-----------------------------------------------------------------------------
(* What the operations do to the queue. *)
QueueOK == queue \in Seq(Runs) /\ IsInjective(queue)

LEMMA BootQueue ==
    ASSUME TypeOK, MoreToFill, queue' = Tail(queue)
    PROVE  /\ QueueOK' /\ Head(queue) \in Runs /\ Head(queue) \in Queued
           /\ Queued' = Queued \ {Head(queue)}
<1>1. queue \in Seq(Runs) /\ IsInjective(queue) /\ queue # <<>>
  BY DEF TypeOK, MoreToFill
<1>2. QED
  BY <1>1, TailSet DEF QueueOK, Queued

LEMMA SubmitQueue ==
    ASSUME TypeOK, Places, NEW r \in Runs, Submit(r)
    PROVE  QueueOK' /\ Queued' = Queued \cup {r}
<1>1. queue \in Seq(Runs) /\ IsInjective(queue) /\ r \notin Queued
  BY DEF TypeOK, Places, Submit
<1>2. queue' = Append(queue, r)
  BY DEF Submit
<1>3. QED
  BY <1>1, <1>2, AppendSet DEF QueueOK, Queued

LEMMA NewRuns ==
    ASSUME NEW rs \in SeqOf(Runs, Cardinality(Runs))
    PROVE  rs \in Seq(Runs) /\ ToSet(rs) \subseteq Runs
<1>1. PICK m \in 0 .. Cardinality(Runs) : rs \in [1 .. m -> Runs]
  BY DEF SeqOf
<1>2. Cardinality(Runs) \in Nat
  BY FS_CardinalityType, BatchAssumption
<1>3. m \in Nat
  BY <1>1, <1>2
<1>4. QED
  BY <1>1, <1>3, SeqDef DEF ToSet

LEMMA SubmitManyQueue ==
    ASSUME TypeOK, Places, NEW rs \in SeqOf(Runs, Cardinality(Runs)), SubmitMany(rs)
    PROVE  QueueOK' /\ Queued' = Queued \cup ToSet(rs)
<1>1. queue \in Seq(Runs) /\ IsInjective(queue) /\ rs \in Seq(Runs)
  BY NewRuns DEF TypeOK
<1>2. IsInjective(rs) /\ ToSet(queue) \cap ToSet(rs) = {} /\ queue' = queue \o rs
  BY DEF SubmitMany, New, Places, Queued
<1>3. QED
  BY <1>1, <1>2, ConcatSet DEF QueueOK, Queued

LEMMA DequeuedQueue ==
    ASSUME TypeOK, NEW r, Dequeued(r)
    PROVE  QueueOK' /\ Queued' = Queued \ {r}
<1>1. queue \in Seq(Runs) /\ IsInjective(queue) /\ queue' = Without(queue, r)
  BY DEF TypeOK, Dequeued
<1>2. QED
  BY <1>1, WithoutSet DEF QueueOK, Queued

LEMMA FiniteActive ==
    ASSUME TypeOK
    PROVE  IsFiniteSet(active) /\ Cardinality(active) \in Nat /\ Workers \in Nat \ {0}
  BY FS_Subset, FS_CardinalityType, BatchAssumption DEF TypeOK

LEMMA PendingQueue ==
    ASSUME TypeOK, SlotsBounded
    PROVE  /\ Pending \subseteq Queued /\ Pending \subseteq Runs
           /\ IsFiniteSet(Pending)
           /\ Cardinality(active) + Cardinality(Pending) <= Workers
           /\ queue' = SubSeq(queue, Overlapping + 1, Len(queue)) =>
                 QueueOK' /\ Queued' = Queued \ Pending
<1>1. queue \in Seq(Runs) /\ IsInjective(queue) /\ Len(queue) \in Nat
  BY LenProperties DEF TypeOK
<1>2. /\ IsFiniteSet(active) /\ Cardinality(active) \in Nat
      /\ Workers \in Nat /\ Cardinality(active) <= Workers
  BY FiniteActive DEF SlotsBounded
<1>3. Overlapping \in Nat /\ Overlapping <= Len(queue) /\ Overlapping <= Workers - Cardinality(active)
  BY <1>1, <1>2 DEF Overlapping, FreeSlots
<1> DEFINE k == Overlapping
<1>4. k \in Nat /\ k <= Len(queue) /\ Pending = ToSet(SubSeq(queue, 1, k))
  BY <1>3 DEF Pending
<1> HIDE DEF k
<1>5. /\ SubSeq(queue, k + 1, Len(queue)) \in Seq(Runs)
      /\ IsInjective(SubSeq(queue, k + 1, Len(queue)))
      /\ Pending \subseteq ToSet(queue)
      /\ ToSet(SubSeq(queue, k + 1, Len(queue))) = ToSet(queue) \ Pending
      /\ IsFiniteSet(Pending) /\ Cardinality(Pending) <= k
  BY <1>1, <1>4, SplitSet
<1>6. ToSet(queue) \subseteq Runs
  BY <1>1, ElementOfSeq, LenProperties DEF ToSet
<1>7. Cardinality(active) + Cardinality(Pending) <= Workers
  <2>1. Cardinality(Pending) \in Nat
    BY <1>5, FS_CardinalityType
  <2>2. QED
    BY <1>2, <1>3, <1>5, <2>1 DEF k
<1>8. queue' = SubSeq(queue, Overlapping + 1, Len(queue)) =>
         QueueOK' /\ Queued' = Queued \ Pending
  BY <1>5 DEF k, QueueOK, Queued
<1>9. QED
  BY <1>5, <1>6, <1>7, <1>8 DEF Queued

LEMMA QueuedRuns == ASSUME TypeOK PROVE Queued \subseteq Runs
<1>1. queue \in Seq(Runs)
  BY DEF TypeOK
<1>2. QED
  BY <1>1, ElementOfSeq, LenProperties DEF Queued, ToSet

LEMMA QueueKept ==
    ASSUME TypeOK, queue' = queue PROVE QueueOK' /\ Queued' = Queued
  BY DEF TypeOK, QueueOK, Queued

LEMMA QueueEmptied ==
    ASSUME queue' = <<>> PROVE QueueOK' /\ Queued' = {}
  BY EmptyQueue DEF QueueOK, Queued

-----------------------------------------------------------------------------
(***************************************************************************)
(* Steps that change the books.                                            *)
(***************************************************************************)
Books == FieldTypes /\ Places /\ SlotsBounded /\ Calls

\* A response the barrier holds is forgotten or kept.
Unheard == \A r \in Runs : responses'[r] \in {responses[r], None}

LEMMA FewerActive ==
    ASSUME TypeOK, SlotsBounded, active' \subseteq active
    PROVE  Cardinality(active') <= Workers
<1>1. Cardinality(active') <= Cardinality(active) /\ Cardinality(active') \in Nat
  BY FiniteActive, FS_Subset, FS_CardinalityType
<1>2. QED
  BY <1>1, FiniteActive DEF SlotsBounded

\* _record_error for a run that has not ended.
LEMMA RecordErrorsBooks ==
    ASSUME RunnerInv, NEW r \in Runs, RecordErrors({r}), r \in runs, r \notin results \cup errors,
           QueueOK', Queued' = Queued \ {r}, lost' = lost \ {r}, ~shut, Unheard,
           runs' = runs, results' = results, shut' = shut
    PROVE  Books'
<1>1. TypeOK /\ FieldTypes /\ WorldTypes /\ Places /\ SlotsBounded /\ Calls
  BY TypeParts DEF RunnerInv
<1>2. /\ errors' = errors \cup {r} /\ active' = active \ {r} /\ requested' = requested \ {r}
      /\ ready' = [q \in Runs |-> IF q \in {r} THEN "failed" ELSE ready[q]]
      /\ sess' = [q \in Runs |-> IF q \in {r} THEN "none" ELSE sess[q]]
  BY DEF RecordErrors, Become
<1>3. FieldTypes'
  BY <1>1, <1>2 DEF FieldTypes, QueueOK, Kinds
<1>4. Places'
  BY <1>1, <1>2 DEF Places
<1>5. Live' \subseteq active'
  BY <1>1, <1>2 DEF SlotsBounded, Live
<1>6. Cardinality(active') <= Workers
  BY <1>1, <1>2, FewerActive
<1>7. Calls'
  <2>1. requested' \subseteq Queued' \cup active' \cup lost'
    BY <1>1, <1>2 DEF Calls
  <2>2. \A q \in active' : sess'[q] \in {"calling", "answered"} <=> q \in requested'
    BY <1>1, <1>2 DEF Calls, FieldTypes
  <2>3. \A q \in requested' : ready'[q] = None /\ responses'[q] = None
    BY <1>1, <1>2 DEF Calls, FieldTypes, Unheard
  <2>4. QED
    BY <2>1, <2>2, <2>3 DEF Calls
<1>8. QED
  BY <1>3, <1>4, <1>5, <1>6, <1>7 DEF Books, SlotsBounded

LEMMA BootBooks == ASSUME RunnerInv, Boot PROVE Books'
<1>1. TypeOK /\ FieldTypes /\ WorldTypes /\ Places /\ SlotsBounded /\ Calls
  BY TypeParts DEF RunnerInv
<1> DEFINE h == Head(queue)
<1>2. QueueOK' /\ h \in Runs /\ h \in Queued /\ Queued' = Queued \ {h}
  BY <1>1, BootQueue DEF Boot
<1>3. /\ active' = active \cup {h}
      /\ sess' = [q \in Runs |-> IF q \notin {h} THEN sess[q]
                                 ELSE IF q \in requested THEN "calling" ELSE "idle"]
      /\ runs' = runs /\ requested' = requested /\ results' = results /\ errors' = errors
      /\ ready' = ready /\ shut' = shut /\ lost' = lost /\ responses' = responses
  BY DEF Boot, BootAndSend, control
<1>4. Cardinality(active) < Workers
  BY DEF Boot, MoreToFill, SlotFree
<1> HIDE DEF h
<1>5. FieldTypes'
  BY <1>1, <1>2, <1>3 DEF FieldTypes, QueueOK
<1>6. Places'
  BY <1>1, <1>2, <1>3 DEF Places
<1>7. SlotsBounded'
  <2>1. Live' \subseteq active'
    BY <1>1, <1>2, <1>3 DEF SlotsBounded, Live
  <2>2. Cardinality(active') <= Workers
    <3>1. Cardinality(active \cup {h}) \in {Cardinality(active), Cardinality(active) + 1}
      BY <1>1, FiniteActive, FS_AddElement
    <3>2. QED
      BY <1>1, <1>3, <1>4, <3>1, FiniteActive
  <2>3. QED
    BY <2>1, <2>2 DEF SlotsBounded
<1>8. Calls'
  BY <1>1, <1>2, <1>3 DEF Calls, FieldTypes
<1>9. QED
  BY <1>5, <1>6, <1>7, <1>8 DEF Books

LEMMA BootFailsBooks == ASSUME RunnerInv, BootFails PROVE Books'
<1>1. TypeOK /\ Places /\ Control
  BY DEF RunnerInv
<1> DEFINE h == Head(queue)
<1>2. QueueOK' /\ h \in Runs /\ h \in Queued /\ Queued' = Queued \ {h}
  BY <1>1, BootQueue DEF BootFails
<1>3. /\ RecordErrors({h}) /\ ~shut /\ lost' = lost
      /\ runs' = runs /\ results' = results /\ shut' = shut /\ responses' = responses
  BY <1>1 DEF BootFails, Control, control
<1> HIDE DEF h
<1>4. h \in runs /\ h \notin results \cup errors /\ h \notin lost
  BY <1>1, <1>2 DEF Places
<1>5. QED
  BY <1>2, <1>3, <1>4, RecordErrorsBooks DEF Unheard

LEMMA BootCrashBooks == ASSUME RunnerInv, BootCrash PROVE Books'
<1>1. TypeOK /\ FieldTypes /\ WorldTypes /\ Places /\ SlotsBounded /\ Calls
  BY TypeParts DEF RunnerInv
<1> DEFINE h == Head(queue)
<1>2. QueueOK' /\ h \in Runs /\ h \in Queued /\ Queued' = Queued \ {h}
  BY <1>1, BootQueue DEF BootCrash
<1>3. /\ lost' = lost \cup {h} /\ active' = active /\ sess' = sess
      /\ runs' = runs /\ requested' = requested /\ results' = results /\ errors' = errors
      /\ ready' = ready /\ shut' = shut /\ responses' = Nothing
  BY DEF BootCrash, Home, world
<1> HIDE DEF h
<1>4. FieldTypes'
  BY <1>1, <1>2, <1>3 DEF FieldTypes, QueueOK
<1>5. Places'
  BY <1>1, <1>2, <1>3 DEF Places
<1>6. SlotsBounded'
  BY <1>1, <1>3 DEF SlotsBounded, Live
<1>7. Calls'
  BY <1>1, <1>2, <1>3 DEF Calls, FieldTypes, Nothing
<1>8. QED
  BY <1>4, <1>5, <1>6, <1>7 DEF Books

LEMMA SubmitBooks ==
    ASSUME RunnerInv, NEW N \in SUBSET Runs, N \cap runs = {}, ~shut,
           QueueOK', Queued' = Queued \cup N, runs' = runs \cup N, sess' = sess,
           active' = active, requested' = requested, results' = results, errors' = errors,
           ready' = ready, shut' = shut, lost' = lost, responses' = responses
    PROVE  Books'
<1>1. TypeOK /\ FieldTypes /\ WorldTypes /\ Places /\ SlotsBounded /\ Calls
  BY TypeParts DEF RunnerInv
<1>2. FieldTypes'
  BY <1>1 DEF FieldTypes, QueueOK
<1>3. Places'
  BY <1>1 DEF Places
<1>4. SlotsBounded'
  BY <1>1 DEF SlotsBounded, Live
<1>5. Calls'
  BY <1>1 DEF Calls
<1>6. QED
  BY <1>2, <1>3, <1>4, <1>5 DEF Books

LEMMA BootManyBooks == ASSUME RunnerInv, BootMany PROVE Books'
<1>1. TypeOK /\ FieldTypes /\ WorldTypes /\ Places /\ SlotsBounded /\ Calls /\ Control
  BY TypeParts DEF RunnerInv
<1>2. PICK failed \in SUBSET Pending :
        /\ Failures(failed)
        /\ requested' = requested \ failed
        /\ active' = active \cup (Pending \ failed)
        /\ BootAndSend(Pending \ failed)
  BY DEF BootMany
<1> DEFINE B == Pending \ failed
           P == Pending
<1>3. /\ P \subseteq Queued /\ P \subseteq Runs /\ IsFiniteSet(P)
      /\ Cardinality(active) + Cardinality(P) <= Workers
      /\ QueueOK' /\ Queued' = Queued \ P
  BY <1>1, PendingQueue DEF BootMany
<1> HIDE DEF P
<1>4. /\ errors' = errors \cup failed /\ requested' = requested \ failed
      /\ active' = active \cup B /\ B = P \ failed /\ failed \subseteq P
      /\ ready' = [r \in Runs |-> IF r \in failed THEN "failed" ELSE ready[r]]
      /\ sess' = [q \in Runs |-> IF q \notin B THEN sess[q]
                                 ELSE IF q \in requested THEN "calling" ELSE "idle"]
      /\ runs' = runs /\ results' = results /\ shut' = shut /\ lost' = lost
      /\ responses' = responses /\ ~shut
  BY <1>1, <1>2 DEF BootMany, Failures, BootAndSend, FillThen, P, Control
<1> HIDE DEF B
<1>5. FieldTypes'
  BY <1>1, <1>3, <1>4 DEF FieldTypes, QueueOK, Kinds
<1>6. Places'
  BY <1>1, <1>3, <1>4 DEF Places
<1>7. SlotsBounded'
  <2>1. Live' \subseteq active'
    BY <1>1, <1>3, <1>4 DEF SlotsBounded, Live
  <2>2. Cardinality(active') <= Workers
    <3>1. IsFiniteSet(active \cup P) /\ IsFiniteSet(active) /\ IsFiniteSet(P)
      BY <1>1, <1>3, FiniteActive, FS_Union
    <3>2. Cardinality(active \cup P) =
             Cardinality(active) + Cardinality(P) - Cardinality(active \cap P)
      BY <3>1, FS_Union
    <3>3. active \cap P \in SUBSET active /\ IsFiniteSet(active \cap P)
      BY <3>1, FS_Subset
    <3>4. /\ Cardinality(active \cup P) \in Nat /\ Cardinality(active) \in Nat
          /\ Cardinality(P) \in Nat /\ Cardinality(active \cap P) \in Nat
      BY <3>1, <3>3, FS_CardinalityType
    <3>5. active' \in SUBSET (active \cup P)
      BY <1>4
    <3>6. Cardinality(active') <= Cardinality(active \cup P) /\ Cardinality(active') \in Nat
      BY <3>1, <3>5, FS_Subset, FS_CardinalityType
    <3>7. QED
      BY <1>1, <1>3, <3>2, <3>4, <3>6, FiniteActive
  <2>3. QED
    BY <2>1, <2>2 DEF SlotsBounded
<1>8. Calls'
  <2>1. requested' \subseteq Queued' \cup active' \cup lost'
    BY <1>1, <1>3, <1>4 DEF Calls
  <2>2. \A q \in active' : sess'[q] \in {"calling", "answered"} <=> q \in requested'
    BY <1>1, <1>3, <1>4 DEF Calls, FieldTypes, Places
  <2>3. \A q \in requested' : ready'[q] = None /\ responses'[q] = None
    BY <1>1, <1>3, <1>4 DEF Calls, FieldTypes
  <2>4. QED
    BY <2>1, <2>2, <2>3 DEF Calls
<1>9. QED
  BY <1>5, <1>6, <1>7, <1>8 DEF Books

\* Closing the runner, at the end or by a crash while several runs boot.
LEMMA ShutBooks == ASSUME RunnerInv, BootManyCrash \/ Close PROVE Books'
<1>1. TypeOK /\ FieldTypes /\ WorldTypes /\ Places /\ SlotsBounded /\ Calls
  BY TypeParts DEF RunnerInv
<1>2. Pending \subseteq Queued /\ Pending \subseteq Runs
  BY <1>1, PendingQueue
<1>3. /\ Shut /\ Unheard
      /\ \E failed \in SUBSET Pending :
            /\ errors' = errors \cup failed
            /\ ready' = [r \in Runs |-> IF r \in failed THEN "failed" ELSE ready[r]]
      /\ lost' \in {lost, lost \cup Pending}
  <2>1. CASE BootManyCrash
    BY <2>1 DEF BootManyCrash, Failures, Home, Unheard, Nothing
  <2>2. CASE Close
    <3>1. ready' = [r \in Runs |-> IF r \in {} THEN "failed" ELSE ready[r]]
      BY <1>1, <2>2 DEF Close, FieldTypes
    <3>2. errors' = errors \cup {} /\ {} \in SUBSET Pending
      BY <2>2 DEF Close
    <3>3. QED
      BY <2>2, <3>1, <3>2 DEF Close, control, Unheard
  <2>3. QED
    BY <2>1, <2>2
<1>4. PICK failed \in SUBSET Pending :
        /\ errors' = errors \cup failed
        /\ ready' = [r \in Runs |-> IF r \in failed THEN "failed" ELSE ready[r]]
  BY <1>3
<1>5. /\ active' = {} /\ queue' = <<>> /\ requested' = {} /\ shut' = TRUE
      /\ runs' = runs /\ results' = results
      /\ sess' = [r \in Runs |-> IF r \in Runs THEN "none" ELSE sess[r]]
  BY <1>3 DEF Shut, Become
<1>6. QueueOK' /\ Queued' = {}
  BY <1>5, QueueEmptied
<1>7. FieldTypes'
  BY <1>1, <1>2, <1>3, <1>4, <1>5, <1>6 DEF FieldTypes, QueueOK, Kinds
<1>8. Places'
  BY <1>1, <1>2, <1>3, <1>4, <1>5, <1>6 DEF Places
<1>9. SlotsBounded'
  BY <1>1, <1>5, FewerActive DEF SlotsBounded, Live
<1>10. Calls'
  BY <1>5 DEF Calls
<1>11. QED
  BY <1>7, <1>8, <1>9, <1>10 DEF Books

\* A request of a run that has no response yet.
LEMMA RequestBooks ==
    ASSUME RunnerInv, NEW r \in Runs, Request(r), r \in runs, r \notin results \cup errors,
           ready[r] = None, responses[r] = None, ~shut, responses' = responses
    PROVE  Books'
<1>1. TypeOK /\ FieldTypes /\ WorldTypes /\ Places /\ SlotsBounded /\ Calls
  BY TypeParts DEF RunnerInv
<1>2. /\ requested' = requested \cup {r} /\ queue' = queue
      /\ runs' = runs /\ active' = active /\ results' = results /\ errors' = errors
      /\ ready' = ready /\ shut' = shut /\ lost' = lost
  BY DEF Request
<1>3. /\ r \in active => sess' = [q \in Runs |-> IF q \in {r} THEN "calling" ELSE sess[q]]
      /\ r \notin active => sess' = sess
  BY DEF Request, Become, world
<1>4. QueueOK' /\ Queued' = Queued
  BY <1>1, <1>2, QueueKept
<1>5. FieldTypes'
  BY <1>1, <1>2, <1>4 DEF FieldTypes, QueueOK
<1>6. Places'
  BY <1>1, <1>2, <1>4 DEF Places
<1>7. SlotsBounded'
  BY <1>1, <1>2, <1>3 DEF SlotsBounded, Live
<1>8. Calls'
  <2>1. r \in Queued \cup active \cup lost
    BY <1>1 DEF Places
  <2>2. requested' \subseteq Queued' \cup active' \cup lost'
    BY <1>1, <1>2, <1>4, <2>1 DEF Calls
  <2>3. \A q \in active' : sess'[q] \in {"calling", "answered"} <=> q \in requested'
    BY <1>1, <1>2, <1>3 DEF Calls, FieldTypes
  <2>4. \A q \in requested' : ready'[q] = None /\ responses'[q] = None
    BY <1>1, <1>2 DEF Calls
  <2>5. QED
    BY <2>2, <2>3, <2>4 DEF Calls
<1>9. QED
  BY <1>5, <1>6, <1>7, <1>8 DEF Books

LEMMA UnreachableBooks ==
    ASSUME RunnerInv, NEW r \in Runs, Unreachable(r), Unheard PROVE Books'
<1>1. TypeOK /\ Places /\ Control /\ r \in active
  BY DEF RunnerInv, Unreachable
<1>2. /\ r \in runs /\ r \notin results \cup errors /\ r \notin lost /\ r \notin Queued /\ ~shut
  BY <1>1 DEF Places, Control
<1>3. RecordErrors({r}) /\ queue' = queue /\ lost' = lost
      /\ runs' = runs /\ results' = results /\ shut' = shut
  BY DEF Unreachable
<1>4. QueueOK' /\ Queued' = Queued
  BY <1>1, <1>3, QueueKept
<1>5. QED
  BY <1>2, <1>3, <1>4, RecordErrorsBooks

LEMMA SubmitWindowBooks ==
    ASSUME RunnerInv, NEW r \in Runs, SubmitWindow(r) PROVE Books'
<1>1. TypeOK /\ FieldTypes /\ WorldTypes /\ Places /\ SlotsBounded /\ Calls /\ Control
  BY TypeParts DEF RunnerInv
<1>2. /\ queue' = queue /\ runs' = runs /\ active' = active /\ results' = results
      /\ errors' = errors /\ ready' = ready /\ shut' = shut /\ lost' = lost
      /\ responses' = responses /\ r \in active /\ r \notin requested /\ ready[r] = None
      /\ responses = Nothing
  BY <1>1 DEF SubmitWindow, control, Unasked, Open, Control, Barrier
<1>3. \/ /\ requested' = requested \cup {r}
         /\ sess' = [q \in Runs |-> IF q \in {r} THEN "calling" ELSE sess[q]]
      \/ /\ requested' = requested
         /\ sess' = [q \in Runs |-> IF q \in {r} THEN "closed" ELSE sess[q]]
  BY DEF SubmitWindow, SendWindow, Become
<1>4. QueueOK' /\ Queued' = Queued
  BY <1>1, <1>2, QueueKept
<1>5. FieldTypes'
  BY <1>1, <1>2, <1>3, <1>4 DEF FieldTypes, QueueOK
<1>6. Places'
  BY <1>1, <1>2, <1>4 DEF Places
<1>7. SlotsBounded'
  BY <1>1, <1>2, <1>3 DEF SlotsBounded, Live
<1>8. Calls'
  <2>1. requested' \subseteq Queued' \cup active' \cup lost'
    BY <1>1, <1>2, <1>3, <1>4 DEF Calls
  <2>2. \A q \in active' : sess'[q] \in {"calling", "answered"} <=> q \in requested'
    BY <1>1, <1>2, <1>3 DEF Calls, FieldTypes
  <2>3. \A q \in requested' : ready'[q] = None /\ responses'[q] = None
    BY <1>1, <1>2, <1>3 DEF Calls, Nothing
  <2>4. QED
    BY <2>1, <2>2, <2>3 DEF Calls
<1>9. QED
  BY <1>5, <1>6, <1>7, <1>8 DEF Books

\* Steps of the workers and of the caller's own calls leave the books alone.
LEMMA WorldBooks ==
    ASSUME RunnerInv, UNCHANGED Fields, Unheard,
           \A r \in Runs : sess'[r] # sess[r] =>
              /\ sess[r] # "none" /\ sess'[r] # "none"
              /\ sess[r] = "closed" => sess'[r] = "closed"
              /\ sess[r] \in {"calling", "answered"} <=> sess'[r] \in {"calling", "answered"}
    PROVE  Books'
<1>1. TypeOK /\ FieldTypes /\ WorldTypes /\ Places /\ SlotsBounded /\ Calls
  BY TypeParts DEF RunnerInv
<1>2. /\ runs' = runs /\ queue' = queue /\ active' = active /\ requested' = requested
      /\ results' = results /\ errors' = errors /\ ready' = ready /\ shut' = shut /\ lost' = lost
  BY DEF Fields
<1>3. QueueOK' /\ Queued' = Queued
  BY <1>1, <1>2, QueueKept
<1>4. FieldTypes'
  BY <1>1, <1>2, <1>3 DEF FieldTypes, QueueOK
<1>5. Places'
  BY <1>1, <1>2, <1>3 DEF Places
<1>6. SlotsBounded'
  BY <1>1, <1>2 DEF SlotsBounded, Live
<1>7. Calls'
  BY <1>1, <1>2, <1>3 DEF Calls, FieldTypes, Unheard
<1>8. QED
  BY <1>4, <1>5, <1>6, <1>7 DEF Books

LEMMA WorkersBooks ==
    ASSUME RunnerInv, NEW r \in Runs,
           Answer(r) \/ WorkerDies(r) \/ DeadlinePasses(r) \/ SessionCall(r)
    PROVE  Books'
<1>1. WorldTypes /\ Calls /\ Control
  BY TypeParts DEF RunnerInv
<1>2. UNCHANGED Fields /\ Unheard
  BY DEF Answer, WorkerDies, DeadlinePasses, SessionCall, fields, control, Fields, Unheard
<1>3. \A q \in Runs : sess'[q] # sess[q] =>
         /\ sess[q] # "none" /\ sess'[q] # "none"
         /\ sess[q] = "closed" => sess'[q] = "closed"
         /\ sess[q] \in {"calling", "answered"} <=> sess'[q] \in {"calling", "answered"}
  BY <1>1 DEF Answer, WorkerDies, DeadlinePasses, SessionCall, Become, At, WorldTypes
<1>4. QED
  BY <1>2, <1>3, WorldBooks

LEMMA QuietBooks ==
    ASSUME RunnerInv, UNCHANGED <<fields, world>>, Unheard PROVE Books'
  BY WorldBooks DEF fields, world, Fields

LEMMA CancelBooks == ASSUME RunnerInv, NEW r \in Runs, Cancel(r) PROVE Books'
<1>1. TypeOK /\ QueueOK' /\ Queued' = Queued \ {r}
  BY DequeuedQueue DEF RunnerInv, Cancel
<1>2. /\ RecordErrors({r}) /\ lost' = lost \ {r} /\ ~shut /\ r \in runs
      /\ r \notin results \cup errors /\ runs' = runs /\ results' = results /\ shut' = shut
  BY DEF Cancel, Open
<1>3. Unheard
  BY DEF Cancel, Refill, FillThen, Unheard
<1>4. QED
  BY <1>1, <1>2, <1>3, RecordErrorsBooks

LEMMA DiscardBooks == ASSUME RunnerInv, NEW r \in Runs, Discard(r) PROVE Books'
<1>1. TypeOK /\ FieldTypes /\ WorldTypes /\ Places /\ SlotsBounded /\ Calls
  BY TypeParts DEF RunnerInv
<1>2. QueueOK' /\ Queued' = Queued \ {r}
  BY <1>1, DequeuedQueue DEF Discard
<1>3. /\ active' = active \ {r} /\ runs' = runs \ {r} /\ results' = results \ {r}
      /\ errors' = errors \ {r} /\ lost' = lost \ {r} /\ requested' = requested
      /\ shut' = shut /\ ~shut /\ r \notin requested
      /\ ready' = [ready EXCEPT ![r] = None]
      /\ sess' = [q \in Runs |-> IF q \in {r} THEN "none" ELSE sess[q]]
      /\ responses' = responses
  BY DEF Discard, Open, Become, At, Refill, FillThen
<1>4. FieldTypes'
  BY <1>1, <1>2, <1>3 DEF FieldTypes, QueueOK
<1>5. Places'
  BY <1>1, <1>2, <1>3 DEF Places
<1>6. SlotsBounded'
  <2>1. Live' \subseteq active'
    BY <1>1, <1>3 DEF SlotsBounded, Live
  <2>2. Cardinality(active') <= Workers
    BY <1>1, <1>3, FewerActive
  <2>3. QED
    BY <2>1, <2>2 DEF SlotsBounded
<1>7. Calls'
  <2>1. requested' \subseteq Queued' \cup active' \cup lost'
    BY <1>1, <1>2, <1>3 DEF Calls
  <2>2. \A q \in active' : sess'[q] \in {"calling", "answered"} <=> q \in requested'
    BY <1>1, <1>3 DEF Calls, FieldTypes
  <2>3. \A q \in requested' : ready'[q] = None /\ responses'[q] = None
    BY <1>1, <1>3 DEF Calls, FieldTypes
  <2>4. QED
    BY <2>1, <2>2, <2>3 DEF Calls
<1>8. QED
  BY <1>4, <1>5, <1>6, <1>7 DEF Books

\* A response is received in a scan from an active run that was asked.
LEMMA TakeFrom ==
    ASSUME RunnerInv, NEW r \in Runs, Take(r)
    PROVE  /\ r \in active /\ r \in requested /\ r \in runs
           /\ r \notin Queued /\ r \notin results \cup errors /\ r \notin lost
           /\ ~shut /\ responses' = responses
  BY DEF RunnerInv, Take, Control, Places

LEMMA TakeBooks == ASSUME RunnerInv, NEW r \in Runs, Take(r) PROVE Books'
<1>1. TypeOK /\ FieldTypes /\ WorldTypes /\ Places /\ SlotsBounded /\ Calls
  BY TypeParts DEF RunnerInv
<1>2. /\ r \in active /\ r \in requested /\ r \in runs
      /\ r \notin Queued /\ r \notin results \cup errors /\ r \notin lost
      /\ ~shut /\ responses' = responses
  BY TakeFrom
<1>3. /\ queue' = queue /\ runs' = runs /\ shut' = shut /\ lost' = lost
  BY DEF Take
<1>4. QueueOK' /\ Queued' = Queued
  BY <1>1, <1>3, QueueKept
<1>5. CASE RecordErrors({r}) /\ results' = results
  BY <1>2, <1>3, <1>4, <1>5, RecordErrorsBooks DEF Unheard
<1>6. CASE /\ ready' = At(ready, r, "paused") /\ requested' = requested \ {r}
           /\ Become({r}, "idle")
           /\ UNCHANGED <<active, results, errors>>
  <2>1. /\ ready' = [ready EXCEPT ![r] = "paused"]
        /\ sess' = [q \in Runs |-> IF q \in {r} THEN "idle" ELSE sess[q]]
    BY <1>6 DEF At, Become
  <2>2. FieldTypes'
    BY <1>1, <1>3, <1>4, <1>6, <2>1 DEF FieldTypes, QueueOK, Kinds
  <2>3. Places'
    BY <1>1, <1>3, <1>4, <1>6 DEF Places
  <2>4. SlotsBounded'
    BY <1>1, <1>2, <1>6, <2>1 DEF SlotsBounded, Live
  <2>5. requested' \subseteq Queued' \cup active' \cup lost'
    BY <1>1, <1>3, <1>4, <1>6 DEF Calls
  <2>6. \A q \in active' : sess'[q] \in {"calling", "answered"} <=> q \in requested'
    BY <1>1, <1>6, <2>1 DEF Calls, FieldTypes
  <2>7. \A q \in requested' : ready'[q] = None /\ responses'[q] = None
    BY <1>1, <1>2, <1>6, <2>1 DEF Calls, FieldTypes
  <2>8. QED
    BY <2>2, <2>3, <2>4, <2>5, <2>6, <2>7 DEF Books, Calls
<1>7. CASE /\ results' = results \cup {r}
           /\ ready' = At(ready, r, "finished") /\ requested' = requested \ {r}
           /\ Retire(r)
           /\ UNCHANGED errors
  <2>1. /\ ready' = [ready EXCEPT ![r] = "finished"] /\ active' = active \ {r}
        /\ sess' = [q \in Runs |-> IF q \in {r} THEN "none" ELSE sess[q]]
    BY <1>7 DEF At, Become, Retire
  <2>2. FieldTypes'
    BY <1>1, <1>3, <1>4, <1>7, <2>1 DEF FieldTypes, QueueOK, Kinds
  <2>3. Places'
    BY <1>1, <1>2, <1>3, <1>4, <1>7, <2>1 DEF Places
  <2>4. Live' \subseteq active' /\ Cardinality(active') <= Workers
    BY <1>1, <1>7, <2>1, FewerActive DEF SlotsBounded, Live
  <2>5. requested' \subseteq Queued' \cup active' \cup lost'
    BY <1>1, <1>3, <1>4, <1>7, <2>1 DEF Calls
  <2>6. \A q \in active' : sess'[q] \in {"calling", "answered"} <=> q \in requested'
    BY <1>1, <1>7, <2>1 DEF Calls, FieldTypes
  <2>7. \A q \in requested' : ready'[q] = None /\ responses'[q] = None
    BY <1>1, <1>2, <1>7, <2>1 DEF Calls, FieldTypes
  <2>8. QED
    BY <2>2, <2>3, <2>4, <2>5, <2>6, <2>7 DEF Books, Calls, SlotsBounded
<1>8. QED
  BY <1>5, <1>6, <1>7 DEF Take

\* The responses go to the caller or to the barrier.
LEMMA ReturnBooks == ASSUME RunnerInv, Return PROVE Books'
<1>1. TypeOK /\ FieldTypes /\ WorldTypes /\ Places /\ SlotsBounded /\ Calls
  BY TypeParts DEF RunnerInv
<1>2. /\ runs' = runs /\ queue' = queue /\ active' = active /\ requested' = requested
      /\ results' = results /\ errors' = errors /\ ready' = Nothing /\ shut' = shut
      /\ lost' = lost /\ sess' = sess
  BY DEF Return, world
<1>3. QueueOK' /\ Queued' = Queued
  BY <1>1, <1>2, QueueKept
<1>4. FieldTypes'
  BY <1>1, <1>2, <1>3 DEF FieldTypes, QueueOK, Nothing
<1>5. Places'
  BY <1>1, <1>2, <1>3 DEF Places
<1>6. SlotsBounded'
  BY <1>1, <1>2 DEF SlotsBounded, Live
<1>7. \A q \in requested : responses'[q] = None
  <2>1. CASE Merge
    BY <1>1, <2>1 DEF Merge, Calls, FieldTypes
  <2>2. CASE Home
    BY <1>1, <2>2 DEF Home, Nothing, FieldTypes
  <2>3. QED
    BY <2>1, <2>2 DEF Return
<1>8. Calls'
  BY <1>1, <1>2, <1>3, <1>7 DEF Calls, FieldTypes, Nothing
<1>9. QED
  BY <1>4, <1>5, <1>6, <1>8 DEF Books

LEMMA AskBooks == ASSUME RunnerInv, NEW r \in Runs, Ask(r) PROVE Books'
<1>1. /\ r \in active /\ r \in runs /\ r \notin results \cup errors /\ ready[r] = None
      /\ responses = Nothing /\ responses' = responses /\ ~shut
  BY DEF RunnerInv, Ask, Control, Asking, Places
<1>2. Unheard
  BY <1>1 DEF Unheard
<1>3. CASE Request(r)
  BY <1>1, <1>3, RequestBooks DEF Nothing
<1>4. CASE Unreachable(r)
  BY <1>2, <1>4, UnreachableBooks
<1>5. QED
  BY <1>3, <1>4 DEF Ask

LEMMA SubmitAdvanceBooks ==
    ASSUME RunnerInv, NEW r \in Runs, SubmitAdvance(r) PROVE Books'
<1>1. /\ r \in runs /\ r \notin results \cup errors /\ ready[r] = None
      /\ responses = Nothing /\ responses' = responses /\ ~shut
  BY DEF RunnerInv, SubmitAdvance, Open, MayAdvance, Unasked, Control, Barrier,
     FillThen, control
<1>2. Unheard
  BY <1>1 DEF Unheard
<1>3. CASE Request(r)
  BY <1>1, <1>3, RequestBooks DEF Nothing
<1>4. CASE Unreachable(r)
  BY <1>2, <1>4, UnreachableBooks
<1>5. QED
  BY <1>3, <1>4 DEF SubmitAdvance

LEMMA SubmitOneBooks == ASSUME RunnerInv, NEW r \in Runs, Submit(r) PROVE Books'
<1>1. QueueOK' /\ Queued' = Queued \cup {r}
  BY SubmitQueue DEF RunnerInv
<1>2. /\ r \notin runs /\ ~shut /\ runs' = runs \cup {r} /\ sess' = sess
      /\ active' = active /\ requested' = requested /\ results' = results
      /\ errors' = errors /\ ready' = ready /\ shut' = shut /\ lost' = lost
      /\ responses' = responses
  BY DEF Submit, Open, FillThen, world
<1>3. {r} \in SUBSET Runs /\ {r} \cap runs = {}
  BY <1>2
<1>4. QED
  BY <1>1, <1>2, <1>3, SubmitBooks

LEMMA SubmitManyBooks ==
    ASSUME RunnerInv, NEW rs \in SeqOf(Runs, Cardinality(Runs)), SubmitMany(rs) PROVE Books'
<1>1. QueueOK' /\ Queued' = Queued \cup ToSet(rs)
  BY SubmitManyQueue DEF RunnerInv
<1>2. /\ ~shut /\ runs' = runs \cup ToSet(rs) /\ sess' = sess
      /\ active' = active /\ requested' = requested /\ results' = results
      /\ errors' = errors /\ ready' = ready /\ shut' = shut /\ lost' = lost
      /\ responses' = responses
  BY DEF SubmitMany, Open, FillThen, Goto, world
<1>3. ToSet(rs) \in SUBSET Runs /\ ToSet(rs) \cap runs = {}
  BY NewRuns DEF SubmitMany, New
<1>4. QED
  BY <1>1, <1>2, <1>3, SubmitBooks

LEMMA BooksStep == ASSUME RunnerInv, [Next]_vars PROVE Books'
<1>1. CASE FillDone \/ Wait \/ Poll \/ Scanned \/ Asked \/ HearMore \/ BarrierEnds \/ RunContinues
           \/ RecvReady \/ AdvanceAll \/ RunAll \/ PollExpires \/ UNCHANGED vars
           \/ \E r \in Runs : PassOver(r)
  <2>1. UNCHANGED <<fields, world>>
    BY <1>1 DEF FillDone, Wait, Poll, Scanned, Asked, HearMore, BarrierEnds, RunContinues,
       RecvReady, AdvanceAll, RunAll, StartBarrier, PollExpires, PassOver, vars
  <2>2. responses' \in {responses, Nothing}
    BY <1>1 DEF FillDone, Wait, Poll, Scanned, Asked, HearMore, BarrierEnds, RunContinues,
       RecvReady, AdvanceAll, RunAll, PollExpires, PassOver, Home, Goto, vars, control
  <2>3. Unheard
    BY <2>2 DEF Unheard, Nothing
  <2>4. QED
    BY <2>1, <2>3, QuietBooks
<1>2. CASE Boot \/ BootFails \/ BootCrash \/ BootMany \/ BootManyCrash \/ Close \/ Return
  BY <1>2, BootBooks, BootFailsBooks, BootCrashBooks, BootManyBooks, ShutBooks, ReturnBooks
<1>3. CASE \E r \in Runs : \/ Take(r) \/ Ask(r) \/ Submit(r) \/ SubmitAdvance(r)
                           \/ SubmitWindow(r) \/ SessionCall(r) \/ Cancel(r) \/ Discard(r)
                           \/ Answer(r) \/ WorkerDies(r) \/ DeadlinePasses(r)
  BY <1>3, TakeBooks, AskBooks, SubmitOneBooks, SubmitAdvanceBooks, SubmitWindowBooks,
     WorkersBooks, CancelBooks, DiscardBooks
<1>4. CASE \E rs \in SeqOf(Runs, Cardinality(Runs)) : SubmitMany(rs)
  BY <1>4, SubmitManyBooks
<1>5. QED
  BY <1>1, <1>2, <1>3, <1>4 DEF Next, Running, Caller, WorkerSteps, Clock

-----------------------------------------------------------------------------
(***************************************************************************)
(* Steps through an operation.                                             *)
(***************************************************************************)
LEMMA HomeControl ==
    ASSUME Home, shut' => queue' = <<>> /\ active' = {} PROVE Control'
  BY DEF Home, Control, Barrier, Asking, Nothing

LEMMA FillControl ==
    ASSUME Control, FillThen("idle"), op = "none", ~shut' PROVE Control'
  BY DEF FillThen, Control, Barrier, Asking, Nothing

LEMMA IdleControl ==
    ASSUME Control, pc = "idle", UNCHANGED control, shut' => queue' = <<>> /\ active' = {}
    PROVE  Control'
  BY DEF control, Control, Barrier, Asking, Nothing

LEMMA SameControl ==
    ASSUME Control, UNCHANGED Fields, UNCHANGED control PROVE Control'
  BY DEF Fields, control, Control, Barrier, Asking, Nothing, HeardAll, Held

\* The filling of the slots goes on.
LEMMA BootControl == ASSUME RunnerInv, Boot \/ BootFails PROVE Control'
<1>1. TypeOK /\ FieldTypes /\ Places /\ Control
  BY TypeParts DEF RunnerInv
<1> DEFINE h == Head(queue)
<1>2. h \in Runs /\ h \in Queued
  BY <1>1, BootQueue DEF Boot, BootFails
<1>3. h \notin active
  BY <1>1, <1>2 DEF Places
<1>4. pc = "fill" /\ UNCHANGED control /\ shut' = shut
  BY DEF Boot, BootFails
<1>5. /\ active \subseteq active' /\ requested' \subseteq requested
      /\ \A r \in Runs : r # h => ready'[r] = ready[r]
      /\ \A r \in Runs : ready[r] # None => ready'[r] # None
  <2>1. CASE Boot
    BY <2>1 DEF Boot
  <2>2. CASE BootFails
    BY <1>1, <1>2, <1>3, <2>2, NoneAssumption DEF BootFails, RecordErrors, Kinds
  <2>3. QED
    BY <2>1, <2>2
<1> HIDE DEF h
<1>6. ~shut
  BY <1>1, <1>4 DEF Control
<1>7. ASSUME Asking
      PROVE  /\ todo \subseteq active' \cap targets
             /\ \A r \in todo : r \notin requested' /\ ready'[r] = None
             /\ \E r \in targets : ready'[r] # None
  <2>1. /\ todo \subseteq active \cap targets /\ active \subseteq Runs /\ targets \subseteq Runs
        /\ \A r \in todo : r \notin requested /\ ready[r] = None
        /\ \E r \in targets : ready[r] # None
    BY <1>1, <1>4, <1>7 DEF Control, TypeOK
  <2>2. QED
    BY <1>3, <1>5, <2>1
<1>8. QED
  BY <1>1, <1>4, <1>5, <1>6, <1>7 DEF Control, control, Asking, Barrier, Nothing

LEMMA FillDoneControl == ASSUME RunnerInv, FillDone PROVE Control'
<1>1. TypeOK /\ Control /\ ~shut
  BY DEF RunnerInv, FillDone, Control
<1>2. /\ runs' = runs /\ queue' = queue /\ active' = active /\ requested' = requested
      /\ ready' = ready /\ shut' = shut
  BY DEF FillDone, fields
<1>3. CASE after = "idle"
  BY <1>1, <1>2, <1>3, HomeControl DEF FillDone
<1>4. CASE after # "idle"
  <2>1. /\ pc' = after /\ op' = op /\ after' = after /\ targets' = targets
        /\ todo' = todo /\ responses' = responses /\ pc = "fill"
    BY <1>4 DEF FillDone, Goto
  <2>2. after \in {"loop", "return", "ask"}
    BY <1>1, <1>4 DEF TypeOK
  <2>3. active = {} => queue = <<>>
    <3>1. active = {} => Cardinality(active) < Workers
      BY FS_EmptySet, BatchAssumption
    <3>2. QED
      BY <3>1 DEF FillDone, MoreToFill, SlotFree
  <2>4. Asking' => Asking
    BY <2>1, <2>2 DEF Asking
  <2>5. QED
    BY <1>1, <1>2, <2>1, <2>2, <2>3, <2>4 DEF Control, Barrier, Asking, Nothing, Held
<1>5. QED
  BY <1>3, <1>4

LEMMA BarrierControl ==
    ASSUME RunnerInv, StartBarrier, requested = {}, ready = Nothing, responses' = Nothing,
           op' \in {"barrier", "run"}, ~shut
    PROVE  Control'
<1>1. /\ targets' = active /\ todo' = active /\ pc' = "ask" /\ active' = active
      /\ requested' = {} /\ ready' = Nothing /\ shut' = shut /\ queue' = queue
  BY DEF StartBarrier, fields
<1>2. active \subseteq Runs
  BY DEF RunnerInv, TypeOK
<1>3. QED
  BY <1>1, <1>2 DEF Control, Barrier, Asking, Nothing, Held

\* run() starts the next barrier with nothing left of the last one.
LEMMA BarrierLeavesNothing ==
    ASSUME RunnerInv, pc = "heard", Barrier, HeardAll PROVE requested = {} /\ ready = Nothing
<1>1. /\ requested \subseteq targets /\ targets \subseteq Held(responses) /\ ready = Nothing
      /\ \A r \in requested : responses[r] = None
  BY DEF RunnerInv, Control, Calls, HeardAll
<1>2. QED
  BY <1>1 DEF Held

LEMMA StartControl == ASSUME RunnerInv, AdvanceAll \/ RunAll \/ RunContinues PROVE Control'
<1>1. TypeOK /\ FieldTypes /\ Control
  BY TypeParts DEF RunnerInv
<1>2. CASE AdvanceAll \/ RunAll
  <2>1. ready = Nothing
    BY <1>1, <1>2 DEF AdvanceAll, RunAll, Collected, Held, FieldTypes, Nothing
  <2>2. responses' = Nothing
    BY <1>1, <1>2 DEF AdvanceAll, RunAll, Open, Control, Barrier
  <2>3. QED
    BY <1>2, <2>1, <2>2, BarrierControl DEF AdvanceAll, RunAll, Collected, Open
<1>3. CASE RunContinues
  <2>1. requested = {} /\ ready = Nothing
    BY <1>3, BarrierLeavesNothing DEF RunContinues, Barrier
  <2>2. ~shut
    BY <1>1, <1>3 DEF RunContinues, Control
  <2>3. QED
    BY <1>3, <2>1, <2>2, BarrierControl DEF RunContinues
<1>4. QED
  BY <1>2, <1>3

LEMMA AskControl == ASSUME RunnerInv, NEW r \in Runs, Ask(r) PROVE Control'
<1>1. TypeOK /\ FieldTypes /\ Control /\ pc = "ask" /\ r \in todo /\ todo' = todo \ {r}
  BY TypeParts DEF RunnerInv, Ask
<1>2. /\ Barrier /\ responses = Nothing /\ todo \subseteq active \cap targets /\ ~shut
      /\ \A q \in todo : q \notin requested /\ ready[q] = None
      /\ Held(ready) # {} => \E q \in targets : ready[q] # None
      /\ requested \subseteq targets /\ r \in targets /\ targets \subseteq Runs
      /\ op = "run" /\ active = {} => queue = <<>> \/ targets = {}
  BY <1>1 DEF Control, Asking, TypeOK
<1>3. op' = op /\ targets' = targets /\ responses' = responses
  BY DEF Ask
<1>4. CASE Request(r) /\ UNCHANGED <<pc, after>>
  BY <1>1, <1>2, <1>3, <1>4 DEF Request, Control, Barrier, Asking, Nothing, Held
<1>5. CASE Unreachable(r) /\ pc' = "fill" /\ after' = "ask"
  <2>1. /\ active' = active \ {r} /\ requested' = requested \ {r} /\ shut' = shut
        /\ ready' = [q \in Runs |-> IF q \in {r} THEN "failed" ELSE ready[q]]
    BY <1>5 DEF Unreachable, RecordErrors
  <2>2. /\ ready'[r] # None
        /\ \A q \in todo \ {r} : ready'[q] = None
    BY <1>1, <1>2, <2>1, NoneAssumption DEF Kinds, TypeOK
  <2>3. QED
    BY <1>1, <1>2, <1>3, <1>5, <2>1, <2>2 DEF Control, Barrier, Asking, Nothing
<1>6. QED
  BY <1>4, <1>5 DEF Ask

LEMMA AskedControl == ASSUME RunnerInv, Asked PROVE Control'
<1>1. TypeOK /\ FieldTypes /\ Control /\ pc = "ask" /\ pc' = "heard"
  BY TypeParts DEF RunnerInv, Asked, Goto
<1>2. /\ op' = op /\ after' = after /\ targets' = targets /\ responses' = responses
      /\ queue' = queue /\ active' = active /\ requested' = requested
      /\ ready' = ready /\ shut' = shut
  BY DEF Asked, Goto, fields
<1>3. /\ Barrier /\ responses = Nothing /\ ~shut
      /\ Held(ready) # {} => \E q \in targets : ready[q] # None
  BY <1>1 DEF Control, Asking
<1>4. HeardAll => ready = Nothing
  <2>1. HeardAll => targets = {}
    BY <1>3 DEF HeardAll, Held, Nothing
  <2>2. Held(ready) = {} => ready = Nothing
    BY <1>1 DEF Held, FieldTypes, Nothing
  <2>3. QED
    BY <1>3, <2>1, <2>2
<1>5. HeardAll' <=> HeardAll
  BY <1>2 DEF HeardAll, Held
<1>6. QED
  BY <1>1, <1>2, <1>3, <1>4, <1>5 DEF Control, Barrier, Asking, Nothing

LEMMA ScanControl ==
    ASSUME RunnerInv, Poll \/ \E r \in Runs : PassOver(r) \/ Take(r) PROVE Control'
<1>1. Control /\ ~shut /\ TypeOK
  BY DEF RunnerInv, Poll, PassOver, Take, Control
<1>2. CASE Poll
  BY <1>1, <1>2 DEF Poll, fields, Control, Barrier, Asking, Nothing, Waiting
<1>3. ASSUME NEW r \in Runs, PassOver(r) PROVE Control'
  BY <1>1, <1>3 DEF PassOver, fields, Control, Barrier, Asking, Nothing
<1>4. ASSUME NEW r \in Runs, Take(r) PROVE Control'
  <2>1. /\ active \ {r} \subseteq active' /\ requested' = requested \ {r}
        /\ todo' = todo \ {r} /\ shut' = shut
        /\ op' = op /\ pc' = pc /\ pc = "scan" /\ targets' = targets /\ responses' = responses
    BY <1>4 DEF Take, RecordErrors, Retire
  <2>2. QED
    BY <1>1, <2>1 DEF Control, Barrier, Asking, Nothing
<1>5. QED
  BY <1>2, <1>3, <1>4

LEMMA LoopControl ==
    ASSUME RunnerInv, RecvReady \/ PollExpires \/ Wait \/ Scanned \/ Return \/ HearMore
    PROVE  Control'
<1>1. Control
  BY DEF RunnerInv
<1>2. CASE RecvReady
  BY <1>1, <1>2 DEF RecvReady, Open, fields, Control, Barrier, Asking, Nothing
<1>3. CASE PollExpires
  BY <1>1, <1>3 DEF PollExpires, fields, Control, Barrier, Asking, Nothing, HeardAll, Held
<1>4. CASE Wait \/ HearMore
  BY <1>1, <1>4 DEF Wait, HearMore, Goto, fields, Control, Barrier, Asking, Nothing
<1>5. CASE Scanned
  <2>1. after' \in {"loop", "return"} /\ pc' = "fill"
    BY <1>5 DEF Scanned, FillAndLoop, BackToLoop
  <2>2. QED
    BY <1>1, <1>5, <2>1 DEF Scanned, fields, Control, Barrier, Asking, Nothing
<1>6. CASE Return
  <2>1. pc \in {"return", "loop"} /\ ~shut /\ shut' = shut
    BY <1>1, <1>6 DEF Return, Control
  <2>2. CASE Barrier
    BY <1>1, <1>6, <2>1, <2>2 DEF Return, Control, Barrier, Asking, Nothing
  <2>3. CASE ~Barrier
    BY <1>6, <2>1, <2>3, HomeControl DEF Return, Barrier
  <2>4. QED
    BY <2>2, <2>3
<1>7. QED
  BY <1>2, <1>3, <1>4, <1>5, <1>6

LEMMA ControlStep == ASSUME RunnerInv, [Next]_vars PROVE Control'
<1>1. Control
  BY DEF RunnerInv
<1>2. CASE BootCrash \/ BootManyCrash \/ BarrierEnds
  <2>1. Home /\ (shut' => queue' = <<>> /\ active' = {})
    BY <1>1, <1>2 DEF BootCrash, BootManyCrash, BarrierEnds, Shut, Control, fields
  <2>2. QED
    BY <2>1, HomeControl
<1>3. CASE BootMany \/ \E r \in Runs : Submit(r) \/ Cancel(r) \/ Discard(r)
  <2>1. CASE BootMany
    <3>1. pc = "many" /\ FillThen("idle") /\ shut' = shut
      BY <2>1 DEF BootMany
    <3>2. op = "none" /\ ~shut
      BY <1>1, <3>1 DEF Control
    <3>3. QED
      BY <1>1, <3>1, <3>2, FillControl
  <2>2. ASSUME NEW r \in Runs, Submit(r) \/ Cancel(r) \/ Discard(r) PROVE Control'
    <3>1. Open /\ FillThen("idle") /\ shut' = shut
      BY <2>2 DEF Submit, Cancel, Discard, Refill
    <3>2. op = "none" /\ ~shut
      BY <1>1, <3>1 DEF Control, Open
    <3>3. QED
      BY <1>1, <3>1, <3>2, FillControl
  <2>3. QED
    BY <1>3, <2>1, <2>2
<1>4. ASSUME NEW rs \in SeqOf(Runs, Cardinality(Runs)), SubmitMany(rs) PROVE Control'
  <2>1. pc = "idle" /\ op = "none" /\ ~shut' /\ ~shut
    BY <1>1, <1>4 DEF SubmitMany, Open, Control
  <2>2. CASE FillThen("idle")
    BY <1>1, <2>1, <2>2, FillControl
  <2>3. CASE Goto("many")
    BY <1>1, <2>1, <2>3 DEF Goto, Control, Barrier, Asking, Nothing
  <2>4. QED
    BY <1>4, <2>2, <2>3 DEF SubmitMany
<1>5. ASSUME NEW r \in Runs, SubmitAdvance(r) PROVE Control'
  <2>1. pc = "idle" /\ op = "none" /\ ~shut' /\ ~shut
    BY <1>1, <1>5 DEF SubmitAdvance, Open, Control, Request, Unreachable
  <2>2. CASE UNCHANGED control
    BY <1>1, <2>1, <2>2, IdleControl
  <2>3. CASE FillThen("idle")
    BY <1>1, <2>1, <2>3, FillControl
  <2>4. QED
    BY <1>5, <2>2, <2>3 DEF SubmitAdvance
<1>6. CASE Close \/ \E r \in Runs : SubmitWindow(r) \/ SessionCall(r)
  <2>1. pc = "idle" /\ UNCHANGED control /\ (shut' => queue' = <<>> /\ active' = {})
    <3>1. CASE Close
      BY <3>1 DEF Close, Shut, Open
    <3>2. ASSUME NEW r \in Runs, SubmitWindow(r) \/ SessionCall(r)
          PROVE  pc = "idle" /\ UNCHANGED control /\ ~shut'
      BY <3>2 DEF SubmitWindow, SessionCall, Open, fields
    <3>3. QED
      BY <1>6, <3>1, <3>2
  <2>2. QED
    BY <1>1, <2>1, IdleControl
<1>7. CASE UNCHANGED vars \/ \E r \in Runs : Answer(r) \/ WorkerDies(r) \/ DeadlinePasses(r)
  <2>1. UNCHANGED Fields /\ UNCHANGED control
    BY <1>7 DEF vars, Answer, WorkerDies, DeadlinePasses, fields, Fields
  <2>2. QED
    BY <1>1, <2>1, SameControl
<1>8. QED
  BY <1>2, <1>3, <1>4, <1>5, <1>6, <1>7, BootControl, FillDoneControl, StartControl,
     AskControl, AskedControl, ScanControl, LoopControl
  DEF Next, Running, Caller, WorkerSteps, Clock

LEMMA RunnerStep == ASSUME RunnerInv, [Next]_vars PROVE RunnerInv'
<1>1. Books' /\ Control'
  BY BooksStep, ControlStep
<1>2. TypeOK
  BY DEF RunnerInv
<1>3. WorldTypes' /\ ControlTypes'
  BY <1>1, <1>2, WorldTypesStep, ControlTypesStep, TypeParts DEF Books
<1>4. TypeOK'
  BY <1>1, <1>3 DEF Books, TypeOK, FieldTypes, WorldTypes, ControlTypes
<1>5. QED
  BY <1>1, <1>4 DEF RunnerInv, Books

\* The inductive invariant of the runner: the type, the books, what the calls
\* are about, and what the operation in progress has still to do.
THEOREM RunnerInvariant == Spec => []RunnerInv
<1>1. Init => RunnerInv
  BY InitRunner
<1>2. RunnerInv /\ [Next]_vars => RunnerInv'
  BY RunnerStep
<1>3. QED
  BY <1>1, <1>2, PTL DEF Spec

-----------------------------------------------------------------------------
(***************************************************************************)
(* What the runs check.                                                    *)
(***************************************************************************)
\* A run is in one place: the four places are counted by their numbers.
LEMMA CountOne ==
    ASSUME NEW P, NEW k \in P, \A i \in P : i = k PROVE Cardinality(P) = 1
<1>1. P = {k}
  OBVIOUS
<1>2. QED
  BY <1>1, FS_Singleton

LEMMA AccountedHolds == RunnerInv => Accounted
<1> SUFFICES ASSUME RunnerInv, pc = "idle", ~shut, NEW r \in Runs, r \notin lost
             PROVE  Cardinality({i \in 1 .. 4 : r \in <<ToSet(queue), active, results, errors>>[i]})
                       = IF r \in runs THEN 1 ELSE 0
  BY DEF Accounted
<1> DEFINE place == <<ToSet(queue), active, results, errors>>
           P == {i \in 1 .. 4 : r \in place[i]}
<1>1. Places
  BY DEF RunnerInv
<1>2. /\ 1 \in P <=> r \in Queued
      /\ 2 \in P <=> r \in active
      /\ 3 \in P <=> r \in results
      /\ 4 \in P <=> r \in errors
  BY DEF Queued
<1>3. \A i \in P : i = 1 \/ i = 2 \/ i = 3 \/ i = 4
  OBVIOUS
<1> HIDE DEF P
<1>4. CASE r \notin runs
  <2>1. P = {}
    BY <1>1, <1>2, <1>3, <1>4 DEF Places
  <2>2. QED
    BY <1>4, <2>1, FS_EmptySet DEF P
<1>5. CASE r \in runs
  <2>1. \E k \in P : \A i \in P : i = k
    BY <1>1, <1>2, <1>3, <1>5 DEF Places
  <2>2. Cardinality(P) = 1
    BY <2>1, CountOne
  <2>3. QED
    BY <1>5, <2>2 DEF P
<1>6. QED
  BY <1>4, <1>5

LEMMA CallsMatch == RunnerInv => CallsMatchRequests
<1> SUFFICES ASSUME RunnerInv PROVE CallsMatchRequests
  OBVIOUS
<1>1. /\ requested \subseteq Runs /\ active \subseteq Runs
      /\ requested \subseteq Queued \cup active \cup lost
      /\ \A r \in active : sess[r] \in {"calling", "answered"} <=> r \in requested
      /\ Live \subseteq active
      /\ active \cap (Queued \cup lost) = {}
  BY DEF RunnerInv, TypeOK, Calls, SlotsBounded, Places
<1>2. \A r \in Runs : sess[r] \in {"calling", "answered"} => r \in active
  BY <1>1 DEF Live
<1>3. QED
  BY <1>1, <1>2 DEF CallsMatchRequests, Queued

\* The runner's books agree with its worker processes and with each other: no
\* more sessions than slots and each of them an active run's, every known run in
\* exactly one place between operations, and a call outstanding exactly for each
\* request that is not queued any more.
THEOREM BooksHold == Spec => []BooksAgree
<1>1. RunnerInv => BooksAgree
  BY AccountedHolds, CallsMatch DEF BooksAgree, RunnerInv
<1>2. QED
  BY <1>1, RunnerInvariant, PTL

\* Between its fills and scans the runner leaves a free slot beside a queued run
\* only after a boot that crashed, and as long as the run it lost is known.
Filled == pc \notin {"fill", "many", "scan"} /\ MoreToFill => lost # {}

LEMMA FilledStep == ASSUME RunnerInv, Filled, [Next]_vars PROVE Filled'
<1>1. CASE pc' \in {"fill", "many", "scan"}
  BY <1>1 DEF Filled
<1>2. CASE /\ UNCHANGED <<queue, active, lost>>
           /\ pc \in {"fill", "many", "scan"} => pc' = pc \/ ~MoreToFill
  <2>1. MoreToFill' <=> MoreToFill
    BY <1>2 DEF MoreToFill, SlotFree
  <2>2. QED
    BY <1>2, <2>1 DEF Filled
<1>3. CASE BootCrash
  BY <1>3 DEF BootCrash, Filled
<1>4. CASE BootManyCrash \/ Close
  BY <1>4 DEF BootManyCrash, Close, Shut, Filled, MoreToFill
<1>5. CASE \/ Boot \/ BootFails \/ BootMany \/ Poll \/ Scanned
           \/ \E r \in Runs : PassOver(r) \/ Take(r) \/ Submit(r) \/ Cancel(r) \/ Discard(r)
  BY <1>1, <1>5 DEF Boot, BootFails, BootMany, Poll, Scanned, PassOver, Take, Submit, Cancel,
     Discard, Refill, FillThen, FillAndLoop, control
<1>6. CASE \E rs \in SeqOf(Runs, Cardinality(Runs)) : SubmitMany(rs)
  BY <1>1, <1>6 DEF SubmitMany, FillThen, Goto
<1>7. CASE \/ FillDone \/ Wait \/ Return \/ Asked \/ HearMore \/ BarrierEnds \/ RunContinues
           \/ RecvReady \/ AdvanceAll \/ RunAll \/ PollExpires
  <2>1. UNCHANGED <<queue, active, lost>>
    BY <1>7 DEF FillDone, Wait, Return, Asked, HearMore, BarrierEnds, RunContinues, RecvReady,
       AdvanceAll, RunAll, StartBarrier, PollExpires, fields
  <2>2. pc \in {"fill", "many", "scan"} => pc' = pc \/ ~MoreToFill
    BY <1>7 DEF FillDone, Wait, Return, Asked, HearMore, BarrierEnds, RunContinues, RecvReady,
       AdvanceAll, RunAll, PollExpires, Open
  <2>3. QED
    BY <1>2, <2>1, <2>2
<1>8. CASE \E r \in Runs : \/ Answer(r) \/ WorkerDies(r) \/ DeadlinePasses(r)
                           \/ SubmitWindow(r) \/ SessionCall(r)
  BY <1>2, <1>8 DEF Answer, WorkerDies, DeadlinePasses, SubmitWindow, SessionCall, fields, control
<1>9. ASSUME NEW r \in Runs, SubmitAdvance(r) \/ Ask(r) PROVE Filled'
  <2>1. CASE Request(r) /\ pc' = pc
    BY <1>2, <2>1 DEF Request
  <2>2. CASE pc' = "fill"
    BY <1>1, <2>2
  <2>3. QED
    BY <1>9, <2>1, <2>2 DEF SubmitAdvance, Ask, FillThen, control
<1>10. CASE UNCHANGED vars
  BY <1>2, <1>10 DEF vars, fields, control
<1>11. QED
  BY <1>3, <1>4, <1>5, <1>6, <1>7, <1>8, <1>9, <1>10 DEF Next, Running, Caller, WorkerSteps, Clock

LEMMA FilledInvariant == Spec => []Filled
<1>1. Init => Filled
  BY DEF Init, Filled, MoreToFill
<1>2. RunnerInv /\ Filled /\ [Next]_vars => Filled'
  BY FilledStep
<1>3. QED
  BY <1>1, <1>2, RunnerInvariant, PTL DEF Spec

\* run() returns to its caller, without raising, with a result for every known
\* run but those that an exception in a boot has lost and those still queued;
\* and with runs still queued only when it found no session active, after such
\* an exception, for any number of runs and workers.
THEOREM RunDrainsHolds == Spec => []RunDrains
<1>1. RunnerInv /\ Filled => RunDrains
  <2> SUFFICES ASSUME RunnerInv, Filled, RunReturns
               PROVE  /\ results = runs \ (lost \cup ToSet(queue))
                      /\ queue # <<>> => targets = {} /\ lost # {}
    BY DEF RunDrains
  <2>1. /\ active = {} /\ errors = {} /\ ~shut
        /\ queue = <<>> \/ targets = {}
    BY DEF RunnerInv, RunReturns, Control
  <2>2. results = runs \ (lost \cup ToSet(queue))
    BY <2>1 DEF RunnerInv, Places, Queued
  <2>3. queue # <<>> => lost # {}
    <3>1. Cardinality(active) < Workers
      BY <2>1, FS_EmptySet, BatchAssumption
    <3>2. QED
      BY <3>1 DEF Filled, MoreToFill, SlotFree, RunReturns
  <2>4. QED
    BY <2>1, <2>2, <2>3
<1>2. QED
  BY <1>1, RunnerInvariant, FilledInvariant, PTL

-----------------------------------------------------------------------------
(***************************************************************************)
(* The runner keeps its contract: each step is a step of BatchContract or  *)
(* changes none of its variables, which are functions of the runner's.     *)
(***************************************************************************)
Keeps == Contract!ContractNext \/ UNCHANGED Contract!contract
Due == Held(ready) \cup Held(responses)
Ending == results \cup errors

LEMMA KeepsSame ==
    ASSUME runs' = runs, Ending' = Ending, requested' = requested, Due' = Due PROVE Keeps
  BY DEF Keeps, Contract!contract, Due, Ending

LEMMA KeepsSubmitted ==
    ASSUME NEW S \in SUBSET Runs, S \cap runs = {}, Ending \subseteq runs,
           runs' = runs \cup S, Ending' = Ending, requested' = requested, Due' = Due
    PROVE  Keeps
<1>1. Contract!Submitted(S)
  BY DEF Contract!Submitted, Due, Ending
<1>2. QED
  BY <1>1 DEF Keeps, Contract!ContractNext

LEMMA KeepsEnded ==
    ASSUME NEW S \in SUBSET Runs, S \subseteq runs \ Ending,
           runs' = runs, Ending' = Ending \cup S, requested' = requested \ S, Due' = Due \cup S
    PROVE  Keeps
<1>1. Contract!Ended(S)
  BY DEF Contract!Ended, Due, Ending
<1>2. QED
  BY <1>1 DEF Keeps, Contract!ContractNext

LEMMA KeepsAsked ==
    ASSUME NEW r \in Runs, r \in runs \ Ending, r \notin requested \cup Due,
           runs' = runs, Ending' = Ending, requested' = requested \cup {r}, Due' = Due
    PROVE  Keeps
<1>1. Contract!Asked(r)
  BY DEF Contract!Asked, Due, Ending
<1>2. QED
  BY <1>1 DEF Keeps, Contract!ContractNext

LEMMA KeepsResponded ==
    ASSUME NEW r \in Runs, r \in requested,
           runs' = runs, Ending' = Ending, requested' = requested \ {r}, Due' = Due \cup {r}
    PROVE  Keeps
<1>1. Contract!Responded(r)
  BY DEF Contract!Responded, Due, Ending
<1>2. QED
  BY <1>1 DEF Keeps, Contract!ContractNext

LEMMA KeepsCollected ==
    ASSUME runs' = runs, Ending' = Ending, requested' = requested, Due' = {} PROVE Keeps
<1>1. Contract!Collected
  BY DEF Contract!Collected, Due, Ending
<1>2. QED
  BY <1>1 DEF Keeps, Contract!ContractNext

LEMMA KeepsDiscarded ==
    ASSUME NEW r \in Runs, r \notin requested,
           runs' = runs \ {r}, Ending' = Ending \ {r}, requested' = requested,
           Due' = Due \ {r}
    PROVE  Keeps
<1>1. Contract!Discarded(r)
  BY DEF Contract!Discarded, Due, Ending
<1>2. QED
  BY <1>1 DEF Keeps, Contract!ContractNext

LEMMA KeepsClosed ==
    ASSUME runs' = runs, Ending' = Ending, requested' = {}, Due' = Due PROVE Keeps
<1>1. Contract!Closed
  BY DEF Contract!Closed, Due, Ending
<1>2. QED
  BY <1>1 DEF Keeps, Contract!ContractNext

\* The failures of one step end their runs.
LEMMA FailuresKeep ==
    ASSUME RunnerInv, NEW S \in SUBSET Runs, S \subseteq runs \ Ending, Failures(S),
           runs' = runs, results' = results, requested' = requested \ S,
           responses' = responses
    PROVE  Keeps
<1>1. errors' = errors \cup S
      /\ ready' = [r \in Runs |-> IF r \in S THEN "failed" ELSE ready[r]]
  BY DEF Failures
<1>2. Held(ready)' = Held(ready) \cup S
  BY <1>1, NoneAssumption DEF Held, Kinds
<1>3. Ending' = Ending \cup S /\ Due' = Due \cup S
  BY <1>1, <1>2 DEF Ending, Due, Held
<1>4. QED
  BY <1>3, KeepsEnded

LEMMA RecordErrorsKeep ==
    ASSUME RunnerInv, NEW r \in Runs, r \in runs, r \notin Ending, RecordErrors({r}),
           runs' = runs, results' = results, responses' = responses
    PROVE  Keeps
<1>1. Failures({r}) /\ requested' = requested \ {r}
  BY DEF RecordErrors, Failures
<1>2. {r} \in SUBSET Runs /\ {r} \subseteq runs \ Ending
  OBVIOUS
<1>3. QED
  BY <1>1, <1>2, FailuresKeep

\* Asking a live run that owes no response.
LEMMA AskingKeeps ==
    ASSUME RunnerInv, NEW r \in Runs, r \in runs, r \notin Ending,
           ready[r] = None, responses = Nothing, responses' = responses,
           (Request(r) /\ r \notin requested) \/ Unreachable(r)
    PROVE  Keeps
<1>1. CASE Request(r) /\ r \notin requested
  <2>1. /\ runs' = runs /\ Ending' = Ending /\ requested' = requested \cup {r}
        /\ Due' = Due /\ r \notin Due
    BY <1>1 DEF Request, Ending, Due, Held, Nothing
  <2>2. QED
    BY <1>1, <2>1, KeepsAsked
<1>2. CASE Unreachable(r)
  BY <1>2, RecordErrorsKeep DEF Unreachable
<1>3. QED
  BY <1>1, <1>2

LEMMA LiveRuns ==
    ASSUME RunnerInv
    PROVE  /\ Queued \subseteq runs \ Ending /\ active \subseteq runs \ Ending
           /\ Ending \subseteq runs
           /\ ~Barrier => responses = Nothing
           /\ pc \in {"idle", "many"} \/ (pc = "fill" /\ after = "idle") => responses = Nothing
  BY DEF RunnerInv, Places, Ending, Control, Barrier

LEMMA BootKeeps ==
    ASSUME RunnerInv, Boot \/ BootFails \/ BootMany PROVE Keeps
<1>1. TypeOK /\ SlotsBounded
  BY DEF RunnerInv
<1>2. CASE Boot
  BY <1>2, KeepsSame DEF Boot, control, Due, Ending, Held
<1>3. CASE BootFails
  <2>1. Head(queue) \in Runs /\ Head(queue) \in Queued
    BY <1>1, <1>3, BootQueue DEF BootFails
  <2>2. Head(queue) \in runs /\ Head(queue) \notin Ending
    BY <2>1, LiveRuns
  <2>3. /\ RecordErrors({Head(queue)})
        /\ runs' = runs /\ results' = results /\ responses' = responses
    BY <1>3 DEF BootFails, control
  <2>4. QED
    BY <2>1, <2>2, <2>3, RecordErrorsKeep
<1>4. CASE BootMany
  <2>1. PICK failed \in SUBSET Pending : Failures(failed) /\ requested' = requested \ failed
    BY <1>4 DEF BootMany
  <2>2. failed \in SUBSET Runs /\ failed \subseteq runs \ Ending
    BY <1>1, <2>1, LiveRuns, PendingQueue
  <2>3. runs' = runs /\ results' = results /\ responses' = responses
    BY <1>4 DEF BootMany, FillThen
  <2>4. QED
    BY <2>1, <2>2, <2>3, FailuresKeep
<1>5. QED
  BY <1>2, <1>3, <1>4

\* An exception in a boot loses a run that was queued.
LEMMA CrashLoses ==
    ASSUME RunnerInv, BootCrash \/ BootManyCrash PROVE lost' # lost
<1>1. TypeOK /\ SlotsBounded /\ Queued \cap lost = {}
  BY DEF RunnerInv, Places
<1>2. CASE BootCrash
  BY <1>1, <1>2, BootQueue DEF BootCrash
<1>3. CASE BootManyCrash
  <2>1. Pending \subseteq Queued
    BY <1>1, PendingQueue
  <2>2. PICK failed \in SUBSET Pending : failed # Pending
    BY <1>3 DEF BootManyCrash
  <2>3. \E r \in Pending : r \notin failed
    BY <2>2
  <2>4. lost' = lost \cup Pending
    BY <1>3 DEF BootManyCrash
  <2>5. QED
    BY <1>1, <2>1, <2>3, <2>4
<1>4. QED
  BY <1>2, <1>3

LEMMA SubmitKeeps ==
    ASSUME RunnerInv,
           \/ \E r \in Runs : Submit(r)
           \/ \E rs \in SeqOf(Runs, Cardinality(Runs)) : SubmitMany(rs)
    PROVE  Keeps
<1>1. ASSUME NEW r \in Runs, Submit(r) PROVE Keeps
  <2>1. /\ {r} \in SUBSET Runs /\ {r} \cap runs = {} /\ runs' = runs \cup {r}
        /\ Ending' = Ending /\ requested' = requested /\ Due' = Due
    BY <1>1 DEF Submit, FillThen, Ending, Due, Held
  <2>2. QED
    BY <2>1, LiveRuns, KeepsSubmitted
<1>2. ASSUME NEW rs \in SeqOf(Runs, Cardinality(Runs)), SubmitMany(rs) PROVE Keeps
  <2>1. ToSet(rs) \in SUBSET Runs /\ ToSet(rs) \cap runs = {}
    BY <1>2, NewRuns DEF SubmitMany, New
  <2>2. /\ runs' = runs \cup ToSet(rs) /\ responses' = responses
        /\ results' = results /\ errors' = errors /\ requested' = requested /\ ready' = ready
    BY <1>2 DEF SubmitMany, FillThen, Goto
  <2>3. Ending' = Ending /\ Due' = Due
    BY <2>2 DEF Ending, Due, Held
  <2>4. QED
    BY <2>1, <2>2, <2>3, LiveRuns, KeepsSubmitted
<1>3. QED
  BY <1>1, <1>2

\* The caller's operations on one run.
LEMMA CallerKeeps ==
    ASSUME RunnerInv, NEW r \in Runs,
           SubmitAdvance(r) \/ SubmitWindow(r) \/ Cancel(r) \/ Discard(r)
    PROVE  Keeps
<1>1. /\ pc = "idle" /\ responses = Nothing /\ responses' = responses
      /\ active \subseteq runs \ Ending
  BY LiveRuns DEF SubmitAdvance, SubmitWindow, Cancel, Discard, Refill, FillThen, control, Open
<1>2. FieldTypes
  BY TypeParts DEF RunnerInv
<1>3. CASE SubmitAdvance(r)
  <2>1. r \in runs /\ r \notin Ending /\ ready[r] = None /\ r \notin requested
    BY <1>3 DEF SubmitAdvance, MayAdvance, Unasked, Ending
  <2>2. QED
    BY <1>1, <1>3, <2>1, AskingKeeps DEF SubmitAdvance
<1>4. CASE SubmitWindow(r)
  <2>1. /\ r \in runs \ Ending /\ r \notin requested \cup Due
        /\ runs' = runs /\ Ending' = Ending /\ Due' = Due
    BY <1>1, <1>4 DEF SubmitWindow, Unasked, Ending, Due, Held, Nothing
  <2>2. requested' = requested \cup {r} \/ requested' = requested
    BY <1>4 DEF SubmitWindow, SendWindow
  <2>3. QED
    BY <2>1, <2>2, KeepsAsked, KeepsSame
<1>5. CASE Cancel(r)
  <2>1. /\ r \in runs /\ r \notin Ending /\ RecordErrors({r})
        /\ runs' = runs /\ results' = results
    BY <1>5 DEF Cancel, Ending
  <2>2. QED
    BY <1>1, <2>1, RecordErrorsKeep
<1>6. CASE Discard(r)
  <2>1. /\ r \notin requested /\ runs' = runs \ {r} /\ requested' = requested
        /\ results' = results \ {r} /\ errors' = errors \ {r}
        /\ ready' = [ready EXCEPT ![r] = None]
    BY <1>6 DEF Discard, At
  <2>2. Ending' = Ending \ {r}
    BY <2>1 DEF Ending
  <2>3. Due' = Due \ {r}
    BY <1>1, <1>2, <2>1 DEF Due, Held, Nothing, FieldTypes
  <2>4. QED
    BY <2>1, <2>2, <2>3, KeepsDiscarded
<1>7. QED
  BY <1>3, <1>4, <1>5, <1>6

LEMMA TakeKeeps == ASSUME RunnerInv, NEW r \in Runs, Take(r) PROVE Keeps
<1>1. /\ r \in runs /\ r \in requested /\ r \notin Ending
      /\ responses' = responses /\ runs' = runs
  BY TakeFrom DEF Ending, Take
<1>2. FieldTypes
  BY TypeParts DEF RunnerInv
<1>3. CASE RecordErrors({r}) /\ results' = results
  BY <1>1, <1>3, RecordErrorsKeep
<1>4. ASSUME NEW kind \in {"paused", "finished"}, ready' = At(ready, r, kind)
      PROVE  Due' = Due \cup {r}
  <2>1. ready' = [ready EXCEPT ![r] = kind] /\ kind # None
    BY <1>4, NoneAssumption DEF At, Kinds
  <2>2. QED
    BY <1>1, <1>2, <2>1 DEF Due, Held, FieldTypes
<1>5. CASE /\ ready' = At(ready, r, "paused") /\ requested' = requested \ {r}
           /\ UNCHANGED <<active, results, errors>>
  <2>1. Ending' = Ending /\ Due' = Due \cup {r}
    BY <1>4, <1>5 DEF Ending
  <2>2. QED
    BY <1>1, <1>5, <2>1, KeepsResponded
<1>6. CASE /\ results' = results \cup {r}
           /\ ready' = At(ready, r, "finished") /\ requested' = requested \ {r}
           /\ UNCHANGED errors
  <2>1. /\ Ending' = Ending \cup {r} /\ Due' = Due \cup {r}
        /\ {r} \in SUBSET Runs /\ {r} \subseteq runs \ Ending
    BY <1>1, <1>4, <1>6 DEF Ending
  <2>2. QED
    BY <1>1, <1>6, <2>1, KeepsEnded
<1>7. QED
  BY <1>3, <1>5, <1>6 DEF Take

LEMMA AskKeeps == ASSUME RunnerInv, NEW r \in Runs, Ask(r) PROVE Keeps
<1>1. /\ r \in active /\ r \notin requested /\ ready[r] = None
      /\ responses = Nothing /\ responses' = responses
  BY DEF RunnerInv, Ask, Control, Asking
<1>2. r \in runs /\ r \notin Ending
  BY <1>1, LiveRuns
<1>3. QED
  BY <1>1, <1>2, AskingKeeps DEF Ask

\* The responses of a barrier stay due until the barrier ends.
LEMMA ReturnKeeps == ASSUME RunnerInv, Return PROVE Keeps
<1>1. /\ runs' = runs /\ requested' = requested /\ Ending' = Ending /\ ready' = Nothing
  BY DEF Return, Ending
<1>2. FieldTypes /\ ControlTypes
  BY TypeParts DEF RunnerInv
<1>3. CASE Merge
  <2>1. Held(ready)' = {}
    BY <1>1 DEF Held, Nothing
  <2>2. responses' = [r \in Runs |-> IF ready[r] # None THEN ready[r] ELSE responses[r]]
    BY <1>3 DEF Merge
  <2>3. Held(responses)' = Held(ready) \cup Held(responses)
    BY <1>2, <2>2 DEF Held
  <2>4. Due' = Due
    BY <2>1, <2>3 DEF Due, Held
  <2>5. QED
    BY <1>1, <2>4, KeepsSame
<1>4. CASE Home
  <2>1. Due' = {}
    BY <1>1, <1>4 DEF Home, Due, Held, Nothing
  <2>2. QED
    BY <1>1, <2>1, KeepsCollected
<1>5. QED
  BY <1>3, <1>4 DEF Return

LEMMA BarrierKeeps == ASSUME RunnerInv, BarrierEnds \/ RunContinues PROVE Keeps
<1>1. ready = Nothing /\ ready' = ready /\ responses' = Nothing
  BY DEF RunnerInv, Control, BarrierEnds, RunContinues, StartBarrier, Home, fields
<1>2. Due' = {}
  BY <1>1 DEF Due, Held, Nothing
<1>3. runs' = runs /\ requested' = requested /\ Ending' = Ending
  BY DEF BarrierEnds, RunContinues, StartBarrier, fields, Ending
<1>4. QED
  BY <1>2, <1>3, KeepsCollected

LEMMA QuietKeeps ==
    ASSUME RunnerInv, UNCHANGED fields, responses' = responses PROVE Keeps
  BY KeepsSame DEF fields, Ending, Due, Held

LEMMA FillDoneKeeps == ASSUME RunnerInv, FillDone PROVE Keeps
<1>1. UNCHANGED fields
  BY DEF FillDone
<1>2. CASE after = "idle"
  <2>1. responses = Nothing /\ responses' = Nothing
    BY <1>2, LiveRuns DEF FillDone, Home
  <2>2. QED
    BY <1>1, <2>1, QuietKeeps
<1>3. CASE after # "idle"
  BY <1>1, <1>3, QuietKeeps DEF FillDone, Goto
<1>4. QED
  BY <1>2, <1>3

LEMMA StepKeeps == ASSUME RunnerInv, [Next]_vars, lost' = lost PROVE Keeps
<1>1. CASE Wait \/ Poll \/ Scanned \/ Asked \/ HearMore \/ RecvReady \/ AdvanceAll \/ RunAll
           \/ PollExpires \/ UNCHANGED vars
           \/ \E r \in Runs : \/ PassOver(r) \/ SessionCall(r)
                              \/ Answer(r) \/ WorkerDies(r) \/ DeadlinePasses(r)
  <2>1. UNCHANGED fields
    BY <1>1 DEF Wait, Poll, Scanned, Asked, HearMore, RecvReady, AdvanceAll, RunAll,
       StartBarrier, PollExpires, PassOver, SessionCall, Answer, WorkerDies,
       DeadlinePasses, vars
  <2>2. responses' = responses
    BY <1>1 DEF Wait, Poll, Scanned, Asked, HearMore, RecvReady, AdvanceAll, RunAll,
       PollExpires, PassOver, SessionCall, Answer, WorkerDies,
       DeadlinePasses, vars, control, Goto
  <2>3. QED
    BY <2>1, <2>2, QuietKeeps
<1>2. CASE Close
  <2>1. runs' = runs /\ Ending' = Ending /\ requested' = {} /\ Due' = Due
    BY <1>2 DEF Close, Shut, control, Ending, Due, Held
  <2>2. QED
    BY <2>1, KeepsClosed
<1>3. QED
  BY <1>1, <1>2, BootKeeps, CrashLoses, SubmitKeeps, CallerKeeps, TakeKeeps, AskKeeps,
     ReturnKeeps, BarrierKeeps, FillDoneKeeps
  DEF Next, Running, Caller, WorkerSteps, Clock

\* Whatever the workers and the caller do, each accepted request and each ending
\* is reported to the caller exactly once, a run that ended stays ended until it
\* is discarded, and nothing that was asked is forgotten short of close; an
\* exception that is not an SDKError, raised in a boot, is the one exception.
THEOREM RunnerKeepsContract == Spec => KeepsContract
<1>1. Init => Contract!ContractInit
  BY DEF Init, Contract!ContractInit, Held, Nothing
<1>2. RunnerInv /\ [Next]_vars =>
         [lost' = lost => Contract!ContractNext]_(Contract!contract)
  BY StepKeeps DEF Keeps
<1>3. QED
  BY <1>1, <1>2, RunnerInvariant, PTL DEF Spec, KeepsContract

-----------------------------------------------------------------------------
(***************************************************************************)
(* VectorEnv over the runner.  While nothing was raised the environments   *)
(* and the books of the runner say the same.                               *)
(***************************************************************************)
Episodes == (Seeds \X Nat) \cup {None}
Waves == {"idle", "starting", "collecting", "taking"}
Undisturbed == {"preparing", "booting", "binding", "resetting"} \cup Waves
OurRuns == {RunOf(i) : i \in SlotSet}

EnvTypes ==
    /\ env \in [SlotSet -> [seed : Seeds, generation : Nat, prepared : Episodes,
                            key : Episodes, id : 0 .. Generations, built : Episodes,
                            attached : BOOLEAN, pristine : BOOLEAN, cycle : Nat]]
    /\ carries \in [Runs -> Episodes] /\ advanced \in [Runs -> Nat]
CallTypes ==
    /\ phase \in Undisturbed \cup {"failed", "closing", "closed", "broken"}
    /\ making \in BOOLEAN /\ previous \in BOOLEAN
    /\ chosen \subseteq SlotSet /\ left \subseteq SlotSet /\ pending \subseteq SlotSet
    /\ heard \in [Runs -> Kinds \cup {None}]

\* The runner is only inside an operation that the caller is in, and a wave
\* never ends a run.
RunnerUse ==
    /\ op \in {"none", "recv"}
    /\ \A r \in Runs : reply[r] # "finished"
    /\ pc \in {"idle", "fill", "many", "loop", "wait", "scan", "return"}
    /\ pc # "idle" => phase \in {"preparing", "booting", "binding", "collecting", "closing"}
    /\ phase # "collecting" => pc \in {"idle", "fill", "many"} /\ (pc = "fill" => after = "idle")
    /\ pc = "many" => phase = "binding"

\* Only a wave requests, and what is raised in one may leave requests behind.
Requests ==
    /\ requested # {} =>
          /\ queue = <<>>
          /\ phase \in {"starting", "collecting", "taking"}
                \/ (phase \in {"failed", "closing", "closed", "broken"}
                    /\ cause \in {"starting", "taking"})
    /\ phase = "closed" => shut
    /\ phase = "broken" => shut \/ requested # {}

\* The runs the runner knows are those of the environments.
RunsKnown ==
    phase \in Undisturbed =>
        /\ ~shut /\ lost = {} /\ results = {}
        /\ runs \subseteq OurRuns
        /\ \A i \in SlotSet : env[i].attached => RunOf(i) \in runs
        /\ \A r \in Runs : advanced[r] # 0 => r \in runs
        /\ phase # "binding" => queue = <<>>
        /\ phase \notin {"collecting", "taking"} =>
              /\ heard = Nothing
              /\ \A i \in SlotSet : env[i].attached => RunOf(i) \in active
        /\ phase \notin {"binding", "collecting", "taking"} => runs = active /\ ready = Nothing
        /\ phase = "binding" => Held(ready) \subseteq errors
        /\ phase \notin {"starting", "collecting", "taking"} => pending = {}

\* The environment is in the episode its session carries, as far as it has gone.
InEpisode(i) ==
    /\ env[i].attached
    /\ carries[RunOf(i)] = env[i].key /\ advanced[RunOf(i)] = env[i].cycle
    /\ env[i].pristine => env[i].cycle = 0
\* The session of the environment is about to enter the episode.
Entering(i) == carries[RunOf(i)] = Key(i) /\ advanced[RunOf(i)] = 0
Prepared(i) ==
    IF env[i].attached THEN Entering(i) ELSE env[i].built = Key(i) /\ RunOf(i) \notin runs
EpisodesKnown ==
    /\ phase \in Undisturbed => \A i \in SlotSet \ chosen : InEpisode(i)
    /\ phase = "preparing" => \A i \in left : env[i].generation <= Generations
    /\ phase = "preparing" => \A i \in left :
          IF env[i].attached THEN InEpisode(i) ELSE RunOf(i) \notin runs
    /\ phase \in {"preparing", "booting"} => \A i \in chosen \ left : Prepared(i)
    /\ phase = "booting" => left = {}
    /\ phase = "binding" => \A i \in chosen : Entering(i) /\ (env[i].attached <=> i \notin left)
    /\ phase = "resetting" => \A i \in SlotSet :
          IF i \in left THEN env[i].attached /\ Entering(i) ELSE InEpisode(i)
    /\ phase \in Waves => \A i \in SlotSet : InEpisode(i)
    /\ phase \in {"preparing", "booting", "binding", "resetting"} => left \subseteq chosen

\* A wave: who still has to be stepped, and what was heard of it.
WaveKnown ==
    phase \in Waves \cup {"resetting"} =>
        /\ runs = OurRuns
        /\ {RunOf(i) : i \in pending} = requested \cup Held(ready) \cup Held(heard)
        /\ \A r \in runs : r \in active \/ ready[r] = "failed" \/ heard[r] = "failed"
        /\ \A i \in pending : ~env[i].pristine
        /\ phase # "taking" => heard = Nothing
        /\ phase = "taking" => ready = Nothing /\ requested \cap Held(heard) = {}

VectorInv ==
    EnvTypes /\ CallTypes /\ RunnerUse /\ Requests /\ RunsKnown /\ EpisodesKnown /\ WaveKnown

-----------------------------------------------------------------------------
(* The new runs are those of the environments without a session. *)
LEMMA InOrderIn ==
    ASSUME NEW S, S \subseteq Nat, IsFiniteSet(S), NEW k \in 1 .. Cardinality(S)
    PROVE  InOrder(S)[k] \in S
<1> DEFINE below(i) == {j \in S : j < i}
           c == Cardinality(S)
           f == [i \in S |-> Cardinality(below(i))]
           T == {f[i] : i \in S}
<1>1. c \in Nat
  BY FS_CardinalityType
<1> HIDE DEF c
<1>2. ASSUME NEW i \in S
      PROVE  IsFiniteSet(below(i)) /\ f[i] \in Nat /\ f[i] <= c - 1 /\ f[i] = Cardinality(below(i))
  <2>1. below(i) \subseteq S \ {i}
    OBVIOUS
  <2>2. IsFiniteSet(S \ {i}) /\ Cardinality(S \ {i}) = c - 1
    BY FS_RemoveElement DEF c
  <2>3. IsFiniteSet(below(i)) /\ Cardinality(below(i)) <= c - 1
    BY <2>1, <2>2, FS_Subset
  <2>4. QED
    BY <2>3, FS_CardinalityType
<1>3. ASSUME NEW i \in S, NEW j \in S, i < j PROVE f[i] # f[j]
  <2>1. below(i) \subseteq below(j) \ {i} /\ i \in below(j)
    <3>1. \A x \in S : x \in Nat
      OBVIOUS
    <3>2. \A x \in S : x < i => x < j /\ x # i
      BY <1>3, <3>1
    <3>3. QED
      BY <1>3, <3>2
  <2>2. IsFiniteSet(below(j)) /\ f[i] = Cardinality(below(i)) /\ f[j] = Cardinality(below(j))
        /\ f[i] \in Nat /\ f[j] \in Nat
    BY <1>2
  <2> HIDE DEF below, f
  <2>3. IsFiniteSet(below(j) \ {i}) /\ Cardinality(below(j) \ {i}) = f[j] - 1
    BY <2>1, <2>2, FS_RemoveElement
  <2>4. f[i] <= f[j] - 1
    BY <2>1, <2>2, <2>3, FS_Subset
  <2>5. QED
    BY <2>2, <2>4
<1>4. ASSUME NEW i \in S, NEW j \in S, f[i] = f[j] PROVE i = j
  <2>1. i \in Nat /\ j \in Nat
    OBVIOUS
  <2> HIDE DEF f
  <2>2. ~(i < j) /\ ~(j < i)
    BY <1>3, <1>4
  <2>3. QED
    BY <2>1, <2>2
<1>5. f \in [S -> T] /\ \A t \in T : \E i \in S : f[i] = t
  OBVIOUS
<1>6. T \subseteq 0 .. c - 1
  <2>1. \A i \in S : f[i] \in Nat /\ f[i] <= c - 1
    BY <1>2
  <2> HIDE DEF f
  <2>2. QED
    BY <1>1, <2>1
<1>7. \A t \in T : \E i \in S : Cardinality({j \in S : j < i}) = t
  OBVIOUS
<1> HIDE DEF f, T, below
<1>8. Cardinality(T) = c
  <2>1. f \in Surjection(S, T) /\ f \in Injection(S, T)
    BY <1>4, <1>5 DEF Injection, Surjection, IsInjective
  <2>2. QED
    BY <2>1, FS_Surjection DEF c
<1>9. IsFiniteSet(0 .. c - 1) /\ Cardinality(0 .. c - 1) = c
  BY <1>1, FS_Interval
<1>10. T = 0 .. c - 1
  BY <1>6, <1>8, <1>9, FS_Subset
<1>11. \E i \in S : Cardinality({j \in S : j < i}) = k - 1
  <2>1. k - 1 \in T
    BY <1>1, <1>10 DEF c
  <2>2. QED
    BY <1>7, <2>1
<1>12. QED
  BY <1>11 DEF InOrder

-----------------------------------------------------------------------------
(* What the steps of the vector environment do to the runner. *)
LEMMA RunFacts ==
    ASSUME EnvTypes
    PROVE  /\ \A i \in SlotSet : RunOf(i) \in Runs /\ env[i].id \in 0 .. Generations
           /\ \A i, j \in SlotSet : RunOf(i) = RunOf(j) => i = j
           /\ OurRuns \subseteq Runs
<1>1. Runs = SlotSet \X (0 .. Generations)
  BY VectorAssumption
<1>2. \A i \in SlotSet : env[i].id \in 0 .. Generations
  BY DEF EnvTypes
<1>3. QED
  BY <1>1, <1>2 DEF RunOf, OurRuns

LEMMA SlotsFinite ==
    /\ Slots \in Nat \ {0} /\ SlotSet \subseteq Nat
    /\ \A S \in SUBSET SlotSet : IsFiniteSet(S) /\ Cardinality(S) \in Nat
<1>1. Slots \in Nat \ {0}
  BY VectorAssumption
<1>2. SlotSet \subseteq Nat /\ IsFiniteSet(SlotSet)
  BY <1>1, FS_Interval DEF SlotSet
<1>3. QED
  BY <1>1, <1>2, FS_Subset, FS_CardinalityType

\* The runs that boot together are those of the environments without a session.
NewRunIds == [k \in 1 .. Cardinality(Unattached) |-> NewRun(k)]
LEMMA BootAllRuns ==
    ASSUME TypeOK, EnvTypes, CallTypes, BootAll
    PROVE  /\ NewRunIds \in SeqOf(Runs, Cardinality(Runs))
           /\ SubmitMany(NewRunIds)
           /\ \A r \in ToSet(NewRunIds) : \E i \in Unattached : r = RunOf(i)
<1> DEFINE c == Cardinality(Unattached)
           rs == NewRunIds
<1>1. Unattached \subseteq SlotSet
  BY DEF Unattached, CallTypes
<1>2. c \in Nat /\ IsFiniteSet(Unattached) /\ Unattached \subseteq Nat
  BY <1>1, SlotsFinite
<1>3. \A k \in 1 .. c : InOrder(Unattached)[k] \in Unattached
  BY <1>2, InOrderIn
<1>4. SubmitMany(rs)
  BY DEF BootAll, NewRunIds
<1>5. \A k \in 1 .. c : rs[k] \in Runs /\ \E i \in Unattached : rs[k] = RunOf(i)
  BY <1>1, <1>3, RunFacts DEF NewRunIds, NewRun
<1>6. rs \in [1 .. c -> Runs]
  BY <1>5 DEF NewRunIds
<1>7. IsInjective(rs)
  BY <1>4 DEF SubmitMany, New
<1> HIDE DEF rs
<1>8. rs \in Injection(1 .. c, Runs)
  BY <1>6, <1>7 DEF Injection
<1>9. IsFiniteSet(Runs) /\ Cardinality(Runs) \in Nat
  BY BatchAssumption, FS_CardinalityType
<1>10. Cardinality(1 .. c) <= Cardinality(Runs)
  BY <1>8, <1>9, FS_Injection
<1>11. Cardinality(1 .. c) = c
  BY <1>2, FS_Interval
<1>12. c \in 0 .. Cardinality(Runs)
  BY <1>2, <1>9, <1>10, <1>11
<1> HIDE DEF c
<1>13. rs \in SeqOf(Runs, Cardinality(Runs))
  BY <1>6, <1>12 DEF SeqOf
<1>14. \A r \in ToSet(rs) : \E i \in Unattached : r = RunOf(i)
  BY <1>5, <1>6 DEF ToSet
<1>15. QED
  BY <1>4, <1>13, <1>14 DEF rs

LEMMA VectorStepsRunner ==
    ASSUME RunnerInv, EnvTypes, CallTypes, [VectorNext]_vectorVars PROVE [Next]_vars
<1>1. \A i \in SlotSet : RunOf(i) \in Runs
  BY RunFacts
<1>2. CASE RunnerSteps
  BY <1>2 DEF RunnerSteps, Next
<1>3. CASE Workload
  BY <1>3 DEF Workload, AnswerWindow, Next, WorkerSteps, Clock
<1>4. CASE Call \/ (Gone /\ UNCHANGED vectorVars) \/ UNCHANGED vectorVars
  BY <1>4 DEF Call, Reset, SetSeed, StartWave, CloseAll, vectorVars, batchVars
<1>5. ASSUME NEW i \in left, PrepareReset(i) \/ Bind(i) \/ ResetOne(i) \/ Begin(i) \/ CloseOne(i)
      PROVE  [Next]_vars
  <2>1. i \in SlotSet /\ RunOf(i) \in Runs
    BY <1>1 DEF CallTypes
  <2>2. Discard(RunOf(i)) \/ SessionCall(RunOf(i)) \/ SubmitWindow(RunOf(i)) \/ UNCHANGED vars
    BY <1>5 DEF PrepareReset, Bind, ResetOne, Begin, CloseOne, batchVars
  <2>3. QED
    BY <2>1, <2>2 DEF Next, Caller
<1>6. CASE BootAll
  <2>1. NewRunIds \in SeqOf(Runs, Cardinality(Runs)) /\ SubmitMany(NewRunIds)
    BY <1>6, BootAllRuns DEF RunnerInv
  <2>2. QED
    BY <2>1 DEF Next, Caller
<1>7. CASE Bound \/ Collect \/ CloseRunner \/ \E r \in Runs : Encode(r)
  BY <1>7 DEF Bound, Collect, CloseRunner, RunnerClosed, Encode, batchVars, Next, Caller
<1>8. QED
  BY <1>2, <1>3, <1>4, <1>5, <1>6, <1>7 DEF VectorNext, Progress

-----------------------------------------------------------------------------
(***************************************************************************)
(* The invariant, action by action.                                        *)
(***************************************************************************)
LEMMA InitVector == VectorInit => RunnerInv /\ VectorInv
<1> SUFFICES ASSUME VectorInit PROVE RunnerInv /\ VectorInv
  OBVIOUS
<1>1. RunnerInv
  BY InitRunner DEF VectorInit
<1>2. Init
  BY DEF VectorInit
<1>3. EnvTypes
  BY VectorAssumption DEF VectorInit, EnvTypes, Episodes, Nothing
<1>4. CallTypes
  BY DEF VectorInit, CallTypes, Undisturbed, Nothing
<1>5. RunnerUse
  BY <1>2, NoneAssumption DEF VectorInit, Init, RunnerUse, Nothing, Outcomes
<1>6. Requests
  BY <1>2 DEF VectorInit, Init, Requests
<1>7. RunsKnown
  BY <1>2 DEF VectorInit, Init, RunsKnown
<1>8. EpisodesKnown
  BY <1>2, VectorAssumption DEF VectorInit, Init, EpisodesKnown, Waves
<1>9. WaveKnown
  BY DEF VectorInit, WaveKnown, Waves
<1>10. QED
  BY <1>1, <1>3, <1>4, <1>5, <1>6, <1>7, <1>8, <1>9 DEF VectorInv

\* After an exception only the requests that are left matter.
LEMMA DisturbedStep ==
    ASSUME phase' \notin Undisturbed PROVE RunsKnown' /\ EpisodesKnown' /\ WaveKnown'
  BY DEF RunsKnown, EpisodesKnown, WaveKnown, Waves, Undisturbed

LEMMA WorkloadStep ==
    ASSUME VectorInv, Workload \/ UNCHANGED vectorVars PROVE VectorInv'
<1>1. /\ UNCHANGED <<envVars, callVars, control, fields>>
      /\ \A r \in Runs : reply'[r] # "finished"
  <2>1. CASE UNCHANGED vectorVars
    BY <2>1 DEF vectorVars, batchVars, vars, world, VectorInv, RunnerUse
  <2>2. ASSUME NEW r \in Runs, AnswerWindow(r), UNCHANGED <<envVars, callVars>>
        PROVE  <1>1!:
    BY <2>2 DEF AnswerWindow, Answer, At, VectorInv, RunnerUse
  <2>3. ASSUME NEW r \in Runs, WorkerDies(r) \/ DeadlinePasses(r), UNCHANGED <<envVars, callVars>>
        PROVE  <1>1!:
    BY <2>3 DEF WorkerDies, DeadlinePasses, VectorInv, RunnerUse
  <2>4. QED
    BY <2>1, <2>2, <2>3 DEF Workload
<1>2. \A i : RunOf(i)' = RunOf(i) /\ Key(i)' = Key(i)
  BY <1>1 DEF RunOf, Key, envVars
<1>3. QED
  BY <1>1, <1>2
  DEF VectorInv, EnvTypes, CallTypes, RunnerUse, Requests, RunsKnown, EpisodesKnown, WaveKnown,
      envVars, callVars, control, fields, OurRuns, InEpisode, Entering, Prepared, Held

\* What waits in the queue or was heard of no active run, once all runs are active.
LEMMA AllActive ==
    ASSUME RunnerInv, runs \subseteq active
    PROVE  queue = <<>> /\ errors = {} /\ runs = active
<1>1. Queued \subseteq runs /\ Queued \cap active = {} /\ errors \subseteq runs
      /\ active \cap errors = {} /\ active \subseteq runs
  BY DEF RunnerInv, Places
<1>2. Queued = {} /\ errors = {}
  BY <1>1
<1>3. queue \in Seq(Runs) /\ ToSet(queue) = {}
  BY <1>2 DEF RunnerInv, TypeOK, Queued
<1>4. DOMAIN queue = 1 .. Len(queue) /\ Len(queue) \in Nat
  BY <1>3, LenProperties
<1>5. Len(queue) = 0
  <2>1. ASSUME 1 \in 1 .. Len(queue) PROVE FALSE
    BY <1>3, <1>4, <2>1 DEF ToSet
  <2>2. QED
    BY <1>4, <2>1
<1>6. QED
  BY <1>1, <1>2, <1>3, <1>5, EmptySeq

LEMMA SameRuns ==
    ASSUME \A i \in SlotSet : env'[i].id = env[i].id
    PROVE  (\A i \in SlotSet : RunOf(i)' = RunOf(i)) /\ OurRuns' = OurRuns
  BY DEF RunOf, OurRuns

LEMMA ResetStep ==
    ASSUME VectorInv, RunnerInv, NEW S \in SUBSET SlotSet, Reset(S) PROVE VectorInv'
<1>1. /\ phase = "idle" /\ phase' = "preparing" /\ left' = S /\ chosen' = S
      /\ UNCHANGED <<vars, envVars, making, previous, pending, heard, cause>>
      /\ \A i \in S : env[i].generation <= Generations
  BY DEF Reset, GoOn, batchVars
<1>2. \A i : RunOf(i)' = RunOf(i)
  BY <1>1 DEF RunOf, envVars
<1>3. EnvTypes' /\ CallTypes'
  BY <1>1 DEF VectorInv, EnvTypes, CallTypes, envVars, Undisturbed
<1>4. RunnerUse' /\ Requests'
  BY <1>1 DEF VectorInv, RunnerUse, Requests, vars, control, fields, world
<1>5. RunsKnown'
  BY <1>1, <1>2 DEF VectorInv, RunsKnown, Undisturbed, Waves, vars, fields, envVars, OurRuns
<1>6. EpisodesKnown'
  <2>1. \A i \in SlotSet : InEpisode(i) /\ InEpisode(i)'
    BY <1>1, <1>2 DEF VectorInv, EpisodesKnown, Waves, InEpisode, envVars
  <2>2. QED
    BY <1>1, <2>1 DEF EpisodesKnown, Waves, envVars, InEpisode
<1>7. WaveKnown'
  BY <1>1 DEF WaveKnown, Waves
<1>8. QED
  BY <1>3, <1>4, <1>5, <1>6, <1>7 DEF VectorInv

LEMMA SetSeedStep ==
    ASSUME VectorInv, NEW s \in Seeds, SetSeed(s) PROVE VectorInv'
<1>1. /\ phase = "idle" /\ UNCHANGED <<vars, carries, advanced, callVars>>
      /\ env' = [i \in SlotSet |-> [env[i] EXCEPT !.seed = s, !.generation = 0]]
  BY DEF SetSeed, batchVars
<1>2. EnvTypes'
  BY <1>1 DEF VectorInv, EnvTypes
<1>3. \A i \in SlotSet :
         /\ env'[i].id = env[i].id /\ env'[i].attached = env[i].attached
         /\ env'[i].key = env[i].key /\ env'[i].cycle = env[i].cycle
         /\ env'[i].pristine = env[i].pristine
  BY <1>1 DEF VectorInv, EnvTypes
<1>4. (\A i \in SlotSet : RunOf(i)' = RunOf(i)) /\ OurRuns' = OurRuns
  BY <1>3, SameRuns
<1>5. CallTypes' /\ RunnerUse' /\ Requests'
  BY <1>1 DEF VectorInv, CallTypes, RunnerUse, Requests, vars, control, fields, world, callVars
<1>6. RunsKnown'
  BY <1>1, <1>3, <1>4 DEF VectorInv, RunsKnown, vars, fields, callVars, Held
<1>7. EpisodesKnown'
  <2>1. \A i \in SlotSet : InEpisode(i)
    BY <1>1 DEF VectorInv, EpisodesKnown, Waves
  <2>2. ASSUME NEW i \in SlotSet PROVE InEpisode(i)'
    <3>1. /\ env[i].attached
          /\ carries[RunOf(i)] = env[i].key /\ advanced[RunOf(i)] = env[i].cycle
          /\ env[i].pristine => env[i].cycle = 0
      BY <2>1 DEF InEpisode
    <3>2. RunOf(i)' = RunOf(i) /\ carries' = carries /\ advanced' = advanced
      BY <1>1, <1>4
    <3>3. /\ env'[i].attached = env[i].attached /\ env'[i].key = env[i].key
          /\ env'[i].cycle = env[i].cycle /\ env'[i].pristine = env[i].pristine
      BY <1>3
    <3>4. /\ carries'[RunOf(i)'] = env'[i].key /\ advanced'[RunOf(i)'] = env'[i].cycle
          /\ env'[i].attached /\ (env'[i].pristine => env'[i].cycle = 0)
      BY <3>1, <3>2, <3>3
    <3>5. QED
      BY <3>4 DEF InEpisode
  <2>3. QED
    BY <1>1, <2>2 DEF EpisodesKnown, Waves, callVars
<1>8. WaveKnown'
  <2>1. pending = {}
    BY <1>1 DEF VectorInv, RunsKnown, Undisturbed, Waves
  <2>2. QED
    BY <1>1, <1>4, <2>1 DEF VectorInv, WaveKnown, Waves, vars, fields, callVars, Held
<1>9. QED
  BY <1>2, <1>5, <1>6, <1>7, <1>8 DEF VectorInv

LEMMA StartWaveStep ==
    ASSUME VectorInv, StartWave PROVE VectorInv'
<1>1. /\ phase = "idle" /\ phase' = "starting" /\ left' = SlotSet
      /\ UNCHANGED <<vars, envVars, making, previous, chosen, pending, heard, cause>>
  BY DEF StartWave, GoOn, batchVars
<1>2. \A i : RunOf(i)' = RunOf(i)
  BY <1>1 DEF RunOf, envVars
<1>3. EnvTypes' /\ CallTypes'
  BY <1>1 DEF VectorInv, EnvTypes, CallTypes, envVars, Undisturbed, Waves
<1>4. RunnerUse' /\ Requests'
  BY <1>1 DEF VectorInv, RunnerUse, Requests, vars, control, fields, world
<1>5. RunsKnown'
  BY <1>1, <1>2 DEF VectorInv, RunsKnown, Undisturbed, Waves, vars, fields, envVars, OurRuns
<1>6. EpisodesKnown'
  BY <1>1, <1>2 DEF VectorInv, EpisodesKnown, Waves, InEpisode, envVars
<1>7. WaveKnown'
  BY <1>1, <1>2 DEF VectorInv, WaveKnown, Waves, vars, fields, envVars, OurRuns, Held
<1>8. QED
  BY <1>3, <1>4, <1>5, <1>6, <1>7 DEF VectorInv

LEMMA CloseAllStep ==
    ASSUME VectorInv, CloseAll PROVE VectorInv'
<1>1. /\ phase \in {"idle", "failed"} /\ phase' = "closing"
      /\ left' = {i \in SlotSet : env[i].attached}
      /\ UNCHANGED <<vars, envVars, making, previous, chosen, pending, heard, cause>>
  BY DEF CloseAll, GoOn, batchVars
<1>2. EnvTypes' /\ CallTypes'
  BY <1>1 DEF VectorInv, EnvTypes, CallTypes, envVars, Undisturbed, Waves
<1>3. RunnerUse' /\ Requests'
  BY <1>1 DEF VectorInv, RunnerUse, Requests, vars, control, fields, world
<1>4. phase' \notin Undisturbed
  BY <1>1 DEF Undisturbed, Waves
<1>5. QED
  BY <1>2, <1>3, <1>4, DisturbedStep DEF VectorInv

LEMMA BindStep ==
    ASSUME VectorInv, RunnerInv, NEW i \in left, Bind(i) PROVE VectorInv'
<1>1. /\ phase = "binding" /\ pc = "idle" /\ i \in SlotSet
      /\ UNCHANGED <<vars, carries, advanced, making, previous, chosen, pending, heard>>
  BY DEF Bind, Free, batchVars, VectorInv, CallTypes
<1>2. RunnerUse'
  BY <1>1 DEF VectorInv, RunnerUse, vars, control, world
<1>3. requested = {}
  BY <1>1 DEF VectorInv, Requests
<1>4. CASE RunOf(i) \in active
  <2>1. /\ env' = [env EXCEPT ![i] = [env[i] EXCEPT !.attached = TRUE]]
        /\ left' = left \ {i} /\ phase' = "binding" /\ cause' = cause
    BY <1>4 DEF Bind, Set, GoOn
  <2>2. EnvTypes' /\ CallTypes'
    BY <1>1, <2>1 DEF VectorInv, EnvTypes, CallTypes
  <2>3. \A j \in SlotSet :
           /\ env'[j].id = env[j].id /\ env'[j].key = env[j].key /\ env'[j].cycle = env[j].cycle
           /\ env'[j].pristine = env[j].pristine /\ Key(j)' = Key(j)
           /\ env'[j].attached = (env[j].attached \/ j = i)
    BY <1>1, <2>1 DEF VectorInv, EnvTypes, Key
  <2>4. (\A j \in SlotSet : RunOf(j)' = RunOf(j)) /\ OurRuns' = OurRuns
    BY <2>3, SameRuns
  <2>5. Requests'
    BY <1>1, <1>3, <2>1 DEF Requests, vars, fields
  <2>6. active \subseteq runs
    BY DEF RunnerInv, Places
  <2>7. RunsKnown'
    BY <1>1, <1>4, <2>1, <2>3, <2>4, <2>6 DEF VectorInv, RunsKnown, Undisturbed, vars, fields, Held
  <2>8. EpisodesKnown'
    <3>1. \A j \in SlotSet : InEpisode(j) => InEpisode(j)'
      BY <1>1, <2>3, <2>4 DEF InEpisode
    <3>2. \A j \in SlotSet : Entering(j) => Entering(j)'
      BY <1>1, <2>3, <2>4 DEF Entering
    <3>3. /\ left \subseteq chosen /\ chosen \subseteq SlotSet
          /\ \A j \in SlotSet \ chosen : InEpisode(j)
          /\ \A j \in chosen : Entering(j) /\ (env[j].attached <=> j \notin left)
      BY <1>1 DEF VectorInv, EpisodesKnown, Undisturbed, CallTypes
    <3>4. \A j \in chosen : Entering(j)' /\ (env'[j].attached <=> j \notin left')
      BY <2>1, <2>3, <3>2, <3>3
    <3>5. QED
      BY <1>1, <2>1, <3>1, <3>3, <3>4 DEF EpisodesKnown, Waves
  <2>9. WaveKnown'
    BY <2>1 DEF WaveKnown, Waves
  <2>10. QED
    BY <1>2, <2>2, <2>5, <2>7, <2>8, <2>9 DEF VectorInv
<1>5. CASE RunOf(i) \notin active
  <2>1. phase' = "failed" /\ UNCHANGED <<env, left>>
    BY <1>5 DEF Bind, Raise
  <2>2. EnvTypes' /\ CallTypes' /\ Requests'
    BY <1>1, <1>3, <2>1 DEF VectorInv, EnvTypes, CallTypes, Requests, vars, fields
  <2>3. phase' \notin Undisturbed
    BY <2>1 DEF Undisturbed, Waves
  <2>4. QED
    BY <1>2, <2>2, <2>3, DisturbedStep DEF VectorInv
<1>6. QED
  BY <1>4, <1>5

LEMMA BoundStep ==
    ASSUME VectorInv, RunnerInv, Bound PROVE VectorInv'
<1>1. /\ phase = "binding" /\ pc = "idle" /\ left = {} /\ phase' = "resetting" /\ left' = chosen
      /\ UNCHANGED <<vars, envVars, making, previous, chosen, pending, heard, cause>>
  BY DEF Bound, Free, GoOn, batchVars
<1>2. \A i : RunOf(i)' = RunOf(i) /\ Key(i)' = Key(i)
  BY <1>1 DEF RunOf, Key, envVars
<1>3. EnvTypes' /\ CallTypes'
  BY <1>1 DEF VectorInv, EnvTypes, CallTypes, envVars, Undisturbed
<1>4. RunnerUse' /\ Requests'
  BY <1>1 DEF VectorInv, RunnerUse, Requests, vars, control, fields, world
<1>5. \A i \in SlotSet : env[i].attached /\ (i \in chosen => Entering(i)) /\ (i \notin chosen => InEpisode(i))
  BY <1>1 DEF VectorInv, EpisodesKnown, Undisturbed, InEpisode
<1>6. \A i \in SlotSet : RunOf(i) \in active
  BY <1>1, <1>5 DEF VectorInv, RunsKnown, Undisturbed
<1>7. runs \subseteq OurRuns /\ OurRuns \subseteq active /\ Held(ready) \subseteq errors
  BY <1>1, <1>6 DEF VectorInv, RunsKnown, Undisturbed, OurRuns
<1>8. queue = <<>> /\ errors = {} /\ runs = active
  BY <1>7, AllActive
<1>9. ready = Nothing
  <2>1. ready \in [Runs -> Kinds \cup {None}] /\ Held(ready) = {}
    BY <1>7, <1>8 DEF RunnerInv, TypeOK
  <2>2. QED
    BY <2>1 DEF Held, Nothing
<1>10. RunsKnown'
  BY <1>1, <1>2, <1>8, <1>9
  DEF VectorInv, RunsKnown, Undisturbed, vars, fields, envVars, OurRuns
<1>11. EpisodesKnown'
  BY <1>1, <1>2, <1>5 DEF EpisodesKnown, Waves, InEpisode, Entering, envVars
<1>12. WaveKnown'
  <2>1. pending = {} /\ heard = Nothing
    BY <1>1 DEF VectorInv, RunsKnown, Undisturbed
  <2>2. requested = {} /\ runs = OurRuns
    BY <1>1, <1>7, <1>8 DEF VectorInv, Requests
  <2>3. OurRuns' = OurRuns
    BY <1>1 DEF OurRuns, RunOf, envVars
  <2>4. QED
    BY <1>1, <1>8, <1>9, <2>1, <2>2, <2>3 DEF WaveKnown, vars, fields, Held, Nothing
<1>13. QED
  BY <1>3, <1>4, <1>10, <1>11, <1>12 DEF VectorInv

\* What a step that raises leaves: the environments count no more.
LEMMA RaiseStep ==
    ASSUME VectorInv, EnvTypes', CallTypes', RunnerUse', Raise,
           requested' # {} => queue' = <<>> /\ phase \in {"starting", "taking"}
    PROVE  VectorInv'
<1>1. phase' = "failed" /\ cause' = phase
  BY DEF Raise
<1>2. QED
  BY <1>1, DisturbedStep DEF VectorInv, Requests, Undisturbed, Waves


LEMMA BeginStep ==
    ASSUME VectorInv, RunnerInv, NEW i \in left, Begin(i) PROVE VectorInv'
<1>1. /\ phase = "starting" /\ pc = "idle" /\ i \in SlotSet /\ RunOf(i) \in Runs
      /\ RunOf(i) \in active
      /\ env' = [env EXCEPT ![i] = [env[i] EXCEPT !.pristine = FALSE]]
      /\ UNCHANGED <<carries, advanced, making, previous, chosen, heard, control>>
      /\ UNCHANGED <<runs, queue, active, results, errors, ready, shut, lost>>
      /\ SendWindow(RunOf(i))
  BY RunFacts DEF Begin, Free, Set, SubmitWindow, VectorInv, CallTypes
<1>2. EnvTypes'
  BY <1>1 DEF VectorInv, EnvTypes
<1>3. \A j \in SlotSet :
         /\ env'[j].id = env[j].id /\ env'[j].key = env[j].key /\ env'[j].cycle = env[j].cycle
         /\ env'[j].attached = env[j].attached
         /\ env'[j].pristine = (env[j].pristine /\ j # i)
  BY <1>1 DEF VectorInv, EnvTypes
<1>4. (\A j \in SlotSet : RunOf(j)' = RunOf(j)) /\ OurRuns' = OurRuns
  BY <1>3, SameRuns
<1>5. \A r \in Runs : reply'[r] # "finished"
  BY <1>1, NoneAssumption DEF SendWindow, Become, VectorInv, RunnerUse, Outcomes
<1>6. queue = <<>>
  BY <1>1 DEF VectorInv, RunsKnown, Undisturbed, Waves
<1>7. CASE sess[RunOf(i)] # "idle"
  <2>1. Raise /\ UNCHANGED <<left, pending>> /\ phase' = "failed"
    BY <1>7 DEF Begin, Raise
  <2>2. CallTypes' /\ RunnerUse'
    BY <1>1, <1>5, <2>1 DEF VectorInv, CallTypes, RunnerUse, control
  <2>3. QED
    BY <1>1, <1>2, <1>6, <2>1, <2>2, RaiseStep
<1>8. CASE sess[RunOf(i)] = "idle"
  <2>1. /\ requested' = requested \cup {RunOf(i)} /\ pending' = pending \cup {i}
        /\ Loop(i, {}, "collecting")
    BY <1>1, <1>8 DEF Begin, SendWindow
  <2>2. /\ phase' \in {"starting", "collecting"} /\ cause' = cause
        /\ left' \subseteq left
    BY <1>1, <2>1 DEF Loop, GoOn
  <2>3. CallTypes' /\ RunnerUse' /\ Requests'
    BY <1>1, <1>5, <1>6, <2>1, <2>2
    DEF VectorInv, CallTypes, RunnerUse, Requests, control, Undisturbed, Waves
  <2>4. /\ \A j \in SlotSet : InEpisode(j)
        /\ runs = OurRuns /\ runs = active /\ ready = Nothing /\ heard = Nothing
        /\ {RunOf(j) : j \in pending} = requested \cup Held(ready) \cup Held(heard)
        /\ \A j \in pending : ~env[j].pristine
        /\ pending \subseteq SlotSet
    BY <1>1 DEF VectorInv, EpisodesKnown, RunsKnown, WaveKnown, Waves, Undisturbed, CallTypes
  <2>5. RunsKnown'
    BY <1>1, <1>3, <1>4, <1>6, <2>2, <2>4 DEF VectorInv, RunsKnown, Undisturbed, Waves
  <2>6. EpisodesKnown'
    <3>1. \A j \in SlotSet : InEpisode(j)'
      BY <1>1, <1>3, <1>4, <2>4 DEF InEpisode
    <3>2. QED
      BY <2>2, <3>1 DEF EpisodesKnown, Waves
  <2>7. WaveKnown'
    <3>1. {RunOf(j) : j \in pending}' = {RunOf(j) : j \in pending} \cup {RunOf(i)}
      BY <1>1, <1>4, <2>1, <2>4
    <3>2. Held(ready)' = Held(ready) /\ Held(heard)' = Held(heard)
      BY <1>1 DEF Held
    <3>3. {RunOf(j) : j \in pending}' = (requested \cup Held(ready) \cup Held(heard))'
      BY <2>1, <2>4, <3>1, <3>2
    <3>4. \A j \in pending' : ~env'[j].pristine
      BY <1>1, <1>3, <2>1, <2>4
    <3>5. QED
      BY <1>1, <1>4, <2>2, <2>4, <3>3, <3>4 DEF WaveKnown, Waves
  <2>8. QED
    BY <1>2, <2>3, <2>5, <2>6, <2>7 DEF VectorInv
<1>9. QED
  BY <1>7, <1>8

\* A step of the runner that only changes where it is.
LEMMA ControlOnly ==
    ASSUME VectorInv, UNCHANGED <<envVars, callVars, fields>>, RunnerUse' PROVE VectorInv'
<1>1. \A i : RunOf(i)' = RunOf(i) /\ Key(i)' = Key(i)
  BY DEF RunOf, Key, envVars
<1>2. EnvTypes' /\ CallTypes' /\ Requests'
  BY DEF VectorInv, EnvTypes, CallTypes, Requests, envVars, callVars, fields
<1>3. RunsKnown'
  BY <1>1 DEF VectorInv, RunsKnown, envVars, callVars, fields, OurRuns, Held
<1>4. EpisodesKnown'
  BY <1>1
  DEF VectorInv, EpisodesKnown, envVars, callVars, fields, InEpisode, Entering, Prepared
<1>5. WaveKnown'
  BY <1>1 DEF VectorInv, WaveKnown, envVars, callVars, fields, OurRuns, Held
<1>6. QED
  BY <1>2, <1>3, <1>4, <1>5 DEF VectorInv

LEMMA CollectStep ==
    ASSUME VectorInv, Collect PROVE VectorInv'
<1>1. /\ phase = "collecting" /\ op' = "recv" /\ pc' = "loop"
      /\ UNCHANGED <<envVars, callVars, fields, world>>
  BY DEF Collect, RecvReady
<1>2. RunnerUse'
  BY <1>1 DEF VectorInv, RunnerUse, callVars, world
<1>3. QED
  BY <1>1, <1>2, ControlOnly

LEMMA EncodeStep ==
    ASSUME VectorInv, RunnerInv, NEW r \in Runs, Encode(r) PROVE VectorInv'
<1> DEFINE k == r[1]
<1>1. /\ phase = "taking" /\ pc = "idle" /\ heard[r] # None /\ RunOf(k) = r /\ k \in pending
      /\ k \in SlotSet
      /\ UNCHANGED <<vars, carries, making, previous, chosen, left>>
  BY DEF Encode, Free, batchVars, VectorInv, CallTypes
<1>2. PICK i \in SlotSet : i = k
  BY <1>1
<1>3. RunnerUse' /\ queue = <<>>
  BY <1>1 DEF VectorInv, RunnerUse, RunsKnown, Undisturbed, Waves, vars, control, world
<1>4. CASE heard[r] = "failed"
  <2>1. Raise /\ UNCHANGED <<env, advanced, pending, heard>> /\ phase' = "failed"
    BY <1>4 DEF Encode, Raise
  <2>2. EnvTypes' /\ CallTypes'
    BY <1>1, <2>1 DEF VectorInv, EnvTypes, CallTypes
  <2>3. QED
    BY <1>1, <1>3, <2>1, <2>2, RaiseStep DEF vars, fields
<1>5. CASE heard[r] # "failed"
  <2>1. /\ env' = [env EXCEPT ![i] = [env[i] EXCEPT !.cycle = @ + 1]]
        /\ advanced' = [advanced EXCEPT ![r] = @ + 1]
        /\ pending' = pending \ {i}
        /\ heard' = [heard EXCEPT ![r] = None]
        /\ cause' = cause
        /\ phase' = (IF Held(heard)' # {} THEN "taking"
                     ELSE IF pending' # {} THEN "collecting" ELSE "idle")
    BY <1>2, <1>5 DEF Encode, Set, StillHeard, At, GoOn
  <2>2. RunOf(i) = r /\ i \in pending
    BY <1>1, <1>2
  <2> HIDE DEF k
  <2>3. EnvTypes' /\ CallTypes'
    BY <1>1, <2>1 DEF VectorInv, EnvTypes, CallTypes, Undisturbed, Waves
  <2>4. \A j \in SlotSet :
           /\ env'[j].id = env[j].id /\ env'[j].key = env[j].key
           /\ env'[j].cycle = IF j = i THEN env[j].cycle + 1 ELSE env[j].cycle
           /\ env'[j].attached = env[j].attached /\ env'[j].pristine = env[j].pristine
    BY <1>1, <2>1 DEF VectorInv, EnvTypes
  <2>5. (\A j \in SlotSet : RunOf(j)' = RunOf(j)) /\ OurRuns' = OurRuns
    BY <2>4, SameRuns
  <2>6. \A j \in SlotSet : RunOf(j) = r <=> j = i
    BY <2>2, RunFacts DEF VectorInv
  <2>7. /\ \A j \in SlotSet : InEpisode(j)
        /\ runs = OurRuns /\ ready = Nothing /\ requested \cap Held(heard) = {}
        /\ {RunOf(j) : j \in pending} = requested \cup Held(ready) \cup Held(heard)
        /\ \A q \in runs : q \in active \/ ready[q] = "failed" \/ heard[q] = "failed"
        /\ \A j \in pending : ~env[j].pristine
        /\ pending \subseteq SlotSet
    BY <1>1 DEF VectorInv, EpisodesKnown, WaveKnown, Waves, CallTypes
  <2>8. Held(heard)' = Held(heard) \ {r}
    BY <2>1 DEF VectorInv, CallTypes, Held
  <2>9. {RunOf(j) : j \in pending}' = {RunOf(j) : j \in pending} \ {r}
    <3>1. {RunOf(j) : j \in pending}' = {RunOf(j) : j \in pending'}
      BY <2>1, <2>5, <2>7
    <3>2. QED
      BY <2>1, <2>6, <2>7, <3>1
  <2>10. Held(ready) = {} /\ r \notin requested
    BY <1>1, <2>7 DEF Held, Nothing
  <2>11. {RunOf(j) : j \in pending}' = requested \cup Held(heard)'
    BY <2>7, <2>8, <2>9, <2>10
  <2>12. \A q \in Runs : q # r => heard'[q] = heard[q]
    BY <2>1 DEF VectorInv, CallTypes
  <2>13. \A q \in runs : q \in active \/ heard'[q] = "failed"
    <3>1. \A q \in runs : ready[q] # "failed" /\ q \in Runs
      BY <2>7, NoneAssumption DEF Nothing, Kinds, RunnerInv, TypeOK
    <3>2. QED
      BY <1>5, <2>7, <2>12, <3>1
  <2>14. heard' \in [Runs -> Kinds \cup {None}]
    BY <2>3 DEF CallTypes
  <2>15. phase' # "taking" => heard' = Nothing /\ runs \subseteq active
    <3>1. phase' # "taking" => \A q \in Runs : heard'[q] = None
      BY <2>1 DEF Held
    <3>2. None # "failed" /\ runs \subseteq Runs
      BY NoneAssumption DEF Kinds, RunnerInv, TypeOK
    <3>3. QED
      BY <2>13, <2>14, <3>1, <3>2 DEF Nothing
  <2>16. phase' = "idle" => pending' = {} /\ requested = {} /\ runs = active
    <3>1. phase' = "idle" => pending' = {} /\ Held(heard)' = {}
      BY <2>1
    <3>2. phase' = "idle" => {RunOf(j) : j \in pending}' = {}
      BY <3>1
    <3>3. QED
      BY <2>11, <2>15, <3>1, <3>2, AllActive
  <2>17. Requests'
    BY <1>1, <2>1, <2>16 DEF VectorInv, Requests, vars, fields
  <2>18. \A j \in SlotSet : InEpisode(j)'
    <3>1. ASSUME NEW j \in SlotSet PROVE advanced'[RunOf(j)] = env'[j].cycle
      <4>1. RunOf(j) \in Runs
        BY RunFacts DEF VectorInv
      <4>2. QED
        BY <2>1, <2>4, <2>6, <2>7, <4>1 DEF InEpisode, VectorInv, EnvTypes
    <3>2. ASSUME NEW j \in SlotSet PROVE env'[j].pristine => env'[j].cycle = 0
      BY <2>2, <2>4, <2>7 DEF InEpisode
    <3>3. QED
      BY <1>1, <2>4, <2>5, <2>7, <3>1, <3>2 DEF InEpisode
  <2>19. EpisodesKnown'
    BY <2>1, <2>18 DEF EpisodesKnown, Waves
  <2>20. RunsKnown'
    <3>1. /\ ~shut /\ lost = {} /\ results = {} /\ queue = <<>>
          /\ \A q \in Runs : advanced[q] # 0 => q \in runs
      BY <1>1 DEF VectorInv, RunsKnown, Undisturbed, Waves
    <3>2. \A j \in SlotSet : RunOf(j) \in runs
      BY <2>7 DEF OurRuns
    <3>3. \A q \in Runs : advanced'[q] # 0 => q \in runs
      BY <2>1, <2>2, <3>1, <3>2 DEF VectorInv, EnvTypes
    <3>4. QED
      BY <1>1, <2>1, <2>5, <2>7, <2>15, <2>16, <3>1, <3>2, <3>3
      DEF RunsKnown, vars, fields
  <2>21. WaveKnown'
    <3>1. Held(ready)' = {} /\ requested' = requested /\ runs' = runs /\ active' = active
          /\ ready' = ready
      BY <1>1, <2>10 DEF Held, vars, fields
    <3>2. \A j \in pending' : ~env'[j].pristine
      BY <2>1, <2>4, <2>7
    <3>3. requested \cap Held(heard)' = {}
      BY <2>7, <2>8
    <3>4. QED
      BY <2>1, <2>5, <2>7, <2>11, <2>13, <2>15, <3>1, <3>2, <3>3 DEF WaveKnown
  <2>22. QED
    BY <1>3, <2>3, <2>17, <2>19, <2>20, <2>21 DEF VectorInv
<1>6. QED
  BY <1>4, <1>5

LEMMA ResetOneStep ==
    ASSUME VectorInv, RunnerInv, NEW i \in left, ResetOne(i) PROVE VectorInv'
<1>1. /\ phase = "resetting" /\ pc = "idle" /\ i \in SlotSet /\ RunOf(i) \in Runs
      /\ UNCHANGED <<carries, advanced, chosen, pending, heard, fields, control>>
  BY RunFacts DEF ResetOne, Free, VectorInv, CallTypes, batchVars, vars, SessionCall
<1>2. \A r \in Runs : reply'[r] # "finished"
  BY NoneAssumption
  DEF ResetOne, SessionCall, Become, batchVars, vars, world, VectorInv, RunnerUse, Outcomes
<1>3. \A j \in SlotSet :
         /\ env'[j].id = env[j].id /\ env'[j].attached = env[j].attached
         /\ env'[j].key = IF j = i THEN Key(i) ELSE env[j].key
         /\ env'[j].cycle = IF j = i THEN 0 ELSE env[j].cycle
         /\ env'[j].pristine = (env[j].pristine \/ j = i)
  BY <1>1 DEF ResetOne, Rewound, Fresh, VectorInv, EnvTypes
<1>4. (\A j \in SlotSet : RunOf(j)' = RunOf(j)) /\ OurRuns' = OurRuns
  BY <1>3, SameRuns
<1>5. EnvTypes'
  <2> DEFINE fresh == [env EXCEPT ![i] = Fresh(i)]
             Records == [seed : Seeds, generation : Nat, prepared : Episodes,
                         key : Episodes, id : 0 .. Generations, built : Episodes,
                         attached : BOOLEAN, pristine : BOOLEAN, cycle : Nat]
  <2>1. env \in [SlotSet -> Records]
    BY DEF VectorInv, EnvTypes
  <2>2. Key(i) \in Episodes /\ None \in Episodes
    BY <1>1, <2>1 DEF Key, Episodes
  <2>3. Fresh(i) \in Records
    <3>1. PICK k \in Episodes, n \in Episodes : k = Key(i) /\ n = None
      BY <2>2
    <3>2. PICK e \in Records : e = env[i]
      BY <1>1, <2>1
    <3>3. [e EXCEPT !.key = k, !.prepared = n] \in Records
      OBVIOUS
    <3>4. PICK e1 \in Records : e1 = [e EXCEPT !.key = k, !.prepared = n]
      BY <3>3, Zenon
    <3>5. [e1 EXCEPT !.generation = @ + 1] \in Records
      OBVIOUS
    <3>6. PICK e2 \in Records : e2 = [e1 EXCEPT !.generation = @ + 1]
      BY <3>5, Zenon
    <3>7. [e2 EXCEPT !.pristine = TRUE, !.cycle = 0] \in Records
      OBVIOUS
    <3> HIDE DEF Records
    <3>8. Fresh(i) = [e2 EXCEPT !.pristine = TRUE, !.cycle = 0]
      BY <3>1, <3>2, <3>4, <3>6 DEF Fresh
    <3>9. QED
      BY <3>7, <3>8
  <2>4. fresh \in [SlotSet -> Records]
    <3> HIDE DEF Records
    <3>1. QED
      BY <1>1, <2>1, <2>3
  <2>5. env' \in [SlotSet -> Records]
    <3>1. Start \in Nat
      BY VectorAssumption
    <3>2. env' = fresh \/ env' = Rewound(fresh)
      BY DEF ResetOne
    <3> HIDE DEF fresh
    <3>3. QED
      BY <2>4, <3>1, <3>2 DEF Rewound
  <2>6. QED
    BY <1>1, <2>5 DEF EnvTypes, VectorInv
<1>6. requested = {}
  BY <1>1 DEF VectorInv, Requests
<1>7. CASE Raise /\ UNCHANGED <<left, making, previous>>
  <2>1. phase' = "failed"
    BY <1>7 DEF Raise
  <2>2. CallTypes' /\ RunnerUse'
    BY <1>1, <1>2, <1>7, <2>1 DEF VectorInv, CallTypes, RunnerUse, control
  <2>3. QED
    BY <1>1, <1>5, <1>6, <1>7, <2>2, RaiseStep DEF fields
<1>8. CASE Loop(i, {}, "idle") /\ making' \in BOOLEAN /\ previous' \in BOOLEAN
  <2>1. /\ left' = left \ {i} /\ cause' = cause
        /\ phase' = IF left = {i} THEN "idle" ELSE "resetting"
    BY <1>1, <1>8 DEF Loop, GoOn
  <2>2. CallTypes' /\ RunnerUse' /\ Requests'
    BY <1>1, <1>2, <1>6, <1>8, <2>1
    DEF VectorInv, CallTypes, RunnerUse, Requests, control, fields, Undisturbed, Waves
  <2>3. RunsKnown'
    BY <1>1, <1>3, <1>4, <2>1 DEF VectorInv, RunsKnown, Undisturbed, Waves, fields
  <2>4. EpisodesKnown'
    <3>1. /\ \A j \in SlotSet : IF j \in left THEN env[j].attached /\ Entering(j) ELSE InEpisode(j)
          /\ left \subseteq chosen
      BY <1>1 DEF VectorInv, EpisodesKnown
    <3>2. \A j \in SlotSet \ {i} : InEpisode(j) => InEpisode(j)'
      BY <1>1, <1>3, <1>4 DEF InEpisode
    <3>3. \A j \in SlotSet \ {i} : phase' = "resetting" /\ Entering(j) => Entering(j)'
      <4>1. phase' = "resetting" => making' = making
        BY <1>8, <2>1 DEF ResetOne, VectorInv, CallTypes
      <4>2. phase' = "resetting" => \A j \in SlotSet \ {i} : Key(j)' = Key(j)
        BY <1>1, <4>1 DEF ResetOne, Fresh, Key, VectorInv, EnvTypes
      <4>3. QED
        BY <1>1, <1>4, <4>2 DEF Entering
    <3>4. InEpisode(i)'
      <4>1. env[i].attached /\ carries[RunOf(i)] = Key(i) /\ advanced[RunOf(i)] = 0
        BY <1>1, <3>1 DEF Entering
      <4>2. env'[i].attached /\ env'[i].key = Key(i) /\ env'[i].cycle = 0 /\ RunOf(i)' = RunOf(i)
        BY <1>1, <1>3, <1>4, <4>1
      <4>3. QED
        BY <1>1, <4>1, <4>2 DEF InEpisode
    <3>5. \A j \in SlotSet : j \notin left' => InEpisode(j)'
      BY <2>1, <3>1, <3>2, <3>4
    <3>6. \A j \in SlotSet : j \in left' /\ phase' = "resetting" => env'[j].attached /\ Entering(j)'
      BY <1>3, <2>1, <3>1, <3>3
    <3>7. left' \subseteq chosen /\ (phase' = "idle" => left' = {}) /\ phase' \in {"idle", "resetting"}
      BY <2>1, <3>1
    <3>8. chosen' = chosen /\ \A j \in SlotSet \ chosen : InEpisode(j)'
      BY <1>1, <3>5, <3>7
    <3>9. QED
      BY <3>5, <3>6, <3>7, <3>8 DEF EpisodesKnown, Waves
  <2>5. WaveKnown'
    <3>1. pending = {}
      BY <1>1 DEF VectorInv, RunsKnown, Undisturbed
    <3>2. QED
      BY <1>1, <1>4, <2>1, <3>1 DEF VectorInv, WaveKnown, Waves, fields, Held
  <2>6. QED
    BY <1>5, <2>2, <2>3, <2>4, <2>5 DEF VectorInv
<1>9. QED
  BY <1>7, <1>8 DEF ResetOne, VectorInv, CallTypes

\* A run of its own is dropped by an environment: the runner forgets it.
LEMMA DiscardEffect ==
    ASSUME RunnerInv, VectorInv, NEW r \in Runs, Discard(r), pc = "idle"
    PROVE  /\ runs' = runs \ {r} /\ active' = active \ {r} /\ requested' = requested
           /\ shut' = shut /\ lost' = lost \ {r} /\ results' = results \ {r}
           /\ errors' = errors \ {r} /\ r \in runs /\ r \notin requested
           /\ ready' = [ready EXCEPT ![r] = None] /\ (queue = <<>> => queue' = <<>>)
           /\ pc' = "fill" /\ after' = "idle" /\ op' = op
           /\ \A q \in Runs : reply'[q] # "finished"
<1>1. queue = <<>> => queue' = <<>>
  BY DEF Discard, Dequeued, Without, Contains
<1>2. \A q \in Runs : reply'[q] # "finished"
  BY NoneAssumption DEF Discard, Become, VectorInv, RunnerUse, Outcomes
<1>3. QED
  BY <1>1, <1>2 DEF Discard, Refill, FillThen, At

LEMMA NothingKept ==
    ASSUME ready = Nothing, NEW r \in Runs PROVE [ready EXCEPT ![r] = None] = Nothing
  BY DEF Nothing

LEMMA PrepareResetStep ==
    ASSUME VectorInv, RunnerInv, NEW i \in left, PrepareReset(i) PROVE VectorInv'
<1>1. /\ phase = "preparing" /\ pc = "idle" /\ i \in SlotSet /\ RunOf(i) \in Runs
      /\ left' = left \ {i} /\ cause' = cause
      /\ phase' = IF left = {i} THEN "booting" ELSE "preparing"
      /\ UNCHANGED <<making, previous, chosen, pending, heard>>
  BY RunFacts DEF PrepareReset, Free, Loop, GoOn, VectorInv, CallTypes
<1>2. CallTypes'
  BY <1>1 DEF VectorInv, CallTypes, Undisturbed
<1>3. /\ requested = {} /\ ~shut /\ lost = {} /\ results = {} /\ queue = <<>>
      /\ runs = active /\ ready = Nothing /\ heard = Nothing /\ pending = {}
      /\ runs \subseteq OurRuns
      /\ \A j \in SlotSet : env[j].attached => RunOf(j) \in active
      /\ \A r \in Runs : advanced[r] # 0 => r \in runs
  BY <1>1 DEF VectorInv, Requests, RunsKnown, Undisturbed, Waves
<1>4. /\ \A j \in SlotSet \ chosen : InEpisode(j)
      /\ \A j \in left : env[j].generation <= Generations
      /\ \A j \in left : IF env[j].attached THEN InEpisode(j) ELSE RunOf(j) \notin runs
      /\ \A j \in chosen \ left : Prepared(j)
      /\ left \subseteq chosen /\ chosen \subseteq SlotSet
  BY <1>1 DEF VectorInv, EpisodesKnown, Undisturbed, CallTypes
<1>5. \A j \in SlotSet : RunOf(j) \in Runs /\ (j # i => RunOf(j) # RunOf(i))
  BY <1>1, RunFacts DEF VectorInv
<1>6. /\ env \in [SlotSet -> [seed : Seeds, generation : Nat, prepared : Episodes,
                            key : Episodes, id : 0 .. Generations, built : Episodes,
                            attached : BOOLEAN, pristine : BOOLEAN, cycle : Nat]]
      /\ Key(i) \in Episodes /\ env[i].generation \in 0 .. Generations
  <2>1. Generations \in Nat
    BY VectorAssumption
  <2>2. QED
    BY <1>1, <1>4 DEF VectorInv, EnvTypes, Key, Episodes
\* The session that is there already carries the episode.
<1>7. CASE Pristine(i) /\ Set(i, [env[i] EXCEPT !.prepared = Key(i)])
           /\ UNCHANGED <<batchVars, carries, advanced>>
  <2>1. UNCHANGED <<vars, carries, advanced>>
        /\ env' = [env EXCEPT ![i] = [env[i] EXCEPT !.prepared = Key(i)]]
    BY <1>7 DEF batchVars, Set
  <2>2. EnvTypes'
    BY <1>1, <1>6, <2>1 DEF VectorInv, EnvTypes
  <2>3. \A j \in SlotSet :
           /\ env'[j].id = env[j].id /\ env'[j].key = env[j].key /\ env'[j].cycle = env[j].cycle
           /\ env'[j].attached = env[j].attached /\ env'[j].pristine = env[j].pristine
           /\ env'[j].built = env[j].built /\ env'[j].generation = env[j].generation
           /\ Key(j)' = Key(j)
    BY <1>1, <1>6, <2>1 DEF Key
  <2>4. (\A j \in SlotSet : RunOf(j)' = RunOf(j)) /\ OurRuns' = OurRuns
    BY <2>3, SameRuns
  <2>5. RunnerUse' /\ Requests' /\ RunsKnown'
    BY <1>1, <1>3, <2>1, <2>3, <2>4
    DEF VectorInv, RunnerUse, Requests, RunsKnown, vars, fields, control, world
  <2>6. Prepared(i)'
    <3>1. env[i].attached /\ env[i].key = Key(i) /\ env[i].cycle = 0
          /\ carries[RunOf(i)] = env[i].key /\ advanced[RunOf(i)] = env[i].cycle
      BY <1>1, <1>4, <1>7 DEF Pristine, InEpisode
    <3>2. QED
      BY <1>1, <2>1, <2>3, <2>4, <3>1 DEF Prepared, Entering
  <2>7. /\ \A j \in SlotSet : InEpisode(j) => InEpisode(j)'
        /\ \A j \in SlotSet : Prepared(j) => Prepared(j)'
        /\ runs' = runs
    BY <2>1, <2>3, <2>4 DEF InEpisode, Prepared, Entering, vars, fields
  <2>8. EpisodesKnown'
    <3>1. \A j \in left' : IF env'[j].attached THEN InEpisode(j)' ELSE RunOf(j)' \notin runs'
      BY <1>1, <1>4, <2>3, <2>4, <2>7
    <3>2. \A j \in chosen' \ left' : Prepared(j)'
      BY <1>1, <1>4, <2>6, <2>7
    <3>3. QED
      BY <1>1, <1>4, <2>3, <2>7, <3>1, <3>2 DEF EpisodesKnown, Waves
  <2>9. WaveKnown'
    BY <1>1 DEF WaveKnown, Waves
  <2>10. QED
    BY <1>2, <2>2, <2>5, <2>8, <2>9 DEF VectorInv
\* Another run is to begin; that of an earlier episode is discarded.
<1>8. CASE /\ Renew(i)
           /\ \/ Discard(RunOf(i)) /\ Forget(RunOf(i)) /\ env[i].attached
              \/ UNCHANGED <<batchVars, carries, advanced>> /\ ~env[i].attached
  <2> DEFINE e == [env[i] EXCEPT !.attached = FALSE, !.id = env[i].generation,
                                 !.built = Key(i), !.prepared = Key(i)]
             Records == [seed : Seeds, generation : Nat, prepared : Episodes,
                         key : Episodes, id : 0 .. Generations, built : Episodes,
                         attached : BOOLEAN, pristine : BOOLEAN, cycle : Nat]
  <2>1. env' = [env EXCEPT ![i] = e]
    BY <1>8 DEF Renew, Set
  <2>2. e \in Records
    BY <1>1, <1>6
  <2>3. env' \in [SlotSet -> Records]
    <3> HIDE DEF e, Records
    <3>1. QED
      BY <1>1, <1>6, <2>1, <2>2 DEF Records
  <2>4. /\ runs' = runs \ {RunOf(i)} /\ active' = active \ {RunOf(i)} /\ requested' = {}
        /\ ~shut' /\ lost' = {} /\ results' = {} /\ ready' = Nothing /\ queue' = <<>>
        /\ op' = op /\ (pc' = "idle" \/ (pc' = "fill" /\ after' = "idle"))
        /\ \A q \in Runs : reply'[q] # "finished"
    <3>1. CASE Discard(RunOf(i))
      BY <1>1, <1>3, <3>1, DiscardEffect, NothingKept
    <3>2. CASE UNCHANGED batchVars /\ ~env[i].attached
      <4>1. RunOf(i) \notin runs /\ RunOf(i) \notin active
        BY <1>1, <1>3, <1>4, <3>2
      <4>2. UNCHANGED vars
        BY <3>2 DEF batchVars
      <4>3. QED
        BY <1>1, <1>3, <4>1, <4>2 DEF VectorInv, RunnerUse, vars, fields, control, world
    <3>3. QED
      BY <1>8, <3>1, <3>2
  <2>5. /\ carries' \in [Runs -> Episodes] /\ advanced' \in [Runs -> Nat]
        /\ advanced'[RunOf(i)] = 0
        /\ \A r \in Runs : r # RunOf(i) => carries'[r] = carries[r] /\ advanced'[r] = advanced[r]
    <3>1. CASE Forget(RunOf(i))
      BY <1>1, <3>1 DEF Forget, At, VectorInv, EnvTypes, Episodes
    <3>2. CASE UNCHANGED <<carries, advanced>> /\ ~env[i].attached
      BY <1>1, <1>3, <1>4, <3>2 DEF VectorInv, EnvTypes
    <3>3. QED
      BY <1>8, <3>1, <3>2
  <2>6. EnvTypes'
    BY <2>3, <2>5 DEF EnvTypes
  <2>7. /\ \A j \in SlotSet \ {i} : env'[j] = env[j]
        /\ ~env'[i].attached /\ env'[i].built = Key(i) /\ Key(i)' = Key(i)
    BY <1>1, <1>6, <2>1 DEF Key
  <2> HIDE DEF e, Records
  <2>8. \A j \in SlotSet \ {i} : RunOf(j)' = RunOf(j) /\ Key(j)' = Key(j)
    BY <2>7 DEF RunOf, Key
  <2>9. \A j \in SlotSet \ {i} : RunOf(j)' # RunOf(i)'
    BY <1>1 DEF RunOf
  <2>10. \A r \in runs' : r \in Runs /\ \E j \in SlotSet \ {i} : r = RunOf(j)
    BY <1>3, <1>5, <2>4 DEF OurRuns
  <2>11. RunOf(i)' \notin runs'
    <3>1. PICK q : q = RunOf(i)'
      OBVIOUS
    <3>2. q \notin runs'
      BY <2>8, <2>9, <2>10, <3>1
    <3>3. QED
      BY <3>1, <3>2
  <2>12. RunnerUse' /\ Requests'
    BY <1>1, <2>4 DEF VectorInv, RunnerUse, Requests
  <2>13. RunsKnown'
    <3>1. runs' \subseteq OurRuns'
      BY <2>8, <2>10 DEF OurRuns
    <3>2. \A j \in SlotSet : env'[j].attached => RunOf(j)' \in active'
      BY <1>3, <1>5, <2>4, <2>7, <2>8
    <3>3. \A r \in Runs : advanced'[r] # 0 => r \in runs'
      BY <1>3, <2>4, <2>5
    <3>4. QED
      BY <1>1, <1>3, <2>4, <3>1, <3>2, <3>3 DEF RunsKnown
  <2>14. /\ \A j \in SlotSet \ {i} : InEpisode(j) => InEpisode(j)'
         /\ \A j \in SlotSet \ {i} : Prepared(j) => Prepared(j)'
    <3>1. \A j \in SlotSet \ {i} : carries'[RunOf(j)] = carries[RunOf(j)]
                                   /\ advanced'[RunOf(j)] = advanced[RunOf(j)]
      BY <1>5, <2>5
    <3>2. \A j \in SlotSet \ {i} : InEpisode(j) => InEpisode(j)'
      BY <2>7, <2>8, <3>1 DEF InEpisode
    <3>3. \A j \in SlotSet \ {i} : Prepared(j) => Prepared(j)'
      BY <2>4, <2>7, <2>8, <3>1 DEF Prepared, Entering
    <3>4. QED
      BY <3>2, <3>3
  <2>15. Prepared(i)'
    BY <2>7, <2>11 DEF Prepared
  <2>16. EpisodesKnown'
    <3>1. \A j \in left' : IF env'[j].attached THEN InEpisode(j)' ELSE RunOf(j)' \notin runs'
      BY <1>1, <1>4, <2>4, <2>7, <2>8, <2>14
    <3>2. \A j \in chosen' \ left' : Prepared(j)'
      BY <1>1, <1>4, <2>14, <2>15
    <3>3. \A j \in SlotSet \ chosen' : InEpisode(j)'
      BY <1>1, <1>4, <2>14
    <3>4. \A j \in left' : env'[j].generation <= Generations
      BY <1>1, <1>4, <2>7
    <3>5. QED
      BY <1>1, <1>4, <3>1, <3>2, <3>3, <3>4 DEF EpisodesKnown, Waves
  <2>17. WaveKnown'
    BY <1>1 DEF WaveKnown, Waves
  <2>18. QED
    BY <1>2, <2>6, <2>12, <2>13, <2>16, <2>17 DEF VectorInv
<1>9. QED
  BY <1>7, <1>8 DEF PrepareReset

LEMMA BootAllStep ==
    ASSUME VectorInv, RunnerInv, BootAll PROVE VectorInv'
<1>1. /\ phase = "booting" /\ pc = "idle" /\ phase' = "binding" /\ left' = Unattached
      /\ UNCHANGED <<env, advanced, making, previous, chosen, pending, heard, cause>>
      /\ carries' = [r \in Runs |-> IF \E i \in Unattached : r = RunOf(i)
                                    THEN env[r[1]].built ELSE carries[r]]
  BY DEF BootAll, Free, GoOn
<1>2. PICK rs \in SeqOf(Runs, Cardinality(Runs)) :
         SubmitMany(rs) /\ \A r \in ToSet(rs) : \E i \in Unattached : r = RunOf(i)
  BY BootAllRuns DEF RunnerInv, VectorInv
<1>3. /\ runs' = runs \cup ToSet(rs) /\ ToSet(rs) \cap runs = {}
      /\ pc' \in {"fill", "many"} /\ (pc' = "fill" => after' = "idle") /\ op' = op
      /\ UNCHANGED <<active, requested, results, errors, ready, shut, lost, world>>
  BY <1>2 DEF SubmitMany, New, FillThen, Goto
<1>4. /\ requested = {} /\ ~shut /\ lost = {} /\ results = {} /\ queue = <<>>
      /\ runs = active /\ ready = Nothing /\ heard = Nothing /\ pending = {}
      /\ runs \subseteq OurRuns
      /\ \A j \in SlotSet : env[j].attached => RunOf(j) \in active
      /\ \A r \in Runs : advanced[r] # 0 => r \in runs
  BY <1>1 DEF VectorInv, Requests, RunsKnown, Undisturbed, Waves
<1>5. /\ \A j \in SlotSet \ chosen : InEpisode(j)
      /\ left = {} /\ chosen \subseteq SlotSet /\ \A j \in chosen : Prepared(j)
      /\ Unattached \subseteq chosen
  BY <1>1 DEF VectorInv, EpisodesKnown, Undisturbed, CallTypes, Unattached
<1>6. (\A j \in SlotSet : RunOf(j)' = RunOf(j) /\ Key(j)' = Key(j)) /\ OurRuns' = OurRuns
  BY <1>1 DEF RunOf, Key, OurRuns
<1>7. \A i, j \in SlotSet : RunOf(i) = RunOf(j) => i = j
  BY RunFacts DEF VectorInv
<1>8. \A j \in SlotSet : RunOf(j) \in Runs /\ RunOf(j)[1] = j
  BY RunFacts DEF VectorInv, RunOf
<1>9. \A j \in Unattached : env[j].built = Key(j) /\ RunOf(j) \notin runs /\ ~env[j].attached
  BY <1>5 DEF Prepared, Unattached
<1>10. \A j \in SlotSet : carries'[RunOf(j)] = IF j \in Unattached THEN env[j].built ELSE carries[RunOf(j)]
  BY <1>1, <1>5, <1>7, <1>8
<1>11. CallTypes'
  BY <1>1, <1>5 DEF VectorInv, CallTypes, Undisturbed
<1>12. EnvTypes'
  <2>1. \A r \in Runs : (\E i \in Unattached : r = RunOf(i)) => env[r[1]].built \in Episodes
    BY <1>5, <1>8 DEF VectorInv, EnvTypes
  <2>2. carries' \in [Runs -> Episodes]
    BY <1>1, <2>1 DEF VectorInv, EnvTypes
  <2>3. QED
    BY <1>1, <2>2 DEF VectorInv, EnvTypes
<1>13. RunnerUse' /\ Requests'
  BY <1>1, <1>3, <1>4 DEF VectorInv, RunnerUse, Requests, world
<1>14. RunsKnown'
  <2>1. runs' \subseteq OurRuns
    BY <1>2, <1>3, <1>4, <1>5 DEF OurRuns
  <2>2. Held(ready) = {}
    BY <1>4 DEF Held, Nothing
  <2>3. Held(ready') = Held(ready) /\ Held(ready)' = Held(ready')
    BY <1>3 DEF Held
  <2>4. active \subseteq runs'
    BY <1>3, <1>4
  <2>5. QED
    BY <1>1, <1>3, <1>4, <1>6, <2>1, <2>2, <2>3, <2>4 DEF RunsKnown
<1>15. EpisodesKnown'
  <2>1. \A j \in SlotSet \ chosen : InEpisode(j)'
    BY <1>1, <1>5, <1>6, <1>10 DEF InEpisode
  <2>2. \A j \in chosen : Entering(j)' /\ (env[j].attached <=> j \notin Unattached)
    <3>1. ASSUME NEW j \in chosen PROVE Entering(j)'
      <4>1. carries'[RunOf(j)] = Key(j)
        BY <1>5, <1>9, <1>10 DEF Prepared, Entering, Unattached
      <4>2. advanced[RunOf(j)] = 0
        BY <1>4, <1>5, <1>8 DEF Prepared, Entering
      <4>3. QED
        BY <1>1, <1>5, <1>6, <4>1, <4>2 DEF Entering
    <3>2. QED
      BY <3>1 DEF Unattached
  <2>3. QED
    BY <1>1, <1>5, <2>1, <2>2 DEF EpisodesKnown, Waves
<1>16. WaveKnown'
  BY <1>1 DEF WaveKnown, Waves
<1>17. QED
  BY <1>11, <1>12, <1>13, <1>14, <1>15, <1>16 DEF VectorInv

-----------------------------------------------------------------------------
(* Closing. *)
LEMMA CloseOneStep ==
    ASSUME VectorInv, RunnerInv, NEW i \in left, CloseOne(i) PROVE VectorInv'
<1>1. /\ phase = "closing" /\ pc = "idle" /\ i \in SlotSet /\ RunOf(i) \in Runs
      /\ UNCHANGED <<making, previous, chosen, pending, heard>>
  BY RunFacts DEF CloseOne, Free, VectorInv, CallTypes
<1>2. CASE shut \/ RunOf(i) \in requested
  <2>1. phase' = "broken" /\ UNCHANGED <<vars, envVars, left, cause>>
    BY <1>2 DEF CloseOne, batchVars
  <2>2. EnvTypes' /\ CallTypes' /\ RunnerUse'
    BY <1>1, <2>1 DEF VectorInv, EnvTypes, CallTypes, RunnerUse, envVars, vars, control, world
  <2>3. Requests'
    BY <1>1, <1>2, <2>1 DEF VectorInv, Requests, vars, fields
  <2>4. phase' \notin Undisturbed
    BY <2>1 DEF Undisturbed, Waves
  <2>5. QED
    BY <2>2, <2>3, <2>4, DisturbedStep DEF VectorInv
<1>3. CASE ~(shut \/ RunOf(i) \in requested)
  <2>1. /\ Discard(RunOf(i)) /\ Forget(RunOf(i)) /\ left' = left \ {i}
        /\ phase' = "closing" /\ cause' = cause
        /\ env' = [env EXCEPT ![i] = [env[i] EXCEPT !.attached = FALSE]]
    BY <1>3 DEF CloseOne, Set, GoOn
  <2>2. /\ requested' = requested /\ (queue = <<>> => queue' = <<>>)
        /\ pc' = "fill" /\ after' = "idle" /\ op' = op
        /\ \A q \in Runs : reply'[q] # "finished"
    BY <1>1, <2>1, DiscardEffect
  <2>3. EnvTypes'
    <3>1. carries' \in [Runs -> Episodes] /\ advanced' \in [Runs -> Nat]
      BY <1>1, <2>1 DEF VectorInv, EnvTypes, Forget, At, Episodes
    <3>2. QED
      BY <1>1, <2>1, <3>1 DEF VectorInv, EnvTypes
  <2>4. CallTypes' /\ RunnerUse' /\ Requests'
    BY <1>1, <2>1, <2>2 DEF VectorInv, CallTypes, RunnerUse, Requests
  <2>5. phase' \notin Undisturbed
    BY <2>1 DEF Undisturbed, Waves
  <2>6. QED
    BY <2>3, <2>4, <2>5, DisturbedStep DEF VectorInv
<1>4. QED
  BY <1>2, <1>3

LEMMA CloseRunnerStep ==
    ASSUME VectorInv, RunnerInv, CloseRunner PROVE VectorInv'
<1>1. /\ phase = "closing" /\ pc = "idle" /\ phase' = "closed" /\ cause' = cause
      /\ UNCHANGED <<envVars, making, previous, chosen, left, pending, heard>>
      /\ UNCHANGED vars \/ Close
      /\ shut => UNCHANGED vars
  BY DEF CloseRunner, RunnerClosed, Free, GoOn, batchVars
<1>2. EnvTypes' /\ CallTypes'
  BY <1>1 DEF VectorInv, EnvTypes, CallTypes, envVars
<1>3. \A r \in Runs : reply'[r] # "finished"
  BY <1>1, NoneAssumption
  DEF Close, Shut, Become, vars, world, VectorInv, RunnerUse, Outcomes
<1>4. op' = op /\ pc' = "idle"
  BY <1>1 DEF Close, vars, control
<1>5. CASE Close
  BY <1>1, <1>2, <1>3, <1>4, <1>5, DisturbedStep
  DEF Close, Shut, VectorInv, RunnerUse, Requests, Undisturbed, Waves
<1>6. CASE shut /\ UNCHANGED vars
  BY <1>1, <1>2, <1>3, <1>4, <1>6, DisturbedStep
  DEF VectorInv, RunnerUse, Requests, Undisturbed, Waves, vars, fields
<1>7. QED
  BY <1>1, <1>5, <1>6 DEF CloseRunner, RunnerClosed, batchVars

-----------------------------------------------------------------------------
(* The runner goes on. *)
LEMMA RunningInside == Running => pc # "idle"
  BY DEF Running, Boot, BootFails, BootCrash, FillDone, BootMany, BootManyCrash, Wait, Poll,
         Scanned, Return, Asked, HearMore, BarrierEnds, RunContinues, PassOver, Take, Ask

\* In the operations the environments use nothing asks and nothing is a barrier.
LEMMA RunnerCases ==
    ASSUME VectorInv, RunnerInv, RunnerSteps
    PROVE  /\ pc # "idle"
           /\ \/ Boot \/ BootFails \/ BootCrash \/ FillDone \/ BootMany \/ BootManyCrash
              \/ Wait \/ Poll \/ Scanned \/ Return
              \/ \E r \in Runs : PassOver(r) \/ Take(r)
<1>1. pc \notin {"idle", "ask", "heard"}
  BY RunningInside DEF RunnerSteps, VectorInv, RunnerUse
<1>2. QED
  BY <1>1 DEF RunnerSteps, Running, Asked, HearMore, BarrierEnds, RunContinues, Ask

\* Responses are collected by Return only.
LEMMA NotReturned ==
    ASSUME TypeOK, Held(ready) \subseteq Held(ready)', lost' = lost, RunnerSteps
    PROVE  UNCHANGED <<envVars, callVars>>
<1>1. ~Returned
  BY DEF Returned, Held
<1>2. QED
  BY <1>1 DEF RunnerSteps, GoOn, callVars

LEMMA MovesStep ==
    ASSUME VectorInv, RunnerInv, RunnerSteps,
           FillDone \/ Wait \/ Poll \/ Scanned \/ \E r \in Runs : PassOver(r)
    PROVE  VectorInv'
<1>1. UNCHANGED <<fields, world>>
  BY DEF FillDone, Wait, Poll, Scanned, PassOver
<1>2. UNCHANGED <<envVars, callVars>>
  BY <1>1, NotReturned DEF RunnerInv, fields, Held
<1>3. pc # "idle" /\ op \in {"none", "recv"} /\ ~(pc = "fill" /\ after = "ask")
      /\ phase \in {"preparing", "booting", "binding", "collecting", "closing"}
      /\ after \in {"idle", "loop", "return", "ask"}
  BY RunnerCases DEF VectorInv, RunnerUse, RunnerInv, TypeOK, Control, Asking, Barrier
<1>4. CASE FillDone
  <2>1. CASE after = "idle"
    BY <1>1, <1>2, <1>4, <2>1, ControlOnly
    DEF FillDone, Home, VectorInv, RunnerUse, world, callVars
  <2>2. CASE after # "idle"
    BY <1>1, <1>2, <1>3, <1>4, <2>2, ControlOnly
    DEF FillDone, Goto, VectorInv, RunnerUse, world, callVars
  <2>3. QED
    BY <2>1, <2>2
<1>5. CASE Wait \/ Poll \/ \E r \in Runs : PassOver(r)
  <2>1. op' = op /\ pc' \in {"wait", "scan"} /\ pc \in {"loop", "wait", "scan"}
    BY <1>5 DEF Wait, Poll, PassOver, Goto
  <2>2. QED
    BY <1>1, <1>2, <2>1, ControlOnly DEF VectorInv, RunnerUse, world, callVars
<1>6. CASE Scanned
  <2>1. op' = op /\ pc' = "fill" /\ pc = "scan"
    BY <1>6 DEF Scanned, FillAndLoop
  <2>2. QED
    BY <1>1, <1>2, <2>1, ControlOnly DEF VectorInv, RunnerUse, world, callVars
<1>7. QED
  BY <1>4, <1>5, <1>6

\* New sessions boot: the failures among them are recorded.
LEMMA BindingGoesOn ==
    ASSUME VectorInv, RunnerUse', phase = "binding",
           UNCHANGED <<envVars, callVars, runs, results, shut, lost>>,
           requested' = {}, active \subseteq active', Held(ready)' \subseteq errors'
    PROVE  VectorInv'
<1>1. \A i : RunOf(i)' = RunOf(i) /\ Key(i)' = Key(i)
  BY DEF RunOf, Key, envVars
<1>2. EnvTypes' /\ CallTypes' /\ Requests'
  BY DEF VectorInv, EnvTypes, CallTypes, Requests, envVars, callVars
<1>3. RunsKnown'
  BY <1>1 DEF VectorInv, RunsKnown, Undisturbed, Waves, envVars, callVars, OurRuns
<1>4. EpisodesKnown'
  BY <1>1 DEF VectorInv, EpisodesKnown, Undisturbed, Waves, envVars, callVars, InEpisode, Entering
<1>5. WaveKnown'
  BY DEF WaveKnown, Waves, callVars
<1>6. QED
  BY <1>2, <1>3, <1>4, <1>5 DEF VectorInv

LEMMA BootsStep ==
    ASSUME VectorInv, RunnerInv, RunnerSteps,
           Boot \/ BootFails \/ BootCrash \/ BootMany \/ BootManyCrash
    PROVE  VectorInv'
<1>1. pc \in {"fill", "many"} /\ (pc = "fill" => queue # <<>>)
  BY DEF Boot, BootFails, BootCrash, BootMany, BootManyCrash, MoreToFill
<1>2. phase \in {"binding", "closing"} /\ (pc = "many" => phase = "binding")
      /\ op \in {"none", "recv"}
  BY <1>1 DEF VectorInv, RunnerUse, RunsKnown, Undisturbed, Waves
<1>3. requested = {}
  BY <1>1, <1>2 DEF VectorInv, Requests
<1>4. /\ UNCHANGED <<envVars, making, previous, chosen, left, pending>>
      /\ ready \in [Runs -> Kinds \cup {None}] /\ sess \in [Runs -> {"none", "idle", "dead", "calling", "answered", "closed"}]
  BY DEF RunnerSteps, RunnerInv, TypeOK
<1>5. /\ \A r \in Runs : reply'[r] # "finished"
      /\ requested' = {} /\ op' \in {"none", "recv"} /\ pc' \in {"idle", "fill"}
      /\ pc' = "fill" => after' = "idle" /\ lost' = lost
  <2>1. pc = "fill" => after = "idle"
    BY <1>2 DEF VectorInv, RunnerUse
  <2>2. CASE Boot
    BY <1>1, <1>2, <1>3, <2>1, <2>2, NoneAssumption
    DEF Boot, BootAndSend, control, VectorInv, RunnerUse, Outcomes
  <2>3. CASE BootFails
    BY <1>1, <1>2, <1>3, <2>1, <2>3, NoneAssumption
    DEF BootFails, RecordErrors, Become, control, VectorInv, RunnerUse, Outcomes
  <2>4. CASE BootCrash
    BY <1>1, <1>2, <1>3, <2>1, <2>4 DEF BootCrash, Home, world, VectorInv, RunnerUse
  <2>5. CASE BootMany
    BY <1>1, <1>2, <1>3, <2>1, <2>5, NoneAssumption
    DEF BootMany, FillThen, BootAndSend, VectorInv, RunnerUse, Outcomes
  <2>6. CASE BootManyCrash
    BY <1>1, <1>2, <1>3, <2>1, <2>6, NoneAssumption
    DEF BootManyCrash, Shut, Become, Home, VectorInv, RunnerUse, Outcomes
  <2>7. QED
    BY <2>2, <2>3, <2>4, <2>5, <2>6
<1>6. Held(ready) \subseteq Held(ready)'
  BY <1>4, NoneAssumption
  DEF Boot, BootFails, BootCrash, BootMany, BootManyCrash, RecordErrors, Failures, Held, Kinds
<1>7. /\ lost' = lost => UNCHANGED callVars
      /\ lost' # lost => Raise /\ heard' = heard
  <2>1. ~Returned
    BY <1>6 DEF Returned, Held
  <2>2. QED
    BY <1>6, <2>1, NotReturned DEF RunnerSteps, RunnerInv
<1>8. CallTypes' /\ EnvTypes' /\ phase' \in {phase, "failed"}
  BY <1>4, <1>7 DEF VectorInv, CallTypes, EnvTypes, envVars, callVars, Raise
<1>9. RunnerUse'
  BY <1>2, <1>5, <1>7, <1>8 DEF RunnerUse, Raise, callVars
<1>10. CASE lost' # lost
  BY <1>5, <1>7, <1>8, <1>9, <1>10, RaiseStep
<1>11. CASE lost' = lost /\ phase = "closing"
  BY <1>5, <1>7, <1>8, <1>9, <1>11, DisturbedStep
  DEF VectorInv, Requests, callVars, Undisturbed, Waves
<1>12. CASE lost' = lost /\ phase = "binding"
  <2>1. lost = {} /\ ~shut /\ Held(ready) \subseteq errors
    BY <1>12 DEF VectorInv, RunsKnown, Undisturbed
  <2>2. ~BootCrash /\ ~BootManyCrash
    BY <1>12, <2>1 DEF BootCrash, BootManyCrash
  <2>3. /\ UNCHANGED <<runs, results, shut, lost>>
        /\ active \subseteq active' /\ Held(ready)' \subseteq errors'
    <3>1. CASE Boot
      BY <2>1, <3>1 DEF Boot, Held
    <3>2. CASE BootFails
      <4>1. Head(queue) \notin active
        <5>1. Head(queue) \in Queued /\ Queued \cap active = {}
          BY <3>2, TailSet DEF BootFails, MoreToFill, RunnerInv, TypeOK, Queued, Places
        <5>2. QED
          BY <5>1
      <4>2. QED
        BY <2>1, <3>2, <4>1 DEF BootFails, RecordErrors, Held
    <3>3. CASE BootMany
      BY <2>1, <3>3 DEF BootMany, Failures, Held
    <3>4. QED
      BY <2>2, <3>1, <3>2, <3>3
  <2>4. QED
    BY <1>4, <1>5, <1>7, <1>9, <1>12, <2>3, BindingGoesOn
<1>13. QED
  BY <1>2, <1>10, <1>11, <1>12

LEMMA TakeStep ==
    ASSUME VectorInv, RunnerInv, RunnerSteps, NEW r \in Runs, Take(r) PROVE VectorInv'
<1>1. /\ phase = "collecting" /\ pc = "scan" /\ r \in active /\ r \in requested
      /\ UNCHANGED <<runs, queue, shut, lost, op, pc, after>>
  <2>1. pc = "scan" /\ r \in todo /\ UNCHANGED <<runs, queue, shut, lost, op, pc, after>>
    BY DEF Take
  <2>2. phase = "collecting" /\ todo \subseteq active \cap requested
    BY <2>1 DEF VectorInv, RunnerUse, RunnerInv, Control
  <2>3. QED
    BY <2>1, <2>2
<1>2. reply[r] # "finished" /\ ready \in [Runs -> Kinds \cup {None}]
      /\ None # "paused" /\ None # "failed"
  BY NoneAssumption DEF VectorInv, RunnerUse, RunnerInv, TypeOK, Kinds
<1>3. /\ results' = results /\ requested' = requested \ {r}
      /\ \/ ready' = [ready EXCEPT ![r] = "paused"] /\ active' = active
         \/ ready' = [ready EXCEPT ![r] = "failed"] /\ active' = active \ {r}
      /\ \A q \in Runs : reply'[q] # "finished"
  <2>1. CASE reply[r] = "paused"
    BY <1>2, <2>1, NoneAssumption
    DEF Take, At, Become, VectorInv, RunnerUse, Outcomes
  <2>2. CASE RecordErrors({r}) /\ results' = results
    <3>1. ready' = [q \in Runs |-> IF q \in {r} THEN "failed" ELSE ready[q]]
      BY <2>2 DEF RecordErrors
    <3>2. ready' = [ready EXCEPT ![r] = "failed"]
      BY <1>2, <3>1
    <3>3. QED
      BY <2>2, <3>2, NoneAssumption DEF RecordErrors, Become, VectorInv, RunnerUse, Outcomes
  <2>3. QED
    BY <1>2, <2>1, <2>2 DEF Take
<1>4. Held(ready)' = Held(ready) \cup {r}
  BY <1>2, <1>3 DEF Held
<1>5. UNCHANGED <<envVars, callVars>>
  BY <1>1, <1>4, NotReturned DEF RunnerInv
<1>6. \A i : RunOf(i)' = RunOf(i) /\ Key(i)' = Key(i)
  BY <1>5 DEF RunOf, Key, envVars
<1>7. EnvTypes' /\ CallTypes' /\ RunnerUse' /\ Requests'
  BY <1>1, <1>3, <1>5
  DEF VectorInv, EnvTypes, CallTypes, RunnerUse, Requests, envVars, callVars
<1>8. RunsKnown'
  BY <1>1, <1>3, <1>5, <1>6
  DEF VectorInv, RunsKnown, Undisturbed, Waves, envVars, callVars, OurRuns
<1>9. EpisodesKnown'
  BY <1>1, <1>5, <1>6
  DEF VectorInv, EpisodesKnown, Undisturbed, Waves, envVars, callVars, InEpisode
<1>10. WaveKnown'
  <2>1. /\ runs = OurRuns /\ heard = Nothing
        /\ {RunOf(i) : i \in pending} = requested \cup Held(ready) \cup Held(heard)
        /\ \A q \in runs : q \in active \/ ready[q] = "failed" \/ heard[q] = "failed"
        /\ \A i \in pending : ~env[i].pristine
    BY <1>1 DEF VectorInv, WaveKnown, Waves
  <2>2. {RunOf(i) : i \in pending}' = {RunOf(i) : i \in pending}
    BY <1>5, <1>6 DEF callVars
  <2>3. Held(heard)' = Held(heard) /\ OurRuns' = OurRuns
    BY <1>5, <1>6 DEF callVars, Held, OurRuns
  <2>4. {RunOf(i) : i \in pending}' = (requested \cup Held(ready) \cup Held(heard))'
    BY <1>1, <1>3, <1>4, <2>1, <2>2, <2>3
  <2>5. \A q \in runs : q \in active' \/ ready'[q] = "failed" \/ heard[q] = "failed"
    <3>1. runs \subseteq Runs
      BY DEF RunnerInv, TypeOK
    <3>2. QED
      BY <1>1, <1>2, <1>3, <2>1, <3>1
  <2>6. QED
    BY <1>1, <1>5, <2>1, <2>3, <2>4, <2>5 DEF WaveKnown, envVars, callVars
<1>11. QED
  BY <1>7, <1>8, <1>9, <1>10 DEF VectorInv

LEMMA ReturnStep ==
    ASSUME VectorInv, RunnerInv, RunnerSteps, Return PROVE VectorInv'
<1>1. /\ phase = "collecting" /\ ready' = Nothing /\ op \in {"none", "recv"}
      /\ UNCHANGED <<runs, queue, active, requested, results, errors, shut, lost, world>>
  BY DEF Return, VectorInv, RunnerUse
<1>2. op' = "none" /\ pc' = "idle" /\ after' = "idle"
  BY <1>1 DEF Return, Home
<1>3. /\ UNCHANGED <<envVars, making, previous, chosen, left, pending, cause>>
      /\ phase' = (IF Returned THEN "taking" ELSE "collecting")
      /\ heard' = (IF Returned THEN ready ELSE heard)
  BY <1>1 DEF RunnerSteps, GoOn
<1>4. Held(ready)' = {}
  BY <1>1 DEF Held, Nothing
<1>5. Returned <=> Held(ready) # {}
  BY <1>4 DEF Returned, Held
<1>6. \A i : RunOf(i)' = RunOf(i) /\ Key(i)' = Key(i)
  BY <1>3 DEF RunOf, Key, envVars
<1>7. EnvTypes' /\ CallTypes' /\ RunnerUse' /\ Requests'
  BY <1>1, <1>2, <1>3
  DEF VectorInv, EnvTypes, CallTypes, RunnerUse, Requests, envVars, world, RunnerInv, TypeOK,
      Undisturbed, Waves
<1>8. RunsKnown'
  BY <1>1, <1>3, <1>6
  DEF VectorInv, RunsKnown, Undisturbed, Waves, envVars, OurRuns
<1>9. EpisodesKnown'
  BY <1>1, <1>3, <1>6
  DEF VectorInv, EpisodesKnown, Undisturbed, Waves, envVars, InEpisode
<1>10. WaveKnown'
  <2>1. /\ runs = OurRuns /\ heard = Nothing
        /\ {RunOf(i) : i \in pending} = requested \cup Held(ready) \cup Held(heard)
        /\ \A q \in runs : q \in active \/ ready[q] = "failed" \/ heard[q] = "failed"
        /\ \A i \in pending : ~env[i].pristine
    BY <1>1 DEF VectorInv, WaveKnown, Waves
  <2>2. {RunOf(i) : i \in pending}' = {RunOf(i) : i \in pending} /\ OurRuns' = OurRuns
    BY <1>3, <1>6 DEF OurRuns
  <2>3. Held(heard) = {} /\ (\A q \in Runs : heard[q] = None /\ None # "failed")
    BY <2>1, NoneAssumption DEF Held, Nothing, Kinds
  <2>4. Held(heard)' = Held(ready)
    BY <1>3, <1>5, <2>3 DEF Held
  <2>5. requested \cap Held(ready) = {}
    BY DEF RunnerInv, Calls, Held
  <2>6. runs \subseteq Runs /\ ready \in [Runs -> Kinds \cup {None}]
    BY DEF RunnerInv, TypeOK
  <2>7. \A q \in runs : q \in active \/ heard'[q] = "failed"
    BY <1>3, <1>5, <2>1, <2>3, <2>6, NoneAssumption DEF Held, Kinds
  <2>8. phase' # "taking" => heard' = Nothing
    BY <1>3, <2>1
  <2>9. {RunOf(i) : i \in pending}' = (requested \cup Held(ready) \cup Held(heard))'
    BY <1>1, <1>4, <2>1, <2>2, <2>3, <2>4
  <2>10. QED
    BY <1>1, <1>3, <2>1, <2>2, <2>4, <2>5, <2>7, <2>8, <2>9 DEF WaveKnown, envVars
<1>11. QED
  BY <1>7, <1>8, <1>9, <1>10 DEF VectorInv

-----------------------------------------------------------------------------
(* Together. *)
LEMMA VectorStep ==
    ASSUME RunnerInv, VectorInv, [VectorNext]_vectorVars PROVE RunnerInv' /\ VectorInv'
<1>1. RunnerInv'
  BY VectorStepsRunner, RunnerStep DEF VectorInv
<1>2. CASE Call
  BY <1>1, <1>2, ResetStep, SetSeedStep, StartWaveStep, CloseAllStep DEF Call
<1>3. CASE Progress
  BY <1>1, <1>3, BootAllStep, BoundStep, CollectStep, CloseRunnerStep, PrepareResetStep, BindStep,
     ResetOneStep, BeginStep, CloseOneStep, EncodeStep DEF Progress
<1>4. CASE RunnerSteps
  BY <1>1, <1>4, RunnerCases, BootsStep, MovesStep, TakeStep, ReturnStep
<1>5. CASE Workload \/ UNCHANGED vectorVars
  BY <1>1, <1>5, WorkloadStep
<1>6. QED
  BY <1>1, <1>2, <1>3, <1>4, <1>5 DEF VectorNext

\* The inductive invariant of vector sampling, over that of the runner: which
\* runs the runner knows, which episodes their sessions carry, and who is still
\* to be stepped.
THEOREM VectorInvariant == VectorSpec => [](RunnerInv /\ VectorInv)
<1>1. RunnerInv /\ VectorInv /\ [VectorNext]_vectorVars => (RunnerInv /\ VectorInv)'
  BY VectorStep
<1>2. QED
  BY <1>1, InitVector, PTL DEF VectorSpec

\* Between calls each environment has a session of its own, in the episode the
\* environment is in and exactly as far, whatever was reset, reseeded or left
\* half way before (ContentBatchEnv over BatchRunner).
THEOREM EpisodesSound == VectorSpec => []EpisodeSound
<1>1. RunnerInv /\ VectorInv => EpisodeSound
  <2>1. SUFFICES ASSUME RunnerInv, VectorInv, phase = "idle" PROVE EpisodeSound
    BY DEF EpisodeSound
  <2>2. \A i \in SlotSet : InEpisode(i)
    BY <2>1 DEF VectorInv, EpisodesKnown, Waves
  <2>3. active = OurRuns /\ \A i \in SlotSet : env[i].attached => RunOf(i) \in active
    BY <2>1 DEF VectorInv, RunsKnown, WaveKnown, Undisturbed, Waves
  <2>4. QED
    BY <2>2, <2>3 DEF EpisodeSound, InEpisode, OurRuns
<1>2. QED
  BY <1>1, VectorInvariant, PTL

\* A wave steps each environment once and with its own answer, and waits only
\* for answers that are owed (_step).
THEOREM WavesExact == VectorSpec => []WaveExact
<1>1. VectorInv => WaveExact
  BY DEF VectorInv, WaveKnown, WaveExact, Waves
<1>2. QED
  BY <1>1, VectorInvariant, PTL

\* close leaves no worker process behind, but for the one case in which discard
\* refuses: an error in a wave while other environments owe an answer.
THEOREM ClosesComplete == VectorSpec => []CloseComplete
<1>1. RunnerInv /\ VectorInv => CloseComplete
  <2>1. SUFFICES ASSUME RunnerInv, VectorInv, phase \in {"closed", "broken"} PROVE CloseComplete
    BY DEF CloseComplete
  <2>2. shut => Live = {}
    BY <2>1 DEF RunnerInv, Control, SlotsBounded
  <2>3. shut \/ (phase = "broken" /\ requested # {} /\ cause \in {"starting", "taking"})
    BY <2>1 DEF VectorInv, Requests
  <2>4. QED
    BY <2>2, <2>3 DEF CloseComplete
<1>2. QED
  BY <1>1, VectorInvariant, PTL
=============================================================================
