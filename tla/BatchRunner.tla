---------------------------- MODULE BatchRunner ----------------------------
(***************************************************************************)
(* class BatchRunner of the SDK: runs queue behind at most Workers live    *)
(* sessions.  The caller's thread is stepped through each operation while  *)
(* the workers answer, die, or let a deadline pass.  What a session is to  *)
(* the runner is one word (module SessionRPC has the detail).  Closing a   *)
(* session is bounded and silent, hence part of the step that closes it.   *)
(* Dictionaries are scanned in any order; the code's order is one of them. *)
(***************************************************************************)
EXTENDS Naturals, Sequences, FiniteSets, SequencesExt

CONSTANTS
    Runs,           \* run ids
    Workers,        \* live sessions at most
    None

ASSUME BatchAssumption ==
    IsFiniteSet(Runs) /\ Workers \in Nat \ {0}

\* What a response tells the caller of a run, and how a session answers.
Kinds == {"paused", "finished", "failed"}
Outcomes == {"paused", "finished", "refused", "gone"}
ASSUME NoneAssumption == None \notin Kinds \cup Outcomes

VARIABLES
    runs, queue, active, requested, results, errors,    \* the runner's fields
    ready,      \* _ready: the kind of each run's uncollected response
    shut,       \* _closed
    sess,       \* each run's session
    reply,      \* the kind of the reply that lies in the session's pipe
    late,       \* runs whose outstanding call is past its deadline
    op,         \* the operation the caller is in
    pc, after,  \* where it is, and where _fill returns to
    targets,    \* advance_all: the active snapshot
    todo, got,  \* runs still to be asked or looked at; connections found ready
    responses,  \* advance_all: what it heard so far
    lost        \* runs that were being booted when an exception passed

fields == <<runs, queue, active, requested, results, errors, ready, shut, lost>>
world == <<sess, reply, late>>
control == <<op, pc, after, targets, todo, got, responses>>
vars == <<fields, world, control>>

Nothing == [r \in Runs |-> None]
Held(f) == {r \in Runs : f[r] # None}       \* the keys of a dictionary
At(f, r, v) == [f EXCEPT ![r] = v]

-----------------------------------------------------------------------------
(***************************************************************************)
(* Sessions.  "none": no session, or closed and dropped; "idle"; "dead":   *)
(* idle, but its worker has died; "calling"; "answered": a reply or the    *)
(* end of file can be read; "closed": closed, yet still in _active.        *)
(***************************************************************************)
Answer(r) ==
    /\ sess[r] = "calling"
    /\ sess' = At(sess, r, "answered")
    /\ \E kind \in Outcomes : reply' = At(reply, r, kind)
    /\ UNCHANGED <<late, fields, control>>

WorkerDies(r) ==
    /\ sess[r] = "idle"
    /\ sess' = At(sess, r, "dead")
    /\ UNCHANGED <<reply, late, fields, control>>

DeadlinePasses(r) ==
    /\ sess[r] = "calling" /\ r \notin late
    /\ late' = late \cup {r}
    /\ UNCHANGED <<sess, reply, fields, control>>

\* The sessions in S become s, with nothing in their pipes.
Become(S, s) ==
    /\ sess' = [r \in Runs |-> IF r \in S THEN s ELSE sess[r]]
    /\ reply' = [r \in Runs |-> IF r \in S THEN None ELSE reply[r]]
    /\ late' = late \ S

-----------------------------------------------------------------------------
\* _record_error, for several runs at once.
RecordErrors(S) ==
    /\ errors' = errors \cup S
    /\ ready' = [r \in Runs |-> IF r \in S THEN "failed" ELSE ready[r]]
    /\ requested' = requested \ S
    /\ active' = active \ S
    /\ Become(S, "none")

Goto(p) == pc' = p /\ UNCHANGED <<op, after, targets, todo, got, responses>>
FillThen(p) ==
    /\ pc' = "fill" /\ after' = p
    /\ UNCHANGED <<op, targets, todo, got, responses>>
Home ==
    /\ op' = "none" /\ pc' = "idle" /\ after' = "idle"
    /\ targets' = {} /\ todo' = {} /\ got' = {} /\ responses' = Nothing

Open == pc = "idle" /\ ~shut    \* the caller may call an operation

-----------------------------------------------------------------------------
(***************************************************************************)
(* _fill: one boot after the other while slots and queued runs last.       *)
(***************************************************************************)
SlotFree == Cardinality(active) < Workers
MoreToFill == queue # <<>> /\ SlotFree

\* The sessions boot, and a request a queued run was given is sent.
BootAndSend(S) ==
    /\ sess' = [r \in Runs |-> IF r \notin S THEN sess[r]
                              ELSE IF r \in requested THEN "calling" ELSE "idle"]
    /\ reply' = [r \in Runs |-> IF r \in S THEN None ELSE reply[r]]
    /\ late' = late \ S
Boot ==
    /\ pc = "fill" /\ MoreToFill
    /\ queue' = Tail(queue)
    /\ active' = active \cup {Head(queue)}
    /\ BootAndSend({Head(queue)})
    /\ UNCHANGED <<runs, requested, results, errors, ready, shut, lost, control>>

\* The boot, or the sending to a worker that died at once, fails.
BootFails ==
    /\ pc = "fill" /\ MoreToFill
    /\ queue' = Tail(queue)
    /\ RecordErrors({Head(queue)})
    /\ UNCHANGED <<runs, results, shut, lost, control>>

\* Any other exception passes through _fill and through its caller.
BootCrash ==
    /\ pc = "fill" /\ MoreToFill
    /\ queue' = Tail(queue)
    /\ lost' = lost \cup {Head(queue)}
    /\ Home
    /\ UNCHANGED <<runs, active, requested, results, errors, ready, shut, world>>

FillDone ==
    /\ pc = "fill" /\ ~MoreToFill
    /\ IF after = "idle" THEN Home ELSE Goto(after)
    /\ UNCHANGED <<fields, world>>

-----------------------------------------------------------------------------
(***************************************************************************)
(* Operations that change one run.                                         *)
(***************************************************************************)
Submit(r) ==
    /\ Open /\ r \notin runs
    /\ runs' = runs \cup {r}
    /\ queue' = Append(queue, r)
    /\ FillThen("idle")
    /\ UNCHANGED <<active, requested, results, errors, ready, shut, lost, world>>

\* submit_many: new runs join the queue; if several slots are free the boots
\* overlap, the failures among them recorded, and what is left is filled.
FreeSlots == Workers - Cardinality(active)
New(rs) == IsInjective(rs) /\ ToSet(rs) \cap runs = {}
SubmitMany(rs) ==
    /\ Open
    /\ New(rs)
    /\ runs' = runs \cup ToSet(rs)
    /\ queue' = queue \o rs
    /\ IF Len(queue \o rs) <= 1 \/ FreeSlots <= 1 THEN FillThen("idle") ELSE Goto("many")
    /\ UNCHANGED <<active, requested, results, errors, ready, shut, lost, world>>

Overlapping == IF Len(queue) < FreeSlots THEN Len(queue) ELSE FreeSlots
Pending == ToSet(SubSeq(queue, 1, Overlapping))
Failures(S) ==
    /\ errors' = errors \cup S
    /\ ready' = [r \in Runs |-> IF r \in S THEN "failed" ELSE ready[r]]
BootMany ==
    /\ pc = "many"
    /\ queue' = SubSeq(queue, Overlapping + 1, Len(queue))
    /\ \E failed \in SUBSET Pending :
          /\ Failures(failed)
          /\ requested' = requested \ failed
          /\ active' = active \cup (Pending \ failed)
          /\ BootAndSend(Pending \ failed)
    /\ FillThen("idle")
    /\ UNCHANGED <<runs, results, shut, lost>>

\* close; and any other exception of an overlapping boot closes the runner.
Shut ==
    /\ shut' = TRUE
    /\ active' = {} /\ queue' = <<>> /\ requested' = {}
    /\ Become(Runs, "none")
    /\ UNCHANGED <<runs, results>>
BootManyCrash ==
    /\ pc = "many"
    /\ lost' = lost \cup Pending
    /\ Shut
    /\ \E failed \in SUBSET Pending : failed # Pending /\ Failures(failed)
    /\ Home
Close ==
    /\ Open
    /\ Shut
    /\ UNCHANGED <<errors, ready, lost, control>>

Unasked(r) == r \notin requested /\ ready[r] = None
MayAdvance(r) == r \in runs /\ Unasked(r) /\ r \notin errors /\ r \notin results

\* submit_advance: a queued run keeps the request for its boot; an active one
\* is asked now; a session found closed or without worker ends its run.
Request(r) ==
    /\ requested' = requested \cup {r}
    /\ IF r \in active THEN sess[r] = "idle" /\ Become({r}, "calling")
       ELSE UNCHANGED world
    /\ UNCHANGED <<runs, queue, active, results, errors, ready, shut, lost>>
Unreachable(r) ==
    /\ r \in active /\ sess[r] \in {"dead", "closed"}
    /\ RecordErrors({r})
    /\ UNCHANGED <<runs, queue, results, shut, lost>>
SubmitAdvance(r) ==
    /\ Open /\ MayAdvance(r)
    /\ \/ Request(r) /\ UNCHANGED control
       \/ Unreachable(r) /\ FillThen("idle")

\* submit_window: as above, but a failure to send closes the session and is
\* raised, the run left as it was.
SendWindow(r) ==
    IF sess[r] = "idle" THEN requested' = requested \cup {r} /\ Become({r}, "calling")
    ELSE UNCHANGED requested /\ Become({r}, "closed")
SubmitWindow(r) ==
    /\ Open /\ Unasked(r)
    /\ r \in active
    /\ SendWindow(r)
    /\ UNCHANGED <<runs, queue, active, results, errors, ready, shut, lost, control>>

\* A call the caller makes on session(r), as inspect or apply: nothing changes
\* when it is answered; a timeout or a dead worker closes the session.
SessionCall(r) ==
    /\ Open /\ r \in active /\ sess[r] \in {"idle", "dead"}
    /\ Become({r}, "closed")
    /\ UNCHANGED <<fields, control>>

\* The sequence s without one occurrence of e (Remove takes a LAMBDA, which the
\* provers cannot expand).
Without(s, e) ==
    IF Contains(s, e)
    THEN RemoveAt(s, CHOOSE i \in 1 .. Len(s) : s[i] = e)
    ELSE s
Dequeued(r) == queue' = Without(queue, r)
Refill == FillThen("idle")
Cancel(r) ==
    /\ Open /\ r \in runs /\ r \notin results \cup errors
    /\ Dequeued(r)
    /\ RecordErrors({r})
    /\ lost' = lost \ {r}
    /\ Refill
    /\ UNCHANGED <<runs, results, shut>>

Discard(r) ==
    /\ Open /\ r \in runs /\ r \notin requested
    /\ active' = active \ {r}
    /\ Become({r}, "none")
    /\ Dequeued(r)
    /\ runs' = runs \ {r} /\ results' = results \ {r} /\ errors' = errors \ {r}
    /\ ready' = At(ready, r, None)
    /\ lost' = lost \ {r}
    /\ Refill
    /\ UNCHANGED <<requested, shut>>

-----------------------------------------------------------------------------
(***************************************************************************)
(* recv_ready.  op "recv" waits without a limit; "poll" has one, and is    *)
(* "expired" once it has passed.                                           *)
(***************************************************************************)
RecvReady ==
    /\ Open
    /\ op' \in {"recv", "poll"} /\ pc' = "loop"
    /\ UNCHANGED <<after, targets, todo, got, responses, fields, world>>

PollExpires ==
    /\ op = "poll"
    /\ op' = "expired"
    /\ UNCHANGED <<pc, after, targets, todo, got, responses, fields, world>>

Waiting == active \cap requested

\* The while loop goes on to wait() unless a response is there, nothing is
\* awaited or, the second time round, the limit has passed.
Wait ==
    /\ pc = "loop"
    /\ Held(ready) = {} /\ Waiting # {}
    /\ Goto("wait")
    /\ UNCHANGED <<fields, world>>
Readable(r) == sess[r] = "answered"
Poll ==
    /\ pc = "wait"
    /\ (\E r \in Waiting : Readable(r) \/ r \in late) \/ op = "expired"
    /\ got' = {r \in Waiting : Readable(r)}
    /\ todo' = Waiting
    /\ pc' = "scan"
    /\ UNCHANGED <<op, after, targets, responses, fields, world>>

\* A connection not found ready is passed over before its deadline only.
OnlyReady(r) == r \in got \* variant
Receivable(r) == r \in got \/ r \in late
PassOver(r) ==
    /\ pc = "scan" /\ r \in todo
    /\ ~Receivable(r)
    /\ todo' = todo \ {r}
    /\ UNCHANGED <<op, pc, after, targets, got, responses, fields, world>>

\* _receive and what becomes of its reply: an ordinary response, the final
\* one, or an error: the worker's, its death or the deadline.
KeepSlot(r) == UNCHANGED active /\ Become({r}, "idle") \* variant
Retire(r) == active' = active \ {r} /\ Become({r}, "none")
Take(r) ==
    /\ pc = "scan" /\ r \in todo
    /\ Receivable(r)
    /\ \/ /\ reply[r] = "paused"
          /\ ready' = At(ready, r, "paused") /\ requested' = requested \ {r}
          /\ Become({r}, "idle")
          /\ UNCHANGED <<active, results, errors>>
       \/ /\ reply[r] = "finished"
          /\ results' = results \cup {r}
          /\ ready' = At(ready, r, "finished") /\ requested' = requested \ {r}
          /\ Retire(r)
          /\ UNCHANGED errors
       \/ /\ reply[r] \notin {"paused", "finished"}
          /\ RecordErrors({r})
          /\ UNCHANGED results
    /\ todo' = todo \ {r}
    /\ UNCHANGED <<runs, queue, shut, lost, op, pc, after, targets, got, responses>>

BackToLoop == IF op = "expired" THEN "return" ELSE "loop"
LoopUnfilled == pc' = BackToLoop /\ UNCHANGED after \* variant
FillAndLoop == pc' = "fill" /\ after' = BackToLoop
Scanned ==
    /\ pc = "scan" /\ todo = {}
    /\ FillAndLoop
    /\ got' = {}
    /\ UNCHANGED <<op, targets, todo, responses, fields, world>>

\* The collected responses go to the caller, or to the barrier.
LastOnly == responses' = ready \* variant
Merge == responses' = [r \in Runs |-> IF ready[r] # None THEN ready[r] ELSE responses[r]]
Return ==
    /\ \/ pc = "return"
       \/ pc = "loop" /\ (Held(ready) # {} \/ Waiting = {})
    /\ ready' = Nothing
    /\ IF op \in {"barrier", "run"}
       THEN Merge /\ pc' = "heard" /\ UNCHANGED <<op, after, targets, todo, got>>
       ELSE Home
    /\ UNCHANGED <<runs, queue, active, requested, results, errors, shut, lost, world>>

-----------------------------------------------------------------------------
(***************************************************************************)
(* advance_all, and run, which repeats it while sessions are active: a     *)
(* barrier without targets is a run that finds none and returns at once.   *)
(***************************************************************************)
Collected == requested = {} /\ Held(ready) = {}
StartBarrier ==
    /\ targets' = active /\ todo' = active
    /\ pc' = "ask"
    /\ UNCHANGED <<after, got, fields, world>>

AdvanceAll ==
    /\ Open /\ Collected
    /\ op' = "barrier" /\ UNCHANGED responses
    /\ StartBarrier
RunAll ==
    /\ Open /\ Collected
    /\ op' = "run" /\ UNCHANGED responses
    /\ StartBarrier

Ask(r) ==
    /\ pc = "ask" /\ r \in todo
    /\ todo' = todo \ {r}
    /\ \/ Request(r) /\ UNCHANGED <<pc, after>>
       \/ Unreachable(r) /\ pc' = "fill" /\ after' = "ask"
    /\ UNCHANGED <<op, targets, got, responses>>
Asked ==
    /\ pc = "ask" /\ todo = {}
    /\ Goto("heard")
    /\ UNCHANGED <<fields, world>>

HeardAll == targets \subseteq Held(responses)
HearMore ==
    /\ pc = "heard" /\ ~HeardAll
    /\ Goto("loop")
    /\ UNCHANGED <<fields, world>>

\* run raises for any response that is not final, and for a recorded error
\* once no session is active.
Trouble == \E r \in Held(responses) : responses[r] # "finished"
BarrierEnds ==
    /\ pc = "heard" /\ HeardAll
    /\ op = "barrier" \/ Trouble \/ active = {}
    /\ Home
    /\ UNCHANGED <<fields, world>>
RunContinues ==
    /\ pc = "heard" /\ HeardAll
    /\ op = "run" /\ ~Trouble /\ active # {}
    /\ responses' = Nothing
    /\ UNCHANGED op
    /\ StartBarrier

-----------------------------------------------------------------------------
Init ==
    /\ runs = {} /\ queue = <<>> /\ active = {} /\ requested = {}
    /\ results = {} /\ errors = {} /\ ready = Nothing /\ shut = FALSE
    /\ sess = [r \in Runs |-> "none"] /\ reply = Nothing /\ late = {}
    /\ op = "none" /\ pc = "idle" /\ after = "idle"
    /\ targets = {} /\ todo = {} /\ got = {} /\ responses = Nothing
    /\ lost = {}

\* Inside an operation the runner goes on by itself.
Running ==
    \/ Boot \/ BootFails \/ BootCrash \/ FillDone \/ BootMany \/ BootManyCrash
    \/ Wait \/ Poll \/ Scanned \/ Return \/ Asked \/ HearMore \/ BarrierEnds
    \/ RunContinues
    \/ \E r \in Runs : PassOver(r) \/ Take(r) \/ Ask(r)

Caller ==
    \/ \E r \in Runs : \/ Submit(r) \/ SubmitAdvance(r) \/ SubmitWindow(r)
                       \/ SessionCall(r) \/ Cancel(r) \/ Discard(r)
    \/ \E rs \in SeqOf(Runs, Cardinality(Runs)) : SubmitMany(rs)
    \/ RecvReady \/ AdvanceAll \/ RunAll \/ Close

WorkerSteps == \E r \in Runs : Answer(r) \/ WorkerDies(r)
Clock == PollExpires \/ \E r \in Runs : DeadlinePasses(r)

Next == Running \/ Caller \/ WorkerSteps \/ Clock

Spec == Init /\ [][Next]_vars

-----------------------------------------------------------------------------
(***************************************************************************)
(* Properties.                                                             *)
(***************************************************************************)
\* The type of every variable.
TypeOK ==
    /\ runs \subseteq Runs /\ active \subseteq Runs /\ requested \subseteq Runs
    /\ results \subseteq Runs /\ errors \subseteq Runs /\ shut \in BOOLEAN
    /\ queue \in Seq(Runs) /\ IsInjective(queue)
    /\ ready \in [Runs -> Kinds \cup {None}] /\ responses \in [Runs -> Kinds \cup {None}]
    /\ sess \in [Runs -> {"none", "idle", "dead", "calling", "answered", "closed"}]
    /\ reply \in [Runs -> Outcomes \cup {None}] /\ late \subseteq Runs
    /\ op \in {"none", "recv", "poll", "expired", "barrier", "run"}
    /\ pc \in {"idle", "fill", "many", "loop", "wait", "scan", "return", "ask", "heard"}
    /\ after \in {"idle", "loop", "return", "ask"}
    /\ targets \subseteq Runs /\ todo \subseteq Runs /\ got \subseteq Runs
    /\ lost \subseteq Runs

\* "Queue runs behind at most workers live sessions": a worker process exists
\* only for an active run, and there are never more than Workers of them.
Live == {r \in Runs : sess[r] \notin {"none", "closed"}}
SlotsBounded == Live \subseteq active /\ Cardinality(active) <= Workers

\* Between operations each known run is in exactly one place: queued, active,
\* finished or failed; nothing else is, and only a boot that raised an
\* exception other than SDKError ever loses one.
Accounted ==
    pc = "idle" /\ ~shut =>
        \A r \in Runs \ lost :
            LET places == <<ToSet(queue), active, results, errors>>
            IN Cardinality({i \in 1 .. 4 : r \in places[i]}) = IF r \in runs THEN 1 ELSE 0

\* The outstanding calls are exactly those of the requests that are not queued
\* any more: recv_ready never waits on a closed connection, leaves no request
\* behind and finds no stray reply in a pipe.
CallsMatchRequests ==
    {r \in Runs : sess[r] \in {"calling", "answered"}} = requested \ (ToSet(queue) \cup lost)

\* The books of the runner agree with its worker processes and with each other.
BooksAgree == TypeOK /\ SlotsBounded /\ Accounted /\ CallsMatchRequests

RunReturns ==
    pc = "heard" /\ op = "run" /\ HeardAll /\ ~Trouble /\ active = {} /\ errors = {}

\* "run() drains all submitted runs" (docs/sdk.md), "draining the queue" (its
\* docstring): when it returns, each has a result.
RunDrainsAll == RunReturns => results = runs

\* What run() does keep, whatever boots have crashed before: it returns with a
\* result for each run but the lost ones and those that are still queued; and
\* runs are still queued only if it found no session active, after a crash that
\* left slots unfilled.
RunDrains ==
    RunReturns =>
        /\ results = runs \ (lost \cup ToSet(queue))
        /\ queue # <<>> => targets = {} /\ lost # {}

\* An operation that began ends, whatever the workers do: neither recv_ready
\* nor the barrier waits on a worker past its deadline.
OperationsEnd == pc # "idle" ~> pc = "idle"

\* Every request and every ending is reported exactly once (BatchContract),
\* unless a crashed boot passes through advance_all and takes what it heard.
Contract == INSTANCE BatchContract WITH
    stage <- [r \in Runs |-> IF r \notin runs THEN "absent"
                             ELSE IF r \in results \cup errors THEN "ended" ELSE "live"],
    asked <- requested,
    due <- Held(ready) \cup Held(responses)
KeepsContract ==
    /\ Contract!ContractInit
    /\ [][lost' = lost => Contract!ContractNext]_(Contract!contract)
=============================================================================
