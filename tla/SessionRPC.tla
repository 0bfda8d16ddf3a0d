----------------------------- MODULE SessionRPC -----------------------------
(***************************************************************************)
(* A session and its worker process: class Session of the SDK at one end   *)
(* of a pipe, worker_main at the other.  Call 0 is the boot handshake; the *)
(* caller may send and receive apart from each other, as BatchRunner does. *)
(* What an operation computes is left out: it ends with a value, with a    *)
(* command error, with a failure of the backend, or never.                 *)
(***************************************************************************)
EXTENDS Naturals, Sequences

CONSTANTS
    MaxCalls,       \* bound: calls of one session
    Stop,           \* the "close" operation
    None            \* no call

ASSUME CallsAssumption ==
    /\ MaxCalls \in Nat
    /\ Stop \notin Nat /\ None \notin Nat /\ Stop # None

VARIABLES
    client,     \* what the caller's thread does
    closed,     \* _closed
    pending,    \* _pending: the outstanding call
    late,       \* has the outstanding call's deadline passed?
    calls,      \* calls made, the boot handshake not counted
    answer,     \* the call that the last answer was for
    cut,        \* what an interrupt cut short: a transmission, a close
    worker,     \* what the worker process does
    serving,    \* the call it works on
    requests,   \* in the pipe, to the worker
    replies     \* in the pipe, to the session

clientVars == <<client, closed, pending, late, calls, answer, cut>>
workerVars == <<worker, serving>>
vars == <<clientVars, workerVars, requests, replies>>

Shutting == {"join", "terminated"}
ClientEnd == client # "gone" /\ ~closed         \* is the caller's end open?
WorkerEnd == worker \in {"boot", "recv", "working"} \* and the worker's?
Alive == worker \notin {"unborn", "dead"}

-----------------------------------------------------------------------------
(***************************************************************************)
(* The session.                                                            *)
(***************************************************************************)

\* close, up to its first join: a session with nothing outstanding asks the
\* worker to stop, any other just closes its end of the pipe.
CloseEnd ==
    /\ closed' = TRUE
    /\ requests' = IF pending = None /\ WorkerEnd THEN Append(requests, Stop)
                   ELSE requests
    /\ IF Alive
       THEN client' = "join" /\ UNCHANGED pending
       ELSE client' = "idle" /\ pending' = None

\* __init__: the process starts, or not.
Start ==
    /\ client = "construct"
    /\ worker = "unborn"
    /\ worker' = "boot"
    /\ client' = "receive"
    /\ UNCHANGED <<closed, pending, late, calls, answer, cut, serving, requests, replies>>
StartFails ==
    /\ client = "construct"
    /\ CloseEnd
    /\ UNCHANGED <<late, calls, answer, cut, workerVars, replies>>

\* _send.
MaySend == ~closed /\ pending = None
Transmit ==
    /\ pending' = calls + 1
    /\ requests' = Append(requests, calls + 1)
    /\ UNCHANGED <<client, closed>>
Send ==
    /\ client = "idle"
    /\ MaySend
    /\ calls < MaxCalls
    /\ calls' = calls + 1
    /\ late' = FALSE
    /\ WorkerEnd /\ Transmit
    /\ UNCHANGED <<answer, cut, workerVars, replies>>

\* The worker has gone: the failed write closes the session, the call pending.
SendToNobody ==
    /\ client = "idle"
    /\ MaySend
    /\ calls < MaxCalls
    /\ ~WorkerEnd
    /\ calls' = calls + 1
    /\ late' = FALSE
    /\ closed' = TRUE
    /\ IF Alive
       THEN client' = "join" /\ pending' = calls + 1
       ELSE client' = "idle" /\ pending' = None
    /\ UNCHANGED <<answer, cut, workerVars, requests, replies>>

\* Any other exception inside send is taken for a failed serialization and
\* forgets the call: so it does with an interrupt that comes when the request
\* is in the pipe.
InterruptSend ==
    /\ client = "idle"
    /\ MaySend
    /\ calls < MaxCalls
    /\ WorkerEnd
    /\ calls' = calls + 1
    /\ late' = FALSE
    /\ requests' = Append(requests, calls + 1)
    /\ cut' = cut \cup {"send"}
    /\ UNCHANGED <<client, closed, pending, answer, workerVars, replies>>

\* _receive begins.
Receive ==
    /\ client = "idle"
    /\ ~closed
    /\ pending # None
    /\ client' = "receive"
    /\ UNCHANGED <<closed, pending, late, calls, answer, cut, workerVars, requests, replies>>

\* A reply is there, in time or late.  An error reply to the handshake makes
\* __init__ close the session; any other leaves it open.
TakeReply ==
    /\ client = "receive"
    /\ replies # <<>>
    /\ replies' = Tail(replies)
    /\ IF pending = 0 /\ Head(replies).status = "error"
       THEN /\ closed' = TRUE
            /\ requests' = IF WorkerEnd THEN Append(requests, Stop) ELSE requests
            /\ IF Alive THEN client' = "join" ELSE client' = "idle"
       ELSE /\ client' = "idle"
            /\ UNCHANGED <<closed, requests>>
    /\ pending' = None
    /\ answer' = Head(replies).call
    /\ UNCHANGED <<late, calls, cut, workerVars>>

\* No reply will come, or none came in time: the session closes.
NeverExpired == FALSE \* variant
Expired == late
GiveUpKeepsOpen == \* variant
    /\ client = "receive"
    /\ replies = <<>>
    /\ ~WorkerEnd \/ Expired
    /\ client' = "idle" /\ pending' = None
    /\ UNCHANGED <<closed, late, calls, answer, cut, workerVars, requests, replies>>
GiveUp ==
    /\ client = "receive"
    /\ replies = <<>>
    /\ ~WorkerEnd \/ Expired
    /\ CloseEnd
    /\ UNCHANGED <<late, calls, answer, cut, workerVars, replies>>

\* An interrupt leaves the call outstanding; during __init__ it closes.
InterruptReceive ==
    /\ client = "receive"
    /\ IF pending = 0 THEN CloseEnd
       ELSE client' = "idle" /\ UNCHANGED <<closed, pending, requests>>
    /\ UNCHANGED <<late, calls, answer, cut, workerVars, replies>>

\* close, called by the owner.
Close ==
    /\ client = "idle"
    /\ ~closed
    /\ CloseEnd
    /\ UNCHANGED <<late, calls, answer, cut, workerVars, replies>>

\* close, its joins.  A worker that does not leave in time is terminated, then
\* killed; only the kill is certain to end it.
Joined ==
    /\ client \in Shutting
    /\ worker = "dead"
    /\ client' = "idle"
    /\ pending' = None
    /\ UNCHANGED <<closed, late, calls, answer, cut, workerVars, requests, replies>>
Terminate ==
    /\ client = "join"
    /\ Alive
    /\ client' = "terminated"
    /\ UNCHANGED <<closed, pending, late, calls, answer, cut, workerVars, requests, replies>>
KillWorker == worker' = "dead"
Kill ==
    /\ client = "terminated"
    /\ Alive
    /\ KillWorker
    /\ UNCHANGED <<clientVars, serving, requests, replies>>

\* An interrupt inside close leaves its work undone; another close does nothing.
InterruptClose ==
    /\ client \in Shutting
    /\ client' = "idle"
    /\ cut' = cut \cup {"close"}
    /\ UNCHANGED <<closed, pending, late, calls, answer, workerVars, requests, replies>>

\* Time passes the outstanding call's deadline.
Clock ==
    /\ pending # None /\ ~late
    /\ late' = TRUE
    /\ UNCHANGED <<client, closed, pending, calls, answer, cut, workerVars, requests, replies>>

\* The calling process ends without closing the session.
ClientDies ==
    /\ client \notin {"gone", "construct"}
    /\ client' = "gone"
    /\ UNCHANGED <<closed, pending, late, calls, answer, cut, workerVars, requests, replies>>

-----------------------------------------------------------------------------
(***************************************************************************)
(* The worker.                                                             *)
(***************************************************************************)

\* Its answer goes into the pipe and it goes on; when the session's end is
\* closed the write fails and it leaves.
Reply(call, status, then) ==
    IF ClientEnd
    THEN /\ replies' = Append(replies, [call |-> call, status |-> status])
         /\ worker' = then
    ELSE /\ worker' = "leaving"
         /\ UNCHANGED replies

\* The engine is built, or building it fails.
Boot ==
    /\ worker = "boot"
    /\ Reply(0, "ready", "recv") \/ Reply(0, "error", "leaving")
    /\ UNCHANGED <<clientVars, serving, requests>>

TakeRequest ==
    /\ worker = "recv"
    /\ requests # <<>>
    /\ requests' = Tail(requests)
    /\ IF Head(requests) = Stop
       THEN worker' = "leaving" /\ UNCHANGED serving
       ELSE worker' = "working" /\ serving' = Head(requests)
    /\ UNCHANGED <<clientVars, replies>>

\* The session's end is closed and everything it sent was read.
NobodyGone == FALSE \* variant
SessionGone == ~ClientEnd
WorkerEof ==
    /\ worker = "recv"
    /\ requests = <<>>
    /\ SessionGone
    /\ worker' = "leaving"
    /\ UNCHANGED <<clientVars, serving, requests, replies>>

\* An operation returns or is refused; or the backend fails, and the worker
\* reports it and leaves.
Finish ==
    /\ worker = "working"
    /\ \/ \E status \in {"ok", "error"} : Reply(serving, status, "recv")
       \/ Reply(serving, "error", "leaving")
    /\ serving' = None
    /\ UNCHANGED <<clientVars, requests>>

Exit ==
    /\ worker = "leaving"
    /\ worker' = "dead"
    /\ UNCHANGED <<clientVars, serving, requests, replies>>

\* The process dies at any moment: it crashes, or a signal ends it.
WorkerDies ==
    /\ WorkerEnd
    /\ worker' = "dead"
    /\ serving' = None
    /\ UNCHANGED <<clientVars, requests, replies>>

-----------------------------------------------------------------------------
Init ==
    /\ client = "construct" /\ closed = FALSE /\ pending = 0 /\ late = FALSE
    /\ calls = 0 /\ answer = 0 /\ cut = {}
    /\ worker = "unborn" /\ serving = None
    /\ requests = <<>> /\ replies = <<>>

\* Inside a call the session's code goes on by itself.
Running == Start \/ StartFails \/ TakeReply \/ GiveUp \/ Joined \/ Terminate \/ Kill
Caller == Send \/ SendToNobody \/ Receive \/ Close
Interrupt == InterruptSend \/ InterruptReceive \/ InterruptClose
Working == Boot \/ TakeRequest \/ WorkerEof \/ Finish \/ Exit

Next == Running \/ Caller \/ Interrupt \/ Clock \/ ClientDies \/ Working \/ WorkerDies

Spec == Init /\ [][Next]_vars

\* A call in progress is executed and its deadline passes; nothing is assumed
\* of the worker, which may hang, nor of the caller.
FairSpec == Spec /\ WF_vars(Running) /\ WF_vars(Clock)

-----------------------------------------------------------------------------
(***************************************************************************)
(* Properties.                                                             *)
(***************************************************************************)
CallNumbers == 0 .. MaxCalls

\* The type of every variable; a reply has the status its call asks for, so the
\* session meets no protocol error.
Statuses(call) == IF call = 0 THEN {"ready", "error"} ELSE {"ok", "error"}
TypeOK ==
    /\ client \in {"construct", "idle", "receive", "gone"} \cup Shutting
    /\ closed \in BOOLEAN /\ late \in BOOLEAN
    /\ pending \in CallNumbers \cup {None}
    /\ calls \in CallNumbers
    /\ answer \in CallNumbers /\ cut \subseteq {"send", "close"}
    /\ worker \in {"unborn", "boot", "recv", "working", "leaving", "dead"}
    /\ serving \in CallNumbers \cup {None}
    /\ requests \in Seq(CallNumbers \cup {Stop})
    /\ \A i \in 1 .. Len(replies) : /\ replies[i].call \in CallNumbers
                                    /\ replies[i].status \in Statuses(replies[i].call)

\* Whatever is in the pipe or in the worker's hands.
InFlight == ({requests[i] : i \in 1 .. Len(requests)}
             \cup {replies[i].call : i \in 1 .. Len(replies)}
             \cup {serving}) \ {Stop, None}

\* "Only one outstanding RPC is allowed per session" (_send): all that is under
\* way belongs to the pending call, and while none is pending there is nothing.
OnlyOneOutstanding == ~closed /\ client # "gone" => InFlight \subseteq {pending}

\* Every operation of a session ends: a call returns or fails by its deadline
\* even when the worker hangs, and close, "bounded, idempotent teardown,
\* including when a worker has hung or died", returns with the worker gone
\* unless it is itself interrupted, or the caller ends.
OperationsEnd ==
    /\ client = "receive" ~> client # "receive"
    /\ closed ~> client = "gone" \/ "close" \in cut \/ (client = "idle" /\ ~Alive)

\* A worker that does not hang outlives neither its session nor the calling
\* process, an interrupted close included: the closed pipe ends it.
NoOrphan ==
    WF_vars(Working) => (~ClientEnd /\ worker # "unborn" ~> ~Alive)

\* Until an interrupt cuts a transmission short the session keeps the contract
\* of module RpcContract: every answer is that of the pending call.
Contract == INSTANCE RpcContract WITH
    phase <- IF closed THEN "closed"
             ELSE IF pending = 0 THEN "booting"
             ELSE IF pending = None THEN "ready" ELSE "calling",
    asked <- calls,
    answered <- answer
KeepsContract ==
    /\ Contract!ContractInit
    /\ [][cut' \cap {"send"} = {} => Contract!ContractNext]_(Contract!contract)
=============================================================================
