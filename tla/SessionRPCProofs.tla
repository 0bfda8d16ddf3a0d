-------------------------- MODULE SessionRPCProofs --------------------------
(***************************************************************************)
(* Proofs about SessionRPC: until an interrupt cuts a transmission short,  *)
(* a session keeps the contract of RpcContract, whatever the worker does.  *)
(***************************************************************************)
EXTENDS SessionRPC, TLAPS

\* What has to be known of the session's own thread.
ClientInv ==
    /\ calls \in 0 .. MaxCalls
    /\ closed \in BOOLEAN
    /\ pending \in {None, calls}
    /\ answer \in Nat
    /\ pending = 0 => answer = 0
    /\ client = "receive" => pending # None
    /\ client \in {"receive", "construct"} => ~closed
    /\ client = "construct" => pending = 0
    /\ client \in Shutting => closed

\* The pending call is in one place at most, and nothing else is under way: it
\* waits for the worker, is worked on, or its reply waits for the session; or
\* it is in the worker's boot, or lost with the worker.
Nowhere == requests = <<>> /\ replies = <<>> /\ serving = None
Waiting == requests = <<pending>> /\ replies = <<>> /\ serving = None
Served == requests = <<>> /\ replies = <<>> /\ serving = pending
Answered ==
    /\ requests = <<>> /\ serving = None
    /\ \E status : replies = <<[call |-> pending, status |-> status]>>
Young == worker \in {"unborn", "boot"}
OnePlace ==
    /\ Young => Nowhere /\ pending = 0
    /\ pending = None => Nowhere
    /\ Nowhere \/ Waiting \/ Served \/ Answered
    /\ worker = "working" => serving # None

Whole == "send" \notin cut
RpcInv == Whole => ClientInv /\ (~closed => OnePlace)

LEMMA InitRpc == Init => RpcInv
<1> SUFFICES ASSUME Init PROVE RpcInv
  OBVIOUS
<1>1. ClientInv
  <2>1. client = "construct" /\ closed = FALSE /\ client \notin Shutting
    BY DEF Init, Shutting
  <2>2. /\ calls \in 0 .. MaxCalls /\ pending = calls /\ pending = 0
        /\ answer = 0 /\ pending # None
    BY CallsAssumption DEF Init
  <2>3. QED
    BY <2>1, <2>2 DEF ClientInv
<1>2. Nowhere /\ pending # None /\ pending = 0
  BY CallsAssumption DEF Init, Nowhere
<1>3. QED
  BY <1>1, <1>2 DEF Init, RpcInv, OnePlace

-----------------------------------------------------------------------------
(* The session's steps. *)

\* A closed session has left the phases the pipe matters to.
LEMMA CloseEndRpc ==
    ASSUME ClientInv, CloseEnd, calls' = calls, answer' = answer
    PROVE  ClientInv' /\ closed'
  BY CallsAssumption DEF ClientInv, CloseEnd, Shutting

\* A reply that is taken answers the pending call.
LEMMA TakeReplyAnswers ==
    ASSUME ClientInv, ~closed, OnePlace, TakeReply
    PROVE  /\ Answered /\ ~Young /\ Head(replies).call = pending
           /\ Tail(replies) = <<>>
<1>1. pending # None /\ replies # <<>>
  BY DEF TakeReply, ClientInv
<1>2. Answered /\ ~Young
  BY <1>1 DEF OnePlace, Nowhere, Waiting, Served
<1>3. PICK status : replies = <<[call |-> pending, status |-> status]>>
  BY <1>2 DEF Answered
<1>4. QED
  BY <1>2, <1>3

LEMMA RunningRpc ==
    ASSUME ClientInv, ~closed => OnePlace, Running
    PROVE  ClientInv' /\ (~closed' => OnePlace')
<1>1. CASE Start
  BY <1>1, CallsAssumption DEF Start, ClientInv, OnePlace, Nowhere, Young, Shutting
<1>2. CASE StartFails \/ GiveUp
  BY <1>2, CloseEndRpc DEF StartFails, GiveUp
<1>3. CASE TakeReply
  <2>1. ~closed /\ pending \in Nat /\ pending = calls
    BY <1>3, CallsAssumption DEF TakeReply, ClientInv
  <2>2. /\ Answered /\ ~Young /\ Head(replies).call = pending /\ Tail(replies) = <<>>
    BY <1>3, <2>1, TakeReplyAnswers
  <2>3. ClientInv'
    <3>1. /\ client' \in {"idle", "join"} /\ closed' \in BOOLEAN
          /\ client' = "join" => closed'
      BY <1>3, <2>1 DEF TakeReply, ClientInv
    <3>2. pending' = None /\ calls' = calls /\ answer' = calls /\ None # 0
      BY <1>3, <2>1, <2>2, CallsAssumption DEF TakeReply
    <3>3. QED
      BY <2>1, <3>1, <3>2 DEF ClientInv, Shutting
  <2>4. CASE closed'
    BY <2>3, <2>4
  <2>5. CASE ~closed'
    <3>1. requests' = requests /\ replies' = <<>> /\ UNCHANGED workerVars /\ pending' = None
      BY <1>3, <2>1, <2>2, <2>5 DEF TakeReply
    <3>2. serving = None /\ requests = <<>> /\ worker # "working"
      BY <2>1, <2>2 DEF Answered, OnePlace
    <3>3. Nowhere' /\ ~Young' /\ worker' # "working"
      BY <2>2, <3>1, <3>2 DEF Nowhere, Young, workerVars
    <3>4. QED
      BY <2>3, <3>1, <3>3 DEF OnePlace
  <2>6. QED
    BY <2>4, <2>5, <2>3
<1>4. CASE Joined \/ Terminate \/ Kill
  BY <1>4, CallsAssumption
  DEF Joined, Terminate, Kill, ClientInv, Shutting, clientVars
<1>5. QED
  BY <1>1, <1>2, <1>3, <1>4 DEF Running

LEMMA SendRpc ==
    ASSUME ClientInv, ~closed => OnePlace, Send
    PROVE  ClientInv' /\ (~closed' => OnePlace')
<1>1. ~closed /\ pending = None /\ calls \in Nat
  BY CallsAssumption DEF Send, MaySend, ClientInv
<1>2. Nowhere /\ ~Young /\ worker # "working"
  BY <1>1, CallsAssumption DEF OnePlace, Nowhere
<1>3. ClientInv'
  BY <1>1, CallsAssumption DEF Send, Transmit, ClientInv, Shutting
<1>4. requests' = <<pending'>> /\ replies' = replies /\ UNCHANGED workerVars
  BY <1>2 DEF Send, Transmit, Nowhere
<1>5. pending' # None
  BY <1>1, CallsAssumption DEF Send, Transmit
<1>6. QED
  BY <1>2, <1>3, <1>4, <1>5 DEF OnePlace, Waiting, Nowhere, Young, workerVars

LEMMA CallerRpc ==
    ASSUME ClientInv, ~closed => OnePlace, Caller
    PROVE  ClientInv' /\ (~closed' => OnePlace')
<1>1. CASE Send
  BY <1>1, SendRpc
<1>2. CASE SendToNobody
  BY <1>2, CallsAssumption DEF SendToNobody, MaySend, ClientInv, Shutting
<1>3. CASE Receive
  BY <1>3 DEF Receive, ClientInv, Shutting, OnePlace, Nowhere, Waiting, Served,
              Answered, Young, workerVars
<1>4. CASE Close
  BY <1>4, CloseEndRpc DEF Close
<1>5. QED
  BY <1>1, <1>2, <1>3, <1>4 DEF Caller

\* An interrupt, the clock and the end of the caller leave the pipe alone.
LEMMA OutsideRpc ==
    ASSUME ClientInv, ~closed => OnePlace,
           InterruptReceive \/ InterruptClose \/ Clock \/ ClientDies
    PROVE  ClientInv' /\ (~closed' => OnePlace')
<1>1. CASE InterruptReceive /\ pending = 0
  BY <1>1, CloseEndRpc DEF InterruptReceive
<1>2. CASE \/ InterruptReceive /\ pending # 0
           \/ InterruptClose \/ Clock \/ ClientDies
  <2>1. ClientInv'
    BY <1>2 DEF InterruptReceive, InterruptClose, Clock, ClientDies, ClientInv, Shutting
  <2>2. UNCHANGED <<closed, pending, requests, replies, worker, serving>>
    BY <1>2 DEF InterruptReceive, InterruptClose, Clock, ClientDies, workerVars
  <2>3. QED
    BY <2>1, <2>2 DEF OnePlace, Nowhere, Waiting, Served, Answered, Young
<1>3. QED
  BY <1>1, <1>2

-----------------------------------------------------------------------------
(* The worker's steps. *)
LEMMA WorkerRpc ==
    ASSUME ClientInv, ~closed => OnePlace, Working \/ WorkerDies
    PROVE  ClientInv' /\ (~closed' => OnePlace')
<1>1. UNCHANGED clientVars
  BY DEF Working, WorkerDies, Boot, TakeRequest, WorkerEof, Finish, Exit
<1>2. ClientInv'
  BY <1>1 DEF ClientInv, clientVars
<1> SUFFICES ASSUME ~closed PROVE OnePlace'
  BY <1>1, <1>2 DEF clientVars
<1>3. pending' = pending
  BY <1>1 DEF clientVars
<1>4. CASE Boot
  <2>1. Nowhere /\ pending = 0
    BY <1>4 DEF Boot, OnePlace, Young
  <2>2. ASSUME NEW status, NEW then, then \notin {"unborn", "boot", "working"},
               Reply(0, status, then)
        PROVE  OnePlace'
    <3>1. CASE ClientEnd
      <4>1. replies' = <<[call |-> 0, status |-> status]>> /\ worker' = then
        BY <2>1, <2>2, <3>1 DEF Reply, Nowhere
      <4>2. Answered'
        BY <1>3, <1>4, <2>1, <4>1 DEF Answered, Nowhere, Boot
      <4>3. pending' # None
        BY <1>3, <2>1, CallsAssumption
      <4>4. QED
        BY <2>2, <4>1, <4>2, <4>3 DEF OnePlace, Young
    <3>2. CASE ~ClientEnd
      BY <1>3, <1>4, <2>1, <2>2, <3>2 DEF Reply, Boot, OnePlace, Nowhere, Young
    <3>3. QED
      BY <3>1, <3>2
  <2>3. QED
    BY <1>4, <2>2 DEF Boot
<1>5. CASE TakeRequest
  <2>1. Waiting /\ ~Young /\ pending # None
    BY <1>5 DEF TakeRequest, OnePlace, Nowhere, Served, Answered, Young
  <2>2. Head(requests) = pending /\ Tail(requests) = <<>> /\ pending # Stop
    BY <2>1, CallsAssumption DEF Waiting, ClientInv
  <2>3. Served' /\ worker' = "working"
    BY <1>3, <1>5, <2>1, <2>2 DEF TakeRequest, Served, Waiting
  <2>4. QED
    BY <1>3, <2>1, <2>3 DEF OnePlace, Young, Served
<1>6. CASE WorkerEof \/ Exit
  BY <1>3, <1>6 DEF WorkerEof, Exit, OnePlace, Nowhere, Waiting, Served, Answered, Young
<1>7. CASE Finish
  <2>1. Served /\ ~Young /\ pending # None
    BY <1>7 DEF Finish, OnePlace, Nowhere, Waiting, Served, Answered, Young
  <2>2. ASSUME NEW status, NEW then, then \notin {"unborn", "boot", "working"},
               Reply(serving, status, then)
        PROVE  OnePlace'
    <3>1. CASE ClientEnd
      <4>1. replies' = <<[call |-> pending, status |-> status]>> /\ worker' = then
        BY <2>1, <2>2, <3>1 DEF Reply, Served
      <4>2. Answered'
        BY <1>3, <1>7, <2>1, <4>1 DEF Answered, Served, Finish
      <4>3. QED
        BY <1>3, <2>1, <2>2, <4>1, <4>2 DEF OnePlace, Young
    <3>2. CASE ~ClientEnd
      BY <1>3, <1>7, <2>1, <2>2, <3>2
      DEF Reply, Finish, OnePlace, Nowhere, Served, Young
    <3>3. QED
      BY <3>1, <3>2
  <2>3. QED
    BY <1>7, <2>2 DEF Finish
<1>8. CASE WorkerDies
  BY <1>3, <1>8
  DEF WorkerDies, OnePlace, Nowhere, Waiting, Served, Answered, Young, WorkerEnd
<1>9. QED
  BY <1>4, <1>5, <1>6, <1>7, <1>8 DEF Working

LEMMA NextRpc == RpcInv /\ [Next]_vars => RpcInv'
<1> SUFFICES ASSUME RpcInv, [Next]_vars, Whole' PROVE RpcInv'
  BY DEF RpcInv
<1>1. CASE InterruptSend
  BY <1>1 DEF InterruptSend, Whole
<1>2. Whole
  BY DEF Next, vars, Whole, clientVars, Running, Caller, Interrupt, Working,
         Start, StartFails, TakeReply, GiveUp, Joined, Terminate, Kill, Send,
         SendToNobody, Receive, Close, InterruptSend, InterruptReceive,
         InterruptClose, Clock, ClientDies, Boot, TakeRequest, WorkerEof,
         Finish, Exit, WorkerDies
<1>3. ClientInv /\ (~closed => OnePlace)
  BY <1>2 DEF RpcInv
<1>4. CASE UNCHANGED vars
  BY <1>2, <1>3, <1>4
  DEF vars, clientVars, workerVars, RpcInv, ClientInv, OnePlace, Nowhere,
      Waiting, Served, Answered, Young, Whole
<1>5. QED
  BY <1>1, <1>3, <1>4, RunningRpc, CallerRpc, OutsideRpc, WorkerRpc
  DEF Next, Interrupt, RpcInv

LEMMA RpcInvariant == Spec => []RpcInv
  BY InitRpc, NextRpc, PTL DEF Spec

-----------------------------------------------------------------------------
(* The contract. *)
Phase == IF closed THEN "closed"
         ELSE IF pending = 0 THEN "booting"
         ELSE IF pending = None THEN "ready" ELSE "calling"

\* A step of the session that leaves a transmission whole is one of the contract.
LEMMA StepKeepsContract ==
    ASSUME RpcInv, [Next]_vars, Whole'
    PROVE  Contract!ContractNext \/ UNCHANGED Contract!contract
<1> USE DEF Contract!ContractNext, Contract!Booted, Contract!Call, Contract!Answer,
            Contract!CallAndClose, Contract!Shut, Contract!contract
<1>1. CASE InterruptSend
  BY <1>1 DEF InterruptSend, Whole
<1>2. Whole
  BY DEF Next, vars, Whole, clientVars, Running, Caller, Interrupt, Working,
         Start, StartFails, TakeReply, GiveUp, Joined, Terminate, Kill, Send,
         SendToNobody, Receive, Close, InterruptSend, InterruptReceive,
         InterruptClose, Clock, ClientDies, Boot, TakeRequest, WorkerEof,
         Finish, Exit, WorkerDies
<1>3. ClientInv /\ (~closed => OnePlace)
  BY <1>2 DEF RpcInv
<1>4. CASE TakeReply
  <2>1. ~closed /\ pending = calls /\ calls \in Nat
    BY <1>3, <1>4 DEF TakeReply, ClientInv
  <2>2. answer' = calls /\ calls' = calls /\ pending' = None
    BY <1>3, <1>4, <2>1, TakeReplyAnswers DEF TakeReply
  <2>3. CASE pending = 0
    <3>1. answer' = answer
      BY <1>3, <2>1, <2>2, <2>3 DEF ClientInv
    <3>2. QED
      BY <2>1, <2>2, <2>3, <3>1, CallsAssumption, <1>4 DEF TakeReply
  <2>4. CASE pending # 0
    <3>1. closed' = closed
      BY <1>4, <2>4 DEF TakeReply
    <3>2. QED
      BY <2>1, <2>2, <2>4, <3>1, CallsAssumption
  <2>5. QED
    BY <2>3, <2>4
<1>5. CASE Send
  BY <1>3, <1>5, CallsAssumption DEF Send, MaySend, Transmit, ClientInv
<1>6. CASE SendToNobody
  BY <1>3, <1>6, CallsAssumption DEF SendToNobody, MaySend, ClientInv
<1>7. CASE StartFails \/ GiveUp \/ Close \/ (InterruptReceive /\ pending = 0)
  BY <1>3, <1>7, CallsAssumption
  DEF StartFails, GiveUp, Close, InterruptReceive, CloseEnd, ClientInv
<1>8. CASE \/ InterruptReceive /\ pending # 0
           \/ Start \/ Terminate \/ Kill \/ Receive \/ InterruptClose
           \/ Clock \/ ClientDies \/ Working \/ WorkerDies \/ UNCHANGED vars
  BY <1>8
  DEF InterruptReceive, Start, Terminate, Kill, Receive, InterruptClose, Clock,
      ClientDies, Working, WorkerDies, Boot, TakeRequest, WorkerEof, Finish,
      Exit, vars, clientVars
<1>9. CASE Joined
  BY <1>3, <1>9 DEF Joined, ClientInv
<1>10. QED
  BY <1>1, <1>4, <1>5, <1>6, <1>7, <1>8, <1>9 DEF Next, Running, Caller, Interrupt

\* Whatever the worker does, answers, fails, hangs or dies, and whenever calls,
\* limits, interrupts and close meet, an answer that the session takes is that
\* of its pending call, and a closed session takes none: until an interrupt
\* cuts a transmission short, every step keeps the contract.
THEOREM SessionKeepsContract == Spec => KeepsContract
<1>1. Init => Contract!ContractInit
  BY CallsAssumption DEF Init, Contract!ContractInit
<1>2. RpcInv /\ [Next]_vars =>
        [cut' \cap {"send"} = {} => Contract!ContractNext]_(Contract!contract)
  BY StepKeepsContract DEF Whole
<1>3. QED
  BY <1>1, <1>2, RpcInvariant, PTL DEF Spec, KeepsContract
=============================================================================
