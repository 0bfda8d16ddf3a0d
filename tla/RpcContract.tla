---------------------------- MODULE RpcContract ----------------------------
(***************************************************************************)
(* What a session promises its caller: after a boot handshake, one call at *)
(* a time; an answer is always that of the outstanding call; and a session *)
(* that is closed, by its owner or by a failed transport, answers nothing  *)
(* any more.                                                               *)
(***************************************************************************)
EXTENDS Naturals

CONSTANT MaxCalls   \* bound: calls of one session

VARIABLES
    phase,      \* "booting", "ready", "calling" or "closed"
    asked,      \* how many calls were made
    answered    \* the number of the call answered last, 0 for none

contract == <<phase, asked, answered>>

ContractInit == phase = "booting" /\ asked = 0 /\ answered = 0

Booted == phase = "booting" /\ phase' = "ready" /\ UNCHANGED <<asked, answered>>

Call ==
    /\ phase = "ready" /\ asked < MaxCalls
    /\ phase' = "calling" /\ asked' = asked + 1
    /\ UNCHANGED answered

Answer ==
    /\ phase = "calling"
    /\ phase' = "ready" /\ answered' = asked
    /\ UNCHANGED asked

\* A call that cannot be transmitted closes the session at once.
CallAndClose ==
    /\ phase = "ready" /\ asked < MaxCalls
    /\ phase' = "closed" /\ asked' = asked + 1
    /\ UNCHANGED answered

Shut == phase # "closed" /\ phase' = "closed" /\ UNCHANGED <<asked, answered>>

ContractNext == Booted \/ Call \/ Answer \/ CallAndClose \/ Shut

ContractSpec == ContractInit /\ [][ContractNext]_contract
=============================================================================
