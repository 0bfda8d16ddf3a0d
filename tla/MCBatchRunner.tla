--------------------------- MODULE MCBatchRunner ---------------------------
(***************************************************************************)
(* A runner is made with Workers slots or with one (workers of __init__).  *)
(* With one, a crashed boot can leave runs queued with no session active.  *)
(***************************************************************************)
EXTENDS BatchRunner

VARIABLE slots      \* the number of workers, which never changes

Single == INSTANCE BatchRunner WITH Workers <- 1

slotVars == <<vars, slots>>
Slots(n, step) == slots = n /\ step /\ UNCHANGED slots
RunningSlots == Slots(Workers, Running) \/ Slots(1, Single!Running)

MCInit == Init /\ slots \in {1, Workers}
MCNext == Slots(Workers, Next) \/ Slots(1, Single!Next)

\* An operation in progress is executed and deadlines pass.  Workers may hang.
MCSpec ==
    /\ MCInit /\ [][MCNext]_slotVars
    /\ WF_slotVars(RunningSlots) /\ WF_slotVars(PollExpires /\ UNCHANGED slots)
    /\ \A r \in Runs : WF_slotVars(DeadlinePasses(r) /\ UNCHANGED slots)
=============================================================================
