--------------------------- MODULE BatchContract ---------------------------
(***************************************************************************)
(* What a batch runner promises its caller about every run: each accepted  *)
(* request, and the end of each run, is reported exactly once; a run that  *)
(* ended stays ended until it is discarded; and nothing that was asked is  *)
(* forgotten short of closing the runner.                                  *)
(***************************************************************************)
CONSTANT Runs

VARIABLES
    stage,      \* "absent", "live" or "ended", for each run
    asked,      \* runs with an accepted request and no response yet
    due         \* runs with a response the caller has not collected

contract == <<stage, asked, due>>

ContractInit == stage = [r \in Runs |-> "absent"] /\ asked = {} /\ due = {}

Submitted(S) ==
    /\ \A r \in S : stage[r] = "absent"
    /\ stage' = [r \in Runs |-> IF r \in S THEN "live" ELSE stage[r]]
    /\ UNCHANGED <<asked, due>>

Asked(r) ==
    /\ stage[r] = "live" /\ r \notin asked \cup due
    /\ asked' = asked \cup {r}
    /\ UNCHANGED <<stage, due>>

Responded(r) ==
    /\ r \in asked
    /\ asked' = asked \ {r} /\ due' = due \cup {r}
    /\ UNCHANGED stage

\* Runs end with a result, an error or a cancellation, asked or not.
Ended(S) ==
    /\ \A r \in S : stage[r] = "live"
    /\ stage' = [r \in Runs |-> IF r \in S THEN "ended" ELSE stage[r]]
    /\ asked' = asked \ S /\ due' = due \cup S

Collected == due' = {} /\ UNCHANGED <<stage, asked>>

Discarded(r) ==
    /\ r \notin asked
    /\ stage' = [stage EXCEPT ![r] = "absent"] /\ due' = due \ {r}
    /\ UNCHANGED asked

Closed == asked' = {} /\ UNCHANGED <<stage, due>>

ContractNext ==
    \/ \E S \in SUBSET Runs : Submitted(S) \/ Ended(S)
    \/ \E r \in Runs : Asked(r) \/ Responded(r) \/ Discarded(r)
    \/ Collected
    \/ Closed

ContractSpec == ContractInit /\ [][ContractNext]_contract
=============================================================================
