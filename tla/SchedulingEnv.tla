--------------------------- MODULE SchedulingEnv ---------------------------
(***************************************************************************)
(* One episode of the scheduling environment (class SchedulingEnv) with    *)
(* the logical reward, as experiment._evaluate_serial runs it: the learner *)
(* steps through windows of one period until the horizon, then drains the  *)
(* service without learner steps, and the outcomes of all attempts are put *)
(* together into records of the original requests.                         *)
(*                                                                         *)
(* The service is the real one (ContentService): between the call of a     *)
(* window and its answer every one of its steps can happen.  The learner   *)
(* sees nothing of it but the snapshot an answer carries (last_view), and  *)
(* computes its controls, its reward and its records from that.  Left out  *)
(* are the numbers in observations and rewards; what is kept is which      *)
(* requests an observation reads and which originals a reward counts.      *)
(***************************************************************************)
EXTENDS ContentService

CONSTANTS
    Cycles,         \* windows per episode
    Period,         \* period_s, the length of a window
    RelativeDeadline \* deadline_s of the scenario, the same for every request

HorizonS == Cycles * Period

ASSUME EpisodeAssumption ==
    /\ Cycles \in Nat \ {0} /\ Period \in Nat \ {0} /\ RelativeDeadline \in Nat \ {0}
    /\ MaxRetries > 0       \* the logical reward requires retry outcomes
    /\ 1 .. Period \subseteq WindowLengths \* this client is one of the service's
    /\ \A r \in Requests : /\ ArrivalAt[r] < HorizonS
                           /\ DeadlineAt[r] = ArrivalAt[r] + RelativeDeadline

VARIABLES
    phase,      \* ready, stepping (a window asked for), over, draining, drained
    direct,     \* method DD-adapted: a decision per request
    cycle,      \* windows stepped
    last_view,  \* the snapshot of the last answer
    outcomes,   \* attempt_outcomes: what was reported of each ended attempt
    settled,    \* logical_settled: the originals counted
    logical     \* logical_completed and logical_failed

learnerVars == <<phase, direct, cycle, last_view, outcomes, settled, logical>>
envVars == <<vars, learnerVars>>

-----------------------------------------------------------------------------
(***************************************************************************)
(* The snapshot (ContentRuntime.inspect).  The scope "scheduling" shows    *)
(* the requests a control may be about; the outcomes of the window and the *)
(* counters travel in every scope.                                         *)
(***************************************************************************)
Queued == UNION {ToSet(queues[s]) : s \in Clusters}
Served == {busy[s].request : s \in Clusters} \ {None}
SelectedQueued(scope) == IF scope = "full" THEN live \cup changed ELSE Queued \* variant
Selected(scope) ==
    IF scope = "full" THEN live \cup changed
    ELSE Queued \cup (IF Release = "window" THEN Served ELSE {})
Inspect(scope) ==
    [now |-> now,
     waiting |-> queues,
     active |-> [s \in Clusters |-> busy[s].request],
     requests |-> [a \in Selected(scope) |-> [forwarded |-> forwarded[a]]],
     counts |-> counts,
     outcomes |-> [a \in {b \in changed : status[b] \in Terminal} |->
                      [status |-> status[a], arrival |-> arrival[a], completed |-> finished[a]]]]

EnvInit ==
    /\ Init
    /\ direct \in {d \in BOOLEAN : d => Release = "window" /\ "direct" \in Policies}
    /\ phase = "ready" /\ cycle = 0 /\ outcomes = <<>> /\ settled = {}
    /\ last_view = Inspect("full")
    /\ logical = [completed |-> 0, failed |-> 0]

-----------------------------------------------------------------------------
(***************************************************************************)
(* Controls                                                                *)
(***************************************************************************)

\* _request_slots: what the direct learner decides, slot by slot.
RequestSlots(s) ==
    (IF last_view.active[s] # None THEN <<last_view.active[s]>> ELSE <<>>)
        \o last_view.waiting[s]

\* The requests an observation of cluster s looks up in the snapshot.
Encoded(s) == ToSet(last_view.waiting[s])
Observed(s) == IF direct THEN ToSet(RequestSlots(s)) ELSE {}

\* control: direct decides every request shown that was not forwarded; the
\* others name a policy.
Decided(s) == {a \in ToSet(RequestSlots(s)) : ~last_view.requests[a].forwarded}
MethodPolicies == IF direct THEN Policies \cap {"direct"} ELSE Policies \ {"direct"}
Expected(s) == {a \in Visible : cluster[a] = s}

\* A window is asked for; the service refuses decisions for other requests
\* than those it expects.
Ask(length, policies, next) ==
    /\ \E p \in policies :
          /\ p = "direct" => \A s \in Clusters : Decided(s) = Expected(s)
          /\ \E d \in SUBSET (IF p = "direct" THEN UNION {Decided(s) : s \in Clusters} ELSE {}) :
                AdvanceWindow(length, p, d)
    /\ phase' = next
    /\ UNCHANGED <<direct, cycle, last_view, outcomes, settled, logical>>

\* begin: the control of the next window is sent.
BeginWindow ==
    phase = "ready" /\ Ask((cycle + 1) * Period - now, MethodPolicies, "stepping")

-----------------------------------------------------------------------------
(***************************************************************************)
(* Answers                                                                 *)
(***************************************************************************)

\* _settle_logical_reward: an original counts with its first final outcome.
ExhaustedEarly(a) == a[2] >= MaxRetries - 1 \* variant
Exhausted(a) == a[2] = MaxRetries
Final(a, outcome) ==
    \/ outcome.status = "SUCCEEDED"
    \/ outcome.status \in {"TIMED_OUT", "REJECTED"} /\ Exhausted(a)
Newly(told) == {a \in DOMAIN told : Final(a, told[a]) /\ a[1] \notin settled}
SettleLogical(told) ==
    LET won == {a \in Newly(told) : told[a].status = "SUCCEEDED"}
    IN /\ settled' = settled \cup {a[1] : a \in Newly(told)}
       /\ logical' = [completed |-> logical.completed + Cardinality(won),
                      failed |-> logical.failed + Cardinality(Newly(told) \ won)]

\* attempt_outcomes.update (with @@ the provers cannot reason).
UpdatedWith(told) ==
    [a \in DOMAIN outcomes \cup DOMAIN told |->
        IF a \in DOMAIN told THEN told[a] ELSE outcomes[a]]

\* The answer of a window: its snapshot, and the outcomes since it began.
Receive ==
    /\ pc = "idle"
    /\ last_view' = Inspect("scheduling")
    /\ outcomes' = UpdatedWith(last_view'.outcomes)
    /\ SettleLogical(last_view'.outcomes)
    /\ UNCHANGED <<vars, direct>>

Step ==
    /\ phase = "stepping" /\ Receive
    /\ cycle' = cycle + 1
    /\ phase' = IF cycle' >= Cycles THEN "over" ELSE "ready"

\* drain: the time by which every attempt of every request must have ended.
LimitOfOriginals == HorizonS + MaxRetries * RelativeDeadline + MaxRetries * RetryDelay \* variant
Limit == HorizonS + (MaxRetries + 1) * RelativeDeadline + MaxRetries * RetryDelay
\* A window release asks the policy again, otherwise the last control stays.
DrainWindow ==
    /\ phase = "over"
    /\ Ask(Min({Limit - last_view.now, Period}),
           IF Release = "window" THEN MethodPolicies ELSE {policy}, "draining")
DrainStep ==
    /\ phase = "draining" /\ Receive
    /\ phase' = IF Resolved \/ last_view'.now >= Limit THEN "drained" ELSE "over"
    /\ UNCHANGED cycle

-----------------------------------------------------------------------------
(***************************************************************************)
(* Records and metrics of a drained episode                                *)
(***************************************************************************)

\* retry_records puts the attempts of an original together, or raises.
Tried(r) == {a \in DOMAIN outcomes : a[1] = r}
\* The time the first attempts of an original took, up to attempt k.
Took(a) == outcomes[a].completed - outcomes[a].arrival
ServiceTimes(r) ==
    LET total[k \in 0 .. Cardinality(Tried(r)) - 1] ==
            IF k = 0 THEN Took(<<r, 0>>) ELSE total[k - 1] + Took(<<r, k>>)
    IN total
Record(r) ==
    LET k == Cardinality(Tried(r)) - 1
        last == outcomes[<<r, k>>]
    IN [status |-> last.status,
        attempts |-> k + 1,
        elapsed |-> last.completed - ArrivalAt[r],
        service |-> ServiceTimes(r)[k],
        wait |-> RetryDelay * k]
Reconciles(r) ==
    LET n == Cardinality(Tried(r))
    IN /\ n > 0
       /\ Tried(r) = {r} \X (0 .. n - 1)
       /\ Record(r).status = "SUCCEEDED" \/ n - 1 = MaxRetries
       /\ Record(r).elapsed = Record(r).service + Record(r).wait
RetryMetrics ==
    LET won == {r \in Requests : Record(r).status = "SUCCEEDED"}
    IN [completed |-> Cardinality(won), failed |-> Cardinality(Requests \ won)]
Unfinished ==
    last_view.counts["arrived"] - (last_view.counts["SUCCEEDED"]
        + last_view.counts["TIMED_OUT"] + last_view.counts["REJECTED"])

\* The caller may close the environment between two calls.
CloseEnv ==
    /\ phase \in {"ready", "over", "drained"}
    /\ Close
    /\ UNCHANGED learnerVars

Serve == (Settle \/ \E t \in transfers : Cancel(t)) /\ UNCHANGED learnerVars
Learner == BeginWindow \/ Step \/ DrainWindow \/ DrainStep
EnvNext ==
    \/ Serve \/ Learner \/ CloseEnv
    \/ phase = "drained" /\ UNCHANGED envVars
    \/ Closed /\ UNCHANGED learnerVars

EnvSpec == EnvInit /\ [][EnvNext]_envVars

-----------------------------------------------------------------------------
(***************************************************************************)
(* Properties.                                                             *)
(***************************************************************************)

\* Whenever the learner has an answer, the snapshot fits what it does with it:
\* every request its observations and decisions look up is shown (no KeyError
\* in _encode and _request_slots), the slots of a cluster suffice (_observations,
\* control), and the requests it decides are the ones the service demands
\* ("direct decisions must cover visible requests", advance_window).
Heard == pc = "idle" /\ phase \in {"ready", "over", "drained"}
ControlFits ==
    Heard => \A s \in Clusters :
        /\ Encoded(s) \cup Observed(s) \subseteq DOMAIN last_view.requests
        /\ Len(RequestSlots(s)) <= QueueLimit[s] + 1
        /\ direct => Decided(s) = Expected(s)

\* "Settle each original once, including all failed attempts and retry waits"
\* (_settle_logical_reward): whenever the learner has an answer, the originals
\* it has counted are those the ledger of the service calls resolved, each once
\* and with its final outcome, and the attempts it knows are all that ended.
Succeeded == {r \in Requests : Stage(r) = "succeeded"}
Lost == {r \in Requests : Stage(r) = "failed" /\ LastAttempt(r) = MaxRetries}
CountedOnce ==
    Heard =>
        /\ settled = Succeeded \cup Lost
        /\ logical.completed = Cardinality(Succeeded)
        /\ logical.failed = Cardinality(Lost)
        /\ DOMAIN outcomes = {a \in Attempts : status[a] \in Terminal}

\* The drain limit is late enough, to the instant: in a drained episode nothing
\* is unfinished and every original has a record, whose attempts are numbered
\* without a gap, end in a success or with the last retry allowed, and take,
\* with the waits between them, the time the original took (retry_records never
\* raises, nor does cached_evaluate); the records and the reward count alike.
DrainComplete ==
    phase = "drained" =>
        /\ Unfinished = 0
        /\ \A r \in Requests : Reconciles(r)
        /\ RetryMetrics = logical
=============================================================================
