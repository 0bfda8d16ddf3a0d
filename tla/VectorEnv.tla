----------------------------- MODULE VectorEnv -----------------------------
(***************************************************************************)
(* Vector sampling (class ContentBatchEnv): scheduling environments, one   *)
(* per slot, step in waves over one BatchRunner, which is the real one.    *)
(* An episode is named by its key, a seed and a generation; the workload   *)
(* is drawn from the key and the slot, the run id from slot and generation *)
(* alone.  What is left of an environment is which episode it prepared,    *)
(* which it runs, and how many windows of it have passed.                  *)
(***************************************************************************)
EXTENDS BatchRunner

CONSTANTS
    Slots,          \* environments, and worker processes
    Generations,    \* bound: the generations of the run ids
    Seeds, FirstSeed, Start,    \* seeds; the constructor's seed and episode_start
    Cycles          \* windows per episode

SlotSet == 0 .. Slots - 1
Keys == Seeds \X (0 .. Generations)

ASSUME VectorAssumption ==
    /\ Slots \in Nat \ {0} /\ Workers = Slots
    /\ Runs = SlotSet \X (0 .. Generations)
    /\ FirstSeed \in Seeds /\ Generations \in Nat /\ Start \in 0 .. Generations
    /\ Cycles \in Nat \ {0}

VARIABLES
    env,        \* each slot's seed, generation, prepared, key (of the episode),
                \* id (the run's generation), built (its key), attached (session), pristine, cycle
    carries, advanced,  \* each run's workload and the windows simulated of it
    phase,      \* the operation the caller is in and where it is
    making,     \* the constructor has not returned
    previous,   \* the environments have been reset by the caller
    chosen, left,   \* the environments an operation is for, and those still to do
    pending, heard, \* _step: who has not answered; the responses being read
    cause       \* where an exception was raised

batchVars == vars
envVars == <<env, carries, advanced>>
callVars == <<phase, making, previous, chosen, left, pending, heard, cause>>
vectorVars == <<batchVars, envVars, callVars>>

RunOf(i) == <<i, env[i].id>>
Key(i) == <<env[i].seed, env[i].generation>>
First == CHOOSE i \in left : \A j \in left : i <= j
Set(i, e) == env' = [env EXCEPT ![i] = e]

\* An exception leaves the operation.
Raise == phase' = "failed" /\ cause' = phase
GoOn(p) == phase' = p /\ UNCHANGED cause
\* The loop over the environments ends, and what follows begins.
Loop(i, S, next) ==
    /\ left' = IF left = {i} THEN S ELSE left \ {i}
    /\ GoOn(IF left = {i} THEN next ELSE phase)

VectorInit ==
    /\ Init
    /\ env = [i \in SlotSet |->
                [seed |-> FirstSeed, generation |-> Start, prepared |-> None, key |-> None,
                 id |-> Start, built |-> None, attached |-> FALSE, pristine |-> FALSE, cycle |-> 0]]
    /\ carries = Nothing /\ advanced = [r \in Runs |-> 0]
    /\ phase = "preparing" /\ making = TRUE /\ previous = FALSE
    /\ chosen = SlotSet /\ left = SlotSet /\ pending = {} /\ heard = Nothing
    /\ cause = None

-----------------------------------------------------------------------------
(***************************************************************************)
(* The runner goes on inside an operation; a wave hears what it returns.   *)
(***************************************************************************)
Returned == Held(ready) # {} /\ Held(ready') = {}
RunnerSteps ==
    /\ Running
    /\ IF lost' # lost THEN Raise ELSE GoOn(IF Returned THEN "taking" ELSE phase)
    /\ heard' = IF Returned THEN ready ELSE heard
    /\ UNCHANGED <<envVars, making, previous, chosen, left, pending>>

\* A window's response is no end of a run for the runner.
AnswerWindow(r) == Answer(r) /\ reply'[r] # "finished"
Workload ==
    /\ \E r \in Runs : AnswerWindow(r) \/ WorkerDies(r) \/ DeadlinePasses(r)
    /\ UNCHANGED <<envVars, callVars>>

Free == pc = "idle"     \* no operation of the runner is in progress

-----------------------------------------------------------------------------
(***************************************************************************)
(* _prepare_resets: each workload is prepared, those without a session     *)
(* boot together, and the sessions are fetched.                            *)
(***************************************************************************)
PristineWhateverKey(i) == \* variant
    env[i].attached /\ sess[RunOf(i)] # "closed" /\ env[i].pristine
Pristine(i) ==
    /\ env[i].attached /\ sess[RunOf(i)] # "closed"
    /\ env[i].pristine /\ env[i].key = Key(i)

\* The environment's run is another one from now on.
Renew(i) ==
    Set(i, [env[i] EXCEPT !.attached = FALSE, !.id = env[i].generation, !.built = Key(i),
                          !.prepared = Key(i)])
Forget(r) == carries' = At(carries, r, None) /\ advanced' = At(advanced, r, 0)

PrepareReset(i) ==
    /\ Free /\ phase = "preparing" /\ i = First
    /\ env[i].prepared # Key(i)
    /\ \/ /\ Pristine(i)
          /\ Set(i, [env[i] EXCEPT !.prepared = Key(i)])
          /\ UNCHANGED <<batchVars, carries, advanced>>
       \/ /\ ~Pristine(i) /\ env[i].attached
          /\ Discard(RunOf(i)) /\ Forget(RunOf(i))
          /\ Renew(i)
       \/ /\ ~Pristine(i) /\ ~env[i].attached
          /\ Renew(i)
          /\ UNCHANGED <<batchVars, carries, advanced>>
    /\ Loop(i, {}, "booting")
    /\ UNCHANGED <<making, previous, chosen, pending, heard>>

Unattached == {i \in chosen : ~env[i].attached}
\* The numbers of S in their order: before the k-th come k - 1.
InOrder(S) ==
    [k \in 1 .. Cardinality(S) |-> CHOOSE i \in S : Cardinality({j \in S : j < i}) = k - 1]
NewRun(k) == RunOf(InOrder(Unattached)[k])
BootAll ==
    /\ Free /\ phase = "booting"
    /\ SubmitMany([k \in 1 .. Cardinality(Unattached) |-> NewRun(k)])
    /\ carries' = [r \in Runs |-> IF \E i \in Unattached : r = RunOf(i)
                                  THEN env[r[1]].built ELSE carries[r]]
    /\ left' = Unattached
    /\ GoOn("binding")
    /\ UNCHANGED <<env, advanced, making, previous, chosen, pending, heard>>

\* session(run_id) raises what was recorded of a boot that failed.
Bind(i) ==
    /\ Free /\ phase = "binding" /\ left # {} /\ i = First
    /\ IF RunOf(i) \in active
       THEN Set(i, [env[i] EXCEPT !.attached = TRUE]) /\ left' = left \ {i} /\ GoOn("binding")
       ELSE RunOf(i) \in errors /\ Raise /\ UNCHANGED <<env, left>>
    /\ UNCHANGED <<batchVars, carries, advanced, making, previous, chosen, pending, heard>>
Bound ==
    /\ Free /\ phase = "binding" /\ left = {}
    /\ left' = chosen
    /\ GoOn("resetting")
    /\ UNCHANGED <<batchVars, envVars, making, previous, chosen, pending, heard>>

\* SchedulingEnv.reset of a prepared environment; the session is inspected.
\* When the last spec probe has been made the generations start again.
Fresh(i) ==
    [env[i] EXCEPT !.key = Key(i), !.prepared = None, !.generation = @ + 1,
                   !.pristine = TRUE, !.cycle = 0]
Rewound(f) == [j \in SlotSet |-> [f[j] EXCEPT !.generation = Start]]
ResetOne(i) ==
    /\ Free /\ phase = "resetting" /\ i = First
    /\ env[i].prepared = Key(i)
    /\ \/ /\ sess[RunOf(i)] = "idle"
          /\ Loop(i, {}, "idle")
          /\ making' = (making /\ phase' # "idle")
          /\ previous' = (previous \/ (phase' = "idle" /\ ~making))
          /\ UNCHANGED batchVars
       \/ SessionCall(RunOf(i)) /\ Raise /\ UNCHANGED <<left, making, previous>>
    /\ LET fresh == [env EXCEPT ![i] = Fresh(i)]
       IN env' = IF making' # making THEN Rewound(fresh) ELSE fresh
    /\ UNCHANGED <<carries, advanced, chosen, pending, heard>>

\* _reset: for the environments of the mask; for all, the first time.
Reset(S) ==
    /\ Free /\ phase = "idle"
    /\ previous \/ S = SlotSet
    /\ \A i \in S : env[i].generation <= Generations   \* bound
    /\ chosen' = S /\ left' = S
    /\ GoOn("preparing")
    /\ UNCHANGED <<batchVars, envVars, making, previous, pending, heard>>

SetSeed(s) ==
    /\ Free /\ phase = "idle"
    /\ env' = [i \in SlotSet |-> [env[i] EXCEPT !.seed = s, !.generation = 0]]
    /\ UNCHANGED <<batchVars, carries, advanced, callVars>>

-----------------------------------------------------------------------------
(***************************************************************************)
(* _step: a wave.  The caller resets environments that are done.           *)
(***************************************************************************)
StartWave ==
    /\ Free /\ phase = "idle" /\ previous
    /\ \A i \in SlotSet : env[i].cycle < Cycles
    /\ left' = SlotSet
    /\ GoOn("starting")
    /\ UNCHANGED <<batchVars, envVars, making, previous, chosen, pending, heard>>

\* begin: the window is sent; a session that cannot be reached raises.
Begin(i) ==
    /\ Free /\ phase = "starting" /\ i = First
    /\ SubmitWindow(RunOf(i))
    /\ Set(i, [env[i] EXCEPT !.pristine = FALSE])
    /\ IF sess[RunOf(i)] = "idle"
       THEN Loop(i, {}, "collecting") /\ pending' = pending \cup {i}
       ELSE Raise /\ UNCHANGED <<left, pending>>
    /\ UNCHANGED <<carries, advanced, making, previous, chosen, heard>>

Collect ==
    /\ Free /\ phase = "collecting"
    /\ RecvReady /\ op' = "recv"
    /\ UNCHANGED <<envVars, callVars>>

\* A response is encoded at once, an error is raised and ends the scan.
OnlyOneRead(r) == Nothing \* variant
StillHeard(r) == At(heard, r, None)
Encode(r) ==
    LET i == r[1]
    IN /\ Free /\ phase = "taking" /\ heard[r] # None
       /\ RunOf(i) = r /\ i \in pending
       /\ IF heard[r] = "failed"
          THEN Raise /\ UNCHANGED <<env, advanced, pending, heard>>
          ELSE /\ Set(i, [env[i] EXCEPT !.cycle = @ + 1])
               /\ advanced' = [advanced EXCEPT ![r] = @ + 1]
               /\ pending' = pending \ {i}
               /\ heard' = StillHeard(r)
               /\ GoOn(IF Held(heard') # {} THEN "taking"
                       ELSE IF pending' # {} THEN "collecting" ELSE "idle")
       /\ UNCHANGED <<batchVars, carries, making, previous, chosen, left>>

-----------------------------------------------------------------------------
(***************************************************************************)
(* close, which the caller calls at the end and after an exception, unless *)
(* it was the constructor that raised.  discard may raise again.           *)
(***************************************************************************)
CloseAll ==
    /\ Free /\ phase \in {"idle", "failed"} /\ ~making
    /\ left' = {i \in SlotSet : env[i].attached}
    /\ GoOn("closing")
    /\ UNCHANGED <<batchVars, envVars, making, previous, chosen, pending, heard>>

CloseOne(i) ==
    /\ Free /\ phase = "closing" /\ left # {} /\ i = First
    /\ IF shut \/ RunOf(i) \in requested
       THEN phase' = "broken" /\ UNCHANGED <<batchVars, envVars, left, cause>>
       ELSE /\ Discard(RunOf(i)) /\ Forget(RunOf(i))
            /\ Set(i, [env[i] EXCEPT !.attached = FALSE])
            /\ left' = left \ {i}
            /\ GoOn("closing")
    /\ UNCHANGED <<making, previous, chosen, pending, heard>>

RunnerForgotten == UNCHANGED batchVars \* variant
RunnerClosed == IF shut THEN UNCHANGED batchVars ELSE Close
CloseRunner ==
    /\ Free /\ phase = "closing" /\ left = {}
    /\ RunnerClosed
    /\ GoOn("closed")
    /\ UNCHANGED <<envVars, making, previous, chosen, left, pending, heard>>

-----------------------------------------------------------------------------
Call ==
    \/ \E S \in SUBSET SlotSet : S # {} /\ Reset(S)
    \/ \E s \in Seeds : SetSeed(s)
    \/ StartWave \/ CloseAll
Progress ==
    \/ BootAll \/ Bound \/ Collect \/ CloseRunner
    \/ \E i \in left : \/ PrepareReset(i) \/ Bind(i) \/ ResetOne(i)
                       \/ Begin(i) \/ CloseOne(i)
    \/ \E r \in Runs : Encode(r)
Gone == phase \in {"closed", "broken"} \/ (phase = "failed" /\ making)
VectorNext == Call \/ Progress \/ RunnerSteps \/ Workload \/ (Gone /\ UNCHANGED vectorVars)

VectorSpec == VectorInit /\ [][VectorNext]_vectorVars

-----------------------------------------------------------------------------
(***************************************************************************)
(* Properties.                                                             *)
(***************************************************************************)

\* "A spec probe that was not advanced is used again, an advanced episode is
\* not" (docs/rollout-local-optimization.md): between calls the session of an
\* environment simulates the workload of the episode it is in, has gone exactly
\* as far as it has, and belongs to it alone, whatever was reset, reseeded or
\* left half way before.
EpisodeSound ==
    phase = "idle" => \A i \in SlotSet :
        /\ env[i].attached /\ RunOf(i) \in active
        /\ carries[RunOf(i)] = env[i].key
        /\ advanced[RunOf(i)] = env[i].cycle
        /\ active = {RunOf(j) : j \in SlotSet}

\* In a wave the runs that owe an answer, or whose answer was not read yet, are
\* those of the environments still to be stepped: none is stepped twice or with
\* another's answer, and the wave never waits for an answer that does not come.
WaveExact ==
    phase \in {"idle", "starting", "collecting", "taking"} =>
        {RunOf(i) : i \in pending} = requested \cup Held(ready) \cup Held(heard)

\* close leaves no worker process behind, whatever failed before; the one
\* exception is an error in a wave while other environments wait for their
\* answers: then discard refuses, close raises and the runner stays open.
CloseComplete ==
    phase \in {"closed", "broken"} =>
        Live = {} \/ (cause \in {"starting", "taking"} /\ phase = "broken" /\ requested # {})
=============================================================================
