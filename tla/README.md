# Verification of the edge simulator

TLA+ models, TLC runs and TLAPS proofs for the edge simulator: a Python SDK
that runs scenarios of edge computing and content delivery in worker processes
around SimGrid, and the learning code that drives it. The modules follow the
code under `src/packages` (and one script under `src/scripts`); paths below are
relative to `src/packages` unless they start with `docs` or `scripts`.

- [The system](#the-system)
- [Modules](#modules)
- [Runs](#runs)
- [Proofs](#proofs)
- [Findings](#findings)
- [What a crash can still spoil](#what-a-crash-can-still-spoil)
- [Not modelled](#not-modelled)
- [Plan](#plan)

## The system

A caller (a script, the command line or a learning environment) describes a
run as immutable data, starts one worker process for it, and drives it through
a synchronous RPC. The worker owns one SimGrid engine and one runtime: the
event-mode `Runtime` for workflows, or `ContentRuntime` for the windowed
content service. Many runs are driven at a time by a `BatchRunner`. The
learning code steps content runs as environments, one or a vector of them, and
has resumable pipelines that write checkpoints and reports.

```
learning pipelines (multiscale_bc.py, experiment.py, legacy_distill.py, pretrain.py)
   |  files: shards, checkpoints, reports, selections
environments (env.py, torch_env.py)
   |  begin / recv_ready / submit_many / discard
BatchRunner (sdk/batch.py) -- one Session per active run
   |  pipe: (operation, payload) -> (status, value)
Session (sdk/session.py)  <->  worker_main (simgrid/worker.py)
   |
Runtime (simgrid/runtime.py)   ContentRuntime (simgrid/content.py)
   |  activities, clock
SimGrid
```

| Component | State it keeps | Operations | What is hard |
| --- | --- | --- | --- |
| `ContentRuntime` (simgrid `content.py`) | requests and retries, scheduler queues and service slots, transfers, pools, replicas, reservations, pins, window counters | `advance_window`, `inspect`, `close`; inside, `_settle` with arrivals, expiry, scheduling, serving, eviction, admission, completion | everything that happens at one instant, and in which order; coalesced transfers with several waiters; bounded pools and storage; deadlines against completions; retries |
| `Runtime` (simgrid `runtime.py`, `resources.py`) | stages, replicas, transfers, memory and storage ledgers, the pending decision | `advance`, `apply`, `inspect`, `close`; inside, `settle` to a fixed point | pinning against eviction, storage deadlock, suspension, batches of commands, rollback of reservations |
| `Session` and `worker_main` | the pipe, `_pending` and its deadline, `_closed` | `__init__`, `_rpc`, `_send`, `_receive`, `close`; the worker's loop | a limit that races with a late answer, a worker that dies or hangs, an interrupted client, orphaned workers |
| `BatchRunner` (sdk `batch.py`) | queue, active sessions, requested runs, uncollected responses, results, errors | `submit`, `submit_many`, `submit_advance`, `submit_window`, `session`, `recv_ready`, `advance_all`, `run`, `cancel`, `discard`, `close` | slots, partial failure, readiness against deadlines, barriers over workers that hang |
| `SchedulingEnv` (learning `env.py`) | session, last snapshot, outcomes of attempts, originals counted | `reset`, `begin`, `step`, `drain`, `close` | reward once per original, snapshots that fit the controls, a drain limit that is late enough |
| `ContentBatchEnv` (learning `torch_env.py`) | an environment per slot over one runner | `_reset`, `_set_seed`, `_step`, `close` | reuse of an untouched session, partial resets, a wave that raises half way |
| Behaviour-cloning suite (learning `multiscale_bc.py`) | files: specifications, shards, manifests, checkpoints, reports, `selection.json`, `best.pt`, `status.json` | `run_suite`: rounds, collection, `fit_phase`, assessment, test, verdict | a crash between any two writes |
| Training and the resumable trial (`experiment.py`, `pretrain.py`, `legacy_distill.py`, `scripts/run_legacy_pretrain_trial.py`) | files: shards, `last.pt`, `initial.pt`, best files, reports, gate, `complete.json` | `collect`, `fit`, `train` with `RunLog`, the launcher | as above, with two children that fail alone |
| Models and validation (`models`) | none (immutable data) | construction | the graph check, references between parts |
| Platform, export, visualization, settings, command lines, scenario generator | none | formatting, I/O, random draws | nothing a state machine shows |

What makes each correct, in short: the content service loses no request,
counts each outcome once, gives every resource back exactly once and honours
limits, deadlines and order; a session answers every call with the answer to
that call or an error, in bounded time, and leaves no process; a batch uses
its slots, and every run submitted is accounted for until it is finished,
failed or cancelled; an environment counts each original once and never sees
another episode's session; a pipeline that was killed and started again ends
with the outcome of one that was not. The hazards behind each property are
listed, with their lines, in `PROJECT.json`.

## Modules

| Module | Code | Role |
| --- | --- | --- |
| `ContentService` | simgrid `content.py` | the runtime, one step per iteration of a loop of `_settle` |
| `RequestLedger` | the same, as a client sees it | abstract: the life of an original request |
| `SchedulingEnv` | learning `env.py`, `experiment.py` | an episode of a learner over `ContentService` (extends it) |
| `SessionRPC` | sdk `session.py`, simgrid `worker.py` | client, pipe and worker process |
| `RpcContract` | the same, as a caller sees it | abstract: one call at a time, each answered by its own answer or an error |
| `BatchRunner` | sdk `batch.py` | the runner over its sessions |
| `BatchContract` | the same, as a caller sees it | abstract: the life of a run |
| `VectorEnv` | learning `torch_env.py`, `env.py` | environments that step in waves over `BatchRunner` (extends it) |
| `EventRuntime` | simgrid `runtime.py`, `resources.py` | the event-mode runtime, one step per iteration of a loop of `settle` |
| `BcPipeline` | learning `multiscale_bc.py` | the behaviour-cloning suite, one step per write |
| `SelectionContract` | the same, as a reader of its results sees it | abstract: selection, test and verdict |
| `OnlineTraining` | learning `experiment.py`, `stability.py` | resumable training of one arm |
| `LegacyTrial` | `scripts/run_legacy_pretrain_trial.py`, learning `pretrain.py`, `legacy_distill.py` | the trial over its arms (extends `OnlineTraining`) |
| `WorkflowRules` | `models`, with the start rule of simgrid `runtime.py` | validation of a workflow, then what may start |
| `MC...` | | instances for TLC |
| `...Proofs` | | theorems about the module they are named after; `ContentServiceProofs` is also about `SchedulingEnv`, `BatchRunnerProofs` also about `VectorEnv` |
| `SequenceSets` | | lemmas on sequences without repetitions and the sets of their elements, and on least numbers, that several proofs need |

### ContentService

One variable per attribute of `ContentRuntime`, with the same name where there
is one (`queues`, `busy`, `active`, `waiting`, `replicas`, `reserved`, `pins`,
`fetch_counts`, `window_requests`, `direct_decisions`, `forward_targets`,
`retry_arrivals`); the fields of a request are functions over `Attempts`
(`status`, `arrival`, `cluster`, `cache`, `forwarded`, `request_transfer`). An
attempt is `<<original, attempt_index>>`, as the code names retries. A transfer
is named by what makes it unique: the fetch key of a backhaul, the request of a
delivery. `pc` names the loop of `_settle`, or the handler it has called, that
runs next, in the order of the code:

`collect` (remove completed transfers) - `succeed` (deliveries) - `expire`
(deadlines) - `land` (backhauls, with `ServeWaiter` for each live waiter) -
`release` and `schedule` (services; `serve` is the cache lookup of the attempt
in hand) - `arrive` and `retry` (with `place` for `_enqueue`) - `start` (heads
and queued transfers) - `wait` or `idle`.

A step is one iteration of one of these loops with every call it makes, so
`Finish` is the whole of `_finish`: outcome, retry, scheduler, transfer. What
happens at one instant is thus explored in the order the code fixes, and in
every order where it does not (sets, and completions SimGrid reports together).

Abstractions. The clock is an integer. SimGrid is the environment: at a wait
it may complete any set of started transfers, at any time up to the next date,
so every bandwidth, latency and contention is covered. Loads are not computed:
the `threshold` and `random` policies may forward or not, the least loaded
target is any other cluster, and any cache of the cluster may be chosen (the
round robin picks one of them). Link byte counters, bandwidth ratios and events
are left out. Unlimited pools are pools with limits no instance reaches.
Controls that `advance_window` refuses are refused before any state changes, so
they are guards. A transfer that overflows its pool is dropped by the code
right after it is made: the model rejects the attempt without making it, the
evictions made for it persisting as in the code.

Assumptions on the constants are what validation enforces (sizes and service
times positive, at least one cache per cluster, a deadline not before its
arrival, at least one active slot).

### SchedulingEnv

The learner around the service, as `experiment._evaluate_serial` runs it with
the logical reward. It knows nothing of the service but the snapshot of the
last answer (`last_view`, by `Inspect`, which is `ContentRuntime.inspect` with
its scopes): which requests it decides, what its observations look up, which
originals it counts (`settled`, `logical`) and when a drained episode is
complete are all computed from snapshots. Between `begin` and its answer every
step of the real service happens. The numbers in observations, the shaped
rewards and the learner itself are left out.

### SessionRPC

The client executes the lines of `__init__`, `_send`, `_receive` (apart or
together, as `_rpc` does) and `close` between blocking points (`client`), the
worker the loop of `worker_main`; `requests` and `replies` are the two
directions of the pipe. The environment may let the worker hang, die, raise an
error of the backend or find the pipe closed; time passes, so that a limit may
expire; the client may be interrupted (KeyboardInterrupt) while it sends, waits
or closes, and its process may end. `cut` records what an interruption cut
short. The messages of the code carry no number: the model numbers the calls,
and a reply names the call it was made for, so that the question whether a
reply was taken for another call's can be asked. Malformed answers (checked by
the client) are outside, as the worker of this repository sends none.

### BatchRunner and VectorEnv

One word per run says how its session stands (`none`, `idle`, `calling`,
`answered`, `dead`, `closed`); the lists of the runner are variables with
its names. Each public method is a sequence of steps at `pc`, so workers answer,
die or hang between any two of them. The order of dictionary scans is any
order; the overlapped boots of `submit_many` and the bounded close of a session
are one step each (their inside is `SessionRPC`).

`VectorEnv` calls these operations as `ContentBatchEnv` does: `_prepare_resets`
(an untouched session with the same key is used again, any other is
discarded), `submit_many`, `session(...)` for each, `reset` of each
environment; a wave of `begin` and `recv_ready`; `set_seed`; `close`. An
exception leaves the operation where it was raised (`cause`), and the caller
then closes, as the training loop's `finally` does. `carries` and `advanced`
are what the worker of a run simulates and how far it is: the answer to "whose
session is this".

### EventRuntime

Requests run workflows of stages; artifacts are global (an output is scoped by
its request), so `Inputs`, `Outputs`, `Dependencies` and `Deliverables` are the
tables `_build` makes. `stages` and `node` are the stage states, `replicas` the
keys of the dictionary of that name, `source` and `waiters` a transfer,
`execs` the stages with an activity (suspended ones included), `storage` and
`memory` the owners in a ledger; sizes are summed when they are needed.
`pending`, `wake`, `dirty`, `since` and `reason` are `pending`, `wake_s`,
`decision_dirty`, `changed_since_decision` and `finished_reason`.

`pc` goes through the loops in the order of the code: `reap` and `deliver`
until nothing changes, `expire`, `arrive`; then the passes of `_settle_active`
(`ready`, `data`, `dispatch`, `reap`, `deliver`), bounded by `MaxPasses`;
deadlines again and, if one has passed, the passes again; `collect`; and
`return`, from which `advance` answers or waits. `round` tells which of the two
uses of `reap`, `deliver` and `expire` runs. `_ensure_data` and the reservation
of outputs loop over artifacts, so a visit of a stage or a request is several
steps (`job` is the visit under way). `Finish` is the whole of
`_finish_request`: stages, transfers, ledgers and the collection at its end.

Abstractions. Time is abstract: a wait ends with any non-empty set of things
that may happen next (a transfer or a stage ends, an arrival, a deadline, the
end of a resume overhead, the defer date, the time limits), so every duration
and bandwidth is covered; `MaxTogether` bounds how many coincide. Policies and
plug-ins that order or choose may use any order and choice: a candidate for a
ready stage, a source of a transfer, the queue's order, the evictions (any set
that stops as soon as the artifact fits), the admission (`Votes`). Sizes of
zero and routes without latency are kept, since such a transfer completes
inside the call that starts it. Statistics, traces and views are left out.
Left out with them: the preemption plug-in (its suspensions are those of the
external policy), and a placement plug-in that answers with other commands
than placements of what it was offered, which `apply` would refuse by raising.
`PlaceAll` is guarded by what `apply` checks, so a built-in placement that
`apply` refuses would show as a TLC deadlock.

An observation rather than a finding: `_candidates` takes an artifact that has
no replica for possible, as it will be produced. An uncacheable output whose
only consumers cannot be reached from where it was made is collected at once;
then every eligible node looks possible, the consumer is placed, and the
request ends by its deadline or in the deadlock instead of being rejected for
want of a node.

### BcPipeline

`disk` is what survives the process, `mem` what it knows; a step is one write
of a file or one decision, and `Crash` may come between any two. Files that the
code writes through a temporary and `os.replace` change at once; `best.pt`
during its repair and `initial.pt` of a supplement are plain copies, torn while
they are written. A checkpoint is the sequence of the epochs that made it, so
that "the same training" can be stated; an evaluation is a report, any rank
with the conditions that failed, and a passing report ranks ahead of a failing
one, as the comparison key of the code has it. Evaluations are cached
(`cached_evaluate`), so each has one outcome for ever. The tolerance 1e-12 of
the gate, features, losses and confidence intervals are left out.

### OnlineTraining and LegacyTrial

`OnlineTraining` is `experiment.train` with the callback `RunLog`: batches, a
checkpoint after each, periodic evaluations in two modes, the file of the best
policy of each. `LegacyTrial` composes it with `pretrain.collect` (shards in
any order, recorded in job order), `legacy_distill.fit` and the launcher with
its gate and comparison. A crash takes the launcher and its children, and a
child may fail alone (`Fail`). `kl`, the validation divergences of the
distillation, is chosen at the start because fitting is deterministic. The
history variables `torn` and `gap` name the moments after which a crash can not
be recovered from, and the properties except exactly those. Small files that
the launcher writes again on every start are left out; `write_text` of a small
file is one step.

### WorkflowRules

A description (stages with dependencies, inputs, outputs) is read step by step
through `StageSpec.validate_lists`, the well-formedness and the Kahn loop of
`WorkflowSpec.validate_graph` (any ready stage may be popped), and the bindings
of `ScenarioSpec.validate_references`; an accepted scenario then runs by the
start rule of the runtime, which takes dependencies from `producer_stage` where
the validation took them from the outputs. Lists are sets and ids are unique,
which `validate_lists` and `require_unique` check first.

## Runs

All runs are exhaustive over their instance, and every property of a passing
run has a mutant of the code model that breaks it (`PROJECT.json`).

| Run | Instance | States | What it asks |
| --- | --- | --- | --- |
| `episode` | 2 clusters with a cache each, 3 requests, 2 artifacts that do not fit together, pools of one slot, no place to wait for a delivery, no coalescing, one retry; 2 windows of a learner with `direct` or `forward` control, then the drain | 193809 | do limits, caches, deadlines and the ledger of outcomes hold under eviction, contention and shared reservations; is anything idle; do snapshots fit the controls; is each original counted once; is the drain limit late enough |
| `clusters` | the same clusters, 5 requests of which one is due when it arrives, coalescing, storage for both artifacts in one cache only, two waiting places, retries without delay, `threshold` and `forward`, fair | 557463 | are pins, fetch counts and reservations exact, is anything overtaken, lost, counted twice, forwarded twice or rejected too early, is every original resolved |
| `rpc` | 3 calls, boot to close, every failure, fair | 4922 | does the RPC keep its contract, end its operations, and leave no worker |
| `rpc_interrupt` | the same | | violated: at most one operation outstanding, see Findings |
| `batch` | 3 runs, 2 workers or 1, every operation, fair | 349872 | do the books agree, do operations end, is every run accounted for and answered once; what does `run()` leave behind, also when it finds no session active |
| `batch_crash` | 3 runs, 2 workers | | violated: `run()` returns a result for every run, see Findings |
| `storage` | an edge node with storage 3, two stages of two inputs, a delivery to it and one from it, built-in policy, fair | 38680 | does each settle reach its fixed point, does the run end although stages evict one another's inputs |
| `external` | three nodes with one-way routes, five stages of three requests contending for a core, memory and storage, batches of up to two commands | 869501 | are the ledgers exact and within capacity, transfers sound, offered placements possible until made; do gathered inputs stay, and every artifact, produced ones included, in reach of those who need it |
| `bc` | 3 rounds of 2 epochs, each assessed, 2 shards per round, three reports (two pass), 2 crashes, fair | 53623 | is a resumed training the uninterrupted one, is the best model selected, is the contract of the selection kept, does the command end |
| `vector` | 2 environments, 2 seeds, 2 generations, 2 windows, any failure of a worker | 603787 | whose session and answer does an environment have, what does close leave behind |
| `trial` | 2 demonstrations, 2 epochs, 3 batches evaluated each, 2 scores, 3 crashes or failures, fair | 437561 | do best checkpoints survive, is anything finished done again, does the trial end |
| `rules` | every workflow of up to 3 stages and 2 artifacts, up to renaming | 21950 | is what is refused for a cycle circular, can what is accepted always go on |

Bounds. `MaxRetries` 1 is the smallest with a chain of attempts; `Horizon` is
not before the last deadline of the last retry, so that every request is
resolved in the instance; two artifacts that do not fit together force
evictions, one slot per pool forces queues, and arrivals and deadlines were
chosen so that completions, deadlines, services, arrivals and window ends meet
at one instant. `MaxCalls` 3 lets a late answer of one call meet the next, and
an orderly close follow. Three runs over two workers is the smallest batch with
a queue behind full slots; over one worker a crashed boot can also leave runs
queued with none active, which it cannot with two slots for three runs; so the
instance makes the runner with either (`MCBatchRunner`). In `storage` the edge
holds three of the five artifacts, so that each stage can gather its inputs but
not both, and the deadlock happens; `MaxTogether` 2 lets two completions
coincide. In `external` the commands of a batch meet in pairs (`MaxBatch` 2)
and events come one at a time; its other dimensions (an empty artifact, an
instant route, a stage that fits nowhere, an output out of the receiver's
reach) are there for the branches they reach; what its stages produce may be
evicted or collected wherever it lies, while each input of `storage` also has
an initial copy, which is pinned. In `bc` three rounds let a supplement follow
a supplement, and two crashes let the second hit the repair of the first. In
`vector` two seeds and two generations are enough for a run id to be met again
with another workload. In `trial` the arms share nothing but the launcher, so
one arm is enough, and three batches let a best policy be found, lost and found
again; three crashes let one fall into each phase. In `rules` three stages make
every shape of cycle, with a self-dependency refused before.

Fairness. `ContentService!FairSpec` assumes that the single-threaded loop keeps
running (`WF(Settle)`: a call of `advance_window` is executed to its end) and
that the client keeps asking for windows (`WF(Advance)`: `drain` and the tests
do); nothing is assumed of transfers, which may never end: deadlines resolve
their requests. `SessionRPC!FairSpec` assumes that the client executes its
lines and that time passes; nothing of the worker, except in `NoOrphan`, whose
antecedent says that the worker keeps running. `MCBatchRunner!MCSpec` assumes
that the runner executes and time passes; workers may hang for ever and the
caller may stop calling. `EventRuntime!FairSpec` assumes that the loop of
`advance` executes, that SimGrid ends one of the things it waits for, and that
the client of a built-in policy calls `advance`, as `run` does.
`BcPipeline!FairSpec` and `LegacyTrial!TrialSpec` assume that the command is
run again after a crash and goes on; crashes are bounded.

Deadlock is checked except in the runs of `SessionRPC`, `BatchRunner` and
`WorkflowRules`, which stop when client and worker have gone, the runner is
closed, or the verdict is reached. In the others an end is an explicit stutter
(`Closed`, `Done`, `Gone`, `Over`).

## Proofs

Every theorem holds for all values of the constants that meet the assumptions
of the module, hence for any number of requests, clusters, runs, stages or
crashes; TLC checks the same properties on the instances above. Each module
of proofs has one inductive invariant, or a chain of them where a later one
may use an earlier one; a counterexample of TLC to one of them was the quickest
way to the part that was missing.

### ContentService

`ContentServiceProofs` has three parts. The first is about types, limits and
what happens at one instant:

- `TypeCorrect`: `Spec => [](TypeOK /\ HandType /\ CountersNatural)`: the types,
  what a handler finds in hand, and counters that never fall below zero;
- `LimitsHold`: `Spec => []WithinLimits`, pools and queues within their limits;
- `ForwardedAtMostOnce`: `Spec => ForwardedOnce`;
- `RejectedOnlyWhenFullHolds`: `Spec => RejectedOnlyWhenFull`;
- `DeliveryTieWon`: `Spec => DeliveryWinsTie`.

`TypeOK` is not inductive: `RemoveTransfer` subtracts from pins and fetch
counts, which it types as integers, and the handlers apply functions to the
attempt in hand and to its cache. The inductive invariant therefore adds
`HandType`: `current` is an attempt whenever `pc` is at a handler that needs it,
its cache is chosen when it is served, and whoever waits for a transfer, has
landed or is about to be delivered has a cache. That the counters are natural
numbers follows from the third part, where they are cardinalities; the theorem
stands there. Each
helper (`RemoveTransfer`, `Conclude`, `LeaveScheduler`, `Admit`, `Deliver`,
`Enqueue`) has a lemma stating what it preserves; the step lemma has one case
per action. `LimitsHold` adds the arithmetic of `_admit`: at most as many
queued transfers start as there are free slots.

The two properties of one instant rest on two invariants. `Emptied`: outside
the first loop no completed transfer is left, outside the first two no
delivered attempt. `NoneOver`: from `schedule` on no service is over, because
all those that were have been released and one that starts now takes time
(`ServiceTime` is positive, as the models require). No attempt changes its
status in the first loop, and in the second only to `SUCCEEDED`, as a success
schedules no retry.

The second part is about attempts:

- `AttemptsHeldOnce`: `Spec => []HeldOnce`;
- `AttemptsAreSound`: `Spec => []AttemptsSound`;
- `ReportsExact`: `Spec => []ReportExact`;
- `RuntimeKeepsLedger`: `Spec => KeepsLedger`, the refinement of
  `RequestLedger`;
- `WorkIsConserved`: `Spec => []WorkConserving`.

Where an attempt is held (`HoldInv`: queue, service slot, transfer, or the
runtime's hand) and when it lives (`AttemptInv`: arrived, not ended, its chain
of attempts without gaps) need each other and are proved together. An arrival
adds a holder, which is the only one because an attempt that has not arrived
is not live; an ending removes the holder, which is there because what is live
is held. From the two follow deadlines and decisions (`Ahead`, `Directed`).
`StepsOfAttempts` then says what a step can do to the attempts at all: nothing,
an arrival, a move, an ending with or without a retry. Counters, reports and the
refinement need only this list. For the refinement the last attempt of an
original is the one that gives its state in the ledger; a retry is one step in
both, because `_finish` books the next attempt in the same call.

The third part is about transfers and caches:

- `CountersAreExact`: `Spec => []CountersExact`;
- `NobodyOvertakes`: `Spec => NoOvertaking`;
- `CachesAreSound`: `Spec => []CacheSound`.

`StepsOfTransfers` sums up the actions: a step leaves transfers alone, ends
one, adds one (queued or started), or starts queued ones. The counters are
cardinalities of sets of transfers, so each of the four is an argument about
one element. For the pools, `Lining` says that a queued transfer is unfinished,
waits in its own pool, and waits there once; so one that starts was ahead of
all that stay. `StockInv` is what bounds a cache: who waits for a backhaul, or
has waited for one that landed, wants what it brings where it goes; replicas
are listed once; what is about to be delivered is stored; what is stored and
reserved fits. The loop of evictions in `_reserve` only removes what is not
pinned, and ends with room or with a rejection; a reservation shared by fetches
of one artifact is counted once.

### SchedulingEnv

In `ContentServiceProofs`, on top of all that:

- `EpisodesAreRuns`: `EnvSpec => Spec`;
- `ControlsFit`: `EnvSpec => []ControlFits`;
- `OriginalsCountedOnce`: `EnvSpec => []CountedOnce`;
- `DrainsComplete`: `EnvSpec => []DrainComplete`;

for every workload, platform, method, number of cycles and length of a window.

The first says that the environment is one of the clients the service was
proved for, so that every theorem about `Spec` holds in an episode. Not every
call is obviously one the service accepts: a window must have a length the
service takes and end after the clock. `Ticking` (the clock and the
end of the window) and `Paced` (which window the caller is in, and that the
drain has not come to its limit) give that.

`ControlFits` follows from `Shown`: while the caller has the answer, its
snapshot is the state of the service. For the direct method the service has to
show the requests in service, too, which it does for a window release.

`CountedOnce` needs what happens between two answers. `Told`: the outcomes the
learner knows are those of attempts that have ended, and those that ended in
the running window are in the window's own report (`changed`). `Tallied`: the
two counters are the numbers of attempts told that succeeded, or failed as the
last allowed. An outcome is final (`OutcomesStay`) and an original is resolved
by one attempt only (`ResolvedByOne`: whatever has an attempt after it failed
with retries left), so attempts may be counted for originals.

`DrainComplete` is about time. `Timely`: nothing that is still to arrive is
overdue, and retries arrive in the order they are listed. `InBound`: attempt `k`
of an original arrives at most `k` deadlines and retry delays after it. So when the
limit that `drain` computes has passed, every attempt has (`LimitResolves`):
live attempts are ahead of their deadline, which is before the limit. When
everything is resolved the attempts of an original are a row of failures up to
a last one, each arriving when the one before had ended and waited
(`TriedInRow`), and the sum that `retry_records` makes of them telescopes. The
sum is a recursive function: `ServiceTimesAre` shows by the least counterexample
that it has one solution, and `Recorded` gives it.

These proofs use two facts about the constants that the module now states: the
deadline of a scenario is positive (`scenario.py:40`), and the windows the
environment asks for are among those clients may ask for.

### SessionRPC

`SessionKeepsContract`, `Spec => KeepsContract`, for
any number of calls. The invariant says that, while the session is open and no
transmission was cut, the pending call is in one place at most (in the pipe,
with the worker, or in a reply) and nothing else is under way; so a reply that
is taken is that of the pending call, and every step maps to a step of
`RpcContract` or a stutter. After a cut the invariant is lost, which is what
`rpc_interrupt` shows.

### BatchRunner

- `BooksHold`: `Spec => []BooksAgree`;
- `RunDrainsHolds`: `Spec => []RunDrains`, what `run()` has drained when it
  returns;
- `RunnerKeepsContract`: `Spec => KeepsContract`, the refinement of
  `BatchContract`.

`RunnerInv` has these parts beside the types and the bound on the slots:
`Places` (a known run is in exactly one of the runner's lists, but for a run
that a boot has lost), `Calls` (the sessions of the requested runs are in a
call or have an answer that nobody has read, and no others are) and `Control`
(what each `pc` still has to do, for instance that a barrier waits for its
targets only, that the runs it has still to ask are active, and that `run()`
ends with an empty queue unless it found no session active). `Filled` says why
runs can be queued beside a free slot between operations: only after a boot has
crashed, as every operation that frees a slot ends in `_fill`. The queues are
sequences without duplicates whose members are what matters; `SequenceSets` has
the lemmas. For the refinement the mapped state of a run is computed from the
lists, so the proof shows for each action which lists change and that a report
is appended exactly when a result or a failure is.

This proof found an error of the model. `submit_many` boots as many queued runs
at a time as slots are free, and a run whose boot has ended may have a request
that was made while it was queued: it is sent as soon as the boots are over,
and may fail, while other runs are still in the queue. The model sent it only
after the last boot. Five runs are needed to tell the two apart, two more than
in the run `batch`; the model now follows the code.

### VectorEnv

In `BatchRunnerProofs`:

- `VectorInvariant`: `VectorSpec => [](RunnerInv /\ VectorInv)`;
- `EpisodesSound`: `VectorSpec => []EpisodeSound`;
- `WavesExact`: `VectorSpec => []WaveExact`;
- `ClosesComplete`: `VectorSpec => []CloseComplete`;

for any number of slots, generations, cycles and workers. The steps of the
vector environment are not all steps of `BatchRunner!Next` (several may be made
in one call, and workers learn what they simulate), so the invariant of the
runner is proved again for them, operation by operation, from the runner's own
lemmas. Beside it there are `RunnerUse` (which operation of the runner the
caller is in at each phase), `Requests` (who may still owe an answer, also
after an exception), `RunsKnown` (the runner knows the runs of the slots and no
others), `EpisodesKnown` (each slot's session carries the slot's episode, or
the one it is about to enter, at each point of a reset) and `WaveKnown` (who is
still to be stepped). An exception keeps only the first two, which is all that
`close` needs.

### EventRuntime

- `LedgersHold`: `Spec => []LedgersSound`;
- `TransfersAreSound`: `Spec => []TransfersSound`;
- `InputsKept`: `Spec => InputsStay`;
- `OffersKept`: `Spec => OffersStand`;
- `NothingIsLeft`: `Spec => []NothingLeft`;

for every workflow, platform, placement of the initial artifacts and policy
that the model admits. The module is a chain of six invariants.

`ControlInv` is about the control alone: the life of requests and stages
(`Lived`), which stages have an activity (`Executing`), what the visit under way
is about (`Visiting`), and that the commands left of a batch do not concern one
another (`Batched`). `StepKinds` then lists what a step can do: end a request,
reap, take an arrival, make a stage ready, place stages, let one gather its
inputs, start, suspend or resume, wait, collect, close, or one of the four
things a visit does to an artifact. Every later invariant has one case per kind
instead of one per action.

`DataInv` is about transfers. `Spared` says what an eviction or a collection
leaves: sources that are read, replicas on a node that needs them, and for each
artifact some replica for every destination that one could reach before; the
rules of `_pin` imply it, and it is all that the rest uses of them. The second
half of `InputsStay`, `SourcesStay`, is the part of it a reader needs. `Made`
(no copy of an output exists before its stage has succeeded) and `Found` (what
a visit has found stays where it found it until the visit ends) make
`TransfersSound` inductive.

`InputInv` adds `Near`, that what a stage still waits for has a copy in reach
if there is any, and `Offered`: a placement left in a batch is still possible. Only
the production or the loss of a copy changes the candidates of a stage; a
stage is offered once its inputs are made, and `Spared` keeps a copy in reach.

`LedgerInv` adds `Reserved`: the outputs a visit has not reached, or found no
room for, are not held by the stage. With it an artifact is in a node's ledger
exactly when it is stored there, being transferred there, an output of a stage
with an activity there, or taken by the visit under way (`Holds`); the proof
shows for each kind of step that the two sides change by the same elements.
What is within capacity follows from the checks of `_reserve_data` and
`_dispatch`, as a sum is bounded by counting units.

`Grounds` says what the passes of `settle` rest on. A stage that is ready has
somewhere to run, an active request that only delivers content has a copy in
reach, and the initial copies are never lost (`Admitted`); and the loops follow
one another as they should: what was placed, what has landed and what has ended
is gone by the loop that must not find it (`Looping`).

`PassInv` says what a pass has settled for the stages and requests it has been
through (`SeenReady`, `SeenData`, `SeenQueue`, `SeenRequest`): a stage is ready
if it can be (`Readied`), some artifact that is waited for will not be found
(`Stuck`), the outputs of a queued stage have no room (`Tight`), and no
transfer can be started (`Dry`). The argument is that nothing a pass does after
it has seen a stage makes anything possible for that stage (`Quiet`). What is
free on a node does grow, as visits evict replicas; but what a node stores for
good (`Kept`: neither evictable nor taken for a stage that may still be rolled
back) never shrinks, and whether `_reserve_data` can make room depends on that
alone. Only a stage that succeeds at once
makes more possible, so `Counted` bounds the passes: each pass but the first
and the last two ends with one more succeeded stage than the one before. A pass
that changed something therefore has another after it, `MaxPasses` (the bound in
`_settle_active`) is never what ends a settle, and the last pass leaves a state
in which nothing can go on (`Still`). The deadline check, the collection and
the return keep it until the runtime sleeps.

The proofs need two assumptions that the models enforce. The initial artifacts
fit the nodes they are on (`OriginsAssumption`;
`models/src/edge_sim_models/__init__.py:242-249` raises "initial artifacts exceed
storage capacity"). And a request delivers what its stages make and none of them
reads, or, without stages, something that no stage makes: a conjunct of
`WorkflowAssumption`, which is how `_build` (`runtime.py:86-115`) derives the
deliverables from a job.

### BcPipeline

- `SelectionKept`: `Spec => KeepsContract`, the refinement of
  `SelectionContract`;
- `TrainingResumes`: `Spec => []ResumeExact`;
- `BestHandedOver`: `Spec => []BestOfAll`;

for every number of rounds, epochs, data files and crashes and all possible
reports, as long as every round assesses a checkpoint (`run_suite` does). The
invariant `SuiteInv` says where a run can be
(`Place`: rounds are frozen in order, and the one worked on is), that every
checkpoint this process has been through was assessed and does not rank ahead
of the selected one, since the process repeats the assessments of the
checkpoints before it (`Assessed`), and that checkpoints are saved before
anything refers to them (`Saved`). Once the test is open the second part covers
all rounds, so that an improvement, which would contradict it, can no longer be
selected.

The other two need `ResumeInv`: each file on disk is what the
uninterrupted training would have there, up to the write that was cut, and what
the process has in memory is what the files say. That a supplement starts
from the best of all checkpoints due before it is shown by the least
counterexample: the first checkpoint that ranks ahead of the selected one would
have been assessed by this process and selected.

### LegacyTrial

- `BestPoliciesKept`: `TrialSpec => []BestKept`;
- `NothingIsRepeated`: `TrialSpec => NothingRepeated`;

for any number of arms, batches, epochs, crashes and failures of a child, and
all possible scores and divergences. `ArmInv` relates what an arm has on disk
to what its process knows, separately for each arm, since arms share nothing:
`Ordered` (the process is where its last checkpoint says or one batch ahead,
and no report is of a batch without a checkpoint, so that none is written
twice) and, for each kind of best policy that was not torn, `Selected` (the
file holds the greatest report unless it is about to be written; the process
knows that score; and outside a selection the last checkpoint does, too). The
last part is what makes a resume sound: the code trusts a best file only when
its score is the one in `last.pt`. A step of an arm is an update of one disk
and one memory, so the lemmas are about pairs of records and a crash is one
lemma for all arms. `StudentInv` says the same of the distillation, whose
checkpoint holds the least divergence so far, and that the student that was
judged cannot change any more.

### WorkflowRules

`VerdictCorrect`, `Spec => []VerdictExact`, for
any sets of stages and artifacts. The loop invariant of `validate_graph` says
what is left in `dependencies` of a stage (its edges less the stages popped),
that a stage is ready exactly when it was not popped and nothing is left, and
that popped stages are counted. If the loop ends early, the stages not popped
each wait for another of them, which is the circle; if it ends with all popped,
they were popped in an order that respects the edges, so of those that have not
run the first can start.

### Only model-checked

- Every liveness property (`EventuallyResolved`, `OperationsEnd`, `NoOrphan`,
  `RunEnds`, `Finishes`): they rest on fairness, hence on ENABLED, which this
  version of TLAPS does not reason about.
- Induction over data: what a recursive definition computes over all inputs.
  The proofs use cardinalities and least elements instead.

## Findings

- `rpc_interrupt`: the guard of `_send` promises "Only one outstanding RPC is
  allowed per session". When the client is interrupted while it sends, the
  request may be in the pipe although the session is not marked as having one
  outstanding; the next call sends a second request while the worker still
  executes the first.
- `batch_crash`: the runner promises to drain its queue of runs. A boot that
  raises an error that is not an SDK error escapes `_fill` after the run has
  left the queue; no list names the run any more and no result is ever given
  for it. With one worker (or more runs) the healthy runs behind it stay in
  the queue beside a free slot, and `run()`, whose loop goes on while a session
  is active, returns at once: no error, and none of them has run. (Any later
  operation that fills, such as `cancel` or `discard`, would start them.)
  `RunDrains`, checked by `batch` and proved, says exactly what `run()` does keep.

## What a crash can still spoil

The pipelines were found to resume exactly but for these windows, which the
properties except by name. They are windows of a few writes, and a rerun fails
loudly rather than going on with wrong data, except where noted.

- `BcPipeline`: a crash inside `shutil.copyfile` leaves a torn `initial.pt`
  that every rerun refuses; the directory has to be removed by hand. A shard
  written again after a crash differs from the first, but it was not recorded,
  so nothing is lost.
- `OnlineTraining`: `last.pt` is written before `initial.pt`; a crash between
  them leaves a run that resumes and never writes `initial.pt`, which the
  comparison needs. The batch that uses up the budget is saved before its
  evaluation; a crash there leaves an arm that is taken for complete but has no
  final report. A crash between a best file and `last.pt` loses the remembered
  score (the two files disagree, so that the resumed run selects from nothing):
  the next evaluation, however bad, replaces the selected policy. This one is
  silent, and against "Both scores and both available selected checkpoints
  survive resume" (`docs/deppo.md:109-110`); `BestKept` excepts it by name
  (`torn`), and without that exception TLC finds it in the run `trial`.
- `LegacyTrial`: the distillation writes `last.pt` before `best.pt`; a crash
  between them at epoch 0 leaves a run without `best.pt`, at a later epoch one
  whose `best.pt` is older than `last.pt` says.

## Not modelled

- Platform conversion, export, visualization, settings and the command lines
  are formatting and I/O over finished data.
- The scenario generator is a random draw from a seed; networks, losses,
  features, statistics and benchmarks are numerical.
- `run_legacy_mixed_load_trial.py`, the queue supervisor and the other scripts:
  drivers that run the same parts once and write reports; nothing in them
  resumes but what `OnlineTraining` models.
- The preemption plug-in of the event runtime, and a placement plug-in whose
  commands `apply` refuses: the exception leaves `settle` half way and the
  runtime's own decision pending; listed as a hazard.
- Exceptions that recur on every start of a pipeline (a loss that is not finite,
  a drain that is not complete): `Crash` and `Fail` cover an exception as an end
  of the process that the next start does not meet again.
- Float arithmetic of the clock: a date that does not advance it would make the
  content loop spin; listed as a hazard.
- The single-environment TorchRL transform, and rewards other than the logical.

## Plan

The models are complete but for the parts named above, and every safety
invariant of the passing runs is a theorem. What is left is the preemption
plug-in of the event runtime as a further policy.
