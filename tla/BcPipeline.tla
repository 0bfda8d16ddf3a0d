------------------------------ MODULE BcPipeline ------------------------------
(***************************************************************************)
(* The resumable behaviour-cloning suite (multiscale_bc.run_suite): rounds *)
(* of data collection and supervised training, closed-loop assessment of   *)
(* scheduled checkpoints, selection of the best one, a held-out test and a *)
(* verdict.                                                                *)
(*                                                                         *)
(* The process may end between any two writes, by a crash or an exception, *)
(* and "the same command" is then run again on the same directory.  One    *)
(* step is one write of a file (or a decision); `disk` is what survives,   *)
(* `mem` what the process knows.  Files written through a temporary and    *)
(* os.replace change at once; shutil.copyfile leaves a torn file while it  *)
(* runs.  Reports are cached on disk, so an evaluation has one outcome.    *)
(***************************************************************************)
EXTENDS Integers, FiniteSets, Sequences, SequencesExt

CONSTANTS
    Conditions,     \* the scenarios a model must pass
    Reports,        \* possible comparisons with the baselines: [rank, failed]
    Rounds,         \* the first training round and the supplements
    Epochs,         \* per round
    Interval,       \* epochs between assessed checkpoints
    Rows,           \* data files per round; the last one of a supplement is
                    \* labelled on the trajectory of the initial model (dagger)
    MaxCrashes,     \* bound on crashes
    Torn,           \* the content of a file whose copy was interrupted
    None

\* Every round assesses some checkpoint (run_suite: 30 or 20 epochs and 10).
ASSUME CountsAssumption ==
    /\ Rounds \in Nat \ {0} /\ Epochs \in Nat \ {0}
    /\ Interval \in 1 .. Epochs /\ Rows \in Nat \ {0} /\ MaxCrashes \in Nat
ASSUME ReportsAssumption ==
    /\ Reports \subseteq [rank : Nat, failed : SUBSET Conditions]
    /\ \A p, q \in Reports : p.failed = {} /\ q.failed # {} => p.rank < q.rank

RoundIds == 0 .. Rounds - 1
Scheduled == {e \in 1 .. Epochs : e % Interval = 0}
Tags == RoundIds \X Scheduled       \* one per assessed checkpoint
Passed(report) == report.failed = {}

\* Model weights, as the training that made them: epochs of rounds in order.
Weights == Seq(RoundIds \X (1 .. Epochs))

\* None and Torn are no content a reader could take for one.
ASSUME TokensAssumption ==
    /\ None # Torn /\ None \notin Weights /\ None \notin Reports
    /\ None \notin [epoch : 0 .. Epochs, weights : Weights]
    /\ \A S \in SUBSET Conditions : None # S
    /\ \A t \in Tags, p \in Reports : None # [tag |-> t, report |-> p]

VARIABLES disk, mem, pc, crashes
vars == <<disk, mem, pc, crashes>>

-----------------------------------------------------------------------------
\* What the disk holds of a finished or unfinished run.
Fresh ==
    [teachers |-> None,                             \* conditions a teacher passes
     roundSpec |-> [r \in RoundIds |-> None],       \* frozen conditions
     initial |-> [r \in RoundIds |-> None],         \* initial.pt
     shards |-> [r \in RoundIds |-> [i \in 1 .. Rows |-> 0]],  \* content hashes
     manifest |-> [r \in RoundIds |-> <<>>],        \* hashes recorded
     config |-> [r \in RoundIds |-> None],          \* frozen training config
     last |-> [r \in RoundIds |-> None],            \* last.pt
     saved |-> [t \in Tags |-> None],               \* epoch-k.pt
     metrics |-> [r \in RoundIds |-> <<>>],         \* metrics.json
     report |-> [t \in Tags |-> None],              \* cached validation reports
     best |-> None,                                 \* best.pt
     selection |-> None,                            \* selection.json
     tested |-> None,                               \* test-selection.json
     test |-> None,                                 \* cached test report
     status |-> None]                               \* status.json

Idle == [round |-> 0, data |-> <<>>, ready |-> {}, epoch |-> 0, check |-> 0,
         weights |-> <<>>, rows |-> <<>>]

Init == disk = Fresh /\ mem = Idle /\ pc = "down" /\ crashes = 0

Goto(l) == pc' = l /\ UNCHANGED crashes
\* A raised exception ends the process as a crash does.
Refuse == Goto("refused") /\ mem' = Idle /\ UNCHANGED disk

\* freeze_spec: the first value is kept, a different one is refused later.
Frozen(old, new) == old \in {None, new}

\* cached_evaluate: an evaluation that has a result is not run again.
Cached(old, result) == old # None => result = old

Chosen == disk.selection.tag
\* The selected checkpoint's file and its copy best.pt.
BestIsSelected == disk.best = disk.saved[Chosen]

-----------------------------------------------------------------------------
(***************************************************************************)
(* run_suite up to the rounds                                              *)
(***************************************************************************)
\* Teachers and baselines are evaluated and chosen, once for all runs.
Boot ==
    /\ pc \in {"down", "refused"} /\ disk.status = None
    /\ \E ok \in SUBSET Conditions :
          /\ Frozen(disk.teachers, ok)
          /\ disk' = [disk EXCEPT !.teachers = ok]
    /\ Goto("repair") /\ UNCHANGED mem

\* best.pt and selection.json are two files: after a crash between their writes
\* best.pt is restored from the checkpoint the selection names.
Repair ==
    /\ pc = "repair"
    /\ IF disk.selection # None /\ ~BestIsSelected
       THEN disk' = [disk EXCEPT !.best = Torn] /\ Goto("repairing")
       ELSE Goto("round") /\ UNCHANGED disk
    /\ UNCHANGED mem
Repaired ==
    /\ pc = "repairing"
    /\ disk' = [disk EXCEPT !.best = disk.saved[Chosen]]
    /\ Goto("round") /\ UNCHANGED mem

-----------------------------------------------------------------------------
(***************************************************************************)
(* A round                                                                 *)
(***************************************************************************)
StartRound(conditions) ==
    /\ disk' = [disk EXCEPT !.roundSpec[mem.round] = conditions]
    /\ Goto("initial")

\* A frozen round goes on; else the selected model's report decides.
EnterRound ==
    /\ pc = "round" /\ mem.round < Rounds
    /\ \/ /\ disk.roundSpec[mem.round] # None
          /\ Goto("initial") /\ UNCHANGED disk
       \/ /\ disk.roundSpec[mem.round] = None /\ mem.round = 0
          /\ StartRound(Conditions)
       \/ /\ disk.roundSpec[mem.round] = None /\ mem.round > 0
          /\ ~Passed(disk.selection.report)
          /\ IF disk.selection.report.failed \subseteq disk.teachers
             THEN StartRound(disk.selection.report.failed)
             ELSE Goto("notready") /\ UNCHANGED disk
    /\ UNCHANGED mem

LeaveRounds ==
    /\ pc = "round"
    /\ \/ mem.round = Rounds
       \/ /\ mem.round \in 1 .. Rounds - 1 /\ disk.roundSpec[mem.round] = None
          /\ Passed(disk.selection.report)
    /\ Goto("verdict") /\ UNCHANGED <<disk, mem>>

\* The initial model of a supplement is a plain copy of best.pt.
CopyInitial ==
    /\ pc = "initial"
    /\ IF mem.round = 0 \/ disk.initial[mem.round] # None
       THEN Goto("collect") /\ UNCHANGED disk
       ELSE disk' = [disk EXCEPT !.initial[mem.round] = Torn] /\ Goto("copying")
    /\ UNCHANGED mem
CopiedInitial ==
    /\ pc = "copying"
    /\ disk' = [disk EXCEPT !.initial[mem.round] = disk.best]
    /\ Goto("collect") /\ UNCHANGED mem

Recorded == Len(disk.manifest[mem.round])
Dagger(i) == mem.round > 0 /\ i = Rows
\* Collecting a file again gives it another content (it holds wall times).
Other(hash) == IF hash = 1 THEN 2 ELSE 1

AllPending(i) == TRUE \* variant
Pending(i) == i > Recorded

\* A worker has written a file the manifest does not list yet.
SaveShard(i) ==
    /\ pc = "collect" /\ Pending(i) /\ i \notin mem.ready
    /\ Dagger(i) => disk.initial[mem.round] # Torn
    /\ disk' = [disk EXCEPT !.shards[mem.round][i] = Other(@)]
    /\ mem' = [mem EXCEPT !.ready = @ \cup {i}]
    /\ Goto("collect")
\* Results are recorded in the order of the jobs.
RecordShard ==
    /\ pc = "collect" /\ Recorded + 1 \in mem.ready
    /\ disk' = [disk EXCEPT !.manifest[mem.round] =
                    Append(@, disk.shards[mem.round][Recorded + 1])]
    /\ Goto("collect") /\ UNCHANGED mem
\* collect_jobs verifies what it resumes from; torch.load refuses a torn file.
DataUsable ==
    /\ \A i \in 1 .. Recorded :
          disk.manifest[mem.round][i] = disk.shards[mem.round][i]
    /\ Recorded < Rows /\ Dagger(Rows) => disk.initial[mem.round] # Torn
RefuseData == pc = "collect" /\ ~DataUsable /\ Refuse
Collected ==
    /\ pc = "collect" /\ Recorded = Rows
    /\ mem' = [mem EXCEPT !.data = @ \o disk.manifest[mem.round], !.ready = {}]
    /\ Goto("fit") /\ UNCHANGED disk

-----------------------------------------------------------------------------
(***************************************************************************)
(* fit_phase                                                               *)
(***************************************************************************)
\* Where training starts: last.pt, the initial model, or random weights.
Start ==
    CASE disk.last[mem.round] # None -> disk.last[mem.round]
      [] disk.last[mem.round] = None /\ mem.round > 0 ->
            [epoch |-> 0, weights |-> disk.initial[mem.round]]
      [] OTHER -> [epoch |-> 0, weights |-> <<>>]
AllRows(rows, epoch) == rows \* variant
\* The rows of the first epochs (SelectSeq takes a LAMBDA, which the provers
\* cannot expand).
RowsUpTo(rows, epoch) ==
    LET kept[i \in 0 .. Len(rows)] ==
            IF i = 0 THEN <<>>
            ELSE IF rows[i] <= epoch THEN Append(kept[i - 1], rows[i]) ELSE kept[i - 1]
    IN  kept[Len(rows)]

Config == [data |-> mem.data, initial |-> disk.initial[mem.round]]
\* freeze_spec and the load of the initial model before the first batch.  They
\* never refuse here: a frozen configuration never differs and the shards read a
\* torn model first.  A refused fit would be a deadlock of the run.
FitAllowed ==
    /\ Frozen(disk.config[mem.round], Config)
    /\ disk.initial[mem.round] # Torn

\* The first assessment to repeat.
FirstCheckAfter(epoch) == Interval * (epoch \div Interval + 1) \* variant
FirstCheck(epoch) == Interval

BeginFit ==
    /\ pc = "fit" /\ FitAllowed
    /\ disk' = [disk EXCEPT !.config[mem.round] = Config,
                            !.last[mem.round] = Start]
    /\ mem' = [mem EXCEPT !.epoch = Start.epoch, !.weights = Start.weights,
                          !.check = FirstCheck(Start.epoch),
                          !.rows = RowsUpTo(disk.metrics[mem.round], Start.epoch)]
    /\ Goto("epoch")

\* Interrupted assessments come before further updates.
Overdue == mem.check <= mem.epoch
MoreEpochs(epoch) == epoch < Epochs
TrainEpoch ==
    /\ pc = "epoch" /\ ~Overdue /\ MoreEpochs(mem.epoch)
    /\ mem' = [mem EXCEPT !.epoch = @ + 1,
                          !.weights = Append(@, <<mem.round, mem.epoch + 1>>),
                          !.rows = Append(@, mem.epoch + 1)]
    /\ Goto("save") /\ UNCHANGED disk
SaveEpoch ==
    /\ pc = "save"
    /\ disk' = IF mem.epoch \in Scheduled
               THEN [disk EXCEPT !.saved[<<mem.round, mem.epoch>>] = mem.weights]
               ELSE disk
    /\ Goto("metrics") /\ UNCHANGED mem
SaveMetrics ==
    /\ pc = "metrics"
    /\ disk' = [disk EXCEPT !.metrics[mem.round] = mem.rows]
    /\ Goto("last") /\ UNCHANGED mem
SaveLast ==
    /\ pc = "last"
    /\ disk' = [disk EXCEPT !.last[mem.round] =
                    [epoch |-> mem.epoch, weights |-> mem.weights]]
    /\ Goto("epoch") /\ UNCHANGED mem

NextRound ==
    /\ pc = "epoch" /\ ~Overdue /\ ~MoreEpochs(mem.epoch)
    /\ mem' = [mem EXCEPT !.round = @ + 1]
    /\ Goto("round") /\ UNCHANGED disk

-----------------------------------------------------------------------------
(***************************************************************************)
(* assess                                                                  *)
(***************************************************************************)
Tag == <<mem.round, mem.check>>
ImprovesOrTies(report) == \* variant
    disk.selection # None => report.rank <= disk.selection.report.rank

Improves(report) ==
    disk.selection # None => report.rank < disk.selection.report.rank

Compare ==
    /\ pc = "epoch" /\ Overdue
    /\ \E p \in Reports :
          /\ Cached(disk.report[Tag], p)
          /\ disk' = [disk EXCEPT !.report[Tag] = p]
    /\ Goto("assess") /\ UNCHANGED mem
NextCheck == mem' = [mem EXCEPT !.check = @ + Interval]
KeepSelection ==
    /\ pc = "assess" /\ ~Improves(disk.report[Tag])
    /\ Goto("epoch") /\ NextCheck /\ UNCHANGED disk
ReplaceBest ==
    /\ pc = "assess" /\ Improves(disk.report[Tag])
    /\ disk' = [disk EXCEPT !.best = disk.saved[Tag]]
    /\ Goto("select") /\ UNCHANGED mem
Select ==
    /\ pc = "select"
    /\ disk' = [disk EXCEPT !.selection = [tag |-> Tag, report |-> disk.report[Tag]]]
    /\ Goto("epoch") /\ NextCheck

-----------------------------------------------------------------------------
(***************************************************************************)
(* The verdict                                                             *)
(***************************************************************************)
Publish(status) ==
    /\ disk' = [disk EXCEPT !.status = status]
    /\ Goto("down") /\ mem' = Idle

NotReady ==
    /\ \/ pc = "notready"
       \/ pc = "verdict" /\ ~Passed(disk.selection.report)
    /\ Publish("base-not-ready")
FreezeTest ==
    /\ pc = "verdict" /\ Passed(disk.selection.report)
    /\ IF Frozen(disk.tested, disk.best)
       THEN disk' = [disk EXCEPT !.tested = disk.best] /\ Goto("test") /\ UNCHANGED mem
       ELSE Refuse
Test ==
    /\ pc = "test"
    /\ \E p \in Reports :
          Cached(disk.test, p) /\ disk' = [disk EXCEPT !.test = p]
    /\ Goto("publish") /\ UNCHANGED mem
Verdict ==
    /\ pc = "publish"
    /\ Publish(IF Passed(disk.test) THEN "base-ready" ELSE "base-not-ready")

Crash ==
    /\ pc \notin {"down", "refused"} /\ crashes < MaxCrashes
    /\ crashes' = crashes + 1 /\ pc' = "down" /\ mem' = Idle
    /\ UNCHANGED disk

Collect == (\E i \in 1 .. Rows : SaveShard(i)) \/ RecordShard \/ RefuseData \/ Collected
Round == EnterRound \/ LeaveRounds \/ CopyInitial \/ CopiedInitial \/ NextRound
Fit == BeginFit \/ TrainEpoch \/ SaveEpoch \/ SaveMetrics \/ SaveLast
Assess == Compare \/ KeepSelection \/ ReplaceBest \/ Select
Conclude == NotReady \/ FreezeTest \/ Test \/ Verdict
Work == Boot \/ Repair \/ Repaired \/ Round \/ Collect \/ Fit \/ Assess \/ Conclude
Done == disk.status # None /\ pc = "down" /\ UNCHANGED vars
Next == Work \/ Crash \/ Done

Spec == Init /\ [][Next]_vars
\* The command is run until it has published a status.
FairSpec == Spec /\ WF_vars(Work)

-----------------------------------------------------------------------------
(***************************************************************************)
(* Properties                                                              *)
(***************************************************************************)
States == {"down", "refused", "repair", "repairing", "round", "initial", "copying",
           "collect", "fit", "epoch", "save", "metrics", "last", "assess", "select",
           "notready", "verdict", "test", "publish"}
Hashes == 0 .. 2

\* The files of the run hold what their readers expect (freeze_spec, atomic_save,
\* write_json), and the process is at one of its writes.
TypeOK ==
    /\ disk.teachers = None \/ disk.teachers \subseteq Conditions
    /\ \A r \in RoundIds :
          /\ disk.roundSpec[r] = None \/ disk.roundSpec[r] \subseteq Conditions
          /\ disk.shards[r] \in [1 .. Rows -> Hashes]
          /\ Len(disk.manifest[r]) <= Rows
          /\ disk.last[r] # None => disk.last[r].epoch \in 0 .. Epochs
    /\ \A t \in Tags : disk.report[t] \in Reports \cup {None}
    /\ disk.selection # None =>
          disk.selection.tag \in Tags /\ disk.selection.report \in Reports
    /\ disk.status \in {None, "base-ready", "base-not-ready"}
    /\ pc \in States /\ mem.round \in 0 .. Rounds /\ mem.epoch \in 0 .. Epochs

\* The weights an uninterrupted training of a round has after some epochs.
Uninterrupted(r, epoch) ==
    (IF r = 0 THEN <<>> ELSE disk.initial[r]) \o [e \in 1 .. epoch |-> <<r, e>>]

\* A resumed training is the uninterrupted one: wherever the process ended, the
\* checkpoints hold every epoch once and in order, the metrics one row for each,
\* the row of an epoch at most one write ahead of its last.pt (fit_phase), and a
\* recorded data file is the one that was recorded (collect_jobs).
ResumeExact ==
    /\ TypeOK
    /\ \A r \in RoundIds :
          /\ disk.last[r] # None =>
                /\ disk.last[r].weights = Uninterrupted(r, disk.last[r].epoch)
                /\ \E ahead \in {0, 1} :
                      disk.metrics[r] = [e \in 1 .. disk.last[r].epoch + ahead |-> e]
          /\ \A e \in Scheduled :
                disk.saved[<<r, e>>] # None =>
                   disk.saved[<<r, e>>] = Uninterrupted(r, e)
          /\ disk.manifest[r] = SubSeq(disk.shards[r], 1, Len(disk.manifest[r]))

Before(t, u) == t[1] < u[1] \/ (t[1] = u[1] /\ t[2] < u[2])
\* The earliest of the best assessed checkpoints of the first rounds.
BestOf(rounds) ==
    CHOOSE t \in Tags : t[1] < rounds /\ \A u \in Tags :
        u[1] < rounds /\ u # t =>
            \/ disk.report[t].rank < disk.report[u].rank
            \/ disk.report[t].rank = disk.report[u].rank /\ Before(t, u)
AllAssessed(rounds) ==
    \A t \in Tags : t[1] < rounds => disk.report[t] # None

\* A supplement starts, and the test is opened, only when every scheduled
\* checkpoint of the rounds run so far has been assessed, and with the best of
\* them: no interruption of training, assessment or of the two writes that
\* replace the selection lets a checkpoint be skipped or an older one win
\* (run_suite.assess, the repair of best.pt).
BestOfAll ==
    /\ \A r \in 1 .. Rounds - 1 : disk.roundSpec[r] # None =>
          /\ AllAssessed(r)
          /\ disk.initial[r] \in {None, Torn, disk.saved[BestOf(r)]}
    /\ disk.tested # None =>
          LET rounds == Cardinality({r \in RoundIds : disk.roundSpec[r] # None})
          IN  AllAssessed(rounds) /\ disk.tested = disk.saved[BestOf(rounds)]

Selected == IF disk.selection = None THEN None ELSE disk.selection
Contract == INSTANCE SelectionContract WITH
    Candidates <- [tag : Tags, report : Reports],
    selected <- Selected,
    opened <- IF disk.tested = None THEN None ELSE Selected,
    verdict <- disk.status
\* Through crashes and reruns the outcome obeys the contract: reports only
\* improve the selection, the test split is opened once and for a model that
\* passed, nothing is selected afterwards, and one verdict is published.
KeepsContract == Contract!Spec

\* "The same command" ends the suite with a verdict, unless a crash left a torn
\* initial.pt, which every rerun refuses (shutil.copyfile in run_suite).
Finishes ==
    <>(disk.status # None) \/ <>[](\E r \in RoundIds : disk.initial[r] = Torn)
=============================================================================
