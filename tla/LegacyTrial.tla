---------------------------- MODULE LegacyTrial ----------------------------
(***************************************************************************)
(* The resumable trial of scripts/run_legacy_pretrain_trial.py: collect a  *)
(* teacher's episodes, distil a student (legacy_distill.fit), compare it   *)
(* frozen with its teacher, and, if it passes, train a pretrained and a    *)
(* scratch arm at the same time (OnlineTraining) and compare them.         *)
(*                                                                         *)
(* A crash takes the launcher and its children; a child may also fail      *)
(* alone.  Then the same command is run again.  One step is one write of a *)
(* file; the files of one step of the launcher that it writes again on     *)
(* every start (spec.json, gate.json, logs) are left out.                  *)
(***************************************************************************)
EXTENDS OnlineTraining, Sequences

CONSTANTS
    Episodes,       \* demonstrations to collect, in job order 1 .. Episodes
    Epochs,         \* of the distillation
    Losses,         \* validation KLs, smaller is better
    MaxCrashes      \* bound on crashes and failures

ASSUME TrialAssumption ==
    /\ Episodes \in Nat /\ Epochs \in Nat \ {0} /\ MaxCrashes \in Nat /\ Losses \subseteq Nat
    /\ None \notin 0 .. Epochs /\ None \notin [epoch : 0 .. Epochs, best : Losses]
    /\ None \notin [epoch : 0 .. Epochs, passed : BOOLEAN]

VARIABLES
    kl,         \* the validation KL after each epoch: fitting is deterministic
    recorded,   \* episodes in manifest.json
    made,       \* shards written by this process, not recorded yet
    student,    \* last: [epoch, best] and file: the epoch of best.pt
    fitted,     \* the epoch and best KL of the fit in memory
    frozen,     \* student-evaluation.json: the student's epoch and the gate's verdict
    complete,   \* complete.json
    lpc,        \* where the launcher is
    crashes,
    torn, gap   \* history: see the properties

trialVars == <<kl, recorded, made, student, fitted, frozen, complete, lpc, crashes, torn, gap>>
allVars == <<trainVars, trialVars>>

TrialInit ==
    /\ TrainInit
    /\ kl \in [0 .. Epochs -> Losses]
    /\ recorded = 0 /\ made = {}
    /\ student = [last |-> None, file |-> None] /\ fitted = [epoch |-> 0, best |-> 0]
    /\ frozen = None /\ complete = FALSE /\ lpc = "down" /\ crashes = 0
    /\ torn = {} /\ gap = FALSE

Proceed(p) == lpc' = p /\ UNCHANGED <<kl, complete, crashes, torn, gap>>

-----------------------------------------------------------------------------
\* The command is run, for the first time or again.
StartTrial ==
    /\ lpc = "down" /\ ~complete
    /\ Proceed("collect")
    /\ UNCHANGED <<trainVars, recorded, made, student, fitted, frozen>>

\* pretrain.collect: workers save shards in any order, and they are recorded
\* in the order of the jobs; what is recorded is not collected again.
SaveShard(e) ==
    /\ lpc = "collect" /\ e > recorded /\ e \notin made
    /\ made' = made \cup {e}
    /\ Proceed("collect")
    /\ UNCHANGED <<trainVars, recorded, student, fitted, frozen>>
RecordShard ==
    /\ lpc = "collect" /\ recorded + 1 \in made
    /\ recorded' = recorded + 1 /\ made' = made \ {recorded + 1}
    /\ Proceed("collect")
    /\ UNCHANGED <<trainVars, student, fitted, frozen>>

\* legacy_distill.fit: the untrained student is saved as epoch 0, a run that
\* was interrupted is resumed from last.pt.
StartFit ==
    /\ lpc = "collect" /\ recorded = Episodes
    /\ IF student.last = None
       THEN /\ student' = [student EXCEPT !.last = [epoch |-> 0, best |-> kl[0]]]
            /\ fitted' = [epoch |-> 0, best |-> kl[0]]
            /\ Proceed("save_best")
       ELSE fitted' = student.last /\ UNCHANGED student /\ Proceed("fit")
    /\ UNCHANGED <<trainVars, recorded, made, frozen>>
FitEpoch ==
    /\ lpc = "fit" /\ fitted.epoch < Epochs
    /\ LET epoch == fitted.epoch + 1
           improved == kl[epoch] < fitted.best
       IN /\ fitted' = [epoch |-> epoch, best |-> Min({fitted.best, kl[epoch]})]
          /\ student' = [student EXCEPT !.last = fitted']
          /\ Proceed(IF improved THEN "save_best" ELSE "fit")
    /\ UNCHANGED <<trainVars, recorded, made, frozen>>
SaveBest ==
    /\ lpc = "save_best"
    /\ student' = [student EXCEPT !.file = fitted.epoch]
    /\ Proceed("fit")
    /\ UNCHANGED <<trainVars, recorded, made, fitted, frozen>>

\* The student is loaded and evaluated, unless that was done before; the gate
\* decides.  A best.pt that is missing ends the command, every time.
FrozenEvaluation ==
    /\ lpc = "fit" /\ fitted.epoch = Epochs
    /\ \/ student.file = None /\ Proceed("refused") /\ UNCHANGED frozen
       \/ /\ student.file # None
          /\ IF frozen # None THEN UNCHANGED frozen
             ELSE \E passed \in BOOLEAN : frozen' = [epoch |-> student.file, passed |-> passed]
          /\ Proceed(IF frozen'.passed THEN "arms" ELSE "blocked")
    /\ UNCHANGED <<trainVars, recorded, made, student, fitted>>

-----------------------------------------------------------------------------
\* Two threads run the arms; one whose budget is used up is not started.
RunArm(a) ==
    /\ lpc = "arms"
    /\ Launch(a) \/ TrainStep(a)
    /\ UNCHANGED trialVars

\* All threads have ended, whatever became of their children.
Ended(a) == run[a].pc \in {"done", "failed"} \/ (run[a].pc = "down" /\ Trained(a))
AllEnded == \A a \in Arms : Ended(a)
RaiseFailed ==
    /\ lpc = "arms" /\ AllEnded
    /\ \E a \in Arms : run[a].pc = "failed"
    /\ run' = [a \in Arms |-> Down] /\ UNCHANGED saved
    /\ Proceed("down")
    /\ UNCHANGED <<recorded, made, student, fitted, frozen>>

\* The initial checkpoints and the final stochastic evaluations are compared;
\* one that is missing ends the command, every time.
Comparable(a) == saved[a].initial /\ saved[a].report[Batches]["sto"] # 0
Compare ==
    /\ lpc = "arms" /\ AllEnded
    /\ \A a \in Arms : run[a].pc # "failed"
    /\ IF \A a \in Arms : Comparable(a)
       THEN complete' = TRUE /\ lpc' = "complete"
       ELSE complete' = FALSE /\ lpc' = "refused"
    /\ UNCHANGED <<trainVars, kl, recorded, made, student, fitted, frozen, crashes, torn, gap>>

-----------------------------------------------------------------------------
\* The process of arm a, if a \in S, and the fit end between two writes.
Unselected(a, k) ==
    /\ run[a].pc \notin {"down", "failed", "done"}
    /\ run[a].pc = Keeping(k) \/ saved[a].file[k] # (IF saved[a].last = None THEN 0 ELSE saved[a].last.best[k])
HalfStarted(a) == saved[a].last # None /\ ~saved[a].initial
HalfEvaluated(a) == Trained(a) /\ saved[a].report[Batches]["sto"] = 0
Noted(S, fit) ==
    /\ crashes < MaxCrashes /\ crashes' = crashes + 1     \* bound
    /\ torn' = torn \cup {p \in S \X Kinds : Unselected(p[1], p[2])}
                    \cup (IF fit THEN {<<"student", "best">>} ELSE {})
    /\ gap' = (gap \/ (\E a \in S : HalfStarted(a) \/ HalfEvaluated(a))
                   \/ (fit /\ student.file = None))

Fail(a) ==
    /\ lpc = "arms" /\ run[a].pc \notin {"down", "failed", "done"}
    /\ Goto(a, "failed") /\ UNCHANGED saved
    /\ Noted({a}, FALSE)
    /\ UNCHANGED <<kl, recorded, made, student, fitted, frozen, complete, lpc>>
Crash ==
    /\ lpc \notin {"down", "complete", "blocked", "refused"}
    /\ run' = [a \in Arms |-> Down] /\ UNCHANGED saved
    /\ lpc' = "down" /\ made' = {}
    /\ Noted(Arms, lpc = "save_best")
    /\ UNCHANGED <<kl, recorded, student, fitted, frozen, complete>>

TrialStep ==
    \/ StartTrial \/ RecordShard \/ StartFit \/ FitEpoch \/ SaveBest \/ FrozenEvaluation
    \/ RaiseFailed \/ Compare
    \/ \E e \in 1 .. Episodes : SaveShard(e)
    \/ \E a \in Arms : RunArm(a)
Over == lpc \in {"complete", "blocked", "refused"}
TrialNext == TrialStep \/ Crash \/ (\E a \in Arms : Fail(a)) \/ (Over /\ UNCHANGED allVars)

\* The command is run again after a crash, and goes on.
TrialSpec == TrialInit /\ [][TrialNext]_allVars /\ WF_allVars(TrialStep)

-----------------------------------------------------------------------------
(***************************************************************************)
(* Properties.  The history variables name the moments a crash can not be  *)
(* recovered from: `torn`, a best policy was found but its file and        *)
(* last.pt do not both say so yet; `gap`, a file nobody writes again is    *)
(* still missing.                                                          *)
(***************************************************************************)

\* "Both available selected checkpoints survive resume" (docs/deppo.md): but
\* for a crash inside a selection, a best file holds the best policy of all
\* the reports of its directory, across any number of resumes, and the
\* student's best.pt the first epoch with the least divergence so far.
BestReport(a, k) == Max({saved[a].report[f][k] : f \in 1 .. Batches})
FirstLeast(n) == CHOOSE e \in 0 .. n : /\ \A d \in 0 .. n : kl[e] <= kl[d]
                                       /\ \A d \in 0 .. e - 1 : kl[e] < kl[d]
BestKept ==
    /\ \A a \in Arms, k \in Kinds :
          <<a, k>> \notin torn /\ run[a].pc # Keeping(k) => saved[a].file[k] = BestReport(a, k)
    /\ student.last # None /\ lpc # "save_best" /\ <<"student", "best">> \notin torn =>
          student.file = FirstLeast(student.last.epoch)

\* A resumed command repeats nothing that was finished: training goes on from
\* the last batch saved, a report once written stays as it is, an episode
\* recorded is not collected again, and the student that was judged is the one
\* every later start loads.
NothingRepeated ==
    [][/\ \A a \in Arms :
             /\ saved[a].last # None => saved'[a].last.frames >= saved[a].last.frames
             /\ \A f \in 1 .. Batches, k \in Kinds :
                   saved[a].report[f][k] # 0 => saved'[a].report[f][k] = saved[a].report[f][k]
             /\ run[a].pc \notin {"collect", "trained"} /\ run'[a].pc = "collect" =>
                   saved'[a].last.frames = run'[a].frames
       /\ recorded' >= recorded
       /\ frozen # None => frozen' = frozen /\ student'.file = frozen.epoch]_allVars

\* "Completed epochs can resume, completed arms are not restarted"
\* (docs/legacy-distribution-pretraining.md): the trial ends with a comparison
\* or at the gate, unless a crash left a gap: no best.pt of epoch 0, a last.pt
\* without its initial.pt, or a spent budget without its final report.
Finishes == <>(lpc \in {"complete", "blocked"} \/ gap)
=============================================================================
