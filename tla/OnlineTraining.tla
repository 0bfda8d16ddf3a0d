--------------------------- MODULE OnlineTraining ---------------------------
(***************************************************************************)
(* Resumable on-line training (experiment.train with its callback RunLog), *)
(* one process per arm: batches, a checkpoint last.pt after each, periodic *)
(* evaluations of the policy, deterministic and stochastic, and a file for *)
(* the best policy of each kind.  `saved` is what is on disk and survives  *)
(* the process, `run` what the process knows.  Checkpoints are replaced at *)
(* once; a process may end between any two writes.                         *)
(***************************************************************************)
EXTENDS Naturals, FiniteSets, FiniteSetsExt

CONSTANTS
    Arms,           \* output directories
    Batches,        \* the episode budget, in collection batches
    EvalEvery,      \* eval_interval, in batches
    Top,            \* scores are 1 .. Top; 0 is the initial best, minus infinity
    None

ASSUME TrainingAssumption ==
    /\ Batches \in Nat \ {0} /\ EvalEvery \in Nat \ {0} /\ Top \in Nat \ {0}

Kinds == {"det", "sto"}     \* best.pt and best-stochastic.pt
Scores == 0 .. Top

\* None is a checkpoint that is missing.
ASSUME NoCheckpoint == None \notin [frames : 0 .. Batches, best : [Kinds -> Scores]]

VARIABLES saved, run
trainVars == <<saved, run>>

NoBest == [k \in Kinds |-> 0]
NewArm ==
    [last |-> None,                                     \* last.pt: [frames, best]
     initial |-> FALSE,                                 \* initial.pt exists
     file |-> NoBest,                                   \* the score a best file was saved with
     report |-> [f \in 1 .. Batches |-> NoBest]]        \* evaluation files: their score
Down == [pc |-> "down", frames |-> 0, best |-> NoBest, fresh |-> FALSE]

TrainInit == saved = [a \in Arms |-> NewArm] /\ run = [a \in Arms |-> Down]

Save(a, s) == saved' = [saved EXCEPT ![a] = s]
Run(a, r) == run' = [run EXCEPT ![a] = r]
Goto(a, p) == Run(a, [run[a] EXCEPT !.pc = p])

\* The budget of last.pt is used up: nothing is left to train.
Trained(a) == saved[a].last # None /\ saved[a].last.frames >= Batches

-----------------------------------------------------------------------------
\* train: a checkpoint is resumed; the best scores are taken over for those
\* best files that were saved with them, else selection starts from nothing.
RestoredNever(a) == NoBest \* variant
Restored(a) ==
    [k \in Kinds |-> IF saved[a].file[k] = saved[a].last.best[k] THEN saved[a].file[k] ELSE 0]
Launch(a) ==
    /\ run[a].pc = "down" /\ ~Trained(a)
    /\ Run(a, IF saved[a].last = None
              THEN [Down EXCEPT !.pc = "loaded", !.fresh = TRUE]
              ELSE [pc |-> "loaded", frames |-> saved[a].last.frames,
                    best |-> Restored(a), fresh |-> FALSE])
    /\ UNCHANGED saved

\* checkpoint("last.pt")
Last(a) == [frames |-> run[a].frames, best |-> run[a].best]
SaveLast(a, p) == Save(a, [saved[a] EXCEPT !.last = Last(a)]) /\ Goto(a, p)

OnlyResumed(a) == IF run[a].fresh THEN "collect" ELSE "initial" \* variant
OnlyFresh(a) == IF run[a].fresh THEN "initial" ELSE "collect"
SaveFirst(a) == run[a].pc = "loaded" /\ SaveLast(a, OnlyFresh(a))
SaveInitial(a) ==
    /\ run[a].pc = "initial"
    /\ Save(a, [saved[a] EXCEPT !.initial = TRUE])
    /\ Goto(a, "collect")

Batch(a) ==
    /\ run[a].pc = "collect" /\ run[a].frames < Batches
    /\ Run(a, [run[a] EXCEPT !.frames = @ + 1, !.pc = "trained"])
    /\ UNCHANGED saved

\* on_train_end; the checkpoint at its end repeats the first when nothing
\* is evaluated.
EvaluationDue(a) == run[a].frames % EvalEvery = 0 \/ run[a].frames >= Batches
SaveNothing(a) == UNCHANGED saved /\ Goto(a, IF EvaluationDue(a) THEN "det" ELSE "collect") \* variant
SaveTrained(a) == SaveLast(a, IF EvaluationDue(a) THEN "det" ELSE "collect")
SaveBatch(a) == run[a].pc = "trained" /\ SaveTrained(a)

After(k) == IF k = "det" THEN "sto" ELSE "evaluated"
Keeping(k) == IF k = "det" THEN "keep_best" ELSE "keep_stochastic"

\* The report is written; a better score is remembered and its policy kept.
Evaluate(a, k) ==
    /\ run[a].pc = k
    /\ \E score \in Scores \ {0} :
          /\ Save(a, [saved[a] EXCEPT !.report[run[a].frames][k] = score])
          /\ Run(a, IF score > run[a].best[k]
                    THEN [run[a] EXCEPT !.best[k] = score, !.pc = Keeping(k)]
                    ELSE [run[a] EXCEPT !.pc = After(k)])
Keep(a, k) ==
    /\ run[a].pc = Keeping(k)
    /\ Save(a, [saved[a] EXCEPT !.file[k] = run[a].best[k]])
    /\ Goto(a, After(k))

SaveEvaluated(a) == run[a].pc = "evaluated" /\ SaveLast(a, "collect")

Exit(a) ==
    /\ run[a].pc = "collect" /\ run[a].frames >= Batches
    /\ Goto(a, "done")
    /\ UNCHANGED saved

TrainStep(a) ==
    \/ SaveFirst(a) \/ SaveInitial(a) \/ Batch(a) \/ SaveBatch(a) \/ SaveEvaluated(a) \/ Exit(a)
    \/ \E k \in Kinds : Evaluate(a, k) \/ Keep(a, k)
=============================================================================
