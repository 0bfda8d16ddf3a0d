-------------------------- MODULE LegacyTrialProofs --------------------------
(***************************************************************************)
(* Proofs about LegacyTrial: the best policies survive resumes, and a      *)
(* resumed command repeats nothing that was finished.                      *)
(***************************************************************************)
EXTENDS LegacyTrial, TLAPS

-----------------------------------------------------------------------------
(***************************************************************************)
(* The invariant.                                                          *)
(***************************************************************************)
Checkpoints == [frames : 0 .. Batches, best : [Kinds -> Scores]]
Disk ==
    [last : Checkpoints \cup {None}, initial : BOOLEAN, file : [Kinds -> Scores],
     report : [1 .. Batches -> [Kinds -> Scores]]]
Selecting == {"det", "keep_best", "sto", "keep_stochastic", "evaluated"}
Settled == {"down", "failed", "done", "loaded", "initial", "collect", "trained"}
Memory ==
    [pc : Selecting \cup Settled, frames : 0 .. Batches, best : [Kinds -> Scores],
     fresh : BOOLEAN]
TrainTypes == saved \in [Arms -> Disk] /\ run \in [Arms -> Memory]

\* The process of an arm is where its last checkpoint says, or one batch ahead,
\* and no report is written before the checkpoint of its batch.
Ordered(d, m) ==
    /\ m.pc \in Selecting \cup {"initial", "collect", "done"} =>
          d.last # None /\ d.last.frames = m.frames
    /\ m.pc \in Selecting => m.frames # 0
    /\ m.pc = "loaded" => m.frames = (IF d.last = None THEN 0 ELSE d.last.frames)
    /\ m.pc = "trained" => d.last # None /\ m.frames = d.last.frames + 1
    /\ \A f \in 1 .. Batches, k \in Kinds :
          d.report[f][k] # 0 => d.last # None /\ f <= d.last.frames
    /\ m.pc = "det" => d.report[m.frames]["det"] = 0
    /\ m.pc \in {"det", "keep_best", "sto"} => d.report[m.frames]["sto"] = 0

Greatest(v, d, k) ==
    /\ \E f \in 1 .. Batches : d.report[f][k] = v
    /\ \A f \in 1 .. Batches : d.report[f][k] <= v
LastBest(d, k) == IF d.last = None THEN 0 ELSE d.last.best[k]

\* The best policy of a kind is in its file but between its report and its
\* writing; the process knows its score, and so does the last checkpoint once
\* the selection is over.
Selected(d, m, k) ==
    /\ m.pc # Keeping(k) => Greatest(d.file[k], d, k)
    /\ m.pc \notin {"down", "failed"} => Greatest(m.best[k], d, k)
    /\ m.pc \in Settled => d.file[k] = LastBest(d, k)

ArmInv ==
    /\ TrainTypes
    /\ \A a \in Arms :
          /\ Ordered(saved[a], run[a])
          /\ \A k \in Kinds : <<a, k>> \notin torn => Selected(saved[a], run[a], k)

\* The epoch of the first least divergence among the first n.
IsFirstLeast(e, n) ==
    /\ e \in 0 .. n
    /\ \A d \in 0 .. n : kl[e] <= kl[d]
    /\ \A d \in 0 .. e - 1 : kl[e] < kl[d]

Fitted == [epoch : 0 .. Epochs, best : Losses]
StudentTypes ==
    /\ kl \in [0 .. Epochs -> Losses]
    /\ student \in [last : Fitted \cup {None}, file : (0 .. Epochs) \cup {None}]
    /\ frozen \in [epoch : 0 .. Epochs, passed : BOOLEAN] \cup {None}
    /\ recorded \in Nat

\* The fit is where its last checkpoint says, which holds the least divergence
\* so far; best.pt is of its epoch but between the two writes.  What was judged
\* is the student at the end of the fit.
StudentInv ==
    /\ StudentTypes
    /\ lpc \in {"fit", "save_best"} => student.last # None /\ fitted = student.last
    /\ student.last # None =>
          \E e \in 0 .. student.last.epoch :
             /\ IsFirstLeast(e, student.last.epoch) /\ student.last.best = kl[e]
             /\ lpc = "save_best" => e = student.last.epoch
             /\ lpc # "save_best" /\ <<"student", "best">> \notin torn => student.file = e
    /\ frozen # None =>
          /\ student.last # None /\ student.last.epoch = Epochs
          /\ lpc # "save_best" /\ student.file = frozen.epoch

TrialInv == ArmInv /\ StudentInv

-----------------------------------------------------------------------------
(***************************************************************************)
(* The steps of an arm.                                                    *)
(***************************************************************************)
\* What a step of arm a keeps: the invariant, the other arms, and what the
\* arm has finished.
Forward(d, m, e, n) ==
    /\ d.last # None => e.last.frames >= d.last.frames
    /\ \A f \in 1 .. Batches, k \in Kinds :
          d.report[f][k] # 0 => e.report[f][k] = d.report[f][k]
    /\ m.pc \notin {"collect", "trained"} /\ n.pc = "collect" => e.last.frames = n.frames
Keeps(d, m, e, n) ==
    /\ e \in Disk /\ n \in Memory /\ Ordered(e, n)
    /\ \A k \in Kinds : Selected(d, m, k) => Selected(e, n, k)
    /\ Forward(d, m, e, n)
Steps(a) ==
    /\ \E e \in Disk : saved' = [saved EXCEPT ![a] = e]
    /\ \E n \in Memory : run' = [run EXCEPT ![a] = n]
    /\ Keeps(saved[a], run[a], saved'[a], run'[a])

\* A step of an arm in terms of its own disk and memory.
LEMMA ArmStep ==
    ASSUME TrainTypes, NEW a \in Arms, NEW e, NEW n,
           saved' = [saved EXCEPT ![a] = e], run' = [run EXCEPT ![a] = n],
           Keeps(saved[a], run[a], e, n)
    PROVE  Steps(a)
<1>1. saved'[a] = e /\ run'[a] = n
  BY DEF TrainTypes
<1>2. e \in Disk /\ n \in Memory
  BY DEF Keeps
<1>3. QED
  BY <1>1, <1>2 DEF Steps

LEMMA NoBestType == NoBest \in [Kinds -> Scores] /\ (\A k \in Kinds : NoBest[k] = 0)
  BY TrainingAssumption DEF NoBest, Scores

LEMMA LaunchKeeps ==
    ASSUME TrainTypes, NEW a \in Arms, Ordered(saved[a], run[a]), Launch(a)
    PROVE  Steps(a)
<1> DEFINE d == saved[a]
           m == run[a]
           n == IF d.last = None
                THEN [Down EXCEPT !.pc = "loaded", !.fresh = TRUE]
                ELSE [pc |-> "loaded", frames |-> d.last.frames,
                      best |-> Restored(a), fresh |-> FALSE]
<1>1. d \in Disk /\ m \in Memory /\ m.pc = "down" /\ saved' = saved /\ run' = [run EXCEPT ![a] = n]
  BY DEF TrainTypes, Launch, Run
<1>2. saved' = [saved EXCEPT ![a] = d]
  BY <1>1 DEF TrainTypes
<1>3. /\ n.pc = "loaded" /\ n.frames = (IF d.last = None THEN 0 ELSE d.last.frames)
      /\ n \in Memory
      /\ \A k \in Kinds : n.best[k] = IF d.last = None THEN 0
                                     ELSE IF d.file[k] = d.last.best[k] THEN d.file[k] ELSE 0
  <2>1. CASE d.last = None
    <3>1. n = [pc |-> "loaded", frames |-> 0, best |-> NoBest, fresh |-> TRUE]
      BY <2>1 DEF Down
    <3> HIDE DEF n
    <3>2. n.pc = "loaded" /\ n.frames = 0 /\ n.best = NoBest
      BY <3>1
    <3>3. n \in Memory
      BY <3>1, NoBestType, TrainingAssumption DEF Memory, Settled
    <3>4. QED
      BY <2>1, <3>2, <3>3, NoBestType
  <2>2. CASE d.last # None
    <3>1. d.last \in Checkpoints /\ d.file \in [Kinds -> Scores]
      BY <1>1, <2>2 DEF Disk
    <3>2. Restored(a) \in [Kinds -> Scores]
      BY <3>1, TrainingAssumption DEF Restored, Scores
    <3>3. \A k \in Kinds : Restored(a)[k] = IF d.file[k] = d.last.best[k] THEN d.file[k] ELSE 0
      BY DEF Restored
    <3>4. QED
      BY <1>1, <2>2, <3>1, <3>2, <3>3 DEF Checkpoints, Memory, Settled
  <2>3. QED
    BY <2>1, <2>2
<1> HIDE DEF n
<1>4. Ordered(d, n)
  BY <1>1, <1>3 DEF Ordered, Selecting
<1>5. ASSUME NEW k \in Kinds, Selected(d, m, k) PROVE Selected(d, n, k)
  BY <1>1, <1>3, <1>5 DEF Selected, Settled, LastBest, Keeping
<1>6. Forward(d, m, d, n)
  BY <1>1, <1>3, TrainingAssumption DEF Forward, Disk, Checkpoints
<1>7. Keeps(d, m, d, n)
  BY <1>1, <1>3, <1>4, <1>5, <1>6 DEF Keeps
<1> HIDE DEF d, m
<1>8. QED
  BY <1>1, <1>2, <1>7, ArmStep DEF d, m

\* A checkpoint of what the process has done, and its next place.
LEMMA CheckpointKeeps ==
    ASSUME TrainTypes, NEW a \in Arms, Ordered(saved[a], run[a]), NEW p, SaveLast(a, p),
           \/ run[a].pc = "loaded" /\ p \in {"initial", "collect"}
           \/ run[a].pc = "trained" /\ p \in {"collect", "det"}
           \/ run[a].pc = "evaluated" /\ p = "collect"
    PROVE  Steps(a)
<1> DEFINE d == saved[a]
           m == run[a]
           c == [frames |-> m.frames, best |-> m.best]
           e == [d EXCEPT !.last = c]
           n == [m EXCEPT !.pc = p]
<1>1. d \in Disk /\ m \in Memory /\ saved' = [saved EXCEPT ![a] = e] /\ run' = [run EXCEPT ![a] = n]
  BY DEF TrainTypes, SaveLast, Save, Goto, Run, Last
<1>2. c \in Checkpoints /\ c # None
  BY <1>1, NoCheckpoint DEF Memory, Checkpoints
<1>3. /\ e \in Disk /\ e.last = c /\ e.file = d.file /\ e.report = d.report
      /\ c.frames = m.frames /\ c.best = m.best
  BY <1>1, <1>2 DEF Disk
<1>4. n \in Memory /\ n.pc = p /\ n.frames = m.frames /\ n.best = m.best
  BY <1>1 DEF Memory, Selecting, Settled
<1>5. m.frames \in Nat /\ Batches \in Nat /\ (d.last # None => d.last.frames \in Nat)
  BY <1>1, TrainingAssumption DEF Disk, Memory, Checkpoints
<1>6. /\ d.last # None => d.last.frames <= m.frames
      /\ m.pc = "trained" => m.frames # 0 /\ d.last.frames < m.frames
      /\ d.last = None => m.pc = "loaded"
  <2>1. Ordered(d, m) /\ m.pc \in {"loaded", "trained", "evaluated"}
    OBVIOUS
  <2> HIDE DEF d, m
  <2>2. CASE m.pc = "loaded"
    BY <1>5, <2>1, <2>2 DEF Ordered
  <2>3. CASE m.pc = "trained"
    BY <1>5, <2>1, <2>3 DEF Ordered
  <2>4. CASE m.pc = "evaluated"
    BY <1>5, <2>1, <2>4 DEF Ordered, Selecting
  <2>5. QED
    BY <2>1, <2>2, <2>3, <2>4
<1>0. /\ Ordered(d, m)
      /\ \/ m.pc = "loaded" /\ p \in {"initial", "collect"}
         \/ m.pc = "trained" /\ p \in {"collect", "det"}
         \/ m.pc = "evaluated" /\ p = "collect"
  OBVIOUS
<1> HIDE DEF c, e, n, d, m
<1>7. Ordered(e, n)
  <2>1. \A f \in 1 .. Batches, k \in Kinds : d.report[f][k] # 0 => f <= m.frames
    BY <1>0, <1>5, <1>6 DEF Ordered
  <2>2. p = "det" => m.frames # 0 /\ \A k \in Kinds : d.report[m.frames][k] = 0
    <3> SUFFICES ASSUME p = "det" PROVE m.frames # 0 /\ \A k \in Kinds : d.report[m.frames][k] = 0
      OBVIOUS
    <3>1. m.pc = "trained" /\ m.frames \in 1 .. Batches /\ d.last.frames < m.frames
      BY <1>0, <1>1, <1>5, <1>6 DEF Memory
    <3>2. QED
      BY <1>0, <1>5, <1>6, <3>1 DEF Ordered
  <2>3. p \in {"initial", "collect", "det"}
    BY <1>0
  <2>4. QED
    BY <1>2, <1>3, <1>4, <2>1, <2>2, <2>3 DEF Ordered, Selecting, Kinds
<1>8. ASSUME NEW k \in Kinds, Selected(d, m, k) PROVE Selected(e, n, k)
  <2>1. Greatest(d.file[k], d, k) /\ Greatest(m.best[k], d, k)
    BY <1>0, <1>8 DEF Selected, Keeping
  <2>2. d.file[k] = m.best[k]
    BY <1>1, <2>1, TrainingAssumption DEF Greatest, Disk, Scores
  <2>3. Greatest(e.file[k], e, k) /\ Greatest(n.best[k], e, k)
    BY <1>3, <1>4, <2>1 DEF Greatest
  <2>4. QED
    BY <1>0, <1>2, <1>3, <1>4, <2>2, <2>3 DEF Selected, LastBest, Keeping
<1>9. Forward(d, m, e, n)
  BY <1>3, <1>4, <1>5, <1>6 DEF Forward
<1>10. Keeps(d, m, e, n)
  BY <1>3, <1>4, <1>7, <1>8, <1>9 DEF Keeps
<1>11. QED
  BY <1>1, <1>10, ArmStep DEF d, m

LEMMA PlaceKeeps ==
    ASSUME TrainTypes, NEW a \in Arms, Ordered(saved[a], run[a]),
           SaveInitial(a) \/ Batch(a) \/ Exit(a)
    PROVE  Steps(a)
<1> DEFINE d == saved[a]
           m == run[a]
<1>1. d \in Disk /\ m \in Memory /\ Ordered(d, m)
  BY DEF TrainTypes
<1>2. m.frames \in Nat /\ Batches \in Nat
  BY <1>1, TrainingAssumption DEF Memory
<1>3. CASE SaveInitial(a)
  <2> DEFINE e == [d EXCEPT !.initial = TRUE]
             n == [m EXCEPT !.pc = "collect"]
  <2>1. m.pc = "initial" /\ saved' = [saved EXCEPT ![a] = e] /\ run' = [run EXCEPT ![a] = n]
    BY <1>3 DEF SaveInitial, Save, Goto, Run
  <2>2. e \in Disk /\ e.last = d.last /\ e.file = d.file /\ e.report = d.report
    BY <1>1 DEF Disk
  <2>3. n \in Memory /\ n.pc = "collect" /\ n.frames = m.frames /\ n.best = m.best
    BY <1>1 DEF Memory, Settled
  <2> HIDE DEF d, m, e, n
  <2>4. Ordered(e, n)
    BY <1>1, <2>1, <2>2, <2>3 DEF Ordered, Selecting
  <2>5. ASSUME NEW k \in Kinds, Selected(d, m, k) PROVE Selected(e, n, k)
    BY <2>1, <2>2, <2>3, <2>5 DEF Selected, Settled, LastBest, Keeping, Greatest
  <2>6. d.last # None /\ d.last.frames = m.frames
    BY <1>1, <2>1 DEF Ordered
  <2>7. Keeps(d, m, e, n)
    BY <1>2, <2>2, <2>3, <2>4, <2>5, <2>6 DEF Keeps, Forward
  <2>8. QED
    BY <2>1, <2>7, ArmStep DEF d, m
<1>4. CASE Batch(a)
  <2> DEFINE n == [m EXCEPT !.frames = @ + 1, !.pc = "trained"]
  <2>1. /\ m.pc = "collect" /\ m.frames < Batches
        /\ saved' = saved /\ run' = [run EXCEPT ![a] = n]
    BY <1>4 DEF Batch, Run
  <2>2. saved' = [saved EXCEPT ![a] = d]
    BY <2>1 DEF TrainTypes
  <2>3. n \in Memory /\ n.pc = "trained" /\ n.frames = m.frames + 1 /\ n.best = m.best
    <3>1. m.frames + 1 \in 0 .. Batches
      BY <1>2, <2>1
    <3>2. n = [m EXCEPT !.frames = m.frames + 1, !.pc = "trained"]
      OBVIOUS
    <3> HIDE DEF n
    <3>3. QED
      BY <1>1, <3>1, <3>2 DEF Memory, Settled
  <2> HIDE DEF d, m, n
  <2>4. Ordered(d, n)
    BY <1>1, <2>1, <2>3 DEF Ordered, Selecting
  <2>5. ASSUME NEW k \in Kinds, Selected(d, m, k) PROVE Selected(d, n, k)
    BY <2>1, <2>3, <2>5 DEF Selected, Settled, Keeping
  <2>6. d.last # None /\ d.last.frames = m.frames
    BY <1>1, <2>1 DEF Ordered
  <2>7. Keeps(d, m, d, n)
    BY <1>1, <1>2, <2>3, <2>4, <2>5, <2>6 DEF Keeps, Forward
  <2>8. QED
    BY <2>1, <2>2, <2>7, ArmStep DEF d, m
<1>5. CASE Exit(a)
  <2> DEFINE n == [m EXCEPT !.pc = "done"]
  <2>1. m.pc = "collect" /\ saved' = saved /\ run' = [run EXCEPT ![a] = n]
    BY <1>5 DEF Exit, Goto, Run
  <2>2. saved' = [saved EXCEPT ![a] = d]
    BY <2>1 DEF TrainTypes
  <2>3. n \in Memory /\ n.pc = "done" /\ n.frames = m.frames /\ n.best = m.best
    BY <1>1 DEF Memory, Settled
  <2> HIDE DEF d, m, n
  <2>4. Ordered(d, n)
    BY <1>1, <2>1, <2>3 DEF Ordered, Selecting
  <2>5. ASSUME NEW k \in Kinds, Selected(d, m, k) PROVE Selected(d, n, k)
    BY <2>1, <2>3, <2>5 DEF Selected, Settled, Keeping
  <2>6. d.last # None /\ d.last.frames = m.frames
    BY <1>1, <2>1 DEF Ordered
  <2>7. Keeps(d, m, d, n)
    BY <1>1, <1>2, <2>3, <2>4, <2>5, <2>6 DEF Keeps, Forward
  <2>8. QED
    BY <2>1, <2>2, <2>7, ArmStep DEF d, m
<1>6. QED
  BY <1>3, <1>4, <1>5

\* A score beats those before it, or the greatest of them stays.
LEMMA EvaluateKeeps ==
    ASSUME TrainTypes, NEW a \in Arms, Ordered(saved[a], run[a]), NEW k \in Kinds, Evaluate(a, k)
    PROVE  Steps(a)
<1> DEFINE d == saved[a]
           m == run[a]
           row(score) == [d.report[m.frames] EXCEPT ![k] = score]
           e(score) == [d EXCEPT !.report = [d.report EXCEPT ![m.frames] = row(score)]]
           better(score) == [m EXCEPT !.best = [m.best EXCEPT ![k] = score], !.pc = Keeping(k)]
           worse == [m EXCEPT !.pc = After(k)]
<1>1. d \in Disk /\ m \in Memory /\ Ordered(d, m) /\ m.pc = k
  BY DEF TrainTypes, Evaluate
<1>2. PICK score \in Scores \ {0} :
         /\ saved' = [saved EXCEPT ![a] = e(score)]
         /\ run' = [run EXCEPT ![a] = IF score > m.best[k] THEN better(score) ELSE worse]
  BY DEF Evaluate, Save, Run, TrainTypes
<1> DEFINE f == m.frames
           ee == e(score)
           n == IF score > m.best[k] THEN better(score) ELSE worse
<1>3. /\ f \in 1 .. Batches /\ Batches \in Nat /\ d.last # None /\ d.last.frames = f
      /\ d.report[f][k] = 0 /\ (k = "det" => d.report[f]["sto"] = 0)
  BY <1>1, TrainingAssumption DEF Ordered, Memory, Selecting, Kinds
<1>4. d.report \in [1 .. Batches -> [Kinds -> Scores]] /\ row(score) \in [Kinds -> Scores]
  BY <1>1, <1>3 DEF Disk
<1>5. /\ ee \in Disk /\ ee.last = d.last /\ ee.file = d.file
      /\ ee.report = [d.report EXCEPT ![f] = row(score)]
  BY <1>1, <1>4 DEF Disk
<1>6. /\ n \in Memory /\ n.frames = f
      /\ n.pc = IF score > m.best[k] THEN Keeping(k) ELSE After(k)
      /\ n.best = IF score > m.best[k] THEN [m.best EXCEPT ![k] = score] ELSE m.best
  <2>1. m.best \in [Kinds -> Scores] /\ [m.best EXCEPT ![k] = score] \in [Kinds -> Scores]
    BY <1>1 DEF Memory
  <2>2. Keeping(k) \in Selecting /\ After(k) \in Selecting
    BY DEF Keeping, After, Selecting
  <2>3. QED
    BY <1>1, <2>1, <2>2 DEF Memory
<1>7. /\ saved' = [saved EXCEPT ![a] = ee] /\ run' = [run EXCEPT ![a] = n]
      /\ score \in Nat \ {0} /\ m.best \in [Kinds -> Scores]
  BY <1>1, <1>2, TrainingAssumption DEF Scores, Memory
<1>8. \A g \in 1 .. Batches, j \in Kinds :
          ee.report[g][j] = IF g = f /\ j = k THEN score ELSE d.report[g][j]
  BY <1>3, <1>4, <1>5
<1> HIDE DEF d, m, e, better, worse, row, ee, n, f
<1>9. Ordered(ee, n)
  <2>1. n.pc \in {"keep_best", "sto", "keep_stochastic", "evaluated"}
    BY <1>6 DEF Keeping, After
  <2>2. n.pc \in {"keep_best", "sto"} => k = "det"
    BY <1>6 DEF Keeping, After, Kinds
  <2>3. n.pc \in {"keep_best", "sto"} => ee.report[f]["sto"] = 0
    BY <1>3, <1>8, <2>2 DEF Kinds
  <2>4. \A g \in 1 .. Batches, j \in Kinds : ee.report[g][j] # 0 => g <= d.last.frames
    BY <1>1, <1>3, <1>8 DEF Ordered
  <2>5. QED
    BY <1>3, <1>5, <1>6, <2>1, <2>3, <2>4 DEF Ordered, Selecting
<1>10. ASSUME NEW j \in Kinds, Selected(d, m, j) PROVE Selected(ee, n, j)
  <2>1. Greatest(d.file[j], d, j) /\ Greatest(m.best[j], d, j)
    BY <1>1, <1>10 DEF Selected, Keeping, Kinds
  <2>2. n.pc \notin Settled
    BY <1>6 DEF Settled, Keeping, After
  <2>3. \A g \in 1 .. Batches, i \in Kinds : d.report[g][i] \in Nat
    BY <1>4, TrainingAssumption DEF Scores
  <2>4. CASE j # k
    <3>1. \A g \in 1 .. Batches : ee.report[g][j] = d.report[g][j]
      BY <1>8, <2>4
    <3>2. n.best[j] = m.best[j] /\ n.pc # Keeping(j)
      BY <1>6, <1>7, <2>4 DEF Keeping, After, Kinds
    <3>3. QED
      BY <1>5, <2>1, <2>2, <3>1, <3>2 DEF Selected, Greatest
  <2>5. CASE j = k /\ score > m.best[k]
    <3>1. n.best[j] = score /\ n.pc = Keeping(j)
      BY <1>6, <1>7, <2>5
    <3>2. ee.report[f][j] = score /\ \A g \in 1 .. Batches : ee.report[g][j] <= score
      BY <1>3, <1>7, <1>8, <2>1, <2>3, <2>5, TrainingAssumption DEF Greatest, Scores
    <3>3. QED
      BY <1>3, <2>2, <3>1, <3>2 DEF Selected, Greatest
  <2>6. CASE j = k /\ ~(score > m.best[k])
    <3>1. n.best = m.best /\ n.pc = After(k) /\ m.best[k] \in Nat /\ m.best[k] # 0 /\ score <= m.best[k]
      BY <1>6, <1>7, <2>6, TrainingAssumption DEF Scores
    <3>2. PICK g \in 1 .. Batches : d.report[g][k] = m.best[k]
      BY <2>1, <2>6 DEF Greatest
    <3>3. ee.report[g][k] = m.best[k]
      BY <1>3, <1>8, <3>1, <3>2
    <3>4. \A h \in 1 .. Batches : ee.report[h][k] <= m.best[k]
      BY <1>8, <2>1, <2>6, <3>1 DEF Greatest
    <3>5. Greatest(m.best[k], ee, k)
      BY <3>3, <3>4 DEF Greatest
    <3>6. d.file[k] = m.best[k]
      BY <2>1, <2>3, <2>6 DEF Greatest
    <3>7. QED
      BY <1>5, <2>2, <2>6, <3>1, <3>5, <3>6 DEF Selected
  <2>7. QED
    BY <2>4, <2>5, <2>6
<1>11. n.pc # "collect"
  BY <1>6 DEF Keeping, After
<1>12. Forward(d, m, ee, n)
  BY <1>3, <1>5, <1>8, <1>11 DEF Forward
<1>13. Keeps(d, m, ee, n)
  BY <1>5, <1>6, <1>9, <1>10, <1>12 DEF Keeps
<1>14. QED
  BY <1>7, <1>13, ArmStep DEF d, m

LEMMA KeepKeeps ==
    ASSUME TrainTypes, NEW a \in Arms, Ordered(saved[a], run[a]), NEW k \in Kinds, Keep(a, k)
    PROVE  Steps(a)
<1> DEFINE d == saved[a]
           m == run[a]
           e == [d EXCEPT !.file = [d.file EXCEPT ![k] = m.best[k]]]
           n == [m EXCEPT !.pc = After(k)]
<1>1. d \in Disk /\ m \in Memory /\ Ordered(d, m) /\ m.pc = Keeping(k)
  BY DEF TrainTypes, Keep
<1>2. saved' = [saved EXCEPT ![a] = e] /\ run' = [run EXCEPT ![a] = n]
  BY DEF Keep, Save, Goto, Run
<1>3. m.best \in [Kinds -> Scores] /\ d.file \in [Kinds -> Scores]
  BY <1>1 DEF Disk, Memory
<1>4. /\ e \in Disk /\ e.last = d.last /\ e.report = d.report
      /\ e.file = [d.file EXCEPT ![k] = m.best[k]]
  BY <1>1, <1>3 DEF Disk
<1>5. After(k) \in Selecting
  BY DEF After, Selecting
<1>6. n \in Memory /\ n.pc = After(k) /\ n.frames = m.frames /\ n.best = m.best
  BY <1>1, <1>5 DEF Memory
<1> HIDE DEF d, m, e, n
<1>7. /\ n.pc \notin Settled /\ n.pc \notin {"det", "keep_best", "keep_stochastic", "collect"}
      /\ n.pc = "sto" => m.pc = "keep_best"
      /\ m.pc \in {"keep_best", "keep_stochastic"}
  BY <1>1, <1>6 DEF After, Keeping, Settled, Kinds
<1>8. Ordered(e, n)
  <2>1. d.last # None /\ d.last.frames = m.frames /\ m.frames # 0
    BY <1>1, <1>7 DEF Ordered, Selecting
  <2>2. n.pc = "sto" => d.report[m.frames]["sto"] = 0
    BY <1>1, <1>7 DEF Ordered
  <2>3. n.pc \notin {"loaded", "trained"}
    BY <1>7 DEF Settled
  <2>4. QED
    BY <1>1, <1>4, <1>6, <1>7, <2>1, <2>2, <2>3 DEF Ordered
<1>9. ASSUME NEW j \in Kinds, Selected(d, m, j) PROVE Selected(e, n, j)
  <2>1. Greatest(m.best[j], d, j) /\ (m.pc # Keeping(j) => Greatest(d.file[j], d, j))
    BY <1>7, <1>9 DEF Selected
  <2>2. j # k => m.pc # Keeping(j)
    BY <1>1 DEF Keeping, Kinds
  <2>3. Greatest(e.file[j], d, j)
    BY <1>3, <1>4, <2>1, <2>2
  <2>4. Greatest(e.file[j], e, j) /\ Greatest(n.best[j], e, j)
    BY <1>4, <1>6, <2>1, <2>3 DEF Greatest
  <2>5. QED
    BY <1>7, <2>4 DEF Selected
<1>10. d.last # None => d.last.frames >= d.last.frames
  BY <1>1, TrainingAssumption DEF Disk, Checkpoints
<1>11. Keeps(d, m, e, n)
  BY <1>4, <1>6, <1>7, <1>8, <1>9, <1>10 DEF Keeps, Forward
<1>12. QED
  BY <1>2, <1>11, ArmStep DEF d, m

LEMMA TrainKeeps ==
    ASSUME TrainTypes, NEW a \in Arms, Ordered(saved[a], run[a]), Launch(a) \/ TrainStep(a)
    PROVE  Steps(a)
<1>1. CASE SaveFirst(a)
  BY <1>1, CheckpointKeeps DEF SaveFirst, OnlyFresh
<1>2. CASE SaveBatch(a)
  BY <1>2, CheckpointKeeps DEF SaveBatch, SaveTrained
<1>3. CASE SaveEvaluated(a)
  BY <1>3, CheckpointKeeps DEF SaveEvaluated
<1>4. QED
  BY <1>1, <1>2, <1>3, LaunchKeeps, PlaceKeeps, EvaluateKeeps, KeepKeeps DEF TrainStep

-----------------------------------------------------------------------------
(***************************************************************************)
(* The steps of the trial on its arms.                                     *)
(***************************************************************************)
LEMMA ArmsStart == TrialInit => ArmInv
<1> SUFFICES ASSUME TrialInit PROVE ArmInv
  OBVIOUS
<1>1. \A f \in 1 .. Batches : NewArm.report[f] = NoBest
  BY DEF NewArm
<1>2. NewArm.last = None /\ NewArm.file = NoBest /\ Down.pc = "down"
  BY DEF NewArm, Down
<1>3. NewArm \in Disk
  BY NoBestType DEF NewArm, Disk
<1>4. Down \in Memory
  BY NoBestType, TrainingAssumption DEF Down, Memory, Settled
<1>5. TrainTypes
  BY <1>3, <1>4 DEF TrialInit, TrainInit, TrainTypes
<1>6. Ordered(NewArm, Down)
  BY <1>1, <1>2, NoBestType DEF Ordered, Selecting
<1>7. 1 \in 1 .. Batches
  BY TrainingAssumption
<1>8. ASSUME NEW k \in Kinds PROVE Selected(NewArm, Down, k)
  <2>1. Greatest(0, NewArm, k)
    BY <1>1, <1>7, NoBestType DEF Greatest
  <2>2. QED
    BY <1>2, <2>1, NoBestType DEF Selected, LastBest
<1>9. QED
  BY <1>5, <1>6, <1>8 DEF ArmInv, TrialInit, TrainInit

LEMMA RunKeepsArms ==
    ASSUME ArmInv, NEW a \in Arms, RunArm(a)
    PROVE  ArmInv' /\ Steps(a) /\ torn' = torn
<1>1. TrainTypes /\ Ordered(saved[a], run[a]) /\ torn' = torn
  BY DEF ArmInv, RunArm, trialVars
<1>2. Steps(a)
  BY <1>1, TrainKeeps DEF RunArm
<1>3. TrainTypes'
  BY <1>1, <1>2 DEF Steps, TrainTypes
<1>4. \A b \in Arms \ {a} : saved'[b] = saved[b] /\ run'[b] = run[b]
  BY <1>1, <1>2 DEF Steps, TrainTypes
<1>5. Keeps(saved[a], run[a], saved'[a], run'[a])
  BY <1>2 DEF Steps
<1>6. ASSUME NEW b \in Arms
      PROVE  /\ Ordered(saved'[b], run'[b])
             /\ \A k \in Kinds : <<b, k>> \notin torn' => Selected(saved'[b], run'[b], k)
  <2>1. /\ Ordered(saved[b], run[b])
        /\ \A k \in Kinds : <<b, k>> \notin torn => Selected(saved[b], run[b], k)
    BY DEF ArmInv
  <2>2. CASE b = a
    BY <1>1, <1>5, <2>1, <2>2 DEF Keeps
  <2>3. CASE b # a
    BY <1>1, <1>4, <2>1, <2>3
  <2>4. QED
    BY <2>2, <2>3
<1>7. QED
  BY <1>1, <1>2, <1>3, <1>6 DEF ArmInv

\* A process that is gone leaves its disk, which is sound unless a selection
\* was torn.
LEMMA StopKeeps ==
    ASSUME NEW d \in Disk, NEW m \in Memory, NEW n \in Memory, Ordered(d, m),
           n.pc \in {"down", "failed"}
    PROVE  /\ Ordered(d, n)
           /\ \A k \in Kinds :
                 /\ Selected(d, m, k)
                 /\ \/ m.pc # Keeping(k) /\ d.file[k] = LastBest(d, k)
                    \/ m.pc \in {"down", "failed", "done"}
                 => Selected(d, n, k)
<1>1. Ordered(d, n)
  BY DEF Ordered, Selecting
<1>2. ASSUME NEW k \in Kinds, Selected(d, m, k),
             \/ m.pc # Keeping(k) /\ d.file[k] = LastBest(d, k)
             \/ m.pc \in {"down", "failed", "done"}
      PROVE  Selected(d, n, k)
  BY <1>2 DEF Selected, Settled, Keeping
<1>3. QED
  BY <1>1, <1>2

\* What a crash in the middle of a selection is noted for.
LEMMA Untorn ==
    ASSUME NEW S \in SUBSET Arms, NEW fit \in BOOLEAN, Noted(S, fit), NEW a \in S, NEW k \in Kinds,
           <<a, k>> \notin torn'
    PROVE  /\ <<a, k>> \notin torn
           /\ \/ run[a].pc # Keeping(k) /\ saved[a].file[k] = LastBest(saved[a], k)
              \/ run[a].pc \in {"down", "failed", "done"}
<1>1. <<a, k>> \in S \X Kinds /\ <<a, k>>[1] = a /\ <<a, k>>[2] = k
  OBVIOUS
<1>2. ~Unselected(a, k) /\ <<a, k>> \notin torn
  BY <1>1 DEF Noted
<1>3. QED
  BY <1>2 DEF Unselected, LastBest

LEMMA FailKeepsArms ==
    ASSUME ArmInv, NEW a \in Arms, Fail(a)
    PROVE  ArmInv'
<1> DEFINE n == [run[a] EXCEPT !.pc = "failed"]
<1>1. /\ TrainTypes /\ saved[a] \in Disk /\ run[a] \in Memory /\ Ordered(saved[a], run[a])
      /\ saved' = saved /\ run' = [run EXCEPT ![a] = n] /\ Noted({a}, FALSE)
  BY DEF ArmInv, TrainTypes, Fail, Goto, Run
<1>2. n \in Memory /\ n.pc = "failed"
  BY <1>1 DEF Memory, Settled
<1> HIDE DEF n
<1>3. TrainTypes' /\ run'[a] = n
  BY <1>1, <1>2 DEF TrainTypes
<1>4. ASSUME NEW b \in Arms
      PROVE  /\ Ordered(saved'[b], run'[b])
             /\ \A k \in Kinds : <<b, k>> \notin torn' => Selected(saved'[b], run'[b], k)
  <2>1. CASE b = a
    <3>1. ASSUME NEW k \in Kinds, <<a, k>> \notin torn'
          PROVE  /\ Selected(saved[a], run[a], k)
                 /\ \/ run[a].pc # Keeping(k) /\ saved[a].file[k] = LastBest(saved[a], k)
                    \/ run[a].pc \in {"down", "failed", "done"}
      BY <1>1, <3>1, Untorn DEF ArmInv
    <3>2. QED
      BY <1>1, <1>2, <1>3, <2>1, <3>1, StopKeeps
  <2>2. CASE b # a
    <3>1. saved'[b] = saved[b] /\ run'[b] = run[b]
      BY <1>1, <2>2 DEF TrainTypes
    <3>2. torn \subseteq torn'
      BY <1>1 DEF Noted
    <3>3. QED
      BY <3>1, <3>2 DEF ArmInv
  <2>3. QED
    BY <2>1, <2>2
<1>5. QED
  BY <1>3, <1>4 DEF ArmInv

LEMMA DownType == Down \in Memory /\ Down.pc = "down"
  BY NoBestType, TrainingAssumption DEF Down, Memory, Settled

LEMMA CrashKeepsArms ==
    ASSUME ArmInv, Crash
    PROVE  ArmInv'
<1>1. /\ TrainTypes /\ saved' = saved /\ run' = [a \in Arms |-> Down]
      /\ Noted(Arms, lpc = "save_best") /\ (lpc = "save_best") \in BOOLEAN
  BY DEF ArmInv, Crash
<1>2. TrainTypes'
  BY <1>1, DownType DEF TrainTypes
<1>3. ASSUME NEW a \in Arms
      PROVE  /\ Ordered(saved'[a], run'[a])
             /\ \A k \in Kinds : <<a, k>> \notin torn' => Selected(saved'[a], run'[a], k)
  <2>1. saved[a] \in Disk /\ run[a] \in Memory /\ Ordered(saved[a], run[a])
    BY <1>1 DEF ArmInv, TrainTypes
  <2>2. ASSUME NEW k \in Kinds, <<a, k>> \notin torn'
        PROVE  /\ Selected(saved[a], run[a], k)
               /\ \/ run[a].pc # Keeping(k) /\ saved[a].file[k] = LastBest(saved[a], k)
                  \/ run[a].pc \in {"down", "failed", "done"}
    BY <1>1, <2>2, Untorn DEF ArmInv
  <2>3. QED
    BY <1>1, <2>1, <2>2, StopKeeps, DownType
<1>4. QED
  BY <1>2, <1>3 DEF ArmInv

LEMMA RaiseKeepsArms ==
    ASSUME ArmInv, RaiseFailed
    PROVE  ArmInv'
<1>1. /\ TrainTypes /\ saved' = saved /\ run' = [a \in Arms |-> Down] /\ torn' = torn
      /\ AllEnded
  BY DEF ArmInv, RaiseFailed, Proceed
<1>2. TrainTypes'
  BY <1>1, DownType DEF TrainTypes
<1>3. ASSUME NEW a \in Arms
      PROVE  /\ Ordered(saved'[a], run'[a])
             /\ \A k \in Kinds : <<a, k>> \notin torn' => Selected(saved'[a], run'[a], k)
  <2>1. saved[a] \in Disk /\ run[a] \in Memory /\ Ordered(saved[a], run[a])
    BY <1>1 DEF ArmInv, TrainTypes
  <2>2. run[a].pc \in {"down", "failed", "done"}
    BY <1>1 DEF AllEnded, Ended
  <2>3. QED
    BY <1>1, <2>1, <2>2, StopKeeps, DownType DEF ArmInv
<1>4. QED
  BY <1>2, <1>3 DEF ArmInv

\* The other steps of the launcher leave the arms alone.
Elsewhere ==
    \/ StartTrial \/ RecordShard \/ StartFit \/ FitEpoch \/ SaveBest \/ FrozenEvaluation \/ Compare
    \/ \E e \in 1 .. Episodes : SaveShard(e)

LEMMA ElsewhereKeepsArms ==
    Elsewhere => saved' = saved /\ run' = run /\ torn' = torn
  BY DEF Elsewhere, StartTrial, RecordShard, StartFit, FitEpoch, SaveBest, FrozenEvaluation,
         Compare, SaveShard, Proceed, trainVars

LEMMA ArmsInductive == ArmInv /\ [TrialNext]_allVars => ArmInv'
<1>1. CASE ArmInv /\ (UNCHANGED allVars \/ Elsewhere)
  <2>1. saved' = saved /\ run' = run /\ torn' = torn
    BY <1>1, ElsewhereKeepsArms DEF allVars, trainVars, trialVars
  <2>2. QED
    BY <1>1, <2>1 DEF ArmInv, TrainTypes
<1>2. QED
  BY <1>1, RunKeepsArms, FailKeepsArms, CrashKeepsArms, RaiseKeepsArms
  DEF TrialNext, TrialStep, Elsewhere

-----------------------------------------------------------------------------
(***************************************************************************)
(* The student.                                                            *)
(***************************************************************************)
LEMMA StudentStart == TrialInit => StudentInv
  BY DEF TrialInit, StudentInv, StudentTypes

\* The least divergence after one more epoch.
LEMMA NextLeast ==
    ASSUME NEW n \in Nat, NEW e \in 0 .. n, \A d \in 0 .. n + 1 : kl[d] \in Nat, IsFirstLeast(e, n)
    PROVE  /\ kl[n + 1] < kl[e] => IsFirstLeast(n + 1, n + 1)
           /\ ~(kl[n + 1] < kl[e]) => IsFirstLeast(e, n + 1)
<1>1. /\ \A d \in 0 .. n : kl[e] <= kl[d]
      /\ \A d \in 0 .. e - 1 : kl[e] < kl[d]
      /\ kl[e] \in Nat /\ kl[n + 1] \in Nat
  BY DEF IsFirstLeast
<1>2. ASSUME NEW d \in 0 .. n + 1 PROVE d \in 0 .. n \/ d = n + 1
  OBVIOUS
<1>3. ASSUME kl[n + 1] < kl[e] PROVE IsFirstLeast(n + 1, n + 1)
  <2>1. \A d \in 0 .. n : kl[n + 1] < kl[d]
    BY <1>1, <1>3
  <2>2. \A d \in 0 .. n + 1 : kl[n + 1] <= kl[d]
    BY <1>1, <1>2, <2>1
  <2>3. (n + 1) - 1 = n /\ n + 1 \in 0 .. n + 1
    OBVIOUS
  <2>4. QED
    BY <2>1, <2>2, <2>3 DEF IsFirstLeast
<1>4. ASSUME ~(kl[n + 1] < kl[e]) PROVE IsFirstLeast(e, n + 1)
  <2>1. \A d \in 0 .. n + 1 : kl[e] <= kl[d]
    BY <1>1, <1>2, <1>4
  <2>2. e \in 0 .. n + 1
    OBVIOUS
  <2>3. QED
    BY <1>1, <2>1, <2>2 DEF IsFirstLeast
<1>5. QED
  BY <1>3, <1>4

LEMMA ZeroLeast ==
    ASSUME kl[0] \in Nat
    PROVE  IsFirstLeast(0, 0)
<1>1. 0 .. 0 = {0} /\ 0 .. 0 - 1 = {}
  OBVIOUS
<1>2. QED
  BY <1>1 DEF IsFirstLeast

LEMMA DivergenceTypes ==
    ASSUME StudentTypes
    PROVE  /\ Epochs \in Nat /\ Epochs # 0
           /\ \A d \in 0 .. Epochs : kl[d] \in Losses /\ kl[d] \in Nat
           /\ student.last # None =>
                 student.last \in Fitted /\ student.last.epoch \in 0 .. Epochs
  BY TrialAssumption DEF StudentTypes, Fitted

\* What StudentInv says of the student alone.
StudentBest ==
    student.last # None =>
        \E e \in 0 .. student.last.epoch :
           /\ IsFirstLeast(e, student.last.epoch) /\ student.last.best = kl[e]
           /\ lpc = "save_best" => e = student.last.epoch
           /\ lpc # "save_best" /\ <<"student", "best">> \notin torn => student.file = e
Judged ==
    frozen # None =>
        /\ student.last # None /\ student.last.epoch = Epochs
        /\ lpc # "save_best" /\ student.file = frozen.epoch
Resumed == lpc \in {"fit", "save_best"} => student.last # None /\ fitted = student.last

LEMMA StudentParts == StudentInv <=> StudentTypes /\ Resumed /\ StudentBest /\ Judged
  BY DEF StudentInv, Resumed, StudentBest, Judged

LEMMA StudentStays ==
    ASSUME StudentInv, kl' = kl, student' = student, frozen' = frozen, recorded' \in Nat,
           torn \subseteq torn',
           (lpc' = lpc /\ fitted' = fitted) \/ lpc' \notin {"fit", "save_best"},
           lpc = "save_best" => lpc' = "save_best" \/ <<"student", "best">> \in torn'
    PROVE  StudentInv'
<1>1. StudentTypes'
  BY DEF StudentInv, StudentTypes
<1>2. Resumed'
  BY StudentParts DEF Resumed
<1>3. StudentBest'
  <2>1. SUFFICES ASSUME student.last # None PROVE StudentBest'
    BY DEF StudentBest
  <2>2. PICK e \in 0 .. student.last.epoch :
           /\ IsFirstLeast(e, student.last.epoch) /\ student.last.best = kl[e]
           /\ lpc = "save_best" => e = student.last.epoch
           /\ lpc # "save_best" /\ <<"student", "best">> \notin torn => student.file = e
    BY <2>1, StudentParts DEF StudentBest
  <2>3. IsFirstLeast(e, student.last.epoch)'
    BY <2>2 DEF IsFirstLeast
  <2>4. QED
    BY <2>2, <2>3 DEF StudentBest
<1>4. Judged'
  BY StudentParts DEF Judged
<1>5. QED
  BY <1>1, <1>2, <1>3, <1>4 DEF StudentInv, Resumed, StudentBest, Judged

LEMMA StartFitKeeps ==
    ASSUME StudentInv, StartFit
    PROVE  StudentInv'
<1>1. /\ StudentTypes /\ Resumed /\ StudentBest /\ Judged
      /\ kl' = kl /\ torn' = torn /\ frozen' = frozen /\ recorded' = recorded /\ lpc = "collect"
  BY StudentParts DEF StartFit, Proceed
<1>2. CASE student.last # None
  <2>1. student' = student /\ fitted' = student.last /\ lpc' = "fit"
    BY <1>2 DEF StartFit, Proceed
  <2>2. StudentTypes'
    BY <1>1, <2>1 DEF StudentTypes
  <2>3. PICK e \in 0 .. student.last.epoch :
           /\ IsFirstLeast(e, student.last.epoch) /\ student.last.best = kl[e]
           /\ <<"student", "best">> \notin torn => student.file = e
    BY <1>1, <1>2 DEF StudentBest
  <2>4. IsFirstLeast(e, student.last.epoch)'
    BY <1>1, <2>1, <2>3 DEF IsFirstLeast
  <2>5. StudentBest'
    BY <1>1, <2>1, <2>3, <2>4 DEF StudentBest
  <2>6. Judged' /\ Resumed'
    BY <1>1, <1>2, <2>1 DEF Judged, Resumed
  <2>7. QED
    BY <2>2, <2>5, <2>6 DEF StudentInv, Resumed, StudentBest, Judged
<1>3. CASE student.last = None
  <2> DEFINE c == [epoch |-> 0, best |-> kl[0]]
  <2>1. student' = [student EXCEPT !.last = c] /\ fitted' = c /\ lpc' = "save_best"
    BY <1>3 DEF StartFit, Proceed
  <2>2. 0 \in 0 .. Epochs /\ kl[0] \in Losses /\ kl[0] \in Nat
    BY <1>1, DivergenceTypes
  <2>3. c \in Fitted /\ c # None /\ c.epoch = 0 /\ c.best = kl[0]
    BY <2>2, TrialAssumption DEF Fitted
  <2> HIDE DEF c
  <2>4. student'.last = c /\ StudentTypes'
    BY <1>1, <2>1, <2>3 DEF StudentTypes
  <2>5. IsFirstLeast(0, 0)'
    BY <1>1, <2>2, ZeroLeast DEF IsFirstLeast
  <2>6. StudentBest'
    BY <1>1, <2>1, <2>3, <2>4, <2>5 DEF StudentBest
  <2>7. Judged' /\ Resumed'
    BY <1>1, <1>3, <2>1, <2>3, <2>4 DEF Judged, Resumed
  <2>8. QED
    BY <2>4, <2>6, <2>7 DEF StudentInv, Resumed, StudentBest, Judged
<1>4. QED
  BY <1>2, <1>3

LEMMA FitEpochKeeps ==
    ASSUME StudentInv, FitEpoch
    PROVE  StudentInv'
<1>0. PICK n : n = fitted.epoch
  OBVIOUS
<1> DEFINE b == Min({fitted.best, kl[n + 1]})
           c == [epoch |-> n + 1, best |-> b]
<1>1. /\ StudentTypes /\ Resumed /\ StudentBest /\ Judged
      /\ kl' = kl /\ torn' = torn /\ frozen' = frozen /\ recorded' = recorded
      /\ lpc = "fit" /\ n < Epochs
      /\ fitted' = c /\ student' = [student EXCEPT !.last = c]
      /\ lpc' = IF kl[n + 1] < fitted.best THEN "save_best" ELSE "fit"
  BY <1>0, StudentParts DEF FitEpoch, Proceed
<1>2. student.last # None /\ fitted = student.last /\ n \in 0 .. Epochs /\ Epochs \in Nat
  BY <1>0, <1>1, DivergenceTypes DEF Resumed
<1>3. PICK e \in 0 .. n :
         /\ IsFirstLeast(e, n) /\ fitted.best = kl[e]
         /\ <<"student", "best">> \notin torn => student.file = e
  BY <1>0, <1>1, <1>2 DEF StudentBest
<1>4. /\ n + 1 \in 0 .. Epochs /\ n \in Nat /\ e \in 0 .. Epochs
      /\ \A d \in 0 .. n + 1 : kl[d] \in Nat
      /\ kl[n + 1] \in Losses /\ kl[e] \in Losses /\ kl[n + 1] \in Nat /\ kl[e] \in Nat
  BY <1>1, <1>2, DivergenceTypes
<1>5. b = IF kl[n + 1] < kl[e] THEN kl[n + 1] ELSE kl[e]
  BY <1>3, <1>4 DEF Min
<1>6. /\ kl[n + 1] < kl[e] => IsFirstLeast(n + 1, n + 1)
      /\ ~(kl[n + 1] < kl[e]) => IsFirstLeast(e, n + 1)
  BY <1>3, <1>4, NextLeast
<1>7. frozen = None
  BY <1>0, <1>1, <1>2, <1>4 DEF Judged
<1> HIDE DEF b
<1>8. c \in Fitted /\ c # None /\ c.epoch = n + 1 /\ c.best = b
  BY <1>4, <1>5, TrialAssumption DEF Fitted
<1> HIDE DEF c
<1>9. student'.last = c /\ student'.file = student.file /\ StudentTypes'
  BY <1>1, <1>8 DEF StudentTypes
<1>10. StudentBest'
  <2>1. CASE kl[n + 1] < kl[e]
    <3>1. IsFirstLeast(n + 1, n + 1)' /\ lpc' = "save_best" /\ c.best = kl'[n + 1]
      BY <1>1, <1>3, <1>5, <1>6, <1>8, <2>1 DEF IsFirstLeast
    <3>2. n + 1 \in 0 .. n + 1
      BY <1>4
    <3>3. QED
      BY <1>8, <1>9, <3>1, <3>2 DEF StudentBest
  <2>2. CASE ~(kl[n + 1] < kl[e])
    <3>1. IsFirstLeast(e, n + 1)' /\ lpc' = "fit" /\ c.best = kl'[e]
      BY <1>1, <1>3, <1>5, <1>6, <1>8, <2>2 DEF IsFirstLeast
    <3>2. e \in 0 .. n + 1
      BY <1>4
    <3>3. QED
      BY <1>1, <1>3, <1>8, <1>9, <3>1, <3>2 DEF StudentBest
  <2>3. QED
    BY <2>1, <2>2
<1>11. Judged' /\ Resumed'
  BY <1>1, <1>7, <1>8, <1>9 DEF Judged, Resumed
<1>12. QED
  BY <1>9, <1>10, <1>11 DEF StudentInv, Resumed, StudentBest, Judged

LEMMA SaveBestKeeps ==
    ASSUME StudentInv, SaveBest
    PROVE  StudentInv'
<1>1. /\ StudentTypes /\ Resumed /\ StudentBest /\ Judged
      /\ kl' = kl /\ torn' = torn /\ frozen' = frozen /\ recorded' = recorded /\ fitted' = fitted
      /\ lpc = "save_best" /\ lpc' = "fit" /\ student' = [student EXCEPT !.file = fitted.epoch]
  BY StudentParts DEF SaveBest, Proceed
<1>2. /\ student.last # None /\ fitted = student.last /\ student.last \in Fitted
      /\ student.last.epoch \in 0 .. Epochs /\ frozen = None
  BY <1>1, DivergenceTypes DEF Resumed, Judged
<1>3. student'.last = student.last /\ student'.file = student.last.epoch /\ StudentTypes'
  BY <1>1, <1>2 DEF StudentTypes
<1>4. PICK e \in 0 .. student.last.epoch :
         /\ IsFirstLeast(e, student.last.epoch) /\ student.last.best = kl[e]
         /\ e = student.last.epoch
  BY <1>1, <1>2 DEF StudentBest
<1>5. IsFirstLeast(e, student.last.epoch)'
  BY <1>1, <1>3, <1>4 DEF IsFirstLeast
<1>6. StudentBest'
  BY <1>1, <1>3, <1>4, <1>5 DEF StudentBest
<1>7. Judged' /\ Resumed'
  BY <1>1, <1>2, <1>3 DEF Judged, Resumed
<1>8. QED
  BY <1>3, <1>6, <1>7 DEF StudentInv, Resumed, StudentBest, Judged

LEMMA FrozenKeeps ==
    ASSUME StudentInv, FrozenEvaluation
    PROVE  StudentInv'
<1>1. /\ StudentTypes /\ Resumed /\ StudentBest /\ Judged
      /\ kl' = kl /\ torn' = torn /\ recorded' = recorded /\ fitted' = fitted /\ student' = student
      /\ lpc = "fit" /\ fitted.epoch = Epochs /\ lpc' \in {"refused", "arms", "blocked"}
  BY StudentParts DEF FrozenEvaluation, Proceed
<1>2. CASE frozen' = frozen
  BY <1>1, <1>2, StudentStays DEF StudentTypes
<1>3. CASE student.file # None /\ frozen = None
  <2>1. PICK passed \in BOOLEAN : frozen' = [epoch |-> student.file, passed |-> passed]
    BY <1>3 DEF FrozenEvaluation, Proceed
  <2>2. student.file \in 0 .. Epochs
    BY <1>1, <1>3 DEF StudentTypes
  <2>3. StudentTypes' /\ frozen'.epoch = student.file
    BY <1>1, <2>1, <2>2 DEF StudentTypes
  <2>4. PICK e \in 0 .. student.last.epoch :
           /\ IsFirstLeast(e, student.last.epoch) /\ student.last.best = kl[e]
           /\ <<"student", "best">> \notin torn => student.file = e
    BY <1>1 DEF StudentBest, Resumed
  <2>5. IsFirstLeast(e, student.last.epoch)'
    BY <1>1, <2>4 DEF IsFirstLeast
  <2>6. StudentBest'
    BY <1>1, <2>4, <2>5 DEF StudentBest
  <2>7. Judged' /\ Resumed'
    BY <1>1, <2>3 DEF Judged, Resumed
  <2>8. QED
    BY <2>3, <2>6, <2>7 DEF StudentInv, Resumed, StudentBest, Judged
<1>4. QED
  BY <1>2, <1>3 DEF FrozenEvaluation

LEMMA StudentInductive == StudentInv /\ [TrialNext]_allVars => StudentInv'
<1> SUFFICES ASSUME StudentInv, [TrialNext]_allVars PROVE StudentInv'
  OBVIOUS
<1> USE StudentStays
<1>0. recorded \in Nat /\ recorded + 1 \in Nat
  BY DEF StudentInv, StudentTypes
<1>1. CASE UNCHANGED allVars \/ (\E a \in Arms : RunArm(a))
  BY <1>0, <1>1 DEF allVars, trialVars, RunArm
<1>2. CASE StartTrial \/ RecordShard \/ RaiseFailed \/ (\E e \in 1 .. Episodes : SaveShard(e))
  BY <1>0, <1>2 DEF StartTrial, RecordShard, RaiseFailed, SaveShard, Proceed
<1>3. CASE Compare
  BY <1>0, <1>3 DEF Compare
<1>4. CASE \E a \in Arms : Fail(a)
  BY <1>0, <1>4 DEF Fail, Noted
<1>5. CASE Crash
  BY <1>0, <1>5 DEF Crash, Noted
<1>6. QED
  BY <1>1, <1>2, <1>3, <1>4, <1>5, StartFitKeeps, FitEpochKeeps, SaveBestKeeps, FrozenKeeps
  DEF TrialNext, TrialStep

-----------------------------------------------------------------------------
(***************************************************************************)
(* The theorems.                                                           *)
(***************************************************************************)
LEMMA TrialInvariant == TrialSpec => []TrialInv
<1>1. TrialInit => TrialInv
  BY ArmsStart, StudentStart DEF TrialInv
<1>2. TrialInv /\ [TrialNext]_allVars => TrialInv'
  BY ArmsInductive, StudentInductive DEF TrialInv
<1>3. QED
  BY <1>1, <1>2, PTL DEF TrialSpec

LEMMA GreatestReport ==
    ASSUME TrainTypes, NEW a \in Arms, NEW k \in Kinds, NEW v \in Scores, Greatest(v, saved[a], k)
    PROVE  BestReport(a, k) = v
<1> DEFINE R == {saved[a].report[f][k] : f \in 1 .. Batches}
<1>1. R \subseteq Nat
  BY TrainingAssumption DEF TrainTypes, Disk, Scores
<1>2. v \in R /\ \A x \in R : x <= v
  BY DEF Greatest
<1> HIDE DEF R
<1>3. Max(R) = v
  <2>1. v \in R /\ \A x \in R : v >= x
    BY <1>1, <1>2
  <2>2. Max(R) \in R /\ \A x \in R : Max(R) >= x
    BY <2>1, Zenon DEF Max
  <2>3. Max(R) >= v /\ v >= Max(R) /\ Max(R) \in Nat /\ v \in Nat
    BY <1>1, <2>1, <2>2
  <2>4. QED
    BY <2>3
<1>4. QED
  BY <1>3 DEF BestReport, R

LEMMA LeastUnique ==
    ASSUME StudentTypes, NEW n \in 0 .. Epochs, NEW e, IsFirstLeast(e, n)
    PROVE  FirstLeast(n) = e
<1>1. \A d \in 0 .. n : kl[d] \in Nat
  BY DivergenceTypes
<1>2. FirstLeast(n) = CHOOSE d : IsFirstLeast(d, n)
  BY Zenon DEF FirstLeast, IsFirstLeast
<1>3. ASSUME NEW d, IsFirstLeast(d, n) PROVE d = e
  <2>1. d \in 0 .. n /\ e \in 0 .. n /\ n \in Nat
    BY <1>3 DEF IsFirstLeast
  <2>2. kl[d] <= kl[e] /\ kl[e] <= kl[d]
    BY <1>3, <2>1 DEF IsFirstLeast
  <2>3. ~(d < e)
    BY <1>1, <1>3, <2>1, <2>2 DEF IsFirstLeast
  <2>4. ~(e < d)
    BY <1>1, <1>3, <2>1, <2>2 DEF IsFirstLeast
  <2>5. QED
    BY <2>1, <2>3, <2>4
<1>4. QED
  BY <1>2, <1>3

LEMMA InvariantKeepsBest == TrialInv => BestKept
<1> SUFFICES ASSUME TrialInv PROVE BestKept
  OBVIOUS
<1>1. ASSUME NEW a \in Arms, NEW k \in Kinds, <<a, k>> \notin torn, run[a].pc # Keeping(k)
      PROVE  saved[a].file[k] = BestReport(a, k)
  <2>1. Greatest(saved[a].file[k], saved[a], k) /\ TrainTypes
    BY <1>1 DEF TrialInv, ArmInv, Selected
  <2>2. saved[a].file[k] \in Scores
    BY <2>1 DEF TrainTypes, Disk
  <2>3. QED
    BY <2>1, <2>2, GreatestReport
<1>2. ASSUME student.last # None, lpc # "save_best", <<"student", "best">> \notin torn
      PROVE  student.file = FirstLeast(student.last.epoch)
  <2>1. PICK e : IsFirstLeast(e, student.last.epoch) /\ student.file = e
    BY <1>2 DEF TrialInv, StudentInv
  <2>2. student.last.epoch \in 0 .. Epochs /\ StudentTypes
    BY <1>2, DivergenceTypes DEF TrialInv, StudentInv
  <2>3. QED
    BY <2>1, <2>2, LeastUnique
<1>3. QED
  BY <1>1, <1>2 DEF BestKept

\* But for a crash inside a selection, the best policy of each kind is in its
\* file and the best student in best.pt, over any number of resumes, crashes and
\* failures of a child, for any number of arms, batches and epochs and all
\* possible scores (RunLog, train, legacy_distill.fit).
THEOREM BestPoliciesKept == TrialSpec => []BestKept
  BY TrialInvariant, InvariantKeepsBest, PTL

\* What a step may never do.
NeverBack ==
    /\ \A a \in Arms :
          /\ saved[a].last # None => saved'[a].last.frames >= saved[a].last.frames
          /\ \A f \in 1 .. Batches, k \in Kinds :
                saved[a].report[f][k] # 0 => saved'[a].report[f][k] = saved[a].report[f][k]
          /\ run[a].pc \notin {"collect", "trained"} /\ run'[a].pc = "collect" =>
                saved'[a].last.frames = run'[a].frames
    /\ recorded' >= recorded
    /\ frozen # None => frozen' = frozen /\ student'.file = frozen.epoch

LEMMA ArmsForward ==
    ASSUME ArmInv, [TrialNext]_allVars, NEW a \in Arms
    PROVE  Forward(saved[a], run[a], saved'[a], run'[a])
<1>1. saved[a] \in Disk /\ run[a] \in Memory /\ TrainTypes
  BY DEF ArmInv, TrainTypes
<1>2. ASSUME NEW n, n = run[a] \/ n.pc \in {"down", "failed"}
      PROVE  Forward(saved[a], run[a], saved[a], n)
  <2>1. saved[a].last # None => saved[a].last.frames \in Nat
    BY <1>1, TrainingAssumption DEF Disk, Checkpoints
  <2>2. QED
    BY <1>2, <2>1 DEF Forward
<1>3. CASE \E b \in Arms : RunArm(b)
  <2>1. PICK b \in Arms : RunArm(b)
    BY <1>3
  <2>2. Steps(b)
    BY <2>1, RunKeepsArms
  <2>3. CASE a = b
    BY <2>2, <2>3 DEF Steps, Keeps
  <2>4. CASE a # b
    <3>1. saved'[a] = saved[a] /\ run'[a] = run[a]
      BY <1>1, <2>2, <2>4 DEF Steps, TrainTypes
    <3>2. QED
      BY <1>2, <3>1
  <2>5. QED
    BY <2>3, <2>4
<1>4. CASE \E b \in Arms : Fail(b)
  <2>1. PICK b \in Arms : Fail(b)
    BY <1>4
  <2>2. saved' = saved /\ run' = [run EXCEPT ![b] = [run[b] EXCEPT !.pc = "failed"]]
    BY <2>1 DEF Fail, Goto, Run
  <2>3. run'[a] = run[a] \/ run'[a].pc = "failed"
    BY <1>1, <2>2 DEF TrainTypes, Memory
  <2>4. QED
    BY <1>2, <2>2, <2>3
<1>5. CASE Crash \/ RaiseFailed
  <2>1. saved' = saved /\ run'[a] = Down
    BY <1>5 DEF Crash, RaiseFailed
  <2>2. QED
    BY <1>2, <2>1, DownType
<1>6. CASE Elsewhere \/ UNCHANGED allVars
  <2>1. saved' = saved /\ run' = run
    BY <1>6, ElsewhereKeepsArms DEF allVars, trainVars
  <2>2. QED
    BY <1>2, <2>1
<1>7. QED
  BY <1>3, <1>4, <1>5, <1>6 DEF TrialNext, TrialStep, Elsewhere

LEMMA LauncherForward ==
    ASSUME StudentInv, [TrialNext]_allVars
    PROVE  /\ recorded' >= recorded
           /\ frozen # None => frozen' = frozen /\ student'.file = frozen.epoch
<1>1. recorded \in Nat
  BY DEF StudentInv, StudentTypes
<1>2. CASE RecordShard
  BY <1>1, <1>2 DEF RecordShard, StudentInv
<1>3. CASE UNCHANGED allVars \/ (\E a \in Arms : RunArm(a) \/ Fail(a))
  <2>1. recorded' = recorded /\ frozen' = frozen /\ student' = student
    BY <1>3 DEF allVars, trialVars, RunArm, Fail
  <2>2. QED
    BY <1>1, <2>1 DEF StudentInv
<1>4. CASE StartTrial \/ RaiseFailed \/ Compare \/ Crash \/ \E e \in 1 .. Episodes : SaveShard(e)
  <2>1. recorded' = recorded /\ frozen' = frozen /\ student' = student
    BY <1>4 DEF StartTrial, RaiseFailed, Compare, Crash, SaveShard
  <2>2. QED
    BY <1>1, <2>1 DEF StudentInv
<1>5. CASE StartFit
  <2>1. recorded' = recorded /\ frozen' = frozen /\ (student.last # None => student' = student)
    BY <1>5 DEF StartFit
  <2>2. QED
    BY <1>1, <2>1 DEF StudentInv
<1>6. CASE FitEpoch \/ SaveBest
  <2>1. /\ recorded' = recorded /\ frozen' = frozen
        /\ FitEpoch => fitted.epoch < Epochs /\ lpc = "fit"
        /\ SaveBest => lpc = "save_best"
    BY <1>6 DEF FitEpoch, SaveBest
  <2>2. frozen = None
    BY <1>6, <2>1, TrialAssumption DEF StudentInv
  <2>3. QED
    BY <1>1, <2>1, <2>2
<1>7. CASE FrozenEvaluation
  <2>1. recorded' = recorded /\ student' = student /\ (frozen # None => frozen' = frozen)
    BY <1>7 DEF FrozenEvaluation
  <2>2. QED
    BY <1>1, <2>1 DEF StudentInv
<1>8. QED
  BY <1>2, <1>3, <1>4, <1>5, <1>6, <1>7 DEF TrialNext, TrialStep

\* A resumed command repeats nothing that was finished: training goes on from
\* the last batch saved, reports and recorded episodes stay, and the student
\* that was judged is the one every later start loads (train, RunLog, collect,
\* the launcher's main), for any number of crashes.
THEOREM NothingIsRepeated == TrialSpec => NothingRepeated
<1>1. TrialInv /\ [TrialNext]_allVars => [NeverBack]_allVars
  <2> SUFFICES ASSUME TrialInv, [TrialNext]_allVars PROVE NeverBack
    OBVIOUS
  <2>1. \A a \in Arms : Forward(saved[a], run[a], saved'[a], run'[a])
    BY ArmsForward DEF TrialInv
  <2>2. /\ recorded' >= recorded
        /\ frozen # None => frozen' = frozen /\ student'.file = frozen.epoch
    BY LauncherForward DEF TrialInv
  <2>3. QED
    BY <2>1, <2>2 DEF NeverBack, Forward
<1>2. QED
  BY <1>1, TrialInvariant, PTL DEF TrialSpec, NothingRepeated, NeverBack
=============================================================================
