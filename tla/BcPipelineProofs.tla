-------------------------- MODULE BcPipelineProofs --------------------------
(***************************************************************************)
(* Proofs about BcPipeline: however often the suite is interrupted, its    *)
(* outcome keeps the contract of SelectionContract, a resumed training is  *)
(* the uninterrupted one, and each supplement and the test get the best    *)
(* checkpoint of all that were due.                                        *)
(***************************************************************************)
EXTENDS BcPipeline, SequenceSets, TLAPS

-----------------------------------------------------------------------------
(* Assessments come every Interval epochs. *)

LEMMA FirstAssessment ==
    ASSUME NEW e \in Scheduled PROVE Interval <= e
  BY CountsAssumption DEF Scheduled

LEMMA NextAssessment ==
    ASSUME NEW e \in Scheduled, NEW c \in Nat, c % Interval = 0, e < c + Interval
    PROVE  e <= c
<1> DEFINE x == e \div Interval
           y == c \div Interval
<1>1. Interval \in Nat \ {0} /\ e \in Nat /\ e % Interval = 0
  BY CountsAssumption DEF Scheduled
<1>2. x \in Int /\ e = Interval * x
  BY <1>1
<1>3. y \in Int /\ c = Interval * y
  BY <1>1
<1> HIDE DEF x, y
<1>4. Interval * (x - y) < Interval
  BY <1>1, <1>2, <1>3
<1>5. x - y <= 0
  BY <1>1, <1>2, <1>3, <1>4
<1>6. Interval * (x - y) <= 0
  BY <1>1, <1>2, <1>3, <1>5
<1>7. QED
  BY <1>1, <1>2, <1>3, <1>6

LEMMA Multiple ==
    ASSUME NEW c \in Nat, c % Interval = 0
    PROVE  c + Interval \in Nat /\ (c + Interval) % Interval = 0
<1> DEFINE d == c \div Interval
           e == (c + Interval) \div Interval
           m == (c + Interval) % Interval
<1>1. Interval \in Nat \ {0} /\ c + Interval \in Nat
  BY CountsAssumption
<1>2. d \in Int /\ c = Interval * d
  BY <1>1
<1>3. e \in Int /\ m \in 0 .. Interval - 1 /\ c + Interval = Interval * e + m
  BY <1>1
<1> HIDE DEF d, e, m
<1>4. Interval * (d + 1 - e) = m
  BY <1>1, <1>2, <1>3
<1>5. d + 1 - e <= 0
  BY <1>1, <1>2, <1>3, <1>4
<1>6. d + 1 - e >= 0
  BY <1>1, <1>2, <1>3, <1>4
<1>7. d + 1 - e = 0
  BY <1>2, <1>3, <1>5, <1>6
<1>8. m = 0
  BY <1>1, <1>4, <1>7
<1>9. QED
  BY <1>1, <1>8 DEF m

-----------------------------------------------------------------------------
(***************************************************************************)
(* The invariant.                                                          *)
(***************************************************************************)
Early == {"down", "refused", "repair", "repairing"}
Fitting == {"epoch", "save", "metrics", "last", "assess", "select"}
InRound == {"initial", "copying", "collect", "fit"} \cup Fitting
Tried == {"test", "publish"}

\* The fields of the two records, and the types of those that matter here.
Shape ==
    /\ disk = [teachers |-> disk.teachers, roundSpec |-> disk.roundSpec,
               initial |-> disk.initial, shards |-> disk.shards,
               manifest |-> disk.manifest, config |-> disk.config,
               last |-> disk.last, saved |-> disk.saved, metrics |-> disk.metrics,
               report |-> disk.report, best |-> disk.best,
               selection |-> disk.selection, tested |-> disk.tested,
               test |-> disk.test, status |-> disk.status]
    /\ mem = [round |-> mem.round, data |-> mem.data, ready |-> mem.ready,
              epoch |-> mem.epoch, check |-> mem.check, weights |-> mem.weights,
              rows |-> mem.rows]
Checkpoints == [epoch : 0 .. Epochs, weights : Weights]
Selections == [tag : Tags, report : Reports]
DiskTypes ==
    /\ disk.roundSpec \in [RoundIds -> (SUBSET Conditions) \cup {None}]
    /\ disk.initial \in [RoundIds -> Weights \cup {Torn, None}]
    /\ disk.last \in [RoundIds -> Checkpoints \cup {None}]
    /\ disk.saved \in [Tags -> Weights \cup {None}]
    /\ disk.report \in [Tags -> Reports \cup {None}]
    /\ disk.selection \in Selections \cup {None}
    /\ disk.best \in Weights \cup {Torn, None}
MemTypes ==
    /\ mem.round \in 0 .. Rounds /\ mem.epoch \in 0 .. Epochs /\ mem.check \in Nat
    /\ pc \in Fitting => mem.weights \in Weights
Types == Shape /\ DiskTypes /\ MemTypes

\* Where a run is: rounds are frozen one after the other, and a round that is
\* worked on is frozen and has its initial model.
Place ==
    /\ pc \in States
    /\ pc \in Early => mem.round = 0
    /\ pc \in InRound => mem.round \in RoundIds /\ disk.roundSpec[mem.round] # None
    /\ pc = "copying" => mem.round > 0
    /\ pc \in {"collect", "fit"} \cup Fitting /\ mem.round > 0 =>
          disk.initial[mem.round] # None
    /\ \A r \in RoundIds : r < mem.round => disk.roundSpec[r] # None
    /\ \A q, r \in RoundIds :
          q < r /\ disk.roundSpec[r] # None => disk.roundSpec[q] # None
    /\ pc \in {"verdict"} \cup Tried =>
          /\ mem.round > 0
          /\ \A r \in RoundIds : r >= mem.round => disk.roundSpec[r] = None
    /\ pc = "notready" => mem.round > 0 /\ ~Passed(disk.selection.report)
    /\ pc \in Tried => disk.tested # None
    /\ disk.status # None => pc = "down"

\* A checkpoint was assessed and does not rank ahead of the selected one.
Behind(t) ==
    /\ disk.report[t] # None /\ disk.selection # None
    /\ disk.selection.report.rank <= disk.report[t].rank

\* What this process has been through is behind the selection, since it repeats
\* the assessments of those before it; once the test is open, all there is.
Assessed ==
    /\ \A t \in Tags : t[1] < mem.round => Behind(t)
    /\ pc \in Fitting =>
          /\ mem.check > 0 /\ mem.check % Interval = 0
          /\ \A t \in Tags : t[1] = mem.round /\ t[2] < mem.check => Behind(t)
    /\ pc \in {"assess", "select"} =>
          Tag \in Tags /\ disk.report[Tag] # None /\ mem.check <= mem.epoch
    /\ pc = "select" => Improves(disk.report[Tag])
    /\ disk.tested # None =>
          /\ disk.roundSpec[0] # None
          /\ disk.selection # None /\ Passed(disk.selection.report)
          /\ \A t \in Tags : disk.roundSpec[t[1]] # None => Behind(t)

\* Checkpoints are saved before anything refers to them.
Saved ==
    /\ \A t \in Tags : disk.last[t[1]] # None /\ t[2] <= disk.last[t[1]].epoch =>
          disk.saved[t] # None
    /\ pc \in Fitting => \A t \in Tags :
          t[1] = mem.round /\ t[2] <= mem.epoch /\ (pc = "save" => t[2] < mem.epoch) =>
             disk.saved[t] # None
    /\ disk.selection # None => disk.saved[disk.selection.tag] # None
    /\ pc = "repairing" => disk.selection # None
    /\ pc \notin Early /\ (disk.selection # None \/ pc = "select") => disk.best # None

SuiteInv == Types /\ Place /\ Assessed /\ Saved

LEMMA InitSuite == Init => SuiteInv
<1> SUFFICES ASSUME Init PROVE SuiteInv
  OBVIOUS
<1>1. Shape
  BY DEF Init, Fresh, Idle, Shape
<1>2. DiskTypes
  BY DEF Init, Fresh, DiskTypes
<1>3. MemTypes
  BY CountsAssumption DEF Init, Idle, MemTypes, Fitting
<1>4. Place
  <2>1. pc = "down" /\ mem.round = 0 /\ disk.status = None
    BY DEF Init, Fresh, Idle
  <2>2. \A r \in RoundIds : disk.roundSpec[r] = None /\ ~(r < 0)
    BY DEF Init, Fresh, RoundIds
  <2>3. QED
    BY <2>1, <2>2 DEF Place, States, Early, InRound, Fitting, Tried
<1>5. Assessed
  BY DEF Init, Fresh, Idle, Assessed, Fitting, Tags, RoundIds
<1>6. Saved
  BY DEF Init, Fresh, Idle, Saved, Fitting, Early, Tags
<1>7. QED
  BY <1>1, <1>2, <1>3, <1>4, <1>5, <1>6 DEF SuiteInv, Types

-----------------------------------------------------------------------------
(***************************************************************************)
(* Steps.  `Files` and `Memory` are what the invariant reads; most writes  *)
(* leave one of them as it was.                                            *)
(***************************************************************************)
Files ==
    <<disk.roundSpec, disk.initial, disk.last, disk.saved, disk.report, disk.best,
      disk.selection, disk.tested>>
Memory == <<mem.round, mem.epoch, mem.check, mem.weights>>

\* The process ends: nothing of its memory is left.
LEMMA Restart ==
    ASSUME SuiteInv, Files' = Files, Shape', mem' = Idle,
           pc' \in {"down", "refused"}, disk'.status # None => pc' = "down"
    PROVE  SuiteInv'
<1>1. mem'.round = 0 /\ mem'.epoch = 0 /\ mem'.check = 0
  BY DEF Idle
<1>2. DiskTypes'
  BY DEF SuiteInv, Types, DiskTypes, Files
<1>3. MemTypes'
  BY <1>1, CountsAssumption DEF MemTypes, Fitting
<1>4. Place'
  BY <1>1 DEF SuiteInv, Place, Files, RoundIds, States, Early, InRound, Fitting, Tried
<1>5. Assessed'
  <2>1. \A t \in Tags : ~(t[1] < 0)
    BY DEF Tags, RoundIds
  <2>2. \A t \in Tags : Behind(t) => Behind(t)'
    BY DEF Behind, Files
  <2>3. QED
    BY <1>1, <2>1, <2>2 DEF SuiteInv, Assessed, Files, Fitting
<1>6. Saved'
  BY DEF SuiteInv, Saved, Files, Fitting, Early
<1>7. QED
  BY <1>2, <1>3, <1>4, <1>5, <1>6 DEF SuiteInv, Types

LEMMA IdleShape == ASSUME Shape, disk' = disk, mem' = Idle PROVE Shape'
  BY DEF Shape, Idle

LEMMA RefuseStep == ASSUME SuiteInv, Refuse, pc # "down" PROVE SuiteInv'
<1>1. Files' = Files /\ Shape' /\ mem' = Idle /\ pc' = "refused" /\ disk' = disk
  BY IdleShape DEF Refuse, Goto, Files, SuiteInv, Types
<1>2. QED
  BY <1>1, Restart DEF SuiteInv, Place

LEMMA CrashStep == ASSUME SuiteInv, Crash PROVE SuiteInv'
<1>1. Files' = Files /\ Shape' /\ mem' = Idle /\ pc' = "down"
  BY IdleShape DEF Crash, Files, SuiteInv, Types
<1>2. QED
  BY <1>1, Restart

\* Only pc changes, or files and memory the invariant does not read.
Moves ==
    \/ pc \in {"down", "refused"} /\ pc' = "repair"
    \/ pc = "repair" /\ pc' = "round" /\ (disk.selection # None => disk.best # None)
    \/ pc = "round" /\ pc' = "initial"
          /\ mem.round \in RoundIds /\ disk.roundSpec[mem.round] # None
    \/ pc = "round" /\ pc' = "notready"
          /\ mem.round > 0 /\ ~Passed(disk.selection.report)
    \/ pc = "round" /\ pc' = "verdict"
          /\ mem.round > 0 /\ \A r \in RoundIds : r >= mem.round => disk.roundSpec[r] = None
    \/ pc = "initial" /\ pc' = "collect"
          /\ (mem.round > 0 => disk.initial[mem.round] # None)
    \/ pc = "collect" /\ pc' \in {"collect", "fit"}
    \/ pc = "metrics" /\ pc' = "last"
    \/ pc = "test" /\ pc' = "publish"
LEMMA Move ==
    ASSUME SuiteInv, Moves, Files' = Files, Memory' = Memory, Shape',
           disk.status = None, disk'.status = None
    PROVE  SuiteInv'
<1>1. /\ mem'.round = mem.round /\ mem'.epoch = mem.epoch
      /\ mem'.check = mem.check /\ mem'.weights = mem.weights
  BY DEF Memory
<1>2. /\ disk'.roundSpec = disk.roundSpec /\ disk'.initial = disk.initial
      /\ disk'.last = disk.last /\ disk'.saved = disk.saved
      /\ disk'.report = disk.report /\ disk'.best = disk.best
      /\ disk'.selection = disk.selection /\ disk'.tested = disk.tested
  BY DEF Files
<1>3. DiskTypes'
  BY <1>2 DEF SuiteInv, Types, DiskTypes
<1>4. MemTypes'
  BY <1>1 DEF SuiteInv, Types, MemTypes, Moves, Fitting
<1>5. Place'
  BY <1>1, <1>2 DEF SuiteInv, Place, Moves, RoundIds, States, Early, InRound, Fitting, Tried
<1>6. Assessed'
  <2>1. \A t \in Tags : Behind(t) => Behind(t)'
    BY <1>2 DEF Behind
  <2>2. pc' \in Fitting => pc \in Fitting /\ pc' \notin {"assess", "select"}
    BY DEF Moves, Fitting
  <2>3. pc' \notin {"assess", "select"}
    BY DEF Moves
  <2>4. QED
    BY <1>1, <1>2, <2>1, <2>2, <2>3 DEF SuiteInv, Assessed
<1>7. Saved'
  <2>1. pc' \in Fitting => pc = "metrics" /\ pc' = "last"
    BY DEF Moves, Fitting
  <2>2. pc' # "repairing" /\ pc' # "select"
    BY DEF Moves
  <2>3. pc' \notin Early /\ disk.selection # None => disk.best # None
    BY DEF Moves, SuiteInv, Saved, Early
  <2>4. QED
    BY <1>1, <1>2, <2>1, <2>2, <2>3 DEF SuiteInv, Saved, Fitting
<1>8. QED
  BY <1>3, <1>4, <1>5, <1>6, <1>7 DEF SuiteInv, Types

LEMMA MoveSteps ==
    ASSUME SuiteInv,
           \/ Boot \/ Collected \/ RecordShard \/ SaveMetrics \/ Test
           \/ \E i \in 1 .. Rows : SaveShard(i)
    PROVE  SuiteInv'
<1>1. Shape
  BY DEF SuiteInv, Types
<1>2. disk.status = None
  BY DEF SuiteInv, Place, Boot, Collected, RecordShard, SaveMetrics, Test, SaveShard
<1>3. CASE Boot
  <2>1. Files' = Files /\ Memory' = Memory /\ Shape' /\ disk'.status = disk.status
    BY <1>1, <1>3 DEF Boot, Files, Memory, Shape, Goto
  <2>2. Moves
    BY <1>3 DEF Boot, Goto, Moves
  <2>3. QED
    BY <1>2, <2>1, <2>2, Move
<1>4. CASE Collected
  <2>1. Files' = Files /\ Memory' = Memory /\ Shape' /\ disk'.status = disk.status
    BY <1>1, <1>4 DEF Collected, Files, Memory, Shape, Goto
  <2>2. Moves
    BY <1>4 DEF Collected, Goto, Moves
  <2>3. QED
    BY <1>2, <2>1, <2>2, Move
<1>5. CASE RecordShard
  <2>1. Files' = Files /\ Memory' = Memory /\ Shape' /\ disk'.status = disk.status
    BY <1>1, <1>5 DEF RecordShard, Files, Memory, Shape, Goto
  <2>2. Moves
    BY <1>5 DEF RecordShard, Goto, Moves
  <2>3. QED
    BY <1>2, <2>1, <2>2, Move
<1>6. CASE SaveMetrics
  <2>1. Files' = Files /\ Memory' = Memory /\ Shape' /\ disk'.status = disk.status
    BY <1>1, <1>6 DEF SaveMetrics, Files, Memory, Shape, Goto
  <2>2. Moves
    BY <1>6 DEF SaveMetrics, Goto, Moves
  <2>3. QED
    BY <1>2, <2>1, <2>2, Move
<1>7. CASE Test
  <2>1. Files' = Files /\ Memory' = Memory /\ Shape' /\ disk'.status = disk.status
    BY <1>1, <1>7 DEF Test, Files, Memory, Shape, Goto
  <2>2. Moves
    BY <1>7 DEF Test, Goto, Moves
  <2>3. QED
    BY <1>2, <2>1, <2>2, Move
<1>8. ASSUME NEW i \in 1 .. Rows, SaveShard(i) PROVE SuiteInv'
  <2>1. Files' = Files /\ Memory' = Memory /\ Shape' /\ disk'.status = disk.status
    BY <1>1, <1>8 DEF SaveShard, Files, Memory, Shape, Goto
  <2>2. Moves
    BY <1>8 DEF SaveShard, Goto, Moves
  <2>3. QED
    BY <1>2, <2>1, <2>2, Move
<1>9. QED
  BY <1>3, <1>4, <1>5, <1>6, <1>7, <1>8

\* Some checkpoint is assessed in the first round.
LEMMA SomeTag == <<0, Interval>> \in Tags
  BY CountsAssumption DEF Tags, RoundIds, Scheduled

\* After the first round there is a selection.
LEMMA LaterSelected ==
    ASSUME SuiteInv, mem.round > 0
    PROVE  disk.selection # None /\ (pc \notin Early => disk.best # None)
<1>1. Behind(<<0, Interval>>)
  BY SomeTag DEF SuiteInv, Assessed
<1>2. QED
  BY <1>1 DEF Behind, SuiteInv, Saved

LEMMA RepairStep == ASSUME SuiteInv, Repair PROVE SuiteInv'
<1>1. disk.status = None /\ Shape /\ pc = "repair"
  BY DEF SuiteInv, Types, Place, Repair
<1>2. CASE disk.selection # None /\ ~BestIsSelected
  <2>1. disk' = [disk EXCEPT !.best = Torn] /\ mem' = mem /\ pc' = "repairing"
    BY <1>2 DEF Repair, Goto
  <2>2. /\ disk'.roundSpec = disk.roundSpec /\ disk'.initial = disk.initial
        /\ disk'.last = disk.last /\ disk'.saved = disk.saved
        /\ disk'.report = disk.report /\ disk'.best = Torn
        /\ disk'.selection = disk.selection /\ disk'.tested = disk.tested
        /\ disk'.status = None /\ Shape'
    BY <1>1, <2>1 DEF Shape
  <2>3. Types'
    BY <1>1, <2>1, <2>2 DEF SuiteInv, Types, DiskTypes, MemTypes, Fitting
  <2>4. Place'
    BY <1>1, <2>1, <2>2 DEF SuiteInv, Place, States, Early, InRound, Fitting, Tried
  <2>5. Assessed'
    <3>1. \A t \in Tags : Behind(t) => Behind(t)'
      BY <2>2 DEF Behind
    <3>2. QED
      BY <1>1, <2>1, <2>2, <3>1 DEF SuiteInv, Assessed, Fitting
  <2>6. Saved'
    BY <1>2, <2>1, <2>2 DEF SuiteInv, Saved, Early, Fitting
  <2>7. QED
    BY <2>3, <2>4, <2>5, <2>6 DEF SuiteInv
<1>3. CASE ~(disk.selection # None /\ ~BestIsSelected)
  <2>1. disk' = disk /\ mem' = mem /\ pc' = "round"
    BY <1>3 DEF Repair, Goto
  <2>2. Files' = Files /\ Memory' = Memory /\ Shape' /\ disk'.status = None
    BY <1>1, <2>1 DEF Files, Memory, Shape
  <2>3. disk.selection # None => disk.best # None
    BY <1>3 DEF BestIsSelected, Chosen, SuiteInv, Saved
  <2>4. QED
    BY <1>1, <2>1, <2>2, <2>3, Move DEF Moves
<1>4. QED
  BY <1>2, <1>3

LEMMA RepairedStep == ASSUME SuiteInv, Repaired PROVE SuiteInv'
<1>1. disk.status = None /\ Shape /\ pc = "repairing" /\ mem.round = 0
  BY DEF SuiteInv, Types, Place, Repaired, Early
<1>2. disk' = [disk EXCEPT !.best = disk.saved[Chosen]] /\ mem' = mem /\ pc' = "round"
  BY DEF Repaired, Goto
<1>3. disk.selection # None /\ disk.saved[Chosen] # None
  BY <1>1 DEF SuiteInv, Saved, Chosen
<1>4. disk.saved[Chosen] \in Weights \cup {None}
  BY <1>3 DEF SuiteInv, Types, DiskTypes, Selections, Chosen
<1>5. /\ disk'.roundSpec = disk.roundSpec /\ disk'.initial = disk.initial
      /\ disk'.last = disk.last /\ disk'.saved = disk.saved
      /\ disk'.report = disk.report /\ disk'.best = disk.saved[Chosen]
      /\ disk'.selection = disk.selection /\ disk'.tested = disk.tested
      /\ disk'.status = None /\ Shape'
  BY <1>1, <1>2 DEF Shape
<1>6. Types'
  BY <1>1, <1>2, <1>4, <1>5 DEF SuiteInv, Types, DiskTypes, MemTypes, Fitting
<1>7. Place'
  BY <1>1, <1>2, <1>5 DEF SuiteInv, Place, States, Early, InRound, Fitting, Tried
<1>8. Assessed'
  <2>1. \A t \in Tags : Behind(t) => Behind(t)'
    BY <1>5 DEF Behind
  <2>2. QED
    BY <1>1, <1>2, <1>5, <2>1 DEF SuiteInv, Assessed, Fitting
<1>9. Saved'
  BY <1>1, <1>2, <1>3, <1>5 DEF SuiteInv, Saved, Early, Fitting
<1>10. QED
  BY <1>6, <1>7, <1>8, <1>9 DEF SuiteInv

LEMMA RoundsStep == ASSUME SuiteInv, EnterRound \/ LeaveRounds PROVE SuiteInv'
<1>1. disk.status = None /\ Shape /\ pc = "round" /\ mem.round \in 0 .. Rounds /\ mem' = mem
  BY DEF SuiteInv, Types, MemTypes, Place, EnterRound, LeaveRounds
<1>2. CASE LeaveRounds
  <2>1. disk' = disk /\ pc' = "verdict"
    BY <1>2 DEF LeaveRounds, Goto
  <2>2. mem.round > 0
    BY <1>2, CountsAssumption DEF LeaveRounds
  <2>3. \A r \in RoundIds : r >= mem.round => disk.roundSpec[r] = None
    <3>1. CASE mem.round = Rounds
      BY <3>1, CountsAssumption DEF RoundIds
    <3>2. CASE mem.round \in RoundIds /\ disk.roundSpec[mem.round] = None
      BY <3>2 DEF SuiteInv, Place, RoundIds
    <3>3. QED
      BY <1>2, <3>1, <3>2 DEF LeaveRounds, RoundIds
  <2>4. Files' = Files /\ Memory' = Memory /\ Shape' /\ disk'.status = None
    BY <1>1, <2>1 DEF Files, Memory, Shape
  <2>5. QED
    BY <1>1, <2>1, <2>2, <2>3, <2>4, Move DEF Moves
<1>3. CASE EnterRound /\ disk' = disk
  <2>1. Files' = Files /\ Memory' = Memory /\ Shape' /\ disk'.status = None
    BY <1>1, <1>3 DEF Files, Memory, Shape
  <2>2. mem.round \in RoundIds
    BY <1>1, <1>3, CountsAssumption DEF EnterRound, RoundIds
  <2>3. CASE disk.roundSpec[mem.round] # None
    BY <1>1, <1>3, <2>1, <2>2, <2>3, Move DEF Moves, EnterRound, Goto
  <2>4. CASE disk.roundSpec[mem.round] = None
    <3>1. disk'.roundSpec = disk.roundSpec
      BY <1>3
    <3>2. \A C \in SUBSET Conditions : ~StartRound(C)
      <4>1. ASSUME NEW C \in SUBSET Conditions, StartRound(C) PROVE FALSE
        <5>1. disk'.roundSpec = [disk.roundSpec EXCEPT ![mem.round] = C]
          BY <1>1, <4>1 DEF StartRound, Shape
        <5>2. disk'.roundSpec[mem.round] = C
          BY <2>2, <5>1 DEF SuiteInv, Types, DiskTypes
        <5>3. QED
          BY <2>4, <3>1, <5>2, TokensAssumption
      <4>2. QED
        BY <4>1
    <3>3. disk.selection # None =>
              disk.selection.report.failed \in SUBSET Conditions
      BY ReportsAssumption DEF SuiteInv, Types, DiskTypes, Selections
    <3>4. mem.round > 0 /\ ~Passed(disk.selection.report) /\ pc' = "notready"
      BY <1>1, <1>3, <2>4, <3>2, <3>3, LaterSelected DEF EnterRound, Goto
    <3>5. QED
      BY <1>1, <2>1, <3>4, Move DEF Moves
  <2>5. QED
    BY <2>3, <2>4
<1>4. ASSUME EnterRound, disk' # disk PROVE SuiteInv'
  <2>1. mem.round \in RoundIds /\ disk.roundSpec[mem.round] = None
    BY <1>1, <1>4, CountsAssumption DEF EnterRound, RoundIds
  <2>2. PICK C \in SUBSET Conditions : StartRound(C)
    BY <1>1, <1>4, LaterSelected, ReportsAssumption
    DEF EnterRound, SuiteInv, Types, DiskTypes, Selections
  <2>3. /\ disk'.roundSpec = [disk.roundSpec EXCEPT ![mem.round] = C]
        /\ disk'.initial = disk.initial
        /\ disk'.last = disk.last /\ disk'.saved = disk.saved
        /\ disk'.report = disk.report /\ disk'.best = disk.best
        /\ disk'.selection = disk.selection /\ disk'.tested = disk.tested
        /\ disk'.status = None /\ Shape' /\ pc' = "initial"
    BY <1>1, <2>2 DEF Shape, StartRound, Goto
  <2>4. C # None
    BY TokensAssumption
  <2>5. /\ disk'.roundSpec \in [RoundIds -> (SUBSET Conditions) \cup {None}]
        /\ \A r \in RoundIds :
              disk'.roundSpec[r] = IF r = mem.round THEN C ELSE disk.roundSpec[r]
    BY <2>1, <2>3 DEF SuiteInv, Types, DiskTypes
  <2>6. Types'
    BY <1>1, <2>3, <2>5 DEF SuiteInv, Types, DiskTypes, MemTypes, Fitting
  <2>7. Place'
    BY <1>1, <2>1, <2>3, <2>4, <2>5
    DEF SuiteInv, Place, RoundIds, States, Early, InRound, Fitting, Tried
  <2>8. disk.tested = None
    <3>1. CASE mem.round = 0
      BY <2>1, <3>1 DEF SuiteInv, Assessed
    <3>2. CASE mem.round > 0
      BY <1>4, <2>1, <3>2 DEF SuiteInv, Assessed, EnterRound
    <3>3. QED
      BY <1>1, <3>1, <3>2
  <2>9. Assessed'
    <3>1. \A t \in Tags : Behind(t) => Behind(t)'
      BY <2>3 DEF Behind
    <3>2. QED
      BY <1>1, <2>3, <2>8, <3>1 DEF SuiteInv, Assessed, Fitting
  <2>10. Saved'
    BY <1>1, <2>3 DEF SuiteInv, Saved, Early, Fitting
  <2>11. QED
    BY <2>6, <2>7, <2>9, <2>10 DEF SuiteInv
<1>5. QED
  BY <1>2, <1>3, <1>4

\* An initial model is written, torn at first; the selection exists by then.
LEMMA Initialise ==
    ASSUME SuiteInv, NEW w \in Weights \cup {Torn, None}, w # None,
           mem.round \in RoundIds, disk.roundSpec[mem.round] # None, disk.status = None,
           disk' = [disk EXCEPT !.initial[mem.round] = w], mem' = mem, mem.round > 0,
           \/ pc = "initial" /\ pc' = "copying"
           \/ pc = "copying" /\ pc' = "collect"
    PROVE  SuiteInv'
<1>1. Shape /\ disk.initial \in [RoundIds -> Weights \cup {Torn, None}]
  BY DEF SuiteInv, Types, DiskTypes
<1>2. /\ disk'.initial = [disk.initial EXCEPT ![mem.round] = w]
      /\ disk'.roundSpec = disk.roundSpec
      /\ disk'.last = disk.last /\ disk'.saved = disk.saved
      /\ disk'.report = disk.report /\ disk'.best = disk.best
      /\ disk'.selection = disk.selection /\ disk'.tested = disk.tested
      /\ disk'.status = None /\ Shape'
  BY <1>1 DEF Shape
<1>3. /\ disk'.initial \in [RoundIds -> Weights \cup {Torn, None}]
      /\ disk'.initial[mem.round] = w
  BY <1>1, <1>2
<1>4. Types'
  BY <1>2, <1>3 DEF SuiteInv, Types, DiskTypes, MemTypes, Fitting
<1>5. Place'
  BY <1>2, <1>3 DEF SuiteInv, Place, States, Early, InRound, Fitting, Tried
<1>6. Assessed'
  <2>1. \A t \in Tags : Behind(t) => Behind(t)'
    BY <1>2 DEF Behind
  <2>2. QED
    BY <1>2, <2>1 DEF SuiteInv, Assessed, Fitting
<1>7. Saved'
  BY <1>2 DEF SuiteInv, Saved, Early, Fitting
<1>8. QED
  BY <1>4, <1>5, <1>6, <1>7 DEF SuiteInv

LEMMA InitialSteps == ASSUME SuiteInv, CopyInitial \/ CopiedInitial PROVE SuiteInv'
<1>1. /\ disk.status = None /\ Shape /\ mem.round \in RoundIds /\ mem' = mem
      /\ disk.roundSpec[mem.round] # None
  BY DEF SuiteInv, Types, Place, CopyInitial, CopiedInitial, InRound
<1>2. CASE CopiedInitial
  <2>1. pc = "copying" /\ pc' = "collect" /\ disk' = [disk EXCEPT !.initial[mem.round] = disk.best]
    BY <1>2 DEF CopiedInitial, Goto
  <2>2. disk.best \in Weights \cup {Torn, None}
    BY DEF SuiteInv, Types, DiskTypes
  <2>3. mem.round > 0
    BY <2>1 DEF SuiteInv, Place
  <2>4. disk.best # None
    BY <2>1, <2>3, LaterSelected DEF Early
  <2>5. QED
    BY <1>1, <2>1, <2>2, <2>3, <2>4, Initialise
<1>3. CASE CopyInitial
  <2>1. CASE mem.round = 0 \/ disk.initial[mem.round] # None
    <3>1. disk' = disk /\ pc = "initial" /\ pc' = "collect"
      BY <1>3, <2>1 DEF CopyInitial, Goto
    <3>2. Files' = Files /\ Memory' = Memory /\ Shape' /\ disk'.status = None
      BY <1>1, <3>1 DEF Files, Memory, Shape
    <3>3. QED
      BY <1>1, <2>1, <3>1, <3>2, Move DEF Moves
  <2>2. CASE ~(mem.round = 0 \/ disk.initial[mem.round] # None)
    <3>1. /\ disk' = [disk EXCEPT !.initial[mem.round] = Torn]
          /\ pc = "initial" /\ pc' = "copying"
      BY <1>3, <2>2 DEF CopyInitial, Goto
    <3>2. mem.round > 0
      BY <1>1, <2>2 DEF RoundIds
    <3>3. QED
      BY <1>1, <3>1, <3>2, Initialise, TokensAssumption
  <2>3. QED
    BY <2>1, <2>2
<1>4. QED
  BY <1>2, <1>3

-----------------------------------------------------------------------------
\* In the training of a round the place of the run does not change.
LEMMA StayInRound ==
    ASSUME SuiteInv, pc \in {"fit"} \cup Fitting, pc' \in Fitting, mem'.round = mem.round,
           disk'.roundSpec = disk.roundSpec, disk'.initial = disk.initial,
           disk'.tested = disk.tested, disk'.status = disk.status
    PROVE  Place'
<1>1. disk.status = None
  BY DEF SuiteInv, Place, Fitting
<1>2. QED
  BY <1>1 DEF SuiteInv, Place, States, Early, InRound, Fitting, Tried

LEMMA BeginFitStep == ASSUME SuiteInv, BeginFit PROVE SuiteInv'
<1> DEFINE r == mem.round
<1>1. /\ Shape /\ pc = "fit" /\ pc' = "epoch" /\ r \in RoundIds
      /\ disk.initial[r] # Torn
  BY DEF SuiteInv, Types, Place, BeginFit, Goto, FitAllowed, InRound
<1>2. Start \in Checkpoints
  <2>1. CASE disk.last[r] # None
    BY <1>1, <2>1 DEF Start, SuiteInv, Types, DiskTypes
  <2>2. CASE disk.last[r] = None /\ r > 0
    <3>1. disk.initial[r] \in Weights
      BY <1>1, <2>2 DEF SuiteInv, Types, DiskTypes, Place
    <3>2. QED
      BY <2>2, <3>1, CountsAssumption DEF Start, Checkpoints
  <2>3. CASE disk.last[r] = None /\ ~(r > 0)
    <3>1. <<>> \in Weights
      BY DEF Weights
    <3>2. QED
      BY <2>3, <3>1, CountsAssumption DEF Start, Checkpoints
  <2>4. QED
    BY <2>1, <2>2, <2>3
<1>3. Start.epoch \in 0 .. Epochs /\ Start.weights \in Weights
  BY <1>2 DEF Checkpoints
<1>4. disk.last[r] # None => Start = disk.last[r]
  BY DEF Start
<1>5. disk.last[r] = None => Start.epoch = 0
  BY DEF Start
<1> HIDE DEF r
<1>6. /\ disk'.last = [disk.last EXCEPT ![r] = Start]
      /\ disk'.roundSpec = disk.roundSpec /\ disk'.initial = disk.initial
      /\ disk'.saved = disk.saved
      /\ disk'.report = disk.report /\ disk'.best = disk.best
      /\ disk'.selection = disk.selection /\ disk'.tested = disk.tested
      /\ disk'.status = disk.status
      /\ disk' = [disk EXCEPT !.config[r] = Config, !.last[r] = Start]
  BY <1>1 DEF Shape, BeginFit, r
<1>7. /\ mem'.round = r /\ r = mem.round /\ mem'.epoch = Start.epoch
      /\ mem'.weights = Start.weights /\ mem'.check = Interval
      /\ mem' = [mem EXCEPT !.epoch = Start.epoch, !.weights = Start.weights,
                            !.check = Interval,
                            !.rows = RowsUpTo(disk.metrics[r], Start.epoch)]
  BY <1>1 DEF Shape, BeginFit, r, FirstCheck
<1>8. Shape'
  BY <1>1, <1>6, <1>7 DEF Shape
<1>9. disk'.last \in [RoundIds -> Checkpoints \cup {None}]
      /\ \A q \in RoundIds : disk'.last[q] = IF q = r THEN Start ELSE disk.last[q]
  BY <1>1, <1>2, <1>6 DEF SuiteInv, Types, DiskTypes
<1>10. Interval \in Nat /\ Interval > 0 /\ Interval % Interval = 0
  BY CountsAssumption
<1>11. Types'
  BY <1>1, <1>3, <1>6, <1>7, <1>8, <1>9, <1>10 DEF SuiteInv, Types, DiskTypes, MemTypes
<1>12. Place'
  BY <1>1, <1>6, <1>7, StayInRound DEF Fitting
<1>13. Assessed'
  <2>1. \A t \in Tags : Behind(t) => Behind(t)'
    BY <1>6 DEF Behind
  <2>2. \A t \in Tags : ~(t[2] < Interval)
    BY FirstAssessment, <1>10 DEF Tags, Scheduled
  <2>3. QED
    BY <1>1, <1>6, <1>7, <1>10, <2>1, <2>2 DEF SuiteInv, Assessed
<1>14. Saved'
  <2>1. \A t \in Tags : t[1] = r /\ t[2] <= Start.epoch => disk.saved[t] # None
    <3>1. CASE disk.last[r] # None
      BY <1>4, <3>1 DEF SuiteInv, Saved
    <3>2. CASE disk.last[r] = None
      BY <1>5, <3>2 DEF Tags, Scheduled
    <3>3. QED
      BY <3>1, <3>2
  <2>2. \A t \in Tags : t[1] \in RoundIds
    BY DEF Tags
  <2>3. \A t \in Tags : disk'.last[t[1]] # None /\ t[2] <= disk'.last[t[1]].epoch =>
            disk'.saved[t] # None
    BY <1>6, <1>9, <2>1, <2>2 DEF SuiteInv, Saved
  <2>4. QED
    BY <1>1, <1>6, <1>7, <2>1, <2>3 DEF SuiteInv, Saved, Early
<1>15. QED
  BY <1>11, <1>12, <1>13, <1>14 DEF SuiteInv

LEMMA TrainEpochStep == ASSUME SuiteInv, TrainEpoch PROVE SuiteInv'
<1>1. /\ Shape /\ pc = "epoch" /\ pc' = "save" /\ disk' = disk
      /\ mem.round \in RoundIds /\ mem.epoch \in 0 .. Epochs /\ mem.epoch < Epochs
      /\ mem.weights \in Weights
  BY DEF SuiteInv, Types, MemTypes, Place, TrainEpoch, Goto, MoreEpochs, InRound, Fitting
<1>2. /\ mem'.round = mem.round /\ mem'.epoch = mem.epoch + 1
      /\ mem'.weights = Append(mem.weights, <<mem.round, mem.epoch + 1>>)
      /\ mem'.check = mem.check /\ Shape'
  BY <1>1 DEF Shape, TrainEpoch
<1>3. mem.epoch + 1 \in 1 .. Epochs
  BY <1>1, CountsAssumption
<1>4. mem'.weights \in Weights
  BY <1>1, <1>2, <1>3 DEF Weights
<1>5. Types'
  BY <1>1, <1>2, <1>3, <1>4 DEF SuiteInv, Types, DiskTypes, MemTypes
<1>6. Place'
  BY <1>1, <1>2, StayInRound DEF Fitting
<1>7. Assessed'
  <2>1. \A t \in Tags : Behind(t) => Behind(t)'
    BY <1>1 DEF Behind
  <2>2. QED
    BY <1>1, <1>2, <2>1 DEF SuiteInv, Assessed, Fitting
<1>8. Saved'
  <2>1. \A t \in Tags : t[2] < mem.epoch + 1 => t[2] <= mem.epoch
    BY <1>1 DEF Tags, Scheduled
  <2>2. QED
    BY <1>1, <1>2, <2>1 DEF SuiteInv, Saved, Early, Fitting
<1>9. QED
  BY <1>5, <1>6, <1>7, <1>8 DEF SuiteInv

LEMMA SaveEpochStep == ASSUME SuiteInv, SaveEpoch PROVE SuiteInv'
<1> DEFINE t0 == <<mem.round, mem.epoch>>
<1>1. /\ Shape /\ pc = "save" /\ pc' = "metrics" /\ mem' = mem
      /\ mem.round \in RoundIds /\ mem.epoch \in 0 .. Epochs
      /\ mem.weights \in Weights
  BY DEF SuiteInv, Types, MemTypes, Place, SaveEpoch, Goto, InRound, Fitting
<1>2. /\ disk'.saved = IF mem.epoch \in Scheduled
                       THEN [disk.saved EXCEPT ![t0] = mem.weights] ELSE disk.saved
      /\ disk'.roundSpec = disk.roundSpec /\ disk'.initial = disk.initial
      /\ disk'.last = disk.last
      /\ disk'.report = disk.report /\ disk'.best = disk.best
      /\ disk'.selection = disk.selection /\ disk'.tested = disk.tested
      /\ disk'.status = disk.status /\ Shape'
  <2>1. CASE mem.epoch \in Scheduled
    <3>1. disk' = [disk EXCEPT !.saved[t0] = mem.weights]
      BY <2>1 DEF SaveEpoch
    <3>2. QED
      BY <1>1, <2>1, <3>1 DEF Shape
  <2>2. CASE mem.epoch \notin Scheduled
    <3>1. disk' = disk
      BY <2>2 DEF SaveEpoch
    <3>2. QED
      BY <1>1, <2>2, <3>1 DEF Shape
  <2>3. QED
    BY <2>1, <2>2
<1>3. mem.epoch \in Scheduled => t0 \in Tags
  BY <1>1 DEF Tags
<1> HIDE DEF t0
<1>4. disk'.saved \in [Tags -> Weights \cup {None}]
      /\ \A t \in Tags : disk'.saved[t] = disk.saved[t]
            \/ (t = t0 /\ mem.epoch \in Scheduled /\ disk'.saved[t] = mem.weights)
  BY <1>1, <1>2, <1>3 DEF SuiteInv, Types, DiskTypes
<1>5. \A t \in Tags : disk.saved[t] # None => disk'.saved[t] # None
  BY <1>1, <1>4, TokensAssumption
<1>6. Types'
  BY <1>1, <1>2, <1>4 DEF SuiteInv, Types, DiskTypes, MemTypes
<1>7. Place'
  BY <1>1, <1>2, StayInRound DEF Fitting
<1>8. Assessed'
  <2>1. \A t \in Tags : Behind(t) => Behind(t)'
    BY <1>2 DEF Behind
  <2>2. QED
    BY <1>1, <1>2, <2>1 DEF SuiteInv, Assessed, Fitting
<1>9. Saved'
  <2>1. ASSUME NEW t \in Tags, t[1] = mem.round, t[2] <= mem.epoch
        PROVE  disk'.saved[t] # None
    <3>1. CASE t[2] < mem.epoch
      BY <1>1, <1>5, <2>1, <3>1 DEF SuiteInv, Saved, Fitting
    <3>2. CASE t[2] = mem.epoch
      <4>1. t = t0 /\ mem.epoch \in Scheduled
        BY <2>1, <3>2 DEF Tags, t0
      <4>2. t0 \in Tags /\ disk'.saved[t0] = mem.weights
        BY <1>2, <1>3, <4>1 DEF SuiteInv, Types, DiskTypes
      <4>3. QED
        BY <1>1, <4>1, <4>2, TokensAssumption
    <3>3. QED
      BY <1>1, <2>1, <3>1, <3>2 DEF Tags, Scheduled
  <2>2. disk.selection # None => disk.selection.tag \in Tags
    BY DEF SuiteInv, Types, DiskTypes, Selections
  <2>3. QED
    BY <1>1, <1>2, <1>5, <2>1, <2>2 DEF SuiteInv, Saved, Early
<1>10. QED
  BY <1>6, <1>7, <1>8, <1>9 DEF SuiteInv

LEMMA SaveLastStep == ASSUME SuiteInv, SaveLast PROVE SuiteInv'
<1> DEFINE new == [epoch |-> mem.epoch, weights |-> mem.weights]
<1>1. /\ Shape /\ pc = "last" /\ pc' = "epoch" /\ mem' = mem
      /\ mem.round \in RoundIds /\ mem.epoch \in 0 .. Epochs
      /\ mem.weights \in Weights /\ disk' = [disk EXCEPT !.last[mem.round] = new]
  BY DEF SuiteInv, Types, MemTypes, Place, SaveLast, Goto, InRound, Fitting
<1>2. new \in Checkpoints /\ new.epoch = mem.epoch
  BY <1>1 DEF Checkpoints
<1> HIDE DEF new
<1>3. /\ disk'.last = [disk.last EXCEPT ![mem.round] = new]
      /\ disk'.roundSpec = disk.roundSpec /\ disk'.initial = disk.initial
      /\ disk'.saved = disk.saved
      /\ disk'.report = disk.report /\ disk'.best = disk.best
      /\ disk'.selection = disk.selection /\ disk'.tested = disk.tested
      /\ disk'.status = disk.status /\ Shape'
  BY <1>1 DEF Shape
<1>4. disk'.last \in [RoundIds -> Checkpoints \cup {None}]
      /\ \A q \in RoundIds : disk'.last[q] = IF q = mem.round THEN new ELSE disk.last[q]
  BY <1>1, <1>2, <1>3 DEF SuiteInv, Types, DiskTypes
<1>5. Types'
  BY <1>1, <1>3, <1>4 DEF SuiteInv, Types, DiskTypes, MemTypes
<1>6. Place'
  BY <1>1, <1>3, StayInRound DEF Fitting
<1>7. Assessed'
  <2>1. \A t \in Tags : Behind(t) => Behind(t)'
    BY <1>3 DEF Behind
  <2>2. QED
    BY <1>1, <1>3, <2>1 DEF SuiteInv, Assessed, Fitting
<1>8. Saved'
  <2>1. \A t \in Tags : t[1] \in RoundIds
    BY DEF Tags
  <2>2. \A t \in Tags : disk'.last[t[1]] # None /\ t[2] <= disk'.last[t[1]].epoch =>
            disk'.saved[t] # None
    BY <1>1, <1>2, <1>3, <1>4, <2>1 DEF SuiteInv, Saved, Fitting
  <2>3. QED
    BY <1>1, <1>3, <2>2 DEF SuiteInv, Saved, Early, Fitting
<1>9. QED
  BY <1>5, <1>6, <1>7, <1>8 DEF SuiteInv

LEMMA NextRoundStep == ASSUME SuiteInv, NextRound PROVE SuiteInv'
<1>1. /\ Shape /\ pc = "epoch" /\ pc' = "round" /\ disk' = disk /\ disk.status = None
      /\ mem.round \in RoundIds /\ mem.epoch \in 0 .. Epochs /\ mem.check \in Nat
      /\ mem.epoch >= Epochs /\ mem.epoch < mem.check /\ disk.roundSpec[mem.round] # None
  BY CountsAssumption DEF SuiteInv, Types, MemTypes, Place, NextRound, Goto, MoreEpochs,
     Overdue, InRound, Fitting
<1>2. /\ mem'.round = mem.round + 1 /\ mem'.epoch = mem.epoch
      /\ mem'.check = mem.check /\ Shape'
  BY <1>1 DEF Shape, NextRound
<1>3. mem'.round \in 1 .. Rounds
  BY <1>1, <1>2, CountsAssumption DEF RoundIds
<1>4. Types'
  BY <1>1, <1>2, <1>3 DEF SuiteInv, Types, DiskTypes, MemTypes, Fitting
<1>5. Place'
  <2>1. \A r \in RoundIds : r < mem.round + 1 => r < mem.round \/ r = mem.round
    BY <1>1 DEF RoundIds
  <2>2. QED
    BY <1>1, <1>2, <2>1 DEF SuiteInv, Place, States, Early, InRound, Fitting, Tried
<1>6. Assessed'
  <2>1. ASSUME NEW t \in Tags, t[1] < mem.round + 1 PROVE Behind(t)
    <3>1. t[1] \in Int /\ t[2] \in 1 .. Epochs
      BY DEF Tags, RoundIds, Scheduled
    <3>2. t[1] < mem.round \/ (t[1] = mem.round /\ t[2] < mem.check)
      BY <1>1, <2>1, <3>1, CountsAssumption DEF RoundIds
    <3>3. QED
      BY <1>1, <3>2 DEF SuiteInv, Assessed, Fitting
  <2>2. \A t \in Tags : Behind(t) => Behind(t)'
    BY <1>1 DEF Behind
  <2>3. QED
    BY <1>1, <1>2, <2>1, <2>2 DEF SuiteInv, Assessed, Fitting
<1>7. Saved'
  BY <1>1, <1>2 DEF SuiteInv, Saved, Early, Fitting
<1>8. QED
  BY <1>4, <1>5, <1>6, <1>7 DEF SuiteInv

-----------------------------------------------------------------------------
\* The assessed checkpoint is a scheduled one of the round.
LEMMA TagScheduled ==
    ASSUME SuiteInv, pc \in Fitting, mem.check <= mem.epoch
    PROVE  Tag \in Tags
<1>1. mem.round \in RoundIds /\ mem.epoch \in 0 .. Epochs /\ mem.check \in Nat
      /\ mem.check > 0 /\ mem.check % Interval = 0
  BY DEF SuiteInv, Types, MemTypes, Place, Assessed, InRound
<1>2. mem.check \in 1 .. Epochs
  BY <1>1, CountsAssumption
<1>3. mem.check \in Scheduled
  BY <1>1, <1>2 DEF Scheduled
<1>4. QED
  BY <1>1, <1>3 DEF Tag, Tags

LEMMA Ranked ==
    ASSUME SuiteInv
    PROVE  /\ disk.selection # None =>
                 disk.selection.tag \in Tags /\ disk.selection.report \in Reports
           /\ \A t \in Tags : disk.report[t] # None => disk.report[t] \in Reports
           /\ \A p \in Reports : p.rank \in Nat
  BY ReportsAssumption DEF SuiteInv, Types, DiskTypes, Selections

LEMMA CompareStep == ASSUME SuiteInv, Compare PROVE SuiteInv'
<1>1. /\ Shape /\ pc = "epoch" /\ pc' = "assess" /\ mem' = mem
      /\ mem.check <= mem.epoch
  BY DEF SuiteInv, Types, Compare, Goto, Overdue
<1>2. Tag \in Tags
  BY <1>1, TagScheduled DEF Fitting
<1>3. PICK p \in Reports : Cached(disk.report[Tag], p) /\ disk' = [disk EXCEPT !.report[Tag] = p]
  BY DEF Compare
<1>4. /\ disk'.report = [disk.report EXCEPT ![Tag] = p]
      /\ disk'.roundSpec = disk.roundSpec /\ disk'.initial = disk.initial
      /\ disk'.last = disk.last /\ disk'.saved = disk.saved /\ disk'.best = disk.best
      /\ disk'.selection = disk.selection /\ disk'.tested = disk.tested
      /\ disk'.status = disk.status /\ Shape' /\ Tag' = Tag
  BY <1>1, <1>3 DEF Shape, Tag
<1>5. /\ disk'.report \in [Tags -> Reports \cup {None}]
      /\ disk'.report[Tag] = p
      /\ \A t \in Tags : disk.report[t] # None => disk'.report[t] = disk.report[t]
  BY <1>2, <1>3, <1>4 DEF SuiteInv, Types, DiskTypes, Cached
<1>6. Types'
  BY <1>1, <1>4, <1>5 DEF SuiteInv, Types, DiskTypes, MemTypes, Fitting
<1>7. Place'
  BY <1>1, <1>4, StayInRound DEF Fitting
<1>8. Assessed'
  <2>1. \A t \in Tags : Behind(t) => Behind(t)'
    BY <1>4, <1>5 DEF Behind
  <2>2. p # None
    BY TokensAssumption
  <2>3. QED
    BY <1>1, <1>2, <1>4, <1>5, <2>1, <2>2 DEF SuiteInv, Assessed, Fitting
<1>9. Saved'
  BY <1>1, <1>4 DEF SuiteInv, Saved, Early, Fitting
<1>10. QED
  BY <1>6, <1>7, <1>8, <1>9 DEF SuiteInv

\* After an assessment the next one is due, and the assessed checkpoint counts
\* among those before it.
LEMMA AfterAssessment ==
    ASSUME SuiteInv, pc \in {"assess", "select"}, NextCheck
    PROVE  /\ mem'.round = mem.round /\ mem'.epoch = mem.epoch
           /\ mem'.weights = mem.weights
           /\ mem'.check \in Nat /\ mem'.check > 0 /\ mem'.check % Interval = 0
           /\ mem' = [mem EXCEPT !.check = mem'.check]
           /\ \A t \in Tags : t[1] = mem.round /\ t[2] < mem'.check =>
                 Behind(t) \/ t = Tag
<1>1. /\ mem.check \in Nat /\ mem.check > 0 /\ mem.check % Interval = 0
      /\ \A t \in Tags : t[1] = mem.round /\ t[2] < mem.check => Behind(t)
  BY DEF SuiteInv, Types, MemTypes, Assessed, Fitting
<1>2. /\ mem'.round = mem.round /\ mem'.epoch = mem.epoch
      /\ mem'.weights = mem.weights /\ mem'.check = mem.check + Interval
      /\ mem' = [mem EXCEPT !.check = mem'.check]
  BY DEF SuiteInv, Types, Shape, NextCheck
<1>3. mem'.check \in Nat /\ mem'.check > 0 /\ mem'.check % Interval = 0
  BY <1>1, <1>2, Multiple, CountsAssumption
<1>4. ASSUME NEW t \in Tags, t[1] = mem.round, t[2] < mem'.check
      PROVE  Behind(t) \/ t = Tag
  <2>1. t[2] \in Scheduled /\ t = <<t[1], t[2]>>
    BY DEF Tags
  <2>2. t[2] <= mem.check
    BY <1>1, <1>2, <1>4, <2>1, NextAssessment
  <2>3. t[2] < mem.check \/ t[2] = mem.check
    BY <1>1, <2>1, <2>2 DEF Scheduled
  <2>4. QED
    BY <1>1, <1>4, <2>1, <2>3 DEF Tag
<1>5. QED
  BY <1>2, <1>3, <1>4

LEMMA KeepSelectionStep == ASSUME SuiteInv, KeepSelection PROVE SuiteInv'
<1>1. /\ Shape /\ pc = "assess" /\ pc' = "epoch" /\ disk' = disk /\ NextCheck
      /\ ~Improves(disk.report[Tag]) /\ Tag \in Tags /\ disk.report[Tag] # None
  BY DEF SuiteInv, Types, KeepSelection, Goto, Assessed
<1>2. Behind(Tag)
  BY <1>1, Ranked DEF Behind, Improves
<1>3. /\ mem'.round = mem.round /\ mem'.epoch = mem.epoch
      /\ mem'.weights = mem.weights
      /\ mem'.check \in Nat /\ mem'.check > 0 /\ mem'.check % Interval = 0
      /\ mem' = [mem EXCEPT !.check = mem'.check]
      /\ \A t \in Tags : t[1] = mem.round /\ t[2] < mem'.check => Behind(t)
  BY <1>1, <1>2, AfterAssessment
<1>4. Shape'
  BY <1>1, <1>3 DEF Shape
<1>5. Types'
  BY <1>1, <1>3, <1>4 DEF SuiteInv, Types, DiskTypes, MemTypes, Fitting
<1>6. Place'
  BY <1>1, <1>3, StayInRound DEF Fitting
<1>7. Assessed'
  <2>1. \A t \in Tags : Behind(t) => Behind(t)'
    BY <1>1 DEF Behind
  <2>2. QED
    BY <1>1, <1>3, <2>1 DEF SuiteInv, Assessed, Fitting
<1>8. Saved'
  BY <1>1, <1>3 DEF SuiteInv, Saved, Early, Fitting
<1>9. QED
  BY <1>5, <1>6, <1>7, <1>8 DEF SuiteInv

\* The checkpoint under assessment has been saved.
LEMMA TagSaved ==
    ASSUME SuiteInv, pc \in {"assess", "select"}
    PROVE  disk.saved[Tag] # None /\ Tag \in Tags
<1>1. Tag \in Tags /\ mem.check <= mem.epoch
  BY DEF SuiteInv, Assessed
<1>2. Tag[1] = mem.round /\ Tag[2] = mem.check
  BY DEF Tag
<1>3. QED
  BY <1>1, <1>2 DEF SuiteInv, Saved, Fitting

LEMMA ReplaceBestStep == ASSUME SuiteInv, ReplaceBest PROVE SuiteInv'
<1>1. /\ Shape /\ pc = "assess" /\ pc' = "select" /\ mem' = mem
      /\ disk' = [disk EXCEPT !.best = disk.saved[Tag]]
      /\ Improves(disk.report[Tag])
  BY DEF SuiteInv, Types, ReplaceBest, Goto
<1>2. disk.saved[Tag] # None /\ disk.saved[Tag] \in Weights \cup {None}
  BY <1>1, TagSaved DEF SuiteInv, Types, DiskTypes
<1>3. /\ disk'.best = disk.saved[Tag]
      /\ disk'.roundSpec = disk.roundSpec /\ disk'.initial = disk.initial
      /\ disk'.last = disk.last /\ disk'.saved = disk.saved
      /\ disk'.report = disk.report
      /\ disk'.selection = disk.selection /\ disk'.tested = disk.tested
      /\ disk'.status = disk.status /\ Shape' /\ Tag' = Tag
  BY <1>1 DEF Shape, Tag
<1>4. Types'
  BY <1>1, <1>2, <1>3 DEF SuiteInv, Types, DiskTypes, MemTypes, Fitting
<1>5. Place'
  BY <1>1, <1>3, StayInRound DEF Fitting
<1>6. Assessed'
  <2>1. \A t \in Tags : Behind(t) => Behind(t)'
    BY <1>3 DEF Behind
  <2>2. Improves(disk.report[Tag])'
    BY <1>1, <1>3 DEF Improves
  <2>3. QED
    BY <1>1, <1>3, <2>1, <2>2 DEF SuiteInv, Assessed, Fitting
<1>7. Saved'
  BY <1>1, <1>2, <1>3 DEF SuiteInv, Saved, Early, Fitting
<1>8. QED
  BY <1>4, <1>5, <1>6, <1>7 DEF SuiteInv

\* Nothing is selected once the test is open.
LEMMA SelectEarly ==
    ASSUME SuiteInv, pc = "select"
    PROVE  disk.tested = None /\ disk.status = None
<1>1. ASSUME disk.tested # None PROVE FALSE
  <2>1. Tag \in Tags /\ Tag[1] = mem.round /\ disk.roundSpec[mem.round] # None
    BY TagSaved DEF Tag, SuiteInv, Place, InRound, Fitting
  <2>2. Behind(Tag)
    BY <1>1, <2>1 DEF SuiteInv, Assessed
  <2>3. Improves(disk.report[Tag])
    BY DEF SuiteInv, Assessed
  <2>4. QED
    BY <2>1, <2>2, <2>3, Ranked DEF Behind, Improves
<1>2. QED
  BY <1>1 DEF SuiteInv, Place

LEMMA SelectStep == ASSUME SuiteInv, Select PROVE SuiteInv'
<1> DEFINE new == [tag |-> Tag, report |-> disk.report[Tag]]
<1>1. /\ Shape /\ pc = "select" /\ pc' = "epoch" /\ NextCheck
      /\ disk' = [disk EXCEPT !.selection = new]
      /\ Tag \in Tags /\ disk.report[Tag] \in Reports /\ disk.report[Tag] # None
      /\ Improves(disk.report[Tag]) /\ disk.saved[Tag] # None
  BY TagSaved, Ranked DEF SuiteInv, Types, Select, Goto, Assessed
<1>2. new \in Selections /\ new # None /\ new.tag = Tag /\ new.report = disk.report[Tag]
  BY <1>1, TokensAssumption DEF Selections
<1> HIDE DEF new
<1>3. /\ disk'.selection = new
      /\ disk'.roundSpec = disk.roundSpec /\ disk'.initial = disk.initial
      /\ disk'.last = disk.last /\ disk'.saved = disk.saved
      /\ disk'.report = disk.report /\ disk'.best = disk.best
      /\ disk'.tested = disk.tested /\ disk'.status = disk.status
  BY <1>1 DEF Shape
<1>4. /\ mem'.round = mem.round /\ mem'.epoch = mem.epoch
      /\ mem'.weights = mem.weights
      /\ mem'.check \in Nat /\ mem'.check > 0 /\ mem'.check % Interval = 0
      /\ mem' = [mem EXCEPT !.check = mem'.check]
      /\ \A t \in Tags : t[1] = mem.round /\ t[2] < mem'.check => Behind(t) \/ t = Tag
  BY <1>1, AfterAssessment
<1>5. Shape'
  BY <1>1, <1>4 DEF Shape
<1>6. Types'
  BY <1>1, <1>2, <1>3, <1>4, <1>5 DEF SuiteInv, Types, DiskTypes, MemTypes, Fitting
<1>7. Place'
  BY <1>1, <1>3, <1>4, StayInRound DEF Fitting
<1>8. Assessed'
  <2>1. ASSUME NEW t \in Tags, Behind(t) PROVE Behind(t)'
    <3>1. /\ disk.report[t] # None /\ disk.selection # None
          /\ disk.selection.report.rank <= disk.report[t].rank
          /\ disk.report[Tag].rank < disk.selection.report.rank
      BY <1>1, <2>1 DEF Behind, Improves
    <3>2. disk.report[Tag].rank <= disk.report[t].rank
      BY <1>1, <3>1, Ranked
    <3>3. QED
      BY <1>2, <1>3, <3>1, <3>2 DEF Behind
  <2>2. (\A t \in Tags : t = Tag => Behind(t)')
    <3>1. disk.report[Tag].rank <= disk.report[Tag].rank
      BY <1>1, Ranked
    <3>2. QED
      BY <1>1, <1>2, <1>3, <3>1 DEF Behind
  <2>3. disk'.tested = None
    BY <1>1, <1>3, SelectEarly
  <2>4. QED
    BY <1>1, <1>3, <1>4, <2>1, <2>2, <2>3 DEF SuiteInv, Assessed, Fitting
<1>9. Saved'
  BY <1>1, <1>2, <1>3, <1>4 DEF SuiteInv, Saved, Early, Fitting
<1>10. QED
  BY <1>6, <1>7, <1>8, <1>9 DEF SuiteInv

-----------------------------------------------------------------------------
LEMMA PublishSteps == ASSUME SuiteInv, NotReady \/ Verdict PROVE SuiteInv'
<1>1. PICK status : Publish(status)
  BY DEF NotReady, Verdict
<1>2. Files' = Files /\ Shape' /\ mem' = Idle /\ pc' = "down"
  BY <1>1 DEF Publish, Goto, Files, Shape, Idle, SuiteInv, Types
<1>3. QED
  BY <1>2, Restart

LEMMA FreezeTestStep == ASSUME SuiteInv, FreezeTest PROVE SuiteInv'
<1>1. /\ Shape /\ pc = "verdict" /\ Passed(disk.selection.report) /\ mem.round > 0
      /\ disk.selection # None /\ disk.best # None /\ disk.status = None
  BY LaterSelected DEF SuiteInv, Types, Place, FreezeTest, Early
<1>2. CASE Refuse
  BY <1>1, <1>2, RefuseStep
<1>3. CASE disk' = [disk EXCEPT !.tested = disk.best] /\ pc' = "test" /\ mem' = mem
  <2>1. /\ disk'.roundSpec = disk.roundSpec /\ disk'.initial = disk.initial
        /\ disk'.last = disk.last /\ disk'.saved = disk.saved
        /\ disk'.report = disk.report /\ disk'.best = disk.best
        /\ disk'.selection = disk.selection /\ disk'.tested = disk.best
        /\ disk'.status = disk.status /\ Shape'
    BY <1>1, <1>3 DEF Shape
  <2>2. Types'
    BY <1>1, <1>3, <2>1 DEF SuiteInv, Types, DiskTypes, MemTypes, Fitting
  <2>3. Place'
    BY <1>1, <1>3, <2>1 DEF SuiteInv, Place, States, Early, InRound, Fitting, Tried
  <2>4. Assessed'
    <3>1. \A t \in Tags : Behind(t) => Behind(t)'
      BY <2>1 DEF Behind
    <3>2. ASSUME NEW t \in Tags, disk.roundSpec[t[1]] # None PROVE Behind(t)
      <4>1. t[1] \in RoundIds
        BY DEF Tags
      <4>2. ~(t[1] >= mem.round)
        BY <1>1, <3>2, <4>1 DEF SuiteInv, Place
      <4>3. t[1] < mem.round
        BY <4>1, <4>2 DEF RoundIds, SuiteInv, Types, MemTypes
      <4>4. QED
        BY <4>3 DEF SuiteInv, Assessed
    <3>3. disk.roundSpec[0] # None
      BY <1>1, CountsAssumption DEF SuiteInv, Place, RoundIds
    <3>4. QED
      BY <1>1, <1>3, <2>1, <3>1, <3>2, <3>3 DEF SuiteInv, Assessed, Fitting
  <2>5. Saved'
    BY <1>1, <1>3, <2>1 DEF SuiteInv, Saved, Early, Fitting
  <2>6. QED
    BY <2>2, <2>3, <2>4, <2>5 DEF SuiteInv
<1>4. QED
  BY <1>2, <1>3 DEF FreezeTest, Goto

-----------------------------------------------------------------------------
LEMMA NextSuite == ASSUME SuiteInv, [Next]_vars PROVE SuiteInv'
<1>1. CASE Boot \/ Test
  BY <1>1, MoveSteps
<1>2. CASE Repair \/ Repaired
  BY <1>2, RepairStep, RepairedStep
<1>3. CASE Round
  BY <1>3, RoundsStep, InitialSteps, NextRoundStep DEF Round
<1>4. CASE Collect
  <2>1. CASE RefuseData
    BY <2>1, RefuseStep DEF RefuseData
  <2>2. QED
    BY <1>4, <2>1, MoveSteps DEF Collect
<1>5. CASE Fit
  BY <1>5, BeginFitStep, TrainEpochStep, SaveEpochStep, SaveLastStep, MoveSteps DEF Fit
<1>6. CASE Assess
  BY <1>6, CompareStep, KeepSelectionStep, ReplaceBestStep, SelectStep DEF Assess
<1>7. CASE NotReady \/ FreezeTest \/ Verdict
  BY <1>7, PublishSteps, FreezeTestStep
<1>8. CASE Crash
  BY <1>8, CrashStep
<1>9. CASE UNCHANGED vars
  BY <1>9 DEF vars, SuiteInv, Types, Shape, DiskTypes, MemTypes, Place, Assessed, Saved,
     Behind, Tag, Improves
<1>10. QED
  BY <1>1, <1>2, <1>3, <1>4, <1>5, <1>6, <1>7, <1>8, <1>9
  DEF Next, Work, Conclude, Done

\* Wherever a run of the suite was interrupted, its files and its memory fit
\* (run_suite, fit_phase).
THEOREM SuiteInvariant == Spec => []SuiteInv
<1>1. SuiteInv /\ [Next]_vars => SuiteInv'
  BY NextSuite
<1>2. QED
  BY <1>1, InitSuite, PTL DEF Spec

-----------------------------------------------------------------------------
(***************************************************************************)
(* The contract.                                                           *)
(***************************************************************************)
\* Only three actions touch what the contract speaks of.
LEMMA Silent ==
    ASSUME disk'.selection = disk.selection, disk'.tested = disk.tested,
           disk'.status = disk.status
    PROVE  UNCHANGED Contract!vars
  BY DEF Contract!vars, Selected

LEMMA SilentSteps ==
    ASSUME Shape,
           Boot \/ Repair \/ Repaired \/ Round \/ Collect \/ Fit \/ Compare
             \/ KeepSelection \/ ReplaceBest \/ Test \/ Crash \/ UNCHANGED vars
    PROVE  UNCHANGED Contract!vars
<1>1. CASE Boot \/ Repair \/ Repaired \/ Test
  <2>1. disk'.selection = disk.selection /\ disk'.tested = disk.tested
        /\ disk'.status = disk.status
    BY <1>1 DEF Shape, Boot, Repair, Repaired, Test
  <2>2. QED
    BY <2>1, Silent
<1>2. CASE Round
  <2>1. disk'.selection = disk.selection /\ disk'.tested = disk.tested
        /\ disk'.status = disk.status
    BY <1>2 DEF Shape, Round, EnterRound, StartRound, LeaveRounds, CopyInitial,
       CopiedInitial, NextRound
  <2>2. QED
    BY <2>1, Silent
<1>3. CASE Collect
  <2>1. disk'.selection = disk.selection /\ disk'.tested = disk.tested
        /\ disk'.status = disk.status
    BY <1>3 DEF Shape, Collect, SaveShard, RecordShard, RefuseData, Refuse, Collected
  <2>2. QED
    BY <2>1, Silent
<1>4. CASE Fit
  <2>1. disk'.selection = disk.selection /\ disk'.tested = disk.tested
        /\ disk'.status = disk.status
    BY <1>4 DEF Shape, Fit, BeginFit, TrainEpoch, SaveEpoch, SaveMetrics, SaveLast
  <2>2. QED
    BY <2>1, Silent
<1>5. CASE Compare \/ KeepSelection \/ ReplaceBest
  <2>1. disk'.selection = disk.selection /\ disk'.tested = disk.tested
        /\ disk'.status = disk.status
    BY <1>5 DEF Shape, Compare, KeepSelection, ReplaceBest
  <2>2. QED
    BY <2>1, Silent
<1>6. CASE Crash \/ UNCHANGED vars
  <2>1. disk' = disk
    BY <1>6 DEF Crash, vars
  <2>2. QED
    BY <2>1, Silent
<1>7. QED
  BY <1>1, <1>2, <1>3, <1>4, <1>5, <1>6

\* A selection is an improvement, made before the test is open.
LEMMA SelectImproves == ASSUME SuiteInv, Select PROVE Contract!Improve
<1> DEFINE new == [tag |-> Tag, report |-> disk.report[Tag]]
<1>1. /\ Shape /\ pc = "select" /\ disk' = [disk EXCEPT !.selection = new]
      /\ Tag \in Tags /\ disk.report[Tag] \in Reports
      /\ Improves(disk.report[Tag])
  BY TagSaved, Ranked DEF SuiteInv, Types, Select, Assessed
<1>2. new \in [tag : Tags, report : Reports] /\ new # None /\ new.report = disk.report[Tag]
  BY <1>1, TokensAssumption
<1> HIDE DEF new
<1>3. disk'.selection = new /\ disk'.tested = disk.tested /\ disk'.status = disk.status
  BY <1>1 DEF Shape
<1>4. disk.tested = None /\ disk.status = None
  BY <1>1, SelectEarly
<1>5. Selected' = new /\ (Selected = None \/ new.report.rank < Selected.report.rank)
  BY <1>1, <1>2, <1>3 DEF Selected, Improves
<1>6. QED
  BY <1>2, <1>3, <1>4, <1>5 DEF Contract!Improve

LEMMA FreezeOpens ==
    ASSUME SuiteInv, FreezeTest PROVE Contract!OpenTest \/ UNCHANGED Contract!vars
<1>1. /\ Shape /\ Passed(disk.selection.report) /\ pc = "verdict"
      /\ disk.selection # None /\ disk.best # None /\ disk.status = None
  BY LaterSelected DEF SuiteInv, Types, Place, FreezeTest, Early
<1>2. CASE Refuse
  BY <1>2, Silent DEF Refuse
<1>3. CASE Frozen(disk.tested, disk.best) /\ disk' = [disk EXCEPT !.tested = disk.best]
  <2>1. /\ disk'.tested = disk.best /\ disk'.selection = disk.selection
        /\ disk'.status = disk.status
    BY <1>1, <1>3 DEF Shape
  <2>2. CASE disk.tested = None
    <3>1. /\ Selected # None /\ Contract!Passed(Selected.report) /\ Selected' = Selected
      BY <1>1, <2>1 DEF Selected, Passed, Contract!Passed
    <3>2. QED
      BY <1>1, <2>1, <2>2, <3>1 DEF Contract!OpenTest
  <2>3. CASE disk.tested = disk.best
    BY <2>1, <2>3, Silent
  <2>4. QED
    BY <1>3, <2>2, <2>3 DEF Frozen
<1>4. QED
  BY <1>2, <1>3 DEF FreezeTest

LEMMA VerdictPublishes ==
    ASSUME SuiteInv, NotReady \/ Verdict PROVE Contract!Publish
<1>1. PICK status \in {"base-ready", "base-not-ready"} :
          /\ Publish(status)
          /\ NotReady => status = "base-not-ready"
  BY DEF NotReady, Verdict
<1>2. /\ disk'.selection = disk.selection /\ disk'.tested = disk.tested
      /\ disk'.status = status
  BY <1>1 DEF Publish, SuiteInv, Types, Shape
<1>3. disk.status = None
  BY DEF NotReady, Verdict, SuiteInv, Place
<1>4. disk.selection # None
  BY LaterSelected DEF NotReady, Verdict, SuiteInv, Place, Tried
<1>5. Selected' = Selected /\ Selected = disk.selection
  BY <1>2 DEF Selected
<1>6. CASE NotReady
  <2>1. ~Passed(disk.selection.report)
    BY <1>6 DEF NotReady, SuiteInv, Place
  <2>2. ~Contract!Passed(Selected.report)
    BY <1>5, <2>1 DEF Passed, Contract!Passed
  <2>3. QED
    BY <1>1, <1>2, <1>3, <1>4, <1>5, <1>6, <2>2 DEF Contract!Publish
<1>7. CASE Verdict
  <2>1. disk.tested # None
    BY <1>7 DEF Verdict, SuiteInv, Place, Tried
  <2>2. QED
    BY <1>1, <1>2, <1>3, <1>4, <1>5, <2>1 DEF Contract!Publish
<1>8. QED
  BY <1>6, <1>7

\* The suite implements its contract, for every number of rounds, epochs, data
\* files and crashes and all possible reports: reports only improve the
\* selection, the test split is opened once, for a model that passed and stays
\* selected, and one verdict is published (run_suite).
THEOREM SelectionKept == Spec => KeepsContract
<1>1. Init => Contract!Init
  BY DEF Init, Fresh, Selected, Contract!Init
<1>2. SuiteInv /\ [Next]_vars => [Contract!Next]_(Contract!vars)
  <2> SUFFICES ASSUME SuiteInv, [Next]_vars PROVE [Contract!Next]_(Contract!vars)
    OBVIOUS
  <2>1. Shape
    BY DEF SuiteInv, Types
  <2>2. CASE Select
    BY <2>2, SelectImproves DEF Contract!Next
  <2>3. CASE FreezeTest
    BY <2>3, FreezeOpens DEF Contract!Next
  <2>4. CASE NotReady \/ Verdict
    BY <2>4, VerdictPublishes DEF Contract!Next
  <2>5. CASE ~(Select \/ FreezeTest \/ NotReady \/ Verdict)
    BY <2>1, <2>5, SilentSteps DEF Next, Work, Assess, Conclude, Done
  <2>6. QED
    BY <2>2, <2>3, <2>4, <2>5
<1>3. QED
  BY <1>1, <1>2, SuiteInvariant, PTL DEF Spec, KeepsContract, Contract!Spec

-----------------------------------------------------------------------------
(***************************************************************************)
(* The invariant, added to SuiteInv.                                      *)
(***************************************************************************)
\* The types of what SuiteInv does not read.
FileTypes ==
    /\ disk.teachers = None \/ disk.teachers \subseteq Conditions
    /\ disk.shards \in [RoundIds -> [1 .. Rows -> Hashes]]
    /\ disk.manifest \in [RoundIds -> Seq(Hashes)]
    /\ disk.metrics \in [RoundIds -> Seq(Nat)]
    /\ disk.status \in {None, "base-ready", "base-not-ready"}

\* A recorded file is not written again, for a worker has only pending ones.
Data ==
    /\ mem.ready \subseteq 1 .. Rows
    /\ \A r \in RoundIds :
          /\ Len(disk.manifest[r]) <= Rows
          /\ \A i \in 1 .. Len(disk.manifest[r]) :
                disk.manifest[r][i] = disk.shards[r][i]

Numbered(n) == [e \in 1 .. n |-> e]
EpochsOf(r, n) == [e \in 1 .. n |-> <<r, e>>]
\* The weights after n epochs of round r that started from the model w.
Grown(w, r, n) == (IF r = 0 THEN <<>> ELSE w) \o EpochsOf(r, n)

\* The model a round starts from is there, whole.
Ready(r) == r = 0 \/ disk.initial[r] \notin {None, Torn}

\* What is on disk of a training is a prefix of the uninterrupted one.
OnDisk ==
    /\ \A r \in RoundIds :
          /\ disk.last[r] = None => disk.metrics[r] = <<>>
          /\ disk.last[r] # None =>
                /\ Ready(r)
                /\ disk.last[r].weights = Grown(disk.initial[r], r, disk.last[r].epoch)
                /\ \/ disk.metrics[r] = Numbered(disk.last[r].epoch)
                   \/ disk.metrics[r] = Numbered(disk.last[r].epoch + 1)
    /\ \A t \in Tags : disk.saved[t] # None =>
          /\ disk.last[t[1]] # None /\ disk.roundSpec[t[1]] # None
          /\ disk.saved[t] = Grown(disk.initial[t[1]], t[1], t[2])

\* So is what the process holds, at most one epoch ahead of last.pt.
InMemory ==
    pc \in Fitting =>
        /\ disk.last[mem.round] # None
        /\ mem.weights = Grown(disk.initial[mem.round], mem.round, mem.epoch)
        /\ mem.rows = Numbered(mem.epoch)
        /\ pc \in {"epoch", "assess", "select"} =>
              mem.epoch = disk.last[mem.round].epoch
        /\ pc \in {"save", "metrics", "last"} =>
              mem.epoch = disk.last[mem.round].epoch + 1
        /\ pc = "last" => disk.metrics[mem.round] = Numbered(mem.epoch)

\* The selection is a saved checkpoint strictly better than all before it, and
\* once a rerun has repaired it best.pt is its copy.
Winner ==
    /\ \A t \in Tags : disk.report[t] # None => disk.saved[t] # None
    /\ disk.selection # None =>
          /\ disk.report[Chosen] = disk.selection.report
          /\ \A t \in Tags : Before(t, Chosen) =>
                /\ disk.report[t] # None
                /\ disk.selection.report.rank < disk.report[t].rank
          /\ pc \notin Early \cup {"select"} => BestIsSelected
    /\ pc = "select" => disk.best = disk.saved[Tag]

\* t is the earliest of the best checkpoints of the first rounds.
IsBest(t, rounds) ==
    /\ t[1] < rounds
    /\ \A u \in Tags : u[1] < rounds /\ u # t =>
          \/ disk.report[t].rank < disk.report[u].rank
          \/ disk.report[t].rank = disk.report[u].rank /\ Before(t, u)

\* Every supplement started from, and the test was opened for, the best of all.
Handed ==
    /\ pc = "copying" => disk.initial[mem.round] = Torn
    /\ \A r \in RoundIds : disk.initial[r] # None => disk.roundSpec[r] # None
    /\ \A r \in 1 .. Rounds - 1 : disk.roundSpec[r] # None =>
          /\ AllAssessed(r)
          /\ Ready(r) => \E t \in Tags : IsBest(t, r) /\ disk.initial[r] = disk.saved[t]
    /\ disk.tested # None => disk.tested = disk.saved[Chosen]

ResumeInv == FileTypes /\ Data /\ OnDisk /\ InMemory /\ Winner /\ Handed

-----------------------------------------------------------------------------
(* The rows of the metrics. *)
LEMMA NumberedRows ==
    ASSUME NEW n \in Nat
    PROVE  /\ Numbered(n) \in Seq(Nat) /\ Len(Numbered(n)) = n
           /\ Numbered(0) = <<>>
           /\ Append(Numbered(n), n + 1) = Numbered(n + 1)
<1>1. Numbered(n) \in Seq(Nat) /\ Len(Numbered(n)) = n /\ Numbered(0) = <<>>
  BY DEF Numbered
<1>2. Append(Numbered(n), n + 1) = Numbered(n + 1)
  BY DEF Numbered
<1>3. QED
  BY <1>1, <1>2

\* A fit that resumes keeps the rows of the epochs that were completed
\* (fit_phase: the rows of metrics.json up to the epoch of last.pt).
LEMMA RowsKept ==
    ASSUME NEW n \in Nat, NEW k \in 0 .. n
    PROVE  RowsUpTo(Numbered(n), k) = Numbered(k)
<1> DEFINE rows == Numbered(n)
           Rec(f) == f = [i \in 0 .. Len(rows) |->
                            IF i = 0 THEN <<>>
                            ELSE IF rows[i] <= k THEN Append(f[i - 1], rows[i])
                                 ELSE f[i - 1]]
           kept == CHOOSE f : Rec(f)
           least(i) == IF i <= k THEN i ELSE k
           g == [i \in 0 .. n |-> Numbered(least(i))]
<1>1. RowsUpTo(rows, k) = kept[Len(rows)]
  BY DEF RowsUpTo
<1>2. Len(rows) = n /\ \A i \in 1 .. n : rows[i] = i
  BY NumberedRows DEF Numbered
<1>3. Rec(g)
  <2>1. ASSUME NEW i \in 0 .. n
        PROVE  g[i] = IF i = 0 THEN <<>>
                      ELSE IF rows[i] <= k THEN Append(g[i - 1], rows[i]) ELSE g[i - 1]
    <3>1. CASE i = 0
      BY <3>1, NumberedRows
    <3>2. CASE i # 0 /\ i <= k
      <4>1. i - 1 \in Nat /\ i - 1 \in 0 .. n /\ rows[i] = i /\ i <= k
        BY <1>2, <3>2
      <4>2. g[i] = Numbered(i) /\ g[i - 1] = Numbered(i - 1)
        BY <3>2, <4>1
      <4>3. Append(Numbered(i - 1), (i - 1) + 1) = Numbered((i - 1) + 1)
        BY <4>1, NumberedRows
      <4>4. QED
        BY <3>2, <4>1, <4>2, <4>3
    <3>3. CASE i # 0 /\ ~(i <= k)
      <4>1. i - 1 \in 0 .. n /\ rows[i] = i /\ least(i) = k /\ least(i - 1) = k
        BY <1>2, <3>3
      <4>2. QED
        BY <3>3, <4>1
    <3>4. QED
      BY <3>1, <3>2, <3>3
  <2> HIDE DEF rows
  <2>2. QED
    BY <1>2, <2>1
<1>4. Rec(kept)
  BY <1>3
<1> HIDE DEF kept
<1> DEFINE T == {i \in 0 .. n : kept[i] # g[i]}
<1>5. T = {}
  <2>1. SUFFICES ASSUME T # {} PROVE FALSE
    OBVIOUS
  <2>2. T \subseteq Nat
    OBVIOUS
  <2> HIDE DEF T
  <2>3. PICK i \in T : \A j \in T : ~(j < i)
    BY <2>1, <2>2, LeastNumber
  <2>4. i \in 0 .. n /\ kept[i] # g[i]
    BY <2>3 DEF T
  <2>5. i # 0 => kept[i - 1] = g[i - 1]
    <3>1. i # 0 => i - 1 \in 0 .. n /\ i - 1 < i
      BY <2>4
    <3>2. QED
      BY <2>3, <3>1 DEF T
  <2> HIDE DEF g, rows
  <2>6. kept[i] = g[i]
    BY <1>2, <1>3, <1>4, <2>4, <2>5
  <2>7. QED
    BY <2>4, <2>6
<1>6. kept[n] = g[n]
  <2>1. n \in 0 .. n
    OBVIOUS
  <2>2. kept[n] # g[n] => n \in T
    <3> HIDE DEF g
    <3>1. QED
      BY <2>1
  <2> HIDE DEF T, g
  <2>3. QED
    BY <1>5, <2>2
<1>7. least(n) = k
  OBVIOUS
<1>8. QED
  BY <1>1, <1>2, <1>6, <1>7

-----------------------------------------------------------------------------
(***************************************************************************)
(* Steps: which of them write a file, and which a part of the memory.      *)
(***************************************************************************)
LEMMA Writers ==
    ASSUME Shape, [Next]_vars
    PROVE  /\ Shape'
           /\ disk'.shards = disk.shards \/ \E i \in 1 .. Rows : SaveShard(i)
           /\ disk'.manifest = disk.manifest \/ RecordShard
           /\ disk'.last = disk.last \/ BeginFit \/ SaveLast
           /\ disk'.saved = disk.saved \/ SaveEpoch
           /\ disk'.metrics = disk.metrics \/ SaveMetrics
           /\ disk'.initial = disk.initial \/ CopyInitial \/ CopiedInitial
           /\ disk'.report = disk.report \/ Compare
           /\ disk'.selection = disk.selection \/ Select
           /\ disk'.best = disk.best \/ Repair \/ Repaired \/ ReplaceBest
           /\ disk'.roundSpec = disk.roundSpec \/ EnterRound
           /\ disk'.tested = disk.tested \/ FreezeTest
           /\ disk'.teachers = disk.teachers \/ Boot
           /\ disk'.status = disk.status \/ NotReady \/ Verdict
           /\ \/ mem'.ready \in {mem.ready, {}} 
              \/ \E i \in 1 .. Rows : SaveShard(i)
<1>1. CASE Boot
  BY <1>1 DEF Boot, Shape, Goto
<1>2. CASE Repair \/ Repaired
  BY <1>2 DEF Repair, Repaired, Shape, Goto
<1>3. CASE EnterRound
  BY <1>3 DEF EnterRound, StartRound, Shape, Goto
<1>4. CASE LeaveRounds \/ NextRound
  BY <1>4 DEF LeaveRounds, NextRound, Shape, Goto
<1>5. CASE CopyInitial \/ CopiedInitial
  BY <1>5 DEF CopyInitial, CopiedInitial, Shape, Goto
<1>6. ASSUME NEW i \in 1 .. Rows, SaveShard(i)
      PROVE  /\ Shape'
             /\ disk' = [disk EXCEPT !.shards = disk'.shards]
             /\ mem' = [mem EXCEPT !.ready = mem'.ready]
  BY <1>6 DEF SaveShard, Shape, Goto
<1>7. CASE \E i \in 1 .. Rows : SaveShard(i)
  BY <1>6, <1>7 DEF Shape
<1>8. CASE RecordShard
  BY <1>8 DEF RecordShard, Shape, Goto
<1>9. CASE RefuseData
  BY <1>9 DEF RefuseData, Refuse, Idle, Shape, Goto
<1>10. CASE Collected
  BY <1>10 DEF Collected, Shape, Goto
<1>11. CASE BeginFit
  BY <1>11 DEF BeginFit, Shape, Goto
<1>12. CASE TrainEpoch
  BY <1>12 DEF TrainEpoch, Shape, Goto
<1>13. CASE SaveEpoch
  BY <1>13 DEF SaveEpoch, Shape, Goto
<1>14. CASE SaveMetrics \/ SaveLast
  BY <1>14 DEF SaveMetrics, SaveLast, Shape, Goto
<1>15. CASE Compare
  BY <1>15 DEF Compare, Shape, Goto
<1>16. CASE KeepSelection
  BY <1>16 DEF KeepSelection, NextCheck, Shape, Goto
<1>17. CASE ReplaceBest
  BY <1>17 DEF ReplaceBest, Shape, Goto
<1>18. CASE Select
  BY <1>18 DEF Select, NextCheck, Shape, Goto
<1>19. CASE NotReady \/ Verdict
  <2>1. PICK status : Publish(status)
    BY <1>19 DEF NotReady, Verdict
  <2>2. QED
    BY <1>19, <2>1 DEF Publish, Idle, Shape, Goto
<1>20. CASE FreezeTest
  BY <1>20 DEF FreezeTest, Refuse, Idle, Shape, Goto
<1>21. CASE Test
  BY <1>21 DEF Test, Shape, Goto
<1>22. CASE Crash
  BY <1>22 DEF Crash, Idle, Shape
<1>23. CASE UNCHANGED vars
  BY <1>23 DEF vars, Shape
<1>24. QED
  BY <1>1, <1>2, <1>3, <1>4, <1>5, <1>7, <1>8, <1>9, <1>10, <1>11, <1>12, <1>13,
     <1>14, <1>15, <1>16, <1>17, <1>18, <1>19, <1>20, <1>21, <1>22, <1>23
  DEF Next, Work, Round, Collect, Fit, Assess, Conclude, Done

-----------------------------------------------------------------------------
(* Data files. *)
LEMMA InitResume == Init => ResumeInv
<1> SUFFICES ASSUME Init PROVE ResumeInv
  OBVIOUS
<1>1. FileTypes
  BY CountsAssumption DEF Init, Fresh, FileTypes, Hashes
<1>2. Data
  BY CountsAssumption DEF Init, Fresh, Idle, Data
<1>3. OnDisk
  BY DEF Init, Fresh, OnDisk, Tags
<1>4. InMemory
  BY DEF Init, InMemory, Fitting
<1>5. Winner
  BY DEF Init, Fresh, Winner
<1>6. Handed
  BY CountsAssumption DEF Init, Fresh, Handed, RoundIds
<1>7. QED
  BY <1>1, <1>2, <1>3, <1>4, <1>5, <1>6 DEF ResumeInv

\* The round that collects or trains is one of the rounds.
LEMMA RoundInHand ==
    ASSUME SuiteInv, pc \in InRound
    PROVE  mem.round \in RoundIds /\ disk.roundSpec[mem.round] # None /\ Shape
           /\ (pc \in {"fit"} \cup Fitting /\ mem.round > 0 => disk.initial[mem.round] # None)
  BY DEF SuiteInv, Types, Place

LEMMA SaveShardEffect ==
    ASSUME SuiteInv, FileTypes, Data, NEW i \in 1 .. Rows, SaveShard(i)
    PROVE  /\ mem.round \in RoundIds /\ i > Len(disk.manifest[mem.round])
           /\ disk'.shards \in [RoundIds -> [1 .. Rows -> Hashes]]
           /\ \A r \in RoundIds, j \in 1 .. Rows :
                 r # mem.round \/ j # i => disk'.shards[r][j] = disk.shards[r][j]
           /\ disk'.manifest = disk.manifest /\ mem'.ready = mem.ready \cup {i}
<1> DEFINE q == mem.round
           new == Other(disk.shards[q][i])
<1>1. q \in RoundIds /\ Shape /\ i > Len(disk.manifest[q])
  BY RoundInHand DEF SaveShard, InRound, Pending, Recorded
<1>2. new \in Hashes
  BY DEF Other, Hashes
<1> HIDE DEF q, new
<1>3. disk' = [disk EXCEPT !.shards[q][i] = new]
  BY DEF SaveShard, q, new
<1>4. disk'.shards = [disk.shards EXCEPT ![q][i] = new] /\ disk'.manifest = disk.manifest
  BY <1>1, <1>3 DEF Shape
<1>5. [disk.shards[q] EXCEPT ![i] = new] \in [1 .. Rows -> Hashes]
  BY <1>1, <1>2 DEF FileTypes
<1>6. mem'.ready = mem.ready \cup {i}
  BY <1>1 DEF SaveShard, Shape
<1>7. QED
  BY <1>1, <1>4, <1>5, <1>6 DEF FileTypes, q

LEMMA RecordShardEffect ==
    ASSUME SuiteInv, FileTypes, Data, RecordShard
    PROVE  /\ mem.round \in RoundIds /\ disk'.shards = disk.shards
           /\ disk'.manifest \in [RoundIds -> Seq(Hashes)]
           /\ \A r \in RoundIds :
                 r # mem.round => disk'.manifest[r] = disk.manifest[r]
           /\ LET n == Len(disk.manifest[mem.round])
              IN  /\ n + 1 \in 1 .. Rows
                  /\ disk'.manifest[mem.round] =
                        Append(disk.manifest[mem.round], disk.shards[mem.round][n + 1])
           /\ mem' = mem
<1> DEFINE q == mem.round
           n == Len(disk.manifest[q])
<1>1. q \in RoundIds /\ Shape /\ n + 1 \in 1 .. Rows /\ mem' = mem
  BY RoundInHand DEF RecordShard, InRound, Recorded, Data
<1>2. disk.shards[q][n + 1] \in Hashes /\ disk.manifest[q] \in Seq(Hashes)
  BY <1>1 DEF FileTypes
<1>3. disk' = [disk EXCEPT !.manifest[q] = Append(@, disk.shards[q][n + 1])]
  BY DEF RecordShard, Recorded
<1>4. /\ disk'.manifest = [disk.manifest EXCEPT ![q] = Append(@, disk.shards[q][n + 1])]
      /\ disk'.shards = disk.shards
  BY <1>1, <1>3 DEF Shape
<1>5. Append(disk.manifest[q], disk.shards[q][n + 1]) \in Seq(Hashes)
  BY <1>2
<1> HIDE DEF q, n
<1>6. QED
  BY <1>1, <1>4, <1>5 DEF FileTypes, q, n

LEMMA DataStep ==
    ASSUME SuiteInv, FileTypes, Data, [Next]_vars PROVE Data'
<1>1. Shape
  BY DEF SuiteInv, Types
<1>2. ASSUME NEW i \in 1 .. Rows, SaveShard(i) PROVE Data'
  <2>1. ASSUME NEW r \in RoundIds, NEW j \in 1 .. Len(disk.manifest[r])
        PROVE  disk'.shards[r][j] = disk.shards[r][j]
    <3>1. Len(disk.manifest[r]) \in Nat /\ Len(disk.manifest[r]) <= Rows /\ Rows \in Nat
      BY CountsAssumption DEF Data, FileTypes
    <3>2. r = mem.round => i > Len(disk.manifest[r])
      BY <1>2, SaveShardEffect
    <3>3. j \in 1 .. Rows /\ (r = mem.round => j # i)
      BY <3>1, <3>2
    <3>4. QED
      BY <1>2, <3>3, SaveShardEffect
  <2>2. QED
    BY <1>2, <2>1, SaveShardEffect DEF Data
<1>3. CASE RecordShard
  <2> DEFINE q == mem.round
             n == Len(disk.manifest[q])
             m == disk'.manifest[q]
  <2>1. /\ q \in RoundIds /\ n + 1 \in 1 .. Rows /\ disk.manifest[q] \in Seq(Hashes)
        /\ m = Append(disk.manifest[q], disk.shards[q][n + 1])
    BY <1>3, RecordShardEffect DEF FileTypes
  <2>2. n \in Nat /\ Len(m) = n + 1 /\ \A j \in 1 .. n + 1 :
            m[j] = IF j = n + 1 THEN disk.shards[q][n + 1] ELSE disk.manifest[q][j]
    BY <2>1
  <2>3. \A j \in 1 .. n : disk.manifest[q][j] = disk.shards[q][j]
    BY <2>1 DEF Data
  <2>4. Len(m) <= Rows /\ \A j \in 1 .. Len(m) : m[j] = disk.shards[q][j]
    <3> HIDE DEF m, n, q
    <3>1. n + 1 <= Rows
      BY <2>1, CountsAssumption
    <3>2. QED
      BY <2>2, <2>3, <3>1
  <2> HIDE DEF m, n
  <2>5. QED
    BY <1>3, <2>4, RecordShardEffect DEF Data, m, q
<1>4. CASE /\ disk'.shards = disk.shards /\ disk'.manifest = disk.manifest
           /\ mem'.ready \in {mem.ready, {}}
  BY <1>4 DEF Data
<1>5. QED
  <2>1. \/ disk'.shards = disk.shards /\ mem'.ready \in {mem.ready, {}}
        \/ \E i \in 1 .. Rows : SaveShard(i)
    BY <1>1, Writers
  <2>2. disk'.manifest = disk.manifest \/ RecordShard
    BY <1>1, Writers
  <2>3. QED
    BY <1>2, <1>3, <1>4, <2>1, <2>2

-----------------------------------------------------------------------------
(* Weights. *)
LEMMA GrownWeights ==
    ASSUME NEW A, NEW s \in Seq(A), NEW r \in Nat, NEW n \in Nat
    PROVE  /\ s \o EpochsOf(r, 0) = s
           /\ Append(s \o EpochsOf(r, n), <<r, n + 1>>) = s \o EpochsOf(r, n + 1)
<1> DEFINE S == A \cup {<<r, e>> : e \in Nat}
           x == <<r, n + 1>>
<1>1. EpochsOf(r, 0) = <<>> /\ Append(EpochsOf(r, n), x) = EpochsOf(r, n + 1)
  BY DEF EpochsOf
<1>2. EpochsOf(r, n) \in Seq(S) /\ s \in Seq(S) /\ x \in S
  BY SeqMonotonic DEF EpochsOf
<1> HIDE DEF S, x
<1>3. s \o <<>> = s
  BY ConcatEmptySeq
<1>4. s \o EpochsOf(r, n) \in Seq(S) /\ <<x>> \in Seq(S)
  BY <1>2, ConcatProperties
<1>5. Append(s \o EpochsOf(r, n), x) = (s \o EpochsOf(r, n)) \o <<x>>
  BY <1>2, <1>4, AppendIsConcat
<1>6. Append(EpochsOf(r, n), x) = EpochsOf(r, n) \o <<x>>
  BY <1>2, AppendIsConcat
<1>7. (s \o EpochsOf(r, n)) \o <<x>> = s \o (EpochsOf(r, n) \o <<x>>)
  BY <1>2, <1>4, ConcatAssociative
<1>8. QED
  BY <1>1, <1>3, <1>5, <1>6, <1>7 DEF x

\* The model a round starts from, and one more epoch of it.
LEMMA FirstWeights ==
    ASSUME NEW r \in RoundIds, NEW w, r # 0 => w \in Weights
    PROVE  /\ Grown(w, r, 0) = IF r = 0 THEN <<>> ELSE w
           /\ \A n \in Nat : Append(Grown(w, r, n), <<r, n + 1>>) = Grown(w, r, n + 1)
<1> DEFINE s == IF r = 0 THEN <<>> ELSE w
<1>0. r \in Nat
  BY DEF RoundIds
<1>1. s \in Seq(RoundIds \X (1 .. Epochs))
  BY DEF Weights
<1>2. \A n : Grown(w, r, n) = s \o EpochsOf(r, n)
  BY DEF Grown
<1> HIDE DEF s
<1>3. Grown(w, r, 0) = s
  BY <1>0, <1>1, <1>2, GrownWeights
<1>4. ASSUME NEW n \in Nat
      PROVE  Append(Grown(w, r, n), <<r, n + 1>>) = Grown(w, r, n + 1)
  <2>1. Append(s \o EpochsOf(r, n), <<r, n + 1>>) = s \o EpochsOf(r, n + 1)
    BY <1>1, <1>0, GrownWeights
  <2>2. Grown(w, r, n) = s \o EpochsOf(r, n)
    BY <1>2
  <2>3. Grown(w, r, n + 1) = s \o EpochsOf(r, n + 1)
    BY <1>2
  <2>4. QED
    BY <2>1, <2>2, <2>3, Zenon
<1>5. QED
  BY <1>3, <1>4 DEF s

-----------------------------------------------------------------------------
(***************************************************************************)
(* What has been written for good: a frozen round, the initial model of a  *)
(* training, a saved checkpoint, a report.                                 *)
(***************************************************************************)
LEMMA RoundKept ==
    ASSUME SuiteInv, [Next]_vars, NEW r \in RoundIds, disk.roundSpec[r] # None
    PROVE  disk'.roundSpec[r] = disk.roundSpec[r]
<1>1. Shape /\ disk.roundSpec \in [RoundIds -> (SUBSET Conditions) \cup {None}]
  BY DEF SuiteInv, Types, DiskTypes
<1>2. CASE EnterRound /\ disk' # disk
  <2>1. disk.roundSpec[mem.round] = None
    BY <1>2 DEF EnterRound
  <2>2. \E C : disk'.roundSpec = [disk.roundSpec EXCEPT ![mem.round] = C]
    BY <1>1, <1>2 DEF EnterRound, StartRound, Shape
  <2>3. QED
    BY <1>1, <2>1, <2>2
<1>3. QED
  BY <1>1, <1>2, Writers

LEMMA InitialKept ==
    ASSUME SuiteInv, ResumeInv, [Next]_vars, NEW r \in RoundIds, disk.last[r] # None
    PROVE  disk'.initial[r] = disk.initial[r]
<1>1. Shape /\ disk.initial \in [RoundIds -> Weights \cup {Torn, None}]
  BY DEF SuiteInv, Types, DiskTypes
<1>2. Ready(r)
  BY DEF ResumeInv, OnDisk
<1>3. CASE CopyInitial
  <2>1. CASE disk' = disk
    BY <2>1
  <2>2. CASE /\ disk' = [disk EXCEPT !.initial[mem.round] = Torn]
             /\ mem.round # 0 /\ disk.initial[mem.round] = None
    <3>1. disk'.initial = [disk.initial EXCEPT ![mem.round] = Torn]
      BY <1>1, <2>2 DEF Shape
    <3>2. r # mem.round
      BY <1>2, <2>2 DEF Ready
    <3>3. QED
      BY <1>1, <3>1, <3>2
  <2>3. QED
    BY <1>3, <2>1, <2>2 DEF CopyInitial
<1>4. CASE CopiedInitial
  <2>1. disk'.initial = [disk.initial EXCEPT ![mem.round] = disk.best]
    BY <1>1, <1>4 DEF CopiedInitial, Shape
  <2>2. disk.initial[mem.round] = Torn /\ mem.round # 0
    BY <1>4 DEF CopiedInitial, SuiteInv, Place, ResumeInv, Handed
  <2>3. r # mem.round
    BY <1>2, <2>2 DEF Ready
  <2>4. QED
    BY <1>1, <2>1, <2>3
<1>5. QED
  BY <1>1, <1>3, <1>4, Writers

LEMMA LastKept ==
    ASSUME SuiteInv, [Next]_vars, NEW r \in RoundIds, disk.last[r] # None
    PROVE  /\ disk'.last[r] # None
           /\ disk'.last[r] = disk.last[r] \/ (r = mem.round /\ SaveLast)
<1>1. Shape /\ disk.last \in [RoundIds -> Checkpoints \cup {None}]
  BY DEF SuiteInv, Types, DiskTypes
<1>2. CASE BeginFit
  <2>1. disk'.last = [disk.last EXCEPT ![mem.round] = Start]
    BY <1>1, <1>2 DEF BeginFit, Shape
  <2>2. r = mem.round => Start = disk.last[r]
    BY DEF Start
  <2>3. QED
    BY <1>1, <2>1, <2>2
<1>3. CASE SaveLast
  <2> DEFINE new == [epoch |-> mem.epoch, weights |-> mem.weights]
  <2>1. new # None
    BY <1>3, TokensAssumption DEF SaveLast, SuiteInv, Types, MemTypes, Fitting
  <2> HIDE DEF new
  <2>2. disk'.last = [disk.last EXCEPT ![mem.round] = new]
    BY <1>1, <1>3 DEF SaveLast, Shape, new
  <2>3. QED
    BY <1>1, <1>3, <2>1, <2>2
<1>4. QED
  BY <1>1, <1>2, <1>3, Writers

LEMMA SavedKept ==
    ASSUME SuiteInv, ResumeInv, [Next]_vars, NEW t \in Tags, disk.saved[t] # None
    PROVE  disk'.saved[t] = disk.saved[t]
<1>1. Shape /\ disk.saved \in [Tags -> Weights \cup {None}]
  BY DEF SuiteInv, Types, DiskTypes
<1>2. CASE SaveEpoch
  <2>1. mem.epoch \notin Scheduled => disk' = disk
    BY <1>2 DEF SaveEpoch
  <2>2. mem.epoch \in Scheduled =>
            disk'.saved = [disk.saved EXCEPT ![<<mem.round, mem.epoch>>] = mem.weights]
    BY <1>1, <1>2 DEF SaveEpoch, Shape
  <2>3. mem.weights = Grown(disk.initial[mem.round], mem.round, mem.epoch)
    BY <1>2 DEF SaveEpoch, ResumeInv, InMemory, Fitting
  <2>4. disk.saved[t] = Grown(disk.initial[t[1]], t[1], t[2])
    BY DEF ResumeInv, OnDisk
  <2>5. t = <<mem.round, mem.epoch>> => disk.saved[t] = mem.weights
    BY <2>3, <2>4
  <2>6. QED
    BY <1>1, <2>1, <2>2, <2>5
<1>3. QED
  BY <1>1, <1>2, Writers

LEMMA ReportKept ==
    ASSUME SuiteInv, [Next]_vars, NEW t \in Tags, disk.report[t] # None
    PROVE  disk'.report[t] = disk.report[t]
<1>1. Shape /\ disk.report \in [Tags -> Reports \cup {None}]
  BY DEF SuiteInv, Types, DiskTypes
<1>2. CASE Compare
  <2>1. PICK p \in Reports : Cached(disk.report[Tag], p) /\ disk' = [disk EXCEPT !.report[Tag] = p]
    BY <1>2 DEF Compare
  <2>2. disk'.report = [disk.report EXCEPT ![Tag] = p]
    BY <1>1, <2>1 DEF Shape
  <2>3. QED
    BY <1>1, <2>1, <2>2 DEF Cached
<1>3. QED
  BY <1>1, <1>2, Writers

\* The model that a training began from stays.
LEMMA StartKept ==
    ASSUME SuiteInv, ResumeInv, [Next]_vars, NEW r \in RoundIds, disk.last[r] # None
    PROVE  Ready(r) /\ Ready(r)' /\ disk'.initial[r] = disk.initial[r]
  BY InitialKept DEF ResumeInv, OnDisk, Ready

-----------------------------------------------------------------------------
(* Training: what is on disk. *)
LEMMA BeginFitEffect ==
    ASSUME SuiteInv, ResumeInv, BeginFit
    PROVE  LET r == mem.round
           IN  /\ r \in RoundIds /\ disk.roundSpec[r] # None /\ Ready(r)
               /\ disk'.last = [disk.last EXCEPT ![r] = Start] /\ disk'.last[r] = Start
               /\ disk'.metrics = disk.metrics /\ disk'.initial = disk.initial
               /\ Start.epoch \in Nat
               /\ Start.weights = Grown(disk.initial[r], r, Start.epoch)
               /\ \/ disk.metrics[r] = Numbered(Start.epoch)
                  \/ disk.metrics[r] = Numbered(Start.epoch + 1)
               /\ mem'.round = r /\ mem'.epoch = Start.epoch
               /\ mem'.weights = Start.weights /\ mem'.rows = Numbered(Start.epoch)
               /\ Start # None /\ pc' = "epoch"
<1> DEFINE r == mem.round
<1>1. /\ r \in RoundIds /\ disk.roundSpec[r] # None /\ Shape
      /\ disk.initial[r] # Torn /\ (r > 0 => disk.initial[r] # None)
  BY RoundInHand DEF BeginFit, InRound, FitAllowed
<1>2. Ready(r)
  BY <1>1 DEF Ready, RoundIds
<1>3. disk.last \in [RoundIds -> Checkpoints \cup {None}] /\ DiskTypes
  BY DEF SuiteInv, Types, DiskTypes
<1>4. /\ Start.epoch \in 0 .. Epochs /\ Start.weights = Grown(disk.initial[r], r, Start.epoch)
      /\ \/ disk.metrics[r] = Numbered(Start.epoch)
         \/ disk.metrics[r] = Numbered(Start.epoch + 1)
      /\ Start # None
  <2>1. CASE disk.last[r] # None
    <3>1. Start = disk.last[r] /\ Start \in Checkpoints
      BY <1>1, <1>3, <2>1 DEF Start
    <3>2. QED
      BY <1>1, <2>1, <3>1 DEF ResumeInv, OnDisk, Checkpoints
  <2>2. CASE disk.last[r] = None
    <3>1. Start = [epoch |-> 0, weights |-> IF r = 0 THEN <<>> ELSE disk.initial[r]]
      BY <1>1, <2>2 DEF Start, RoundIds
    <3>2. Start.epoch = 0 /\ Start.weights = Grown(disk.initial[r], r, 0)
      BY <1>1, <1>2, <1>3, <3>1, FirstWeights DEF Ready, DiskTypes
    <3>3. disk.metrics[r] = Numbered(0)
      BY <1>1, <2>2, NumberedRows DEF ResumeInv, OnDisk
    <3>4. Start \in Checkpoints
      <4>1. (IF r = 0 THEN <<>> ELSE disk.initial[r]) \in Weights
        BY <1>1, <1>2, <1>3 DEF DiskTypes, Ready, Weights
      <4>2. QED
        BY <3>1, <4>1, CountsAssumption DEF Checkpoints
    <3>5. QED
      BY <3>2, <3>3, <3>4, CountsAssumption, TokensAssumption DEF Checkpoints
  <2>3. QED
    BY <2>1, <2>2
<1>5. RowsUpTo(disk.metrics[r], Start.epoch) = Numbered(Start.epoch)
  <2>1. Start.epoch \in Nat /\ Start.epoch \in 0 .. Start.epoch
        /\ Start.epoch + 1 \in Nat /\ Start.epoch \in 0 .. Start.epoch + 1
    BY <1>4, CountsAssumption
  <2>2. QED
    BY <1>4, <2>1, RowsKept
<1> HIDE DEF r
<1>6. /\ disk'.last = [disk.last EXCEPT ![r] = Start]
      /\ disk'.metrics = disk.metrics /\ disk'.initial = disk.initial
      /\ mem'.round = r /\ mem'.epoch = Start.epoch
      /\ mem'.weights = Start.weights
      /\ mem'.rows = RowsUpTo(disk.metrics[r], Start.epoch) /\ pc' = "epoch"
  BY <1>1 DEF BeginFit, Goto, Shape, r
<1>7. disk'.last[r] = Start
  BY <1>1, <1>3, <1>6
<1>8. Start.epoch \in Nat
  BY <1>4, CountsAssumption
<1>9. QED
  BY <1>1, <1>2, <1>4, <1>5, <1>6, <1>7, <1>8 DEF r

LEMMA SaveLastEffect ==
    ASSUME SuiteInv, ResumeInv, SaveLast
    PROVE  LET new == [epoch |-> mem.epoch, weights |-> mem.weights]
           IN  /\ mem.round \in RoundIds /\ disk.last[mem.round] # None
               /\ new # None /\ mem.epoch \in Nat
               /\ mem.weights = Grown(disk.initial[mem.round], mem.round, mem.epoch)
               /\ disk.metrics[mem.round] = Numbered(mem.epoch)
               /\ disk'.last = [disk.last EXCEPT ![mem.round] = new]
               /\ disk'.last[mem.round] = new
               /\ disk'.metrics = disk.metrics /\ mem' = mem /\ pc' = "epoch"
<1>1. mem.round \in RoundIds /\ Shape /\ mem.weights \in Weights /\ mem.epoch \in 0 .. Epochs
  BY RoundInHand DEF SaveLast, InRound, Fitting, SuiteInv, Types, MemTypes
<1>2. disk.last \in [RoundIds -> Checkpoints \cup {None}]
  BY DEF SuiteInv, Types, DiskTypes
<1>3. [epoch |-> mem.epoch, weights |-> mem.weights] # None
  BY <1>1, TokensAssumption
<1>4. /\ disk'.last = [disk.last EXCEPT ![mem.round] =
                          [epoch |-> mem.epoch, weights |-> mem.weights]]
      /\ disk'.metrics = disk.metrics /\ mem' = mem /\ pc' = "epoch"
  BY <1>1 DEF SaveLast, Goto, Shape
<1>5. /\ disk.last[mem.round] # None /\ mem.weights = Grown(disk.initial[mem.round], mem.round, mem.epoch)
      /\ disk.metrics[mem.round] = Numbered(mem.epoch)
  BY DEF SaveLast, ResumeInv, InMemory, Fitting
<1>6. mem.epoch \in Nat
  BY <1>1, CountsAssumption
<1>7. QED
  BY <1>1, <1>2, <1>3, <1>4, <1>5, <1>6

LEMMA SaveMetricsEffect ==
    ASSUME SuiteInv, ResumeInv, SaveMetrics
    PROVE  /\ mem.round \in RoundIds /\ disk.last[mem.round] # None
           /\ mem.epoch \in Nat /\ mem.epoch = disk.last[mem.round].epoch + 1
           /\ disk'.metrics = [disk.metrics EXCEPT ![mem.round] = Numbered(mem.epoch)]
           /\ disk'.metrics[mem.round] = Numbered(mem.epoch)
           /\ disk'.last = disk.last /\ mem' = mem /\ pc' = "last"
<1>1. mem.round \in RoundIds /\ Shape /\ mem.epoch \in 0 .. Epochs
  BY RoundInHand DEF SaveMetrics, InRound, Fitting, SuiteInv, Types, MemTypes
<1>2. /\ disk.last[mem.round] # None /\ mem.rows = Numbered(mem.epoch)
      /\ mem.epoch = disk.last[mem.round].epoch + 1
  BY DEF SaveMetrics, ResumeInv, InMemory, Fitting
<1>3. /\ disk'.metrics = [disk.metrics EXCEPT ![mem.round] = Numbered(mem.epoch)]
      /\ disk'.last = disk.last /\ mem' = mem /\ pc' = "last"
  BY <1>1, <1>2 DEF SaveMetrics, Goto, Shape
<1>4. disk'.metrics[mem.round] = Numbered(mem.epoch)
  BY <1>1, <1>3 DEF ResumeInv, FileTypes
<1>5. mem.epoch \in Nat
  BY <1>1, CountsAssumption
<1>6. QED
  BY <1>1, <1>2, <1>3, <1>4, <1>5

LEMMA OnDiskStep ==
    ASSUME SuiteInv, ResumeInv, [Next]_vars PROVE OnDisk'
<1>1. /\ Shape /\ disk.last \in [RoundIds -> Checkpoints \cup {None}]
      /\ disk.saved \in [Tags -> Weights \cup {None}]
      /\ disk.metrics \in [RoundIds -> Seq(Nat)]
  BY DEF SuiteInv, Types, DiskTypes, ResumeInv, FileTypes
<1>2. ASSUME NEW r \in RoundIds
      PROVE  /\ disk'.last[r] = None => disk'.metrics[r] = <<>>
             /\ disk'.last[r] # None =>
                   /\ Ready(r)'
                   /\ disk'.last[r].weights = Grown(disk'.initial[r], r, disk'.last[r].epoch)
                   /\ \/ disk'.metrics[r] = Numbered(disk'.last[r].epoch)
                      \/ disk'.metrics[r] = Numbered(disk'.last[r].epoch + 1)
  <2>1. CASE disk'.last[r] = disk.last[r] /\ disk'.metrics[r] = disk.metrics[r]
    BY <2>1, StartKept DEF ResumeInv, OnDisk
  <2>2. CASE BeginFit
    <3>1. CASE r = mem.round
      <4>1. Ready(r)' /\ disk'.initial[r] = disk.initial[r]
        BY <2>2, <3>1, BeginFitEffect DEF Ready
      <4>2. QED
        BY <2>2, <3>1, <4>1, BeginFitEffect
    <3>2. CASE r # mem.round
      BY <1>1, <2>1, <2>2, <3>2, BeginFitEffect
    <3>3. QED
      BY <3>1, <3>2
  <2>3. CASE SaveLast
    <3>1. CASE r = mem.round
      <4>1. /\ disk'.last[r].epoch = mem.epoch /\ disk'.last[r].weights = mem.weights
            /\ disk'.last[r] # None
        BY <2>3, <3>1, SaveLastEffect
      <4>2. QED
        BY <2>3, <3>1, <4>1, SaveLastEffect, StartKept
    <3>2. CASE r # mem.round
      BY <1>1, <2>1, <2>3, <3>2, SaveLastEffect
    <3>3. QED
      BY <3>1, <3>2
  <2>4. CASE SaveMetrics
    <3>1. CASE r = mem.round
      <4>1. /\ Ready(r)' /\ disk'.initial[r] = disk.initial[r]
            /\ disk'.last[r] = disk.last[r] /\ disk.last[r] # None
        BY <2>4, <3>1, SaveMetricsEffect, StartKept
      <4>2. disk'.metrics[r] = Numbered(disk'.last[r].epoch + 1)
        BY <2>4, <3>1, <4>1, SaveMetricsEffect
      <4>3. QED
        BY <4>1, <4>2 DEF ResumeInv, OnDisk
    <3>2. CASE r # mem.round
      BY <1>1, <2>1, <2>4, <3>2, SaveMetricsEffect
    <3>3. QED
      BY <3>1, <3>2
  <2>5. QED
    <3>1. disk'.last = disk.last \/ BeginFit \/ SaveLast
      BY <1>1, Writers
    <3>2. disk'.metrics = disk.metrics \/ SaveMetrics
      BY <1>1, Writers
    <3>3. QED
      BY <2>1, <2>2, <2>3, <2>4, <3>1, <3>2
<1>3. ASSUME NEW t \in Tags, disk'.saved[t] # None
      PROVE  /\ disk'.last[t[1]] # None /\ disk'.roundSpec[t[1]] # None
             /\ disk'.saved[t] = Grown(disk'.initial[t[1]], t[1], t[2])
  <2>1. t[1] \in RoundIds /\ t = <<t[1], t[2]>>
    BY DEF Tags
  <2>2. /\ disk.last[t[1]] # None /\ disk.roundSpec[t[1]] # None
        /\ disk'.saved[t] = Grown(disk.initial[t[1]], t[1], t[2])
    <3>1. CASE disk.saved[t] # None
      BY <3>1, SavedKept DEF ResumeInv, OnDisk
    <3>2. CASE disk.saved[t] = None
      <4>1. SaveEpoch /\ disk' # disk
        BY <1>1, <1>3, <3>2, Writers
      <4>2. disk'.saved = [disk.saved EXCEPT ![<<mem.round, mem.epoch>>] = mem.weights]
        BY <1>1, <4>1 DEF SaveEpoch, Shape
      <4>3. t = <<mem.round, mem.epoch>> /\ disk'.saved[t] = mem.weights
        BY <1>1, <1>3, <3>2, <4>2
      <4>4. pc = "save" /\ disk.roundSpec[mem.round] # None
        BY <4>1, RoundInHand DEF SaveEpoch, InRound, Fitting
      <4>5. /\ disk.last[mem.round] # None
            /\ mem.weights = Grown(disk.initial[mem.round], mem.round, mem.epoch)
        BY <4>4 DEF ResumeInv, InMemory, Fitting
      <4>6. QED
        BY <2>1, <4>3, <4>4, <4>5
    <3>3. QED
      BY <3>1, <3>2
  <2>3. QED
    BY <2>1, <2>2, LastKept, RoundKept, StartKept
<1>4. QED
  BY <1>2, <1>3 DEF OnDisk

-----------------------------------------------------------------------------
(* Training: what the process holds. *)
LEMMA TrainEpochEffect ==
    ASSUME SuiteInv, ResumeInv, TrainEpoch
    PROVE  LET r == mem.round
           IN  /\ disk' = disk /\ mem'.round = r /\ pc' = "save"
               /\ disk.last[r] # None /\ mem'.epoch = disk.last[r].epoch + 1
               /\ mem'.weights = Grown(disk.initial[r], r, mem'.epoch)
               /\ mem'.rows = Numbered(mem'.epoch)
<1> DEFINE r == mem.round
<1>1. r \in RoundIds /\ Shape /\ disk' = disk /\ pc' = "save"
  BY RoundInHand DEF TrainEpoch, Goto, InRound, Fitting
<1>2. /\ disk.last[r] # None /\ mem.epoch = disk.last[r].epoch
      /\ mem.weights = Grown(disk.initial[r], r, mem.epoch)
      /\ mem.rows = Numbered(mem.epoch)
  BY DEF TrainEpoch, ResumeInv, InMemory, Fitting
<1>3. mem.epoch \in Nat
  BY CountsAssumption DEF SuiteInv, Types, MemTypes
<1>4. r # 0 => disk.initial[r] \in Weights
  BY <1>1, <1>2 DEF ResumeInv, OnDisk, Ready, SuiteInv, Types, DiskTypes
<1> HIDE DEF r
<1>5. /\ mem'.round = r /\ mem'.epoch = mem.epoch + 1
      /\ mem'.weights = Append(mem.weights, <<r, mem.epoch + 1>>)
      /\ mem'.rows = Append(mem.rows, mem.epoch + 1)
  BY <1>1 DEF TrainEpoch, Shape, r
<1>6. Append(Grown(disk.initial[r], r, mem.epoch), <<r, mem.epoch + 1>>) =
          Grown(disk.initial[r], r, mem.epoch + 1)
  BY <1>1, <1>3, <1>4, FirstWeights
<1>7. Append(Numbered(mem.epoch), mem.epoch + 1) = Numbered(mem.epoch + 1)
  BY <1>3, NumberedRows
<1>8. QED
  BY <1>1, <1>2, <1>5, <1>6, <1>7 DEF r

\* The steps that leave the epoch, its weights and its rows alone.
LEMMA IdleEffect ==
    ASSUME SuiteInv, ResumeInv,
           SaveEpoch \/ Compare \/ KeepSelection \/ ReplaceBest \/ Select
    PROVE  /\ mem'.round = mem.round /\ mem'.epoch = mem.epoch
           /\ mem'.weights = mem.weights /\ mem'.rows = mem.rows
           /\ disk'.last = disk.last /\ disk'.metrics = disk.metrics
           /\ disk'.initial = disk.initial
           /\ pc \in Fitting /\ pc' # "last"
           /\ pc' \in {"epoch", "assess", "select"} => pc \in {"epoch", "assess", "select"}
           /\ pc' \in {"save", "metrics"} => pc = "save"
<1>1. Shape
  BY DEF SuiteInv, Types
<1>2. CASE SaveEpoch
  BY <1>1, <1>2 DEF SaveEpoch, Goto, Shape, Fitting
<1>3. CASE Compare
  BY <1>1, <1>3 DEF Compare, Goto, Shape, Fitting
<1>4. CASE KeepSelection
  BY <1>1, <1>4 DEF KeepSelection, NextCheck, Goto, Shape, Fitting
<1>5. CASE ReplaceBest
  BY <1>1, <1>5 DEF ReplaceBest, Goto, Shape, Fitting
<1>6. CASE Select
  BY <1>1, <1>6 DEF Select, NextCheck, Goto, Shape, Fitting
<1>7. QED
  BY <1>2, <1>3, <1>4, <1>5, <1>6

\* The steps that end in the training or assessment of a round.
LEMMA FittingSteps ==
    ASSUME [Next]_vars, pc' \in Fitting
    PROVE  \/ BeginFit \/ TrainEpoch \/ SaveMetrics \/ SaveLast
           \/ SaveEpoch \/ Compare \/ KeepSelection \/ ReplaceBest \/ Select
           \/ UNCHANGED vars
<1>1. ~(Boot \/ Repair \/ Repaired \/ Round \/ Collect \/ Crash)
  BY DEF Boot, Repair, Repaired, Round, EnterRound, StartRound, LeaveRounds, CopyInitial,
     CopiedInitial, NextRound, Collect, SaveShard, RecordShard, RefuseData, Refuse,
     Collected, Crash, Goto, Fitting
<1>2. ~Conclude
  BY DEF Conclude, NotReady, FreezeTest, Test, Verdict, Publish, Refuse, Goto, Fitting
<1>3. QED
  BY <1>1, <1>2 DEF Next, Work, Fit, Assess, Done

LEMMA InMemoryStep ==
    ASSUME SuiteInv, ResumeInv, [Next]_vars PROVE InMemory'
<1> SUFFICES ASSUME pc' \in Fitting PROVE InMemory'
  BY DEF InMemory
<1>1. CASE BeginFit
  <2>1. /\ mem'.round = mem.round /\ mem'.epoch = Start.epoch
        /\ disk'.last[mem.round] = Start /\ Start # None /\ pc' = "epoch"
        /\ mem'.weights = Grown(disk'.initial[mem.round], mem.round, Start.epoch)
        /\ mem'.rows = Numbered(Start.epoch)
    BY <1>1, BeginFitEffect
  <2>2. QED
    BY <2>1 DEF InMemory
<1>2. CASE TrainEpoch
  BY <1>2, TrainEpochEffect DEF InMemory
<1>3. CASE SaveMetrics
  <2>1. pc = "metrics" /\ pc \in Fitting
    BY <1>3 DEF SaveMetrics, Fitting
  <2>2. disk'.initial[mem.round] = disk.initial[mem.round]
    BY <1>3, SaveMetricsEffect, StartKept
  <2>3. /\ mem.weights = Grown(disk.initial[mem.round], mem.round, mem.epoch)
        /\ mem.rows = Numbered(mem.epoch)
    BY <2>1 DEF ResumeInv, InMemory
  <2>4. QED
    BY <1>3, <2>2, <2>3, SaveMetricsEffect DEF InMemory
<1>4. CASE SaveLast
  <2>1. disk'.initial[mem.round] = disk.initial[mem.round]
    BY <1>4, SaveLastEffect, StartKept
  <2>2. mem.rows = Numbered(mem.epoch)
    BY <1>4 DEF SaveLast, ResumeInv, InMemory, Fitting
  <2>3. QED
    BY <1>4, <2>1, <2>2, SaveLastEffect DEF InMemory
<1>5. CASE SaveEpoch \/ Compare \/ KeepSelection \/ ReplaceBest \/ Select
  BY <1>5, IdleEffect DEF InMemory, ResumeInv
<1>6. CASE UNCHANGED vars
  BY <1>6 DEF vars, InMemory, ResumeInv
<1>7. QED
  BY <1>1, <1>2, <1>3, <1>4, <1>5, <1>6, FittingSteps

LEMMA FileTypesStep ==
    ASSUME SuiteInv, ResumeInv, [Next]_vars PROVE FileTypes'
<1>1. Shape /\ FileTypes /\ Data
  BY DEF SuiteInv, Types, ResumeInv
<1>2. disk'.teachers = None \/ disk'.teachers \subseteq Conditions
  <2>1. CASE Boot
    <3>1. PICK ok \in SUBSET Conditions : disk' = [disk EXCEPT !.teachers = ok]
      BY <2>1 DEF Boot
    <3>2. QED
      BY <1>1, <3>1 DEF Shape
  <2>2. QED
    BY <1>1, <2>1, Writers DEF FileTypes
<1>3. disk'.shards \in [RoundIds -> [1 .. Rows -> Hashes]]
  BY <1>1, Writers, SaveShardEffect DEF FileTypes
<1>4. disk'.manifest \in [RoundIds -> Seq(Hashes)]
  BY <1>1, Writers, RecordShardEffect DEF FileTypes
<1>5. disk'.metrics \in [RoundIds -> Seq(Nat)]
  <2>1. CASE SaveMetrics
    <3>1. Numbered(mem.epoch) \in Seq(Nat)
      BY <2>1, SaveMetricsEffect, NumberedRows
    <3>2. QED
      BY <1>1, <2>1, <3>1, SaveMetricsEffect DEF FileTypes
  <2>2. QED
    BY <1>1, <2>1, Writers DEF FileTypes
<1>6. disk'.status \in {None, "base-ready", "base-not-ready"}
  <2>1. CASE NotReady \/ Verdict
    <3>1. PICK status \in {"base-ready", "base-not-ready"} : Publish(status)
      BY <2>1 DEF NotReady, Verdict
    <3>2. QED
      BY <1>1, <3>1 DEF Publish, Shape
  <2>2. QED
    BY <1>1, <2>1, Writers DEF FileTypes
<1>7. QED
  BY <1>2, <1>3, <1>4, <1>5, <1>6 DEF FileTypes

-----------------------------------------------------------------------------
(* The selection. *)
LEMMA TagDue ==
    ASSUME SuiteInv, Compare PROVE Tag \in Tags /\ disk.saved[Tag] # None
<1>1. pc \in Fitting /\ pc # "save" /\ mem.check <= mem.epoch
  BY DEF Compare, Overdue, Fitting
<1>2. Tag \in Tags
  BY <1>1, TagScheduled
<1>3. QED
  BY <1>1, <1>2 DEF SuiteInv, Saved, Tag

LEMMA ChosenSaved ==
    ASSUME SuiteInv, ResumeInv, disk.selection # None
    PROVE  /\ Chosen \in Tags /\ Chosen[1] \in RoundIds
           /\ disk.report[Chosen] # None /\ disk.saved[Chosen] # None
           /\ disk.report[Chosen] = disk.selection.report
           /\ disk.roundSpec[Chosen[1]] # None /\ Ready(Chosen[1])
<1>1. Chosen \in Tags /\ disk.selection.report \in Reports
  BY Ranked DEF Chosen
<1>2. disk.report[Chosen] = disk.selection.report /\ disk.report[Chosen] # None
  BY <1>1, TokensAssumption DEF ResumeInv, Winner
<1>3. disk.saved[Chosen] # None
  BY <1>1, <1>2 DEF ResumeInv, Winner
<1>4. Chosen[1] \in RoundIds
  BY <1>1 DEF Tags
<1>5. QED
  BY <1>1, <1>2, <1>3, <1>4 DEF ResumeInv, OnDisk

\* Between a repair and the next replacement best.pt is the selected model.
LEMMA BestKept ==
    ASSUME SuiteInv, ResumeInv, [Next]_vars, disk.selection # None, ~Select,
           pc' \notin Early \cup {"select"}
    PROVE  disk'.best = disk.saved[Chosen]
<1>1. Shape
  BY DEF SuiteInv, Types
<1>2. CASE Repair
  BY <1>2 DEF Repair, Goto, BestIsSelected, Early
<1>3. CASE Repaired
  BY <1>1, <1>3 DEF Repaired, Shape
<1>4. CASE ~Repair /\ ~Repaired
  <2>1. ~ReplaceBest /\ ~Boot /\ ~RefuseData /\ ~Crash
    BY DEF ReplaceBest, Boot, RefuseData, Refuse, Crash, Goto, Early
  <2>2. disk'.best = disk.best
    BY <1>1, <1>4, <2>1, Writers
  <2>3. pc \notin Early \cup {"select"}
    <3>1. CASE UNCHANGED vars
      BY <3>1 DEF vars
    <3>2. CASE Round \/ Collect \/ Fit \/ Compare \/ KeepSelection \/ Conclude
      BY <3>2 DEF Round, EnterRound, LeaveRounds, CopyInitial, CopiedInitial, NextRound,
         Collect, SaveShard, RecordShard, RefuseData, Collected, Fit, BeginFit, TrainEpoch,
         SaveEpoch, SaveMetrics, SaveLast, Compare, KeepSelection, Conclude, NotReady,
         FreezeTest, Test, Verdict, Early
    <3>3. QED
      BY <1>4, <2>1, <3>1, <3>2 DEF Next, Work, Assess, Done
  <2>4. QED
    BY <2>2, <2>3 DEF ResumeInv, Winner, BestIsSelected
<1>5. QED
  BY <1>2, <1>3, <1>4

LEMMA SelectWins ==
    ASSUME SuiteInv, ResumeInv, Select
    PROVE  Winner'
<1> DEFINE new == [tag |-> Tag, report |-> disk.report[Tag]]
<1>1. /\ Shape /\ pc = "select" /\ pc' = "epoch" /\ Tag \in Tags
      /\ disk.report[Tag] \in Reports /\ Improves(disk.report[Tag])
      /\ disk.best = disk.saved[Tag]
  BY TagSaved, Ranked DEF SuiteInv, Types, Select, Goto, Assessed, ResumeInv, Winner
<1>2. disk'.selection = new /\ disk'.report = disk.report /\ disk'.saved = disk.saved
      /\ disk'.best = disk.best
  BY <1>1 DEF Select, Shape
<1>3. Chosen' = Tag /\ disk'.selection.report = disk.report[Tag]
  BY <1>2 DEF Chosen
<1>4. ASSUME NEW t \in Tags, Before(t, Tag)
      PROVE  disk.report[t] # None /\ disk.report[Tag].rank < disk.report[t].rank
  <2>1. t[1] < mem.round \/ (t[1] = mem.round /\ t[2] < mem.check)
    BY <1>4 DEF Before, Tag
  <2>2. Behind(t)
    BY <1>1, <2>1 DEF SuiteInv, Assessed, Fitting
  <2>3. /\ disk.selection # None /\ disk.report[t] # None
        /\ disk.report[Tag].rank < disk.selection.report.rank
        /\ disk.selection.report.rank <= disk.report[t].rank
    BY <1>1, <2>2 DEF Behind, Improves
  <2>4. disk.report[Tag].rank \in Nat /\ disk.report[t].rank \in Nat
        /\ disk.selection.report.rank \in Nat
    BY <1>1, <2>3, Ranked
  <2>5. QED
    BY <2>3, <2>4
<1>5. (\A t \in Tags : disk'.report[t] # None => disk'.saved[t] # None)
  BY <1>2 DEF ResumeInv, Winner
<1>6. BestIsSelected'
  BY <1>1, <1>2, <1>3 DEF BestIsSelected
<1>7. \A t \in Tags : Before(t, Chosen)' <=> Before(t, Tag)
  BY <1>3 DEF Before
<1>8. QED
  BY <1>1, <1>2, <1>3, <1>4, <1>5, <1>6, <1>7 DEF Winner

LEMMA WinnerStep ==
    ASSUME SuiteInv, ResumeInv, [Next]_vars PROVE Winner'
<1>1. Shape /\ disk.report \in [Tags -> Reports \cup {None}]
  BY DEF SuiteInv, Types, DiskTypes
<1>2. CASE Select
  BY <1>2, SelectWins
<1>3. CASE ~Select
  <2>1. disk'.selection = disk.selection /\ Chosen' = Chosen
    BY <1>1, <1>3, Writers DEF Chosen
  <2>2. ASSUME NEW t \in Tags, disk'.report[t] # None PROVE disk'.saved[t] # None
    <3>1. disk.saved[t] # None
      <4>1. CASE disk.report[t] # None
        BY <4>1 DEF ResumeInv, Winner
      <4>2. CASE disk.report[t] = None
        <5>1. Compare
          BY <1>1, <2>2, <4>2, Writers
        <5>2. PICK p : disk' = [disk EXCEPT !.report[Tag] = p]
          BY <5>1 DEF Compare
        <5>3. disk'.report = [disk.report EXCEPT ![Tag] = p]
          BY <1>1, <5>2 DEF Shape
        <5>4. t = Tag
          BY <1>1, <2>2, <4>2, <5>3
        <5>5. QED
          BY <5>1, <5>4, TagDue
      <4>3. QED
        BY <4>1, <4>2
    <3>2. QED
      BY <3>1, SavedKept
  <2>3. ASSUME disk.selection # None
        PROVE  /\ disk'.report[Chosen] = disk.selection.report
               /\ \A t \in Tags : Before(t, Chosen) =>
                     /\ disk'.report[t] # None
                     /\ disk.selection.report.rank < disk'.report[t].rank
               /\ pc' \notin Early \cup {"select"} => disk'.best = disk'.saved[Chosen]
    <3>1. disk'.report[Chosen] = disk.selection.report
      BY <2>3, ChosenSaved, ReportKept
    <3>2. \A t \in Tags : Before(t, Chosen) =>
                     /\ disk'.report[t] # None
                     /\ disk.selection.report.rank < disk'.report[t].rank
      BY <2>3, ReportKept DEF ResumeInv, Winner
    <3>3. pc' \notin Early \cup {"select"} => disk'.best = disk'.saved[Chosen]
      BY <1>3, <2>3, BestKept, ChosenSaved, SavedKept
    <3>4. QED
      BY <3>1, <3>2, <3>3
  <2>4. (pc = "select" => disk.best = disk.saved[Tag])'
    <3>1. CASE pc' = "select"
      <4>1. ReplaceBest \/ UNCHANGED vars
        BY <1>3, <3>1, FittingSteps DEF Fitting, BeginFit, TrainEpoch, SaveMetrics,
           SaveLast, SaveEpoch, Compare, KeepSelection, Goto
      <4>2. CASE ReplaceBest
        <5>1. disk'.best = disk.saved[Tag] /\ disk'.saved = disk.saved /\ mem' = mem
          BY <1>1, <4>2 DEF ReplaceBest, Shape
        <5>2. QED
          BY <5>1 DEF Tag
      <4>3. CASE UNCHANGED vars
        BY <3>1, <4>3 DEF vars, ResumeInv, Winner, Tag
      <4>4. QED
        BY <4>1, <4>2, <4>3
    <3>2. QED
      BY <3>1
  <2>5. \A t \in Tags : Before(t, Chosen)' <=> Before(t, Chosen)
    BY <2>1 DEF Before
  <2>6. QED
    BY <2>1, <2>2, <2>3, <2>4, <2>5 DEF Winner, BestIsSelected
<1>4. QED
  BY <1>2, <1>3

-----------------------------------------------------------------------------
(* What rounds and test are given. *)
LEMMA Ordered ==
    ASSUME NEW t \in Tags, NEW u \in Tags, t # u
    PROVE  /\ Before(t, u) \/ Before(u, t)
           /\ ~(Before(t, u) /\ Before(u, t))
<1>1. /\ t[1] \in Int /\ t[2] \in Int /\ u[1] \in Int /\ u[2] \in Int
      /\ t = <<t[1], t[2]>> /\ u = <<u[1], u[2]>>
  BY CountsAssumption DEF Tags, RoundIds, Scheduled
<1>2. t[1] # u[1] \/ t[2] # u[2]
  BY <1>1
<1>3. QED
  BY <1>1, <1>2 DEF Before

\* The selection is the best of the rounds that are all behind it.
LEMMA ChosenIsBest ==
    ASSUME SuiteInv, ResumeInv, disk.selection # None, NEW k,
           Chosen[1] < k, \A t \in Tags : t[1] < k => Behind(t)
    PROVE  AllAssessed(k) /\ IsBest(Chosen, k)
<1>1. AllAssessed(k)
  BY DEF AllAssessed, Behind
<1>2. ASSUME NEW u \in Tags, u[1] < k, u # Chosen
      PROVE  \/ disk.report[Chosen].rank < disk.report[u].rank
             \/ /\ disk.report[Chosen].rank = disk.report[u].rank
                /\ Before(Chosen, u)
  <2>1. /\ disk.report[u] # None
        /\ disk.selection.report.rank <= disk.report[u].rank
        /\ disk.report[Chosen] = disk.selection.report /\ disk.report[Chosen] # None
        /\ Chosen \in Tags
    BY <1>2, ChosenSaved DEF Behind
  <2>2. disk.report[u].rank \in Nat /\ disk.report[Chosen].rank \in Nat
    BY <2>1, Ranked
  <2>3. CASE Before(u, Chosen)
    BY <2>1, <2>3 DEF ResumeInv, Winner
  <2>4. CASE Before(Chosen, u)
    BY <2>1, <2>2, <2>4
  <2>5. QED
    BY <1>2, <2>1, <2>3, <2>4, Ordered
<1>3. QED
  BY <1>1, <1>2 DEF IsBest

LEMMA BestKeeps ==
    ASSUME SuiteInv, [Next]_vars, NEW k, AllAssessed(k), NEW t \in Tags, IsBest(t, k)
    PROVE  IsBest(t, k)'
<1>1. \A u \in Tags : u[1] < k => disk'.report[u] = disk.report[u]
  BY ReportKept DEF AllAssessed
<1>2. t[1] < k
  BY DEF IsBest
<1>3. QED
  BY <1>1, <1>2 DEF IsBest, Before

\* The model copied to a supplement is selected among the rounds before it.
LEMMA CopiedIsBest ==
    ASSUME SuiteInv, ResumeInv, CopiedInitial
    PROVE  /\ mem.round \in RoundIds /\ mem.round > 0
           /\ disk.selection # None /\ Chosen \in Tags
           /\ disk.best = disk.saved[Chosen]
           /\ IsBest(Chosen, mem.round)
<1> DEFINE q == mem.round
<1>1. q \in RoundIds /\ q > 0 /\ disk.initial[q] = Torn /\ pc = "copying"
  BY RoundInHand DEF CopiedInitial, InRound, SuiteInv, Place, ResumeInv, Handed
<1>2. disk.selection # None
  BY <1>1, LaterSelected
<1>3. disk.best = disk.saved[Chosen]
  BY <1>1, <1>2 DEF ResumeInv, Winner, BestIsSelected, Early
<1>4. ~Ready(q)
  BY <1>1 DEF Ready
<1>5. Chosen[1] \in RoundIds /\ Chosen[1] # q
  BY <1>2, <1>4, ChosenSaved
<1>6. ASSUME Chosen[1] > q PROVE FALSE
  <2>1. Chosen[1] \in 1 .. Rounds - 1 /\ disk.roundSpec[Chosen[1]] # None
    BY <1>1, <1>2, <1>5, <1>6, ChosenSaved, CountsAssumption DEF RoundIds
  <2>2. <<q, Interval>> \in Tags /\ <<q, Interval>>[1] = q
    BY <1>1, SomeTag DEF Tags
  <2>3. disk.report[<<q, Interval>>] # None
    BY <1>6, <2>1, <2>2 DEF ResumeInv, Handed, AllAssessed
  <2>4. disk.saved[<<q, Interval>>] # None
    BY <2>2, <2>3 DEF ResumeInv, Winner
  <2>5. Ready(q)
    BY <1>1, <2>2, <2>4 DEF ResumeInv, OnDisk
  <2>6. QED
    BY <1>4, <2>5
<1>7. Chosen[1] < q
  BY <1>1, <1>5, <1>6 DEF RoundIds
<1>8. \A t \in Tags : t[1] < q => Behind(t)
  BY DEF SuiteInv, Assessed
<1>9. QED
  BY <1>1, <1>2, <1>3, <1>7, <1>8, ChosenIsBest, ChosenSaved

LEMMA HandedStep ==
    ASSUME SuiteInv, ResumeInv, [Next]_vars PROVE Handed'
<1>1. /\ Shape /\ disk.initial \in [RoundIds -> Weights \cup {Torn, None}]
      /\ disk.roundSpec \in [RoundIds -> (SUBSET Conditions) \cup {None}]
  BY DEF SuiteInv, Types, DiskTypes
<1>2. (pc = "copying" => disk.initial[mem.round] = Torn)'
  <2>1. CASE CopyInitial
    <3>1. pc \in InRound
      BY <2>1 DEF CopyInitial, InRound
    <3>2. pc' = "copying" => disk' = [disk EXCEPT !.initial[mem.round] = Torn] /\ mem' = mem
      BY <2>1 DEF CopyInitial, Goto
    <3>3. pc' = "copying" => disk'.initial = [disk.initial EXCEPT ![mem.round] = Torn]
      BY <1>1, <3>2 DEF Shape
    <3>4. QED
      BY <1>1, <3>1, <3>2, <3>3, RoundInHand
  <2>2. CASE UNCHANGED vars
    BY <2>2 DEF vars, ResumeInv, Handed
  <2>3. CASE ~CopyInitial /\ [Next]_vars /\ ~UNCHANGED vars
    <3>1. pc' # "copying"
      <4>1. ~(Fit \/ Assess)
            \/ pc' # "copying"
        BY DEF Fit, BeginFit, TrainEpoch, SaveEpoch, SaveMetrics, SaveLast,
           Assess, Compare, KeepSelection, ReplaceBest, Select, Goto
      <4>2. ~Conclude \/ pc' # "copying"
        BY DEF Conclude, NotReady, FreezeTest, Test, Verdict, Publish, Refuse, Goto
      <4>3. ~(Boot \/ Repair \/ Repaired \/ Collect \/ Crash) \/ pc' # "copying"
        BY DEF Boot, Repair, Repaired, Collect, SaveShard, RecordShard, RefuseData, Refuse,
           Collected, Crash, Goto
      <4>4. ~Round \/ pc' # "copying"
        BY <2>3 DEF Round, EnterRound, StartRound, LeaveRounds, CopiedInitial, NextRound, Goto
      <4>5. QED
        BY <2>3, <4>1, <4>2, <4>3, <4>4 DEF Next, Work, Done
    <3>2. QED
      BY <3>1
  <2>4. QED
    BY <2>1, <2>2, <2>3
<1>3. ASSUME NEW r \in RoundIds, disk'.initial[r] # None PROVE disk'.roundSpec[r] # None
  <2>1. CASE disk.initial[r] # None
    BY <2>1, RoundKept DEF ResumeInv, Handed
  <2>2. CASE disk.initial[r] = None
    <3>1. CopyInitial \/ CopiedInitial
      BY <1>1, <1>3, <2>2, Writers
    <3>2. disk.roundSpec[mem.round] # None
      BY <3>1, RoundInHand DEF CopyInitial, CopiedInitial, InRound
    <3>3. r # mem.round => disk'.initial[r] = disk.initial[r]
      <4>1. \/ disk' = disk
            \/ \E w : disk' = [disk EXCEPT !.initial[mem.round] = w]
        BY <3>1 DEF CopyInitial, CopiedInitial
      <4>2. \/ disk'.initial = disk.initial
            \/ \E w : disk'.initial = [disk.initial EXCEPT ![mem.round] = w]
        BY <1>1, <4>1 DEF Shape
      <4>3. QED
        BY <1>1, <4>2
    <3>4. QED
      BY <1>3, <2>2, <3>2, <3>3, RoundKept
  <2>3. QED
    BY <2>1, <2>2
<1>4. ASSUME NEW r \in 1 .. Rounds - 1, disk'.roundSpec[r] # None
      PROVE  /\ AllAssessed(r)'
             /\ Ready(r)' => \E t \in Tags : IsBest(t, r)' /\ disk'.initial[r] = disk'.saved[t]
  <2>1. r \in RoundIds /\ r # 0
    BY CountsAssumption DEF RoundIds
  <2>2. CASE disk.roundSpec[r] # None
    <3>1. AllAssessed(r)
      BY <2>2 DEF ResumeInv, Handed
    <3>2. AllAssessed(r)'
      BY <3>1, ReportKept DEF AllAssessed
    <3>3. CASE disk'.initial[r] = disk.initial[r]
      <4>1. Ready(r)' => Ready(r)
        BY <3>3 DEF Ready
      <4>2. ASSUME Ready(r)
            PROVE  \E t \in Tags : IsBest(t, r)' /\ disk'.initial[r] = disk'.saved[t]
        <5>1. PICK t \in Tags : IsBest(t, r) /\ disk.initial[r] = disk.saved[t]
          BY <2>2, <4>2 DEF ResumeInv, Handed
        <5>2. disk.report[t] # None
          BY <3>1, <5>1 DEF AllAssessed, IsBest
        <5>3. disk'.saved[t] = disk.saved[t]
          BY <5>2, SavedKept DEF ResumeInv, Winner
        <5>4. QED
          BY <3>1, <3>3, <5>1, <5>3, BestKeeps
      <4>3. QED
        BY <3>2, <4>1, <4>2
    <3>4. CASE disk'.initial[r] # disk.initial[r]
      <4>1. CASE CopyInitial
        <5>1. disk'.initial = [disk.initial EXCEPT ![mem.round] = Torn]
          BY <1>1, <3>4, <4>1 DEF CopyInitial, Shape
        <5>2. disk'.initial[r] = Torn
          BY <1>1, <2>1, <3>4, <5>1
        <5>3. QED
          BY <2>1, <3>2, <5>2 DEF Ready
      <4>2. CASE CopiedInitial
        <5>1. disk'.initial = [disk.initial EXCEPT ![mem.round] = disk.best]
              /\ disk'.saved = disk.saved
          BY <1>1, <4>2 DEF CopiedInitial, Shape
        <5>2. r = mem.round /\ disk'.initial[r] = disk.best
          BY <1>1, <2>1, <3>4, <5>1
        <5>3. IsBest(Chosen, r) /\ Chosen \in Tags /\ disk.best = disk.saved[Chosen]
          BY <4>2, <5>2, CopiedIsBest
        <5>4. IsBest(Chosen, r)' 
          <6> DEFINE c == disk.selection.tag
          <6>1. c \in Tags /\ IsBest(c, r)
            BY <5>3 DEF Chosen
          <6>2. disk'.report = disk.report
            BY <1>1, <4>2 DEF CopiedInitial, Shape
          <6>3. disk'.selection = disk.selection
            BY <1>1, <4>2 DEF CopiedInitial, Shape
          <6>4. QED
            BY <6>1, <6>2, <6>3 DEF IsBest, Before, Chosen
        <5>5. Chosen' = Chosen
          BY <1>1, <4>2 DEF CopiedInitial, Shape, Chosen
        <5>6. QED
          BY <3>2, <5>1, <5>2, <5>3, <5>4, <5>5 DEF IsBest
      <4>3. QED
        BY <1>1, <3>4, <4>1, <4>2, Writers
    <3>5. QED
      BY <3>3, <3>4
  <2>3. CASE disk.roundSpec[r] = None
    <3>1. EnterRound
      BY <1>1, <1>4, <2>3, Writers
    <3>2. PICK C : disk' = [disk EXCEPT !.roundSpec[mem.round] = C]
      BY <1>4, <2>3, <3>1 DEF EnterRound, StartRound
    <3>3. /\ disk'.roundSpec = [disk.roundSpec EXCEPT ![mem.round] = C]
          /\ disk'.initial = disk.initial /\ disk'.report = disk.report
      BY <1>1, <3>2 DEF Shape
    <3>4. r = mem.round
      BY <1>1, <1>4, <2>1, <2>3, <3>3
    <3>5. AllAssessed(r)
      BY <3>4 DEF AllAssessed, SuiteInv, Assessed, Behind
    <3>6. AllAssessed(r)'
      BY <3>3, <3>5 DEF AllAssessed
    <3>7. ~Ready(r)'
      BY <2>1, <2>3, <3>3 DEF ResumeInv, Handed, Ready
    <3>8. QED
      BY <3>6, <3>7
  <2>4. QED
    BY <2>2, <2>3
<1>5. (disk.tested # None => disk.tested = disk.saved[Chosen])'
  <2>1. CASE disk'.tested # disk.tested
    <3>1. FreezeTest
      BY <1>1, <2>1, Writers
    <3>2. pc = "verdict" /\ disk' = [disk EXCEPT !.tested = disk.best]
      BY <2>1, <3>1 DEF FreezeTest, Refuse
    <3>3. mem.round > 0
      BY <3>2 DEF SuiteInv, Place
    <3>4. disk.selection # None
      BY <3>3, LaterSelected
    <3>5. disk.best = disk.saved[Chosen]
      BY <3>2, <3>4 DEF ResumeInv, Winner, BestIsSelected, Early
    <3>6. /\ disk'.tested = disk.best /\ disk'.saved = disk.saved
          /\ disk'.selection = disk.selection
      BY <1>1, <3>2 DEF Shape
    <3>7. QED
      BY <3>5, <3>6 DEF Chosen
  <2>2. CASE disk'.tested = disk.tested /\ disk.tested # None
    <3>1. ~Select
      BY <2>2, SelectEarly DEF Select
    <3>2. disk'.selection = disk.selection
      BY <1>1, <3>1, Writers
    <3>3. disk.selection # None
      BY <2>2 DEF SuiteInv, Assessed
    <3>4. disk'.saved[Chosen] = disk.saved[Chosen]
      BY <3>3, ChosenSaved, SavedKept
    <3>5. disk.tested = disk.saved[Chosen]
      BY <2>2 DEF ResumeInv, Handed
    <3>6. QED
      BY <2>2, <3>2, <3>4, <3>5 DEF Chosen
  <2>3. QED
    BY <2>1, <2>2
<1>6. QED
  BY <1>2, <1>3, <1>4, <1>5 DEF Handed

-----------------------------------------------------------------------------
(* A suite interrupted anywhere keeps its files and its memory consistent. *)
THEOREM ResumeInvariant == Spec => [](SuiteInv /\ ResumeInv)
<1>1. Init => SuiteInv /\ ResumeInv
  BY InitSuite, InitResume
<1>2. SuiteInv /\ ResumeInv /\ [Next]_vars => (SuiteInv /\ ResumeInv)'
  <2> SUFFICES ASSUME SuiteInv, ResumeInv, [Next]_vars
               PROVE  SuiteInv' /\ ResumeInv'
    OBVIOUS
  <2>1. SuiteInv'
    BY NextSuite
  <2>2. FileTypes'
    BY FileTypesStep
  <2>3. Data'
    BY DataStep DEF ResumeInv
  <2>4. OnDisk'
    BY OnDiskStep
  <2>5. InMemory'
    BY InMemoryStep
  <2>6. Winner'
    BY WinnerStep
  <2>7. Handed'
    BY HandedStep
  <2>8. QED
    BY <2>1, <2>2, <2>3, <2>4, <2>5, <2>6, <2>7 DEF ResumeInv
<1>3. QED
  BY <1>1, <1>2, PTL DEF Spec

LEMMA WellTyped == ASSUME SuiteInv, ResumeInv PROVE TypeOK
<1>1. FileTypes /\ Data /\ DiskTypes /\ MemTypes /\ pc \in States
  BY DEF SuiteInv, Types, ResumeInv, Place
<1>2. ASSUME NEW r \in RoundIds
      PROVE  /\ disk.roundSpec[r] = None \/ disk.roundSpec[r] \subseteq Conditions
             /\ disk.shards[r] \in [1 .. Rows -> Hashes]
             /\ Len(disk.manifest[r]) <= Rows
             /\ disk.last[r] # None => disk.last[r].epoch \in 0 .. Epochs
  BY <1>1 DEF FileTypes, Data, DiskTypes, Checkpoints
<1>3. \A t \in Tags : disk.report[t] \in Reports \cup {None}
  BY <1>1 DEF DiskTypes
<1>4. disk.selection # None =>
         disk.selection.tag \in Tags /\ disk.selection.report \in Reports
  BY <1>1 DEF DiskTypes, Selections
<1>5. QED
  BY <1>1, <1>2, <1>3, <1>4 DEF TypeOK, FileTypes, MemTypes

\* The files listed in the manifest are those that were recorded.
LEMMA ManifestRecorded ==
    ASSUME SuiteInv, ResumeInv, NEW r \in RoundIds
    PROVE  disk.manifest[r] = SubSeq(disk.shards[r], 1, Len(disk.manifest[r]))
<1> DEFINE m == disk.manifest[r]
           s == disk.shards[r]
<1>1. /\ m \in Seq(Hashes) /\ s \in [1 .. Rows -> Hashes] /\ Len(m) <= Rows
      /\ \A i \in 1 .. Len(m) : m[i] = s[i]
  BY DEF ResumeInv, FileTypes, Data
<1> HIDE DEF m, s
<1>2. s \in Seq(Hashes) /\ Len(s) = Rows
  BY <1>1, CountsAssumption
<1>3. SubSeq(s, 1, Len(m)) = m
  BY <1>1, <1>2
<1>4. QED
  BY <1>3 DEF m, s

\* A resumed training is the uninterrupted one: what fit_phase finds and leaves
\* on disk is a prefix of it after any number of crashes, and a data file that
\* collect_jobs recorded stays as it was recorded.
THEOREM TrainingResumes == Spec => []ResumeExact
<1>1. SuiteInv /\ ResumeInv => ResumeExact
  <2> SUFFICES ASSUME SuiteInv, ResumeInv PROVE ResumeExact
    OBVIOUS
  <2>1. TypeOK
    BY WellTyped
  <2>2. ASSUME NEW r \in RoundIds, disk.last[r] # None
        PROVE  /\ disk.last[r].weights = Uninterrupted(r, disk.last[r].epoch)
               /\ \E ahead \in {0, 1} :
                     disk.metrics[r] = [e \in 1 .. disk.last[r].epoch + ahead |-> e]
    <3>1. /\ disk.last[r].weights = Grown(disk.initial[r], r, disk.last[r].epoch)
          /\ \/ disk.metrics[r] = Numbered(disk.last[r].epoch)
             \/ disk.metrics[r] = Numbered(disk.last[r].epoch + 1)
          /\ disk.last[r].epoch \in Nat
      BY <2>1, <2>2, CountsAssumption DEF ResumeInv, OnDisk, TypeOK
    <3>2. disk.last[r].epoch + 0 = disk.last[r].epoch
      BY <3>1
    <3>3. QED
      BY <3>1, <3>2 DEF Grown, EpochsOf, Uninterrupted, Numbered
  <2>3. ASSUME NEW r \in RoundIds, NEW e \in Scheduled, disk.saved[<<r, e>>] # None
        PROVE  disk.saved[<<r, e>>] = Uninterrupted(r, e)
    <3>1. <<r, e>> \in Tags /\ <<r, e>>[1] = r /\ <<r, e>>[2] = e
      BY DEF Tags
    <3>2. disk.saved[<<r, e>>] = Grown(disk.initial[r], r, e)
      BY <2>3, <3>1 DEF ResumeInv, OnDisk
    <3>3. QED
      BY <3>2 DEF Grown, EpochsOf, Uninterrupted
  <2>4. QED
    BY <2>1, <2>2, <2>3, ManifestRecorded DEF ResumeExact
<1>2. QED
  BY <1>1, ResumeInvariant, PTL

-----------------------------------------------------------------------------
\* There is one best checkpoint of the rounds that were assessed.
LEMMA OneBest ==
    ASSUME SuiteInv, NEW k, AllAssessed(k), NEW t \in Tags, IsBest(t, k)
    PROVE  BestOf(k) = t
<1>1. ASSUME NEW u \in Tags, IsBest(u, k) PROVE u = t
  <2> SUFFICES ASSUME u # t PROVE FALSE
    OBVIOUS
  <2>1. disk.report[t].rank \in Nat /\ disk.report[u].rank \in Nat
    BY <1>1, Ranked DEF AllAssessed, IsBest
  <2>2. /\ \/ disk.report[t].rank < disk.report[u].rank
           \/ disk.report[t].rank = disk.report[u].rank /\ Before(t, u)
        /\ \/ disk.report[u].rank < disk.report[t].rank
           \/ disk.report[u].rank = disk.report[t].rank /\ Before(u, t)
    BY <1>1 DEF IsBest
  <2>3. QED
    BY <2>1, <2>2, Ordered
<1>2. BestOf(k) = CHOOSE u \in Tags : IsBest(u, k)
  BY DEF BestOf, IsBest
<1>3. QED
  BY <1>1, <1>2

\* Rounds are frozen one after the other.
LEMMA FrozenRounds ==
    ASSUME SuiteInv
    PROVE  \E k \in Nat : {r \in RoundIds : disk.roundSpec[r] # None} = 0 .. k - 1
<1> DEFINE F == {r \in RoundIds : disk.roundSpec[r] # None}
           T == {n \in Nat : n \notin F}
<1>1. /\ \A r \in F : r \in 0 .. Rounds - 1 /\ r \in Nat
      /\ Rounds \in Nat
      /\ \A q \in RoundIds, r \in F : q < r => q \in F
  BY CountsAssumption DEF SuiteInv, Place, RoundIds
<1>2. \A q \in Nat, r \in F : q < r => q \in F
  BY <1>1 DEF RoundIds
<1> HIDE DEF F
<1>3. Rounds \in T
  BY <1>1
<1>4. PICK k \in T : \A y \in T : ~(y < k)
  BY <1>3, LeastNumber
<1>5. k \in Nat /\ \A y \in Nat : y < k => y \in F
  BY <1>4
<1>6. \A r \in F : r < k
  BY <1>1, <1>2, <1>4, <1>5
<1>7. F = 0 .. k - 1
  <2>1. ASSUME NEW r \in F PROVE r \in 0 .. k - 1
    BY <1>1, <1>5, <1>6
  <2>2. ASSUME NEW r \in 0 .. k - 1 PROVE r \in F
    BY <1>5
  <2>3. QED
    BY <2>1, <2>2
<1>8. QED
  BY <1>5, <1>7 DEF F

\* The test is opened for the best checkpoint of all rounds that were run.
LEMMA TestedIsBest ==
    ASSUME SuiteInv, ResumeInv, disk.tested # None
    PROVE  LET rounds == Cardinality({r \in RoundIds : disk.roundSpec[r] # None})
           IN  AllAssessed(rounds) /\ disk.tested = disk.saved[BestOf(rounds)]
<1>1. PICK k \in Nat : {r \in RoundIds : disk.roundSpec[r] # None} = 0 .. k - 1
  BY FrozenRounds
<1>2. Cardinality(0 .. k - 1) = k
  BY FS_Interval
<1>3. disk.selection # None /\ disk.tested = disk.saved[Chosen]
  BY DEF SuiteInv, Assessed, ResumeInv, Handed
<1>4. Chosen \in Tags /\ Chosen[1] < k
  BY <1>1, <1>3, ChosenSaved DEF RoundIds
<1>5. ASSUME NEW t \in Tags, t[1] < k PROVE Behind(t)
  <2>1. t[1] \in RoundIds
    BY DEF Tags
  <2>2. t[1] \in 0 .. k - 1
    BY <1>5, <2>1 DEF RoundIds
  <2>3. disk.roundSpec[t[1]] # None
    BY <1>1, <2>2
  <2>4. QED
    BY <2>3 DEF SuiteInv, Assessed
<1>6. AllAssessed(k) /\ IsBest(Chosen, k)
  BY <1>3, <1>4, <1>5, ChosenIsBest
<1>7. BestOf(k) = Chosen
  BY <1>4, <1>6, OneBest
<1>8. QED
  BY <1>1, <1>2, <1>3, <1>6, <1>7

\* Each supplement starts from, and the test is opened for, the best of all
\* checkpoints that were due before, whatever was interrupted between them
\* (run_suite.assess and the repair of best.pt).
THEOREM BestHandedOver == Spec => []BestOfAll
<1>1. SuiteInv /\ ResumeInv => BestOfAll
  <2> SUFFICES ASSUME SuiteInv, ResumeInv PROVE BestOfAll
    OBVIOUS
  <2>1. ASSUME NEW r \in 1 .. Rounds - 1, disk.roundSpec[r] # None
        PROVE  /\ AllAssessed(r)
               /\ disk.initial[r] \in {None, Torn, disk.saved[BestOf(r)]}
    <3>1. /\ AllAssessed(r)
          /\ Ready(r) => \E t \in Tags : IsBest(t, r) /\ disk.initial[r] = disk.saved[t]
      BY <2>1 DEF ResumeInv, Handed
    <3>2. CASE disk.initial[r] \in {None, Torn}
      BY <3>1, <3>2
    <3>3. CASE disk.initial[r] \notin {None, Torn}
      <4>1. PICK t \in Tags : IsBest(t, r) /\ disk.initial[r] = disk.saved[t]
        BY <3>1, <3>3 DEF Ready
      <4>2. BestOf(r) = t
        BY <3>1, <4>1, OneBest
      <4>3. QED
        BY <3>1, <4>1, <4>2
    <3>4. QED
      BY <3>2, <3>3
  <2>2. QED
    BY <2>1, TestedIsBest DEF BestOfAll
<1>2. QED
  BY <1>1, ResumeInvariant, PTL
=============================================================================
