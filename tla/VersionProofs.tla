---------------------------- MODULE VersionProofs ----------------------------
(***************************************************************************)
(* The two components that keep versions of which one is in force.         *)
(*                                                                         *)
(* Forecasts, for every number of versions, trainings, forecasts, builds   *)
(* and crashes: a store keeps exactly one active model, an active model    *)
(* has its files, the requests of one key make one run, and every step is  *)
(* one of ForecastLedger or a stutter.                                     *)
(*                                                                         *)
(* ConstraintVersions, for every number of requests in flight, of days and *)
(* of versions: the dates of a family of constraints follow its version    *)
(* numbers, only its latest version is active, and two versions are in     *)
(* force on one day only after a deactivation.                             *)
(***************************************************************************)
EXTENDS Forecasts, ConstraintVersions, SequenceTheorems, TLAPS

-----------------------------------------------------------------------------
\* Forecasts.

\* The parts of the inductive invariant.  A trainer works for a version; it has a staged build until
\* it has published it, and holds a directory aside only until then.
TrainersOK ==
  \A t \in Trainers :
    /\ train[t].at # "idle" => train[t].version \in Versions
    /\ train[t].at \in {"aside", "publish"} => train[t].staged # 0
    /\ train[t].backup # 0 => train[t].at = "publish"

OneActive == \A v, w \in Active : v = w

\* A caller past its choice has the run it committed, and nobody completes it but the caller.
Forecasting(c) == call[c].at \in {"verify", "load", "answer", "link"}
CallersHaveRuns ==
  \A c \in Callers : Forecasting(c) =>
    /\ call[c].version \in Versions
    /\ call[c].run \in 1 .. Len(runs)
    /\ runs[call[c].run].keyed <=> c \in Keyed
    /\ c \in Keyed /\ call[c].at \in {"answer", "link"} => runs[call[c].run].status = "completed"
    /\ call[c].at = "link" => c \in Keyed

\* A caller has picked its model from the versions.
PicksAreVersions == \A c \in Callers : call[c].at = "begin" => call[c].version \in Versions

\* While a keyed caller works it alone has the key, which names no run yet; before it commits its
\* run no run carries the key, and none ever does unless the key is registered.
Early == {"choose", "begin", "refuse"}
KeyIsHeld ==
  /\ \A c \in Keyed : call[c].at # "quiet" =>
       /\ key.registered /\ key.run = 0
       /\ \A d \in Keyed : call[d].at # "quiet" => d = c
       /\ call[c].at \in Early => \A i \in 1 .. Len(runs) : ~ runs[i].keyed
  /\ ~ key.registered => \A i \in 1 .. Len(runs) : ~ runs[i].keyed

IInv ==
  /\ TypeOK /\ TrainersOK /\ OneActive /\ ActiveModelHasFiles
  /\ CallersHaveRuns /\ PicksAreVersions /\ KeyIsHeld /\ KeyMakesOneRun

-----------------------------------------------------------------------------
LEMMA Initially == Init => IInv
<1> SUFFICES ASSUME Init PROVE IInv
  OBVIOUS
<1>1. runs \in Seq(Run) /\ Len(runs) = 0
  BY DEF Init
<1>2. TypeOK
  BY <1>1, ForecastConstantsOK
     DEF Init, TypeOK, Status, Row, Training, Calling, Idle, Quiet
<1>3. TrainersOK
  BY DEF Init, TrainersOK, Idle
<1>4. OneActive /\ ActiveModelHasFiles
  BY DEF Init, OneActive, ActiveModelHasFiles, Active
<1>5. CallersHaveRuns /\ PicksAreVersions /\ KeyIsHeld /\ KeyMakesOneRun
  BY <1>1, ForecastConstantsOK
     DEF Init, CallersHaveRuns, PicksAreVersions, KeyIsHeld, KeyMakesOneRun, Forecasting, Quiet
<1>6. QED
  BY <1>2, <1>3, <1>4, <1>5 DEF IInv

-----------------------------------------------------------------------------
(* Training. *)

\* The record of a trainer that moves on, and lays a directory aside or puts one down.
LEMMA TrainerRecord ==
  ASSUME NEW r \in Training, NEW a, NEW b
  PROVE  /\ [r EXCEPT !.at = a, !.backup = b] =
              [at |-> a, version |-> r.version, staged |-> r.staged, backup |-> b]
         /\ [r EXCEPT !.at = a, !.staged = b] =
              [at |-> a, version |-> r.version, staged |-> b, backup |-> r.backup]
<1> DEFINE q == [at |-> a, version |-> r.version, staged |-> r.staged, backup |-> r.backup]
<1>1. [r EXCEPT !.at = a] = q
  BY DEF Training
<1>2. /\ [q EXCEPT !.backup = b] = [at |-> a, version |-> r.version, staged |-> r.staged, backup |-> b]
      /\ [q EXCEPT !.staged = b] = [at |-> a, version |-> r.version, staged |-> b, backup |-> r.backup]
  OBVIOUS
<1>3. QED
  BY <1>1, <1>2

\* What a trainer may make of its own record; the others keep theirs.
LEMMA TrainerMoves ==
  ASSUME TypeOK, TrainersOK, NEW t \in Trainers, NEW x \in Training,
         train' = [train EXCEPT ![t] = x],
         x.at # "idle" => x.version \in Versions,
         x.at \in {"aside", "publish"} => x.staged # 0,
         x.backup # 0 => x.at = "publish"
  PROVE  train' \in [Trainers -> Training] /\ TrainersOK'
BY DEF TypeOK, TrainersOK

\* A training leaves callers, runs and the key alone.
LEMMA TrainingLeavesCalls ==
  ASSUME IInv, UNCHANGED calling
  PROVE  CallersHaveRuns' /\ PicksAreVersions' /\ KeyIsHeld' /\ KeyMakesOneRun'
BY DEF IInv, calling, CallersHaveRuns, PicksAreVersions, Forecasting, KeyIsHeld, KeyMakesOneRun

\* A row that changes without being activated stays as active as it was.
LEMMA StatusAlone ==
  ASSUME TypeOK, NEW v \in Versions, NEW s \in Status,
         models' = [models EXCEPT ![v].status = s]
  PROVE  /\ models' \in [Versions -> Row]
         /\ Active' = Active
BY DEF TypeOK, Active, Row

\* The directory of a version that was there is there, or the trainer that moves holds it aside.
LEMMA FilesStay ==
  ASSUME TypeOK, ActiveModelHasFiles, NEW t \in Trainers, NEW x \in Training,
         train' = [train EXCEPT ![t] = x], Active' = Active, crashes' = crashes,
         \A w \in Versions : dir[w] # 0 \/ (train[t].version = w /\ train[t].backup # 0)
           => dir'[w] # 0 \/ (x.version = w /\ x.backup # 0)
  PROVE  ActiveModelHasFiles'
<1> SUFFICES ASSUME NEW v \in Active, dir'[v] = 0, ~ crashes > 0
             PROVE  \E u \in Trainers : train'[u].version = v /\ train'[u].backup # 0
  BY DEF ActiveModelHasFiles
<1>1. v \in Versions
  BY DEF Active
<1>2. train'[t] = x /\ \A u \in Trainers : u # t => train'[u] = train[u]
  BY DEF TypeOK
<1>3. CASE dir[v] # 0
  BY <1>1, <1>2, <1>3
<1>4. CASE dir[v] = 0
  <2>1. PICK u \in Trainers : train[u].version = v /\ train[u].backup # 0
    BY <1>4 DEF ActiveModelHasFiles
  <2>2. QED
    BY <1>1, <1>2, <2>1
<1>5. QED
  BY <1>3, <1>4

LEMMA BeginTrainingKeeps ==
  ASSUME IInv, NEW t \in Trainers, NEW v \in Versions, BeginTraining(t, v)
  PROVE  IInv'
<1> USE DEF IInv
<1> DEFINE x == [at |-> "fit", version |-> v, staged |-> 0, backup |-> 0]
<1>1. x \in Training /\ train[t].backup = 0
  BY ForecastConstantsOK DEF BeginTraining, Trains, Training, TrainersOK
<1>2. train' = [train EXCEPT ![t] = x]
  <2>1. [Idle EXCEPT !.at = "fit"] = [at |-> "fit", version |-> "none", staged |-> 0, backup |-> 0]
    BY DEF Idle
  <2>2. [[at |-> "fit", version |-> "none", staged |-> 0, backup |-> 0] EXCEPT !.version = v] = x
    OBVIOUS
  <2>3. QED
    BY <2>1, <2>2 DEF BeginTraining
<1>3. train' \in [Trainers -> Training] /\ TrainersOK'
  BY <1>1, <1>2, TrainerMoves
<1>4. models' \in [Versions -> Row] /\ Active' = Active
  <2>1. CASE models' = models
    BY <2>1 DEF TypeOK, Active
  <2>2. CASE models' = [models EXCEPT ![v].status = "training"]
    BY <2>2, StatusAlone DEF Status
  <2>3. QED
    BY <2>1, <2>2 DEF BeginTraining
<1>5. ActiveModelHasFiles'
  BY <1>1, <1>2, <1>4, FilesStay DEF BeginTraining
<1>6. CallersHaveRuns' /\ PicksAreVersions' /\ KeyIsHeld' /\ KeyMakesOneRun'
  BY TrainingLeavesCalls DEF BeginTraining
<1>7. QED
  BY <1>3, <1>4, <1>5, <1>6 DEF BeginTraining, TypeOK, OneActive, calling

LEMMA FitKeeps ==
  ASSUME IInv, NEW t \in Trainers, Fit(t)
  PROVE  IInv'
<1> USE DEF IInv
<1> DEFINE v == train[t].version
           x == [at |-> "aside", version |-> v, staged |-> builds + 1, backup |-> train[t].backup]
<1>1. /\ builds + 1 \in 0 .. MaxBuilds /\ builds + 1 # 0
      /\ train[t] \in Training /\ train[t].backup = 0 /\ v \in Versions
  BY ForecastConstantsOK DEF Fit, TypeOK, TrainersOK, Trains
<1>2. x \in Training
  BY <1>1 DEF Training
<1>3. train' = [train EXCEPT ![t] = x]
  <2>1. train' = [train EXCEPT ![t] = [train[t] EXCEPT !.at = "aside", !.staged = builds + 1]]
    BY DEF Fit, TypeOK
  <2>2. QED
    BY <1>1, <2>1, TrainerRecord
<1>4. train' \in [Trainers -> Training] /\ TrainersOK'
  BY <1>1, <1>2, <1>3, TrainerMoves
<1>5. Active' = Active /\ crashes' = crashes /\ dir' = dir
  BY DEF Fit, Active
<1>6. ActiveModelHasFiles'
  BY <1>1, <1>2, <1>3, <1>5, FilesStay
<1>7. CallersHaveRuns' /\ PicksAreVersions' /\ KeyIsHeld' /\ KeyMakesOneRun'
  BY TrainingLeavesCalls DEF Fit
<1>8. QED
  BY <1>1, <1>4, <1>5, <1>6, <1>7 DEF Fit, TypeOK, OneActive, calling

\* The directory that is set aside is remembered by who took it.
LEMMA SetAsideKeeps ==
  ASSUME IInv, NEW t \in Trainers, SetAside(t)
  PROVE  IInv'
<1> USE DEF IInv
<1> DEFINE v == train[t].version
           x == [at |-> "publish", version |-> v, staged |-> train[t].staged, backup |-> dir[v]]
<1>1. /\ v \in Versions /\ train[t] \in Training /\ train[t].backup = 0
      /\ train[t].staged \in 0 .. MaxBuilds /\ train[t].staged # 0 /\ dir[v] \in 0 .. MaxBuilds
  BY DEF SetAside, TypeOK, TrainersOK, Trains, Training
<1>2. x \in Training
  BY <1>1 DEF Training
<1>3. train' = [train EXCEPT ![t] = x]
  <2>1. train' = [train EXCEPT ![t] = [train[t] EXCEPT !.at = "publish", !.backup = dir[v]]]
    BY DEF SetAside, TypeOK
  <2>2. QED
    BY <1>1, <2>1, TrainerRecord
<1>4. train' \in [Trainers -> Training] /\ TrainersOK'
  BY <1>1, <1>2, <1>3, TrainerMoves
<1>5. dir' \in [Versions -> 0 .. MaxBuilds] /\ \A w \in Versions : w # v => dir'[w] = dir[w]
  BY <1>1, ForecastConstantsOK DEF SetAside, TypeOK
<1>6. Active' = Active /\ crashes' = crashes
  BY DEF SetAside, Active
<1>7. ActiveModelHasFiles'
  <2>1. \A w \in Versions : dir[w] # 0 => dir'[w] # 0 \/ (x.version = w /\ x.backup # 0)
    BY <1>5
  <2> HIDE DEF x
  <2>2. QED
    BY <1>1, <1>2, <1>3, <1>6, <2>1, FilesStay
<1>8. CallersHaveRuns' /\ PicksAreVersions' /\ KeyIsHeld' /\ KeyMakesOneRun'
  BY TrainingLeavesCalls DEF SetAside
<1>9. QED
  BY <1>4, <1>5, <1>6, <1>7, <1>8 DEF SetAside, TypeOK, OneActive, calling

LEMMA PublishKeeps ==
  ASSUME IInv, NEW t \in Trainers, Publish(t)
  PROVE  IInv'
<1> USE DEF IInv
<1> DEFINE v == train[t].version
           x == [at |-> "activate", version |-> v, staged |-> train[t].staged, backup |-> 0]
<1>1. /\ v \in Versions /\ train[t] \in Training
      /\ train[t].staged \in 0 .. MaxBuilds /\ train[t].staged # 0
  BY DEF Publish, TypeOK, TrainersOK, Trains, Training
<1>2. x \in Training
  BY <1>1, ForecastConstantsOK DEF Training
<1>3. train' = [train EXCEPT ![t] = x]
  <2>1. train' = [train EXCEPT ![t] = [train[t] EXCEPT !.at = "activate", !.backup = 0]]
    BY DEF Publish, TypeOK
  <2>2. [train[t] EXCEPT !.at = "activate", !.backup = 0] = x
    BY <1>1, TrainerRecord
  <2>3. QED
    BY <2>1, <2>2
<1>4. train' \in [Trainers -> Training] /\ TrainersOK'
  BY <1>1, <1>2, <1>3, TrainerMoves
<1>5. /\ dir' \in [Versions -> 0 .. MaxBuilds] /\ dir'[v] # 0
      /\ \A w \in Versions : w # v => dir'[w] = dir[w]
  BY <1>1 DEF Publish, TypeOK
<1>6. Active' = Active /\ crashes' = crashes
  BY DEF Publish, Active
<1>7. ActiveModelHasFiles'
  <2>1. \A w \in Versions : dir[w] # 0 \/ (v = w /\ train[t].backup # 0) => dir'[w] # 0
    BY <1>1, <1>5
  <2> HIDE DEF x
  <2>2. QED
    BY <1>2, <1>3, <1>6, <2>1, FilesStay
<1>8. CallersHaveRuns' /\ PicksAreVersions' /\ KeyIsHeld' /\ KeyMakesOneRun'
  BY TrainingLeavesCalls DEF Publish
<1>9. QED
  BY <1>4, <1>5, <1>6, <1>7, <1>8 DEF Publish, TypeOK, OneActive, calling

\* What was set aside comes back, unless somebody else published meanwhile.
LEMMA PublishFailsKeeps ==
  ASSUME IInv, NEW t \in Trainers, PublishFails(t)
  PROVE  IInv'
<1> USE DEF IInv
<1> DEFINE v == train[t].version
           x == [at |-> "failing", version |-> v, staged |-> train[t].staged, backup |-> 0]
<1>1. /\ v \in Versions /\ train[t] \in Training
      /\ dir[v] \in 0 .. MaxBuilds /\ train[t].backup \in 0 .. MaxBuilds
  BY DEF PublishFails, TypeOK, TrainersOK, Trains, Training
<1>2. x \in Training
  BY <1>1, ForecastConstantsOK DEF Training
<1>3. train' = [train EXCEPT ![t] = x]
  <2>1. train' = [train EXCEPT ![t] = [train[t] EXCEPT !.at = "failing", !.backup = 0]]
    BY DEF PublishFails, TypeOK
  <2>2. [train[t] EXCEPT !.at = "failing", !.backup = 0] = x
    BY <1>1, TrainerRecord
  <2>3. QED
    BY <2>1, <2>2
<1>4. train' \in [Trainers -> Training] /\ TrainersOK'
  BY <1>1, <1>2, <1>3, TrainerMoves
<1>5. /\ dir' \in [Versions -> 0 .. MaxBuilds]
      /\ dir[v] # 0 \/ train[t].backup # 0 => dir'[v] # 0
      /\ \A w \in Versions : w # v => dir'[w] = dir[w]
  BY <1>1 DEF PublishFails, PutBack, TypeOK
<1>6. Active' = Active /\ crashes' = crashes
  BY DEF PublishFails, Active
<1>7. ActiveModelHasFiles'
  <2>1. \A w \in Versions : dir[w] # 0 \/ (v = w /\ train[t].backup # 0) => dir'[w] # 0
    BY <1>1, <1>5
  <2> HIDE DEF x
  <2>2. QED
    BY <1>2, <1>3, <1>6, <2>1, FilesStay
<1>8. CallersHaveRuns' /\ PicksAreVersions' /\ KeyIsHeld' /\ KeyMakesOneRun'
  BY TrainingLeavesCalls DEF PublishFails
<1>9. QED
  BY <1>4, <1>5, <1>6, <1>7, <1>8 DEF PublishFails, TypeOK, OneActive, calling

\* The trained version alone is active after it; its directory was there.
LEMMA ActivateKeeps ==
  ASSUME IInv, NEW t \in Trainers, Activate(t)
  PROVE  IInv' /\ \E v \in Versions : Active' = {v}
<1> USE DEF IInv
<1> DEFINE v == train[t].version
<1>1. v \in Versions /\ Idle \in Training /\ train' = [train EXCEPT ![t] = Idle]
  BY ForecastConstantsOK DEF Activate, Trains, TrainersOK, Training, Idle
<1>2. train' \in [Trainers -> Training] /\ TrainersOK'
  BY <1>1, TrainerMoves DEF Idle
<1>3. \A w \in Versions : Activated(v, w) \in Row
  BY DEF Activated, TypeOK, Status, Row
<1>4. models' \in [Versions -> Row]
  BY <1>3 DEF Activate
<1>5. \A w \in Versions : Activated(v, w).active <=> w = v
  BY DEF Activated, TypeOK, Row
<1>6. Active' = {v}
  BY <1>1, <1>5 DEF Activate, Active
<1>7. ActiveModelHasFiles'
  BY <1>6 DEF Activate, ActiveModelHasFiles
<1>8. CallersHaveRuns' /\ PicksAreVersions' /\ KeyIsHeld' /\ KeyMakesOneRun'
  BY TrainingLeavesCalls DEF Activate
<1>9. OneActive'
  BY <1>6 DEF OneActive
<1>10. QED
  BY <1>1, <1>2, <1>4, <1>6, <1>7, <1>8, <1>9 DEF Activate, TypeOK, calling

\* A trainer that holds nothing aside and only moves on, or ends.
LEMMA TrainerSteps ==
  ASSUME IInv, NEW t \in Trainers, NEW x \in Training, train[t].backup = 0,
         train' = [train EXCEPT ![t] = x],
         x.at # "idle" => x.version \in Versions,
         x.at \notin {"aside", "publish"}, x.backup = 0,
         models' \in [Versions -> Row],
         Active' = Active, UNCHANGED <<dir, builds, calling, crashes>>
  PROVE  IInv'
<1> USE DEF IInv
<1>1. train' \in [Trainers -> Training] /\ TrainersOK'
  BY TrainerMoves
<1>2. ActiveModelHasFiles'
  BY FilesStay
<1>3. CallersHaveRuns' /\ PicksAreVersions' /\ KeyIsHeld' /\ KeyMakesOneRun'
  BY TrainingLeavesCalls
<1>4. QED
  BY <1>1, <1>2, <1>3 DEF TypeOK, OneActive, calling

LEMMA TrainingFailsKeeps ==
  ASSUME IInv, NEW t \in Trainers, TrainingFails(t)
  PROVE  IInv'
<1> DEFINE x == [train[t] EXCEPT !.at = "failing"]
<1>1. train[t] \in Training /\ train[t].backup = 0 /\ train[t].version \in Versions
  BY DEF IInv, TypeOK, TrainersOK, TrainingFails
<1>2. x \in Training /\ x.version = train[t].version /\ x.at = "failing" /\ x.backup = 0
  BY <1>1 DEF Training
<1>3. train' = [train EXCEPT ![t] = x]
  BY DEF TrainingFails, Moves
<1> HIDE DEF x
<1>4. models' \in [Versions -> Row] /\ Active' = Active
  BY DEF IInv, TypeOK, TrainingFails, Active
<1>5. QED
  BY <1>1, <1>2, <1>3, <1>4, TrainerSteps DEF TrainingFails

LEMMA SeeFailureKeeps ==
  ASSUME IInv, NEW t \in Trainers, SeeFailure(t)
  PROVE  IInv'
<1> DEFINE x == [train[t] EXCEPT !.at = "mark"]
<1>1. train[t] \in Training /\ train[t].backup = 0 /\ train[t].version \in Versions
  BY DEF IInv, TypeOK, TrainersOK, SeeFailure, Trains
<1>2. models' \in [Versions -> Row] /\ Active' = Active
  BY DEF IInv, TypeOK, SeeFailure, Active
<1>3. CASE Demotable(train[t].version)
  <2>1. x \in Training /\ x.version = train[t].version /\ x.at = "mark" /\ x.backup = 0
    BY <1>1 DEF Training
  <2>2. train' = [train EXCEPT ![t] = x]
    BY <1>3 DEF SeeFailure, Moves
  <2> HIDE DEF x
  <2>3. QED
    BY <1>1, <1>2, <2>1, <2>2, TrainerSteps DEF SeeFailure
<1>4. CASE ~ Demotable(train[t].version)
  <2>1. Idle \in Training /\ Idle.at = "idle" /\ Idle.backup = 0
    BY ForecastConstantsOK DEF Idle, Training
  <2>2. train' = [train EXCEPT ![t] = Idle]
    BY <1>4 DEF SeeFailure
  <2>3. QED
    BY <1>1, <1>2, <2>1, <2>2, TrainerSteps DEF SeeFailure
<1>5. QED
  BY <1>3, <1>4

LEMMA MarkFailedKeeps ==
  ASSUME IInv, NEW t \in Trainers, MarkFailed(t)
  PROVE  IInv'
<1>1. train[t].backup = 0 /\ train[t].version \in Versions
  BY DEF IInv, TypeOK, TrainersOK, MarkFailed, Trains
<1>2. models' \in [Versions -> Row] /\ Active' = Active
  BY <1>1, StatusAlone DEF IInv, MarkFailed, Status
<1>3. Idle \in Training /\ Idle.at = "idle" /\ Idle.backup = 0
  BY ForecastConstantsOK DEF Idle, Training
<1>4. QED
  BY <1>1, <1>2, <1>3, TrainerSteps DEF MarkFailed

LEMMA MarkFailsKeeps ==
  ASSUME IInv, NEW t \in Trainers, MarkFails(t)
  PROVE  IInv'
<1>1. train[t].backup = 0 /\ train[t].version \in Versions
  BY DEF IInv, TypeOK, TrainersOK, MarkFails
<1>2. models' \in [Versions -> Row] /\ Active' = Active
  BY DEF IInv, TypeOK, MarkFails, Active
<1>3. Idle \in Training /\ Idle.at = "idle" /\ Idle.backup = 0
  BY ForecastConstantsOK DEF Idle, Training
<1>4. QED
  BY <1>1, <1>2, <1>3, TrainerSteps DEF MarkFails

-----------------------------------------------------------------------------
(* Forecasting. *)

\* The one key names runs of the sequence.
LEMMA KeyedRuns ==
  ASSUME TypeOK
  PROVE  /\ Len(runs) \in Nat /\ DOMAIN runs = 1 .. Len(runs)
         /\ \A i \in 1 .. Len(runs) : runs[i] \in Run
         /\ key.run \in 0 .. Len(runs)
BY DEF TypeOK

\* A caller leaves models, directories and trainers alone.
LEMMA CallLeavesTraining ==
  ASSUME IInv, UNCHANGED training, crashes' = crashes
  PROVE  /\ TrainersOK' /\ OneActive' /\ ActiveModelHasFiles' /\ Active' = Active
         /\ models' \in [Versions -> Row]
         /\ dir' \in [Versions -> 0 .. MaxBuilds] /\ builds' \in 0 .. MaxBuilds
         /\ train' \in [Trainers -> Training] /\ crashes' \in 0 .. MaxCrashes
BY DEF IInv, training, TypeOK, TrainersOK, OneActive, Active, ActiveModelHasFiles

\* A caller that moves on or gives up, with the runs and the key as they are.
LEMMA CallerMoves ==
  ASSUME IInv, NEW c \in Callers, NEW x \in Calling,
         call' = [call EXCEPT ![c] = x], UNCHANGED <<training, runs, key, crashes>>,
         lost' \subseteq 1 .. Len(runs),
         x.at # "quiet" => call[c].at # "quiet",
         x.at \in Early => call[c].at \in Early,
         x.at = "begin" => x.version \in Versions,
         x.at \in {"verify", "load", "answer", "link"} =>
           /\ Forecasting(c) /\ x.version = call[c].version /\ x.run = call[c].run
           /\ x.at \in {"answer", "link"} => call[c].at \in {"answer", "link"}
           /\ x.at = "link" => c \in Keyed
  PROVE  IInv'
<1>1. /\ TrainersOK' /\ OneActive' /\ ActiveModelHasFiles'
      /\ models' \in [Versions -> Row]
      /\ dir' \in [Versions -> 0 .. MaxBuilds] /\ builds' \in 0 .. MaxBuilds
      /\ train' \in [Trainers -> Training] /\ crashes' \in 0 .. MaxCrashes
  BY CallLeavesTraining
<1>2. call' \in [Callers -> Calling] /\ runs' = runs /\ key' = key
  BY DEF IInv, TypeOK
<1>3. call'[c] = x /\ \A d \in Callers : d # c => call'[d] = call[d]
  BY DEF IInv, TypeOK
<1>4. CallersHaveRuns' /\ PicksAreVersions'
  BY <1>2, <1>3 DEF IInv, CallersHaveRuns, PicksAreVersions, Forecasting
<1>5. KeyIsHeld'
  BY <1>2, <1>3, ForecastConstantsOK DEF IInv, KeyIsHeld, Early
<1>6. TypeOK' /\ KeyMakesOneRun'
  BY <1>1, <1>2 DEF IInv, TypeOK, KeyMakesOneRun
<1>7. QED
  BY <1>1, <1>4, <1>5, <1>6 DEF IInv

LEMMA QuietCalls == Quiet \in Calling /\ Quiet.at = "quiet"
BY ForecastConstantsOK DEF Quiet, Calling

\* What no caller has lost stays lost.
LEMMA LostStays ==
  ASSUME IInv, lost' = lost
  PROVE  lost' \subseteq 1 .. Len(runs)
BY DEF IInv, TypeOK

\* A model is picked, or none is there: the caller remembers it.
LEMMA PickedCaller ==
  ASSUME NEW v
  PROVE  [Quiet EXCEPT !.at = "begin", !.version = v] =
           [at |-> "begin", version |-> v, run |-> 0, settings |-> 0]
<1>1. [Quiet EXCEPT !.at = "begin"] = [at |-> "begin", version |-> "none", run |-> 0, settings |-> 0]
  BY DEF Quiet
<1>2. [[at |-> "begin", version |-> "none", run |-> 0, settings |-> 0] EXCEPT !.version = v] =
        [at |-> "begin", version |-> v, run |-> 0, settings |-> 0]
  OBVIOUS
<1>3. QED
  BY <1>1, <1>2

LEMMA PickModelKeeps ==
  ASSUME IInv, NEW c \in Callers, NEW v \in Versions, PickModel(c, v)
  PROVE  IInv'
<1> DEFINE x == [at |-> "begin", version |-> v, run |-> 0, settings |-> 0]
<1>1. x \in Calling /\ call' = [call EXCEPT ![c] = x]
  <2>1. x \in Calling
    BY ForecastConstantsOK DEF Calling
  <2>2. call' = [call EXCEPT ![c] = x]
    BY PickedCaller DEF PickModel
  <2>3. QED
    BY <2>1, <2>2
<1>2. x.at = "begin" /\ x.version = v /\ call[c].at = "choose"
  BY DEF PickModel, Calls
<1> HIDE DEF x
<1>3. QED
  BY <1>1, <1>2, LostStays, CallerMoves DEF PickModel, Early

LEMMA NoModelKeeps ==
  ASSUME IInv, NEW c \in Callers, NoModel(c)
  PROVE  IInv'
<1> DEFINE x == [call[c] EXCEPT !.at = "refuse"]
<1>1. x \in Calling /\ x.at = "refuse" /\ call' = [call EXCEPT ![c] = x]
  BY DEF IInv, TypeOK, Calling, NoModel, Passes
<1>2. call[c].at = "choose"
  BY DEF NoModel, Calls
<1> HIDE DEF x
<1>3. QED
  BY <1>1, <1>2, LostStays, CallerMoves DEF NoModel, Early

LEMMA VerifyKeeps ==
  ASSUME IInv, NEW c \in Callers, Verify(c)
  PROVE  IInv'
<1> DEFINE x == [call[c] EXCEPT !.at = "load", !.settings = dir[call[c].version]]
<1>1. call[c] \in Calling /\ call[c].at = "verify" /\ call[c].version \in Versions
  BY DEF IInv, TypeOK, CallersHaveRuns, Forecasting, Verify, Calls
<1>2. dir[call[c].version] \in 0 .. MaxBuilds
  BY <1>1 DEF IInv, TypeOK
<1>3. x \in Calling /\ x.at = "load" /\ x.version = call[c].version /\ x.run = call[c].run
  BY <1>1, <1>2 DEF Calling
<1>4. call' = [call EXCEPT ![c] = x]
  BY DEF Verify, IInv, TypeOK
<1> HIDE DEF x
<1>5. QED
  BY <1>1, <1>3, <1>4, LostStays, CallerMoves DEF Verify, Forecasting, Early

LEMMA AnswerKeeps ==
  ASSUME IInv, NEW c \in Callers, Answer(c)
  PROVE  IInv'
<1>1. call[c] \in Calling /\ call[c].at = "answer"
  BY DEF IInv, TypeOK, Answer, Calls
<1>2. CASE c \in Keyed
  <2> DEFINE x == [call[c] EXCEPT !.at = "link"]
  <2>1. x \in Calling /\ x.at = "link" /\ x.version = call[c].version /\ x.run = call[c].run
    BY <1>1 DEF Calling
  <2>2. call' = [call EXCEPT ![c] = x]
    BY <1>2 DEF Answer, Passes
  <2> HIDE DEF x
  <2>3. QED
    BY <1>1, <1>2, <2>1, <2>2, LostStays, CallerMoves DEF Answer, Forecasting, Early
<1>3. CASE c \notin Keyed
  BY <1>3, QuietCalls, LostStays, CallerMoves DEF Answer, Early
<1>4. QED
  BY <1>2, <1>3

LEMMA GivesUpKeeps ==
  ASSUME IInv, NEW c \in Callers, GivesUp(c)
  PROVE  IInv'
BY QuietCalls, LostStays, CallerMoves DEF GivesUp, Early

LEMMA FailureUnwrittenKeeps ==
  ASSUME IInv, NEW c \in Callers, FailureUnwritten(c)
  PROVE  IInv'
<1>1. call[c].run \in 1 .. Len(runs)
  BY DEF IInv, CallersHaveRuns, Forecasting, FailureUnwritten
<1>2. lost' \subseteq 1 .. Len(runs)
  BY <1>1 DEF IInv, TypeOK, FailureUnwritten
<1>3. QED
  BY <1>2, QuietCalls, CallerMoves DEF FailureUnwritten, Early

\* A key that nobody registered names no run, so the first request that carries it has it alone.
LEMMA BeginCallKeeps ==
  ASSUME IInv, NEW c \in Callers, BeginCall(c)
  PROVE  IInv'
<1> DEFINE x == [call[c] EXCEPT !.at = "choose"]
<1>1. /\ TrainersOK' /\ OneActive' /\ ActiveModelHasFiles'
      /\ models' \in [Versions -> Row]
      /\ dir' \in [Versions -> 0 .. MaxBuilds] /\ builds' \in 0 .. MaxBuilds
      /\ train' \in [Trainers -> Training] /\ crashes' \in 0 .. MaxCrashes
  BY CallLeavesTraining DEF BeginCall
<1>2. x \in Calling /\ x.at = "choose" /\ call' = [call EXCEPT ![c] = x]
  BY DEF IInv, TypeOK, Calling, BeginCall, Passes
<1> HIDE DEF x
<1>3. /\ call' \in [Callers -> Calling] /\ call'[c] = x
      /\ \A d \in Callers : d # c => call'[d] = call[d]
  BY <1>2 DEF IInv, TypeOK
<1>4. runs' = runs /\ key'.run = key.run /\ key' \in [registered : BOOLEAN, run : 0 .. Len(runs)]
      /\ key'.registered = (key.registered \/ c \in Keyed)
  BY DEF IInv, TypeOK, BeginCall
<1>5. CallersHaveRuns' /\ PicksAreVersions' /\ lost' \subseteq 1 .. Len(runs)
  BY <1>2, <1>3, <1>4, LostStays DEF IInv, CallersHaveRuns, PicksAreVersions, Forecasting, BeginCall
<1>6. KeyMakesOneRun'
  BY <1>4 DEF IInv, KeyMakesOneRun
<1>7. c \in Keyed => ~ key.registered /\ key.run = 0
  BY KeyedRuns DEF IInv, BeginCall, FindsKeyFree, KeyIsHeld, KeyMakesOneRun
<1>8. KeyIsHeld'
  BY <1>2, <1>3, <1>4, <1>7, ForecastConstantsOK DEF IInv, KeyIsHeld
<1>9. QED
  BY <1>1, <1>3, <1>4, <1>5, <1>6, <1>8 DEF IInv, TypeOK

\* The runs when one more is committed ...
LEMMA RunCommitted ==
  ASSUME TypeOK, NEW x \in Run, runs' = Append(runs, x)
  PROVE  /\ runs' \in Seq(Run) /\ Len(runs') = Len(runs) + 1 /\ DOMAIN runs' = 1 .. Len(runs')
         /\ runs'[Len(runs) + 1] = x
         /\ \A i \in 1 .. Len(runs) : runs'[i] = runs[i]
<1>1. runs \in Seq(Run)
  BY DEF TypeOK
<1>2. PICK r : r = Append(runs, x)
  OBVIOUS
<1>3. /\ r \in Seq(Run) /\ Len(r) = Len(runs) + 1 /\ r[Len(runs) + 1] = x
      /\ \A i \in 1 .. Len(runs) : r[i] = runs[i]
  BY <1>1, <1>2, AppendProperties
<1>4. DOMAIN r = 1 .. Len(r)
  BY <1>3
<1>5. runs' = r
  BY <1>2
<1>6. QED
  BY <1>3, <1>4, <1>5

\* ... and when one of them gets an end: its model's version and its key stay.
LEMMA RunEnded ==
  ASSUME TypeOK, NEW c \in Callers, call[c].run \in 1 .. Len(runs),
         NEW status \in {"completed", "failed"},
         NEW settings \in 0 .. MaxBuilds, NEW model \in 0 .. MaxBuilds,
         Ends(c, status, settings, model)
  PROVE  /\ runs' \in Seq(Run) /\ Len(runs') = Len(runs) /\ DOMAIN runs' = 1 .. Len(runs')
         /\ runs'[call[c].run].status = status
         /\ \A i \in 1 .. Len(runs) : runs'[i].keyed = runs[i].keyed
         /\ \A i \in 1 .. Len(runs) : i # call[c].run => runs'[i] = runs[i]
<1> DEFINE n == call[c].run
           x == [runs[n] EXCEPT !.status = status, !.settings = settings, !.model = model]
<1>1. runs \in Seq(Run) /\ runs[n] \in Run
  BY KeyedRuns DEF TypeOK
<1>2. x \in Run /\ x.status = status /\ x.keyed = runs[n].keyed
  BY <1>1 DEF Run
<1>3. runs' = [runs EXCEPT ![n] = x]
  BY DEF Ends
<1> HIDE DEF x
<1>4. PICK r : r = [runs EXCEPT ![n] = x]
  OBVIOUS
<1>5. /\ r \in Seq(Run) /\ Len(r) = Len(runs)
      /\ \A j \in 1 .. Len(runs) : r[j] = IF j = n THEN x ELSE runs[j]
  BY <1>1, <1>2, <1>4, ExceptSeq
<1>6. DOMAIN r = 1 .. Len(r)
  BY <1>5
<1>7. runs' = r
  BY <1>3, <1>4
<1>8. QED
  BY <1>2, <1>5, <1>6, <1>7

\* The record of a caller whose run is committed.
LEMMA CallerBegins ==
  ASSUME NEW r \in Calling, NEW a, NEW n
  PROVE  [r EXCEPT !.at = a, !.run = n] =
           [at |-> a, version |-> r.version, run |-> n, settings |-> r.settings]
<1> DEFINE q == [at |-> a, version |-> r.version, run |-> r.run, settings |-> r.settings]
<1>1. [r EXCEPT !.at = a] = q
  BY DEF Calling
<1>2. [q EXCEPT !.run = n] = [at |-> a, version |-> r.version, run |-> n, settings |-> r.settings]
  OBVIOUS
<1>3. QED
  BY <1>1, <1>2

\* The runs, the caller and the key when a caller commits a run: a run that is running is the
\* caller's own from then on, a blocked one is a keyed request's, linked with it.
LEMMA CommitKeeps ==
  ASSUME IInv, NEW c \in Callers, call[c].at \in Early, NEW x \in Calling, NEW y \in Run,
         call' = [call EXCEPT ![c] = x], runs' = Append(runs, y), y.keyed <=> c \in Keyed,
         UNCHANGED <<training, lost, crashes>>,
         \/ /\ x.at = "verify" /\ x.version \in Versions /\ x.run = Len(runs) + 1
            /\ key' = key
         \/ /\ x.at = "quiet" /\ y.status = "blocked"
            /\ key' = IF c \in Keyed THEN [key EXCEPT !.run = Len(runs) + 1] ELSE key
  PROVE  IInv'
<1> DEFINE n == Len(runs) + 1
<1>1. /\ TrainersOK' /\ OneActive' /\ ActiveModelHasFiles'
      /\ models' \in [Versions -> Row]
      /\ dir' \in [Versions -> 0 .. MaxBuilds] /\ builds' \in 0 .. MaxBuilds
      /\ train' \in [Trainers -> Training] /\ crashes' \in 0 .. MaxCrashes
  BY CallLeavesTraining
<1>2. Len(runs) \in Nat /\ DOMAIN runs = 1 .. Len(runs) /\ key.run \in 0 .. Len(runs)
  BY KeyedRuns DEF IInv
<1>3. call' \in [Callers -> Calling] /\ call'[c] = x /\ \A d \in Callers : d # c => call'[d] = call[d]
  BY DEF IInv, TypeOK
<1>4. /\ runs' \in Seq(Run) /\ Len(runs') = n /\ DOMAIN runs' = 1 .. n /\ runs'[n] = y
      /\ \A i \in 1 .. Len(runs) : runs'[i] = runs[i]
  BY RunCommitted DEF IInv
<1>5. c \in Keyed => /\ key.registered /\ key.run = 0 /\ \A i \in 1 .. Len(runs) : ~ runs[i].keyed
                     /\ \A d \in Keyed : d # c => call[d].at = "quiet"
  BY DEF IInv, KeyIsHeld, Early
<1>6. /\ key' \in [registered : BOOLEAN, run : 0 .. n] /\ key'.registered = key.registered
      /\ key'.run = IF x.at = "quiet" /\ c \in Keyed THEN n ELSE key.run
  <2>1. key \in [registered : BOOLEAN, run : 0 .. Len(runs)] /\ n \in 0 .. n
        /\ 0 .. Len(runs) \subseteq 0 .. n
    BY <1>2 DEF IInv, TypeOK
  <2>2. CASE key' = key /\ (x.at = "quiet" => c \notin Keyed)
    BY <2>1, <2>2
  <2>3. CASE x.at = "quiet" /\ c \in Keyed /\ key' = [key EXCEPT !.run = n]
    BY <2>1, <2>3
  <2>4. QED
    BY <2>2, <2>3
<1>7. CallersHaveRuns' /\ PicksAreVersions'
  BY <1>2, <1>3, <1>4 DEF IInv, CallersHaveRuns, PicksAreVersions, Forecasting
<1>8. KeyIsHeld'
  <2>1. ~ key'.registered => \A i \in 1 .. n : ~ runs'[i].keyed
    BY <1>2, <1>4, <1>5, <1>6 DEF IInv, KeyIsHeld
  <2>2. ASSUME NEW d \in Keyed, call'[d].at # "quiet"
        PROVE  /\ key'.registered /\ key'.run = 0
               /\ \A e \in Keyed : call'[e].at # "quiet" => e = d
               /\ call'[d].at \in Early => \A i \in 1 .. n : ~ runs'[i].keyed
    <3>1. CASE d = c
      BY <1>3, <1>5, <1>6, <2>2, <3>1, ForecastConstantsOK DEF Early
    <3>2. CASE d # c
      <4>1. d \in Callers /\ call'[d] = call[d] /\ call[d].at # "quiet"
        BY <1>3, <2>2, <3>2, ForecastConstantsOK
      <4>2. c \notin Keyed
        BY <1>5, <3>2, <4>1
      <4>3. /\ key'.registered /\ key'.run = 0 /\ \A e \in Keyed : call[e].at # "quiet" => e = d
            /\ call[d].at \in Early => \A i \in 1 .. Len(runs) : ~ runs[i].keyed
        BY <1>6, <4>1, <4>2 DEF IInv, KeyIsHeld
      <4>4. \A e \in Keyed : call'[e] = call[e]
        BY <1>3, <4>2, ForecastConstantsOK
      <4>5. QED
        BY <1>2, <1>4, <4>1, <4>2, <4>3, <4>4
    <3>3. QED
      BY <3>1, <3>2
  <2>3. QED
    BY <1>4, <2>1, <2>2 DEF KeyIsHeld
<1>9. KeyMakesOneRun'
  <2>1. \A i, j \in 1 .. n : runs'[i].keyed /\ runs'[j].keyed => i = j
    BY <1>2, <1>4, <1>5 DEF IInv, KeyMakesOneRun
  <2>2. key'.run # 0 => runs'[key'.run].keyed /\ runs'[key'.run].status \in {"completed", "blocked"}
    BY <1>2, <1>4, <1>6 DEF IInv, KeyMakesOneRun
  <2>3. QED
    BY <1>4, <2>1, <2>2 DEF KeyMakesOneRun
<1>10. TypeOK'
  <2>1. lost' \subseteq 1 .. n
    BY <1>2 DEF IInv, TypeOK
  <2>2. QED
    BY <1>1, <1>3, <1>4, <1>6, <2>1 DEF TypeOK
<1>11. QED
  BY <1>1, <1>7, <1>8, <1>9, <1>10 DEF IInv

\* What BeginRun and RefuseRun write.
LEMMA BeginRunWrites ==
  ASSUME IInv, NEW c \in Callers, BeginRun(c)
  PROVE  \E x \in Calling, y \in Run :
           /\ call' = [call EXCEPT ![c] = x] /\ runs' = Append(runs, y)
           /\ x.at = "verify" /\ x.version = call[c].version /\ x.version \in Versions
           /\ x.run = Len(runs) + 1 /\ (y.keyed <=> c \in Keyed)
           /\ y.status = "running"
           /\ y = Ledger!Forecast("running", call[c].version, c \in Keyed, 0, 0)
<1> DEFINE n == Len(runs) + 1
           v == call[c].version
           x == [at |-> "verify", version |-> v, run |-> n, settings |-> call[c].settings]
           y == [status |-> "running", version |-> v, keyed |-> c \in Keyed, settings |-> 0, model |-> 0]
<1>1. Len(runs) \in Nat /\ call[c] \in Calling /\ v \in Versions
  BY KeyedRuns DEF IInv, TypeOK, PicksAreVersions, BeginRun, Calls
<1>2. (c \in Keyed) \in BOOLEAN
  OBVIOUS
<1>3. x \in Calling /\ y \in Run
  BY <1>1, <1>2, ForecastConstantsOK DEF Calling, Run
<1>4. call' = [call EXCEPT ![c] = x]
  <2>1. call' = [call EXCEPT ![c] = [call[c] EXCEPT !.at = "verify", !.run = n]]
    BY DEF BeginRun, IInv, TypeOK
  <2>2. QED
    BY <1>1, <2>1, CallerBegins
<1>5. runs' = Append(runs, y)
  BY DEF BeginRun
<1>6. y = Ledger!Forecast("running", v, c \in Keyed, 0, 0)
  BY DEF Ledger!Forecast
<1>7. x.at = "verify" /\ x.version = v /\ x.run = n /\ (y.keyed <=> c \in Keyed) /\ y.status = "running"
  OBVIOUS
<1> HIDE DEF x, y, n, v
<1>8. QED
  BY <1>1, <1>3, <1>4, <1>5, <1>6, <1>7 DEF n, v

LEMMA RefuseRunWrites ==
  ASSUME IInv, NEW c \in Callers, RefuseRun(c)
  PROVE  \E y \in Run :
           /\ runs' = Append(runs, y) /\ y.status = "blocked" /\ (y.keyed <=> c \in Keyed)
           /\ y = Ledger!Forecast("blocked", "none", c \in Keyed, 0, 0)
<1> DEFINE y == [status |-> "blocked", version |-> "none", keyed |-> c \in Keyed, settings |-> 0, model |-> 0]
<1>1. (c \in Keyed) \in BOOLEAN
  OBVIOUS
<1>2. y \in Run
  BY <1>1, ForecastConstantsOK DEF Run
<1>3. runs' = Append(runs, y)
  BY DEF RefuseRun
<1>4. y = Ledger!Forecast("blocked", "none", c \in Keyed, 0, 0) /\ y.status = "blocked" /\ (y.keyed <=> c \in Keyed)
  BY DEF Ledger!Forecast
<1> HIDE DEF y
<1>5. QED
  BY <1>2, <1>3, <1>4

\* The first run of a key is the only one.
LEMMA BeginRunKeeps ==
  ASSUME IInv, NEW c \in Callers, BeginRun(c)
  PROVE  IInv'
<1>1. PICK x \in Calling, y \in Run :
        /\ call' = [call EXCEPT ![c] = x] /\ runs' = Append(runs, y)
        /\ x.at = "verify" /\ x.version \in Versions /\ x.run = Len(runs) + 1
        /\ y.keyed <=> c \in Keyed
  BY BeginRunWrites
<1>2. call[c].at \in Early /\ key' = key /\ UNCHANGED <<training, lost, crashes>>
  BY DEF BeginRun, Calls, Early
<1>3. QED
  BY <1>1, <1>2, CommitKeeps

LEMMA RefuseRunKeeps ==
  ASSUME IInv, NEW c \in Callers, RefuseRun(c)
  PROVE  IInv'
BY RefuseRunWrites, QuietCalls, CommitKeeps DEF RefuseRun, Calls, Early

\* Completing a run, or failing it, changes no run that another caller or the key relies on.
LEMMA EndKeeps ==
  ASSUME IInv, NEW c \in Callers, Forecasting(c), NEW x \in Calling,
         NEW status \in {"completed", "failed"},
         NEW settings \in 0 .. MaxBuilds, NEW model \in 0 .. MaxBuilds,
         Ends(c, status, settings, model), call' = [call EXCEPT ![c] = x],
         UNCHANGED <<training, key, lost, crashes>>,
         \/ x.at = "quiet"
         \/ /\ x.at = "answer" /\ status = "completed"
            /\ x.run = call[c].run /\ x.version = call[c].version
  PROVE  IInv'
<1> DEFINE n == call[c].run
<1>1. /\ TrainersOK' /\ OneActive' /\ ActiveModelHasFiles'
      /\ models' \in [Versions -> Row]
      /\ dir' \in [Versions -> 0 .. MaxBuilds] /\ builds' \in 0 .. MaxBuilds
      /\ train' \in [Trainers -> Training] /\ crashes' \in 0 .. MaxCrashes
  BY CallLeavesTraining
<1>2. Len(runs) \in Nat /\ DOMAIN runs = 1 .. Len(runs) /\ key.run \in 0 .. Len(runs)
  BY KeyedRuns DEF IInv
<1>3. n \in 1 .. Len(runs) /\ (runs[n].keyed <=> c \in Keyed)
  BY DEF IInv, CallersHaveRuns
<1>4. /\ runs' \in Seq(Run) /\ Len(runs') = Len(runs) /\ DOMAIN runs' = 1 .. Len(runs)
      /\ runs'[n].status = status
      /\ \A i \in 1 .. Len(runs) : runs'[i].keyed = runs[i].keyed
      /\ \A i \in 1 .. Len(runs) : i # n => runs'[i] = runs[i]
  BY <1>3, RunEnded DEF IInv
<1>5. call' \in [Callers -> Calling] /\ call'[c] = x /\ \A d \in Callers : d # c => call'[d] = call[d]
  BY DEF IInv, TypeOK
<1>6. c \in Keyed => key.run = 0 /\ \A d \in Keyed : d # c => call[d].at = "quiet"
  BY DEF IInv, KeyIsHeld, Forecasting
<1>7. CallersHaveRuns'
  <2> SUFFICES ASSUME NEW d \in Callers, Forecasting(d)'
               PROVE  /\ call'[d].version \in Versions
                      /\ call'[d].run \in 1 .. Len(runs)
                      /\ runs'[call'[d].run].keyed <=> d \in Keyed
                      /\ d \in Keyed /\ call'[d].at \in {"answer", "link"}
                           => runs'[call'[d].run].status = "completed"
                      /\ call'[d].at = "link" => d \in Keyed
    BY <1>4 DEF CallersHaveRuns
  <2>1. CASE d = c
    BY <1>3, <1>4, <1>5, <2>1 DEF IInv, CallersHaveRuns, Forecasting
  <2>2. CASE d # c
    <3>1. call'[d] = call[d] /\ Forecasting(d)
      BY <1>5, <2>2 DEF Forecasting
    <3>2. /\ call[d].version \in Versions /\ call[d].run \in 1 .. Len(runs)
          /\ runs[call[d].run].keyed <=> d \in Keyed
          /\ d \in Keyed /\ call[d].at \in {"answer", "link"} => runs[call[d].run].status = "completed"
          /\ call[d].at = "link" => d \in Keyed
      BY <3>1 DEF IInv, CallersHaveRuns
    <3>3. d \in Keyed => call[d].run # n
      BY <1>3, <1>6, <2>2, <3>1, <3>2 DEF Forecasting
    <3>4. QED
      BY <1>4, <3>1, <3>2, <3>3
  <2>3. QED
    BY <2>1, <2>2
<1>8. KeyIsHeld' /\ PicksAreVersions'
  BY <1>4, <1>5, ForecastConstantsOK DEF IInv, KeyIsHeld, Early, PicksAreVersions, Forecasting
<1>9. KeyMakesOneRun'
  <2>1. key.run # 0 => key.run # n
    BY <1>2, <1>3, <1>6 DEF IInv, KeyMakesOneRun
  <2>2. QED
    BY <1>2, <1>4, <2>1 DEF IInv, KeyMakesOneRun
<1>10. TypeOK'
  BY <1>1, <1>4, <1>5 DEF IInv, TypeOK
<1>11. QED
  BY <1>1, <1>7, <1>8, <1>9, <1>10 DEF IInv

LEMMA LoadAndCompleteKeeps ==
  ASSUME IInv, NEW c \in Callers, LoadAndComplete(c)
  PROVE  IInv'
<1> DEFINE x == [call[c] EXCEPT !.at = "answer"]
<1>1. /\ Forecasting(c) /\ call[c] \in Calling /\ call[c].version \in Versions
      /\ call[c].settings \in 0 .. MaxBuilds /\ dir[call[c].version] \in 0 .. MaxBuilds
  BY DEF IInv, TypeOK, Calling, CallersHaveRuns, Forecasting, LoadAndComplete, Calls
<1>2. x \in Calling /\ x.at = "answer" /\ x.version = call[c].version /\ x.run = call[c].run
  BY <1>1 DEF Calling
<1>3. call' = [call EXCEPT ![c] = x]
  BY DEF LoadAndComplete, Passes
<1> HIDE DEF x
<1>4. QED
  BY <1>1, <1>2, <1>3, EndKeeps DEF LoadAndComplete

LEMMA CallFailsKeeps ==
  ASSUME IInv, NEW c \in Callers, CallFails(c)
  PROVE  IInv'
<1>1. 0 \in 0 .. MaxBuilds
  BY ForecastConstantsOK
<1>2. QED
  BY <1>1, QuietCalls, EndKeeps DEF CallFails, Forecasting

\* The key is linked to the run that its only request completed.
LEMMA LinkKeyKeeps ==
  ASSUME IInv, NEW c \in Callers, LinkKey(c)
  PROVE  IInv'
<1> DEFINE n == call[c].run
<1>1. /\ TrainersOK' /\ OneActive' /\ ActiveModelHasFiles'
      /\ models' \in [Versions -> Row]
      /\ dir' \in [Versions -> 0 .. MaxBuilds] /\ builds' \in 0 .. MaxBuilds
      /\ train' \in [Trainers -> Training] /\ crashes' \in 0 .. MaxCrashes
  BY CallLeavesTraining DEF LinkKey
<1>2. Len(runs) \in Nat /\ DOMAIN runs = 1 .. Len(runs)
  BY KeyedRuns DEF IInv
<1>3. /\ c \in Keyed /\ n \in 1 .. Len(runs) /\ runs[n].keyed /\ runs[n].status = "completed"
      /\ call[c].at = "link"
  BY DEF IInv, CallersHaveRuns, Forecasting, LinkKey, Calls
<1>4. key.registered /\ \A d \in Keyed : d # c => call[d].at = "quiet"
  BY <1>3 DEF IInv, KeyIsHeld
<1>5. key' \in [registered : BOOLEAN, run : 0 .. Len(runs)] /\ key'.registered /\ key'.run = n
  <2>1. key \in [registered : BOOLEAN, run : 0 .. Len(runs)] /\ n \in 0 .. Len(runs)
    BY <1>2, <1>3 DEF IInv, TypeOK
  <2>2. key' = [key EXCEPT !.run = n]
    BY DEF LinkKey
  <2>3. QED
    BY <1>4, <2>1, <2>2
<1>6. /\ runs' = runs /\ call' \in [Callers -> Calling] /\ call'[c].at = "quiet"
      /\ \A d \in Callers : d # c => call'[d] = call[d]
  BY QuietCalls DEF IInv, TypeOK, LinkKey
<1>7. CallersHaveRuns' /\ PicksAreVersions'
  BY <1>6 DEF IInv, CallersHaveRuns, PicksAreVersions, Forecasting
<1>8. KeyIsHeld'
  BY <1>4, <1>5, <1>6, ForecastConstantsOK DEF KeyIsHeld
<1>9. KeyMakesOneRun'
  BY <1>3, <1>5, <1>6 DEF IInv, KeyMakesOneRun
<1>10. TypeOK'
  BY <1>1, <1>5, <1>6 DEF IInv, TypeOK, LinkKey
<1>11. QED
  BY <1>1, <1>7, <1>8, <1>9, <1>10 DEF IInv

-----------------------------------------------------------------------------
\* A crash takes what only threads remember; what they held aside stays lost.
LEMMA CrashKeeps ==
  ASSUME IInv, Crash
  PROVE  IInv'
<1>1. Idle \in Training /\ Idle.at = "idle" /\ Idle.backup = 0
  BY ForecastConstantsOK DEF Idle, Training
<1>2. /\ train' \in [Trainers -> Training] /\ \A t \in Trainers : train'[t] = Idle
      /\ call' \in [Callers -> Calling] /\ \A c \in Callers : call'[c] = Quiet
  BY <1>1, QuietCalls DEF Crash
<1>3. crashes' \in 0 .. MaxCrashes /\ crashes' > 0
  BY ForecastConstantsOK DEF IInv, TypeOK, Crash
<1>4. TrainersOK' /\ CallersHaveRuns' /\ PicksAreVersions' /\ KeyIsHeld'
  BY <1>1, <1>2, QuietCalls, ForecastConstantsOK
     DEF IInv, TrainersOK, CallersHaveRuns, PicksAreVersions, Forecasting, KeyIsHeld, Crash
<1>5. ActiveModelHasFiles'
  BY <1>3 DEF ActiveModelHasFiles
<1>6. OneActive' /\ KeyMakesOneRun'
  BY DEF IInv, OneActive, Active, KeyMakesOneRun, Crash
<1>7. TypeOK'
  BY <1>2, <1>3 DEF IInv, TypeOK, Crash
<1>8. QED
  BY <1>4, <1>5, <1>6, <1>7 DEF IInv

LEMMA Inductive ==
  ASSUME IInv, [Next]_vars
  PROVE  IInv'
<1>1. ASSUME NEW t \in Trainers, TrainingStep(t)
      PROVE  IInv'
  BY <1>1, FitKeeps, SetAsideKeeps, PublishKeeps, PublishFailsKeeps, ActivateKeeps,
     TrainingFailsKeeps, SeeFailureKeeps, MarkFailedKeeps, MarkFailsKeeps DEF TrainingStep
<1>2. ASSUME NEW c \in Callers, CallStep(c)
      PROVE  IInv'
  BY <1>2, PickModelKeeps, BeginRunKeeps, NoModelKeeps, RefuseRunKeeps, VerifyKeeps,
     LoadAndCompleteKeeps, AnswerKeeps, LinkKeyKeeps, CallFailsKeeps, FailureUnwrittenKeeps,
     GivesUpKeeps DEF CallStep
<1>3. CASE UNCHANGED vars
  BY <1>3 DEF vars, IInv, TypeOK, TrainersOK, OneActive, Active, ActiveModelHasFiles,
              CallersHaveRuns, PicksAreVersions, Forecasting, KeyIsHeld, KeyMakesOneRun
<1>4. QED
  BY <1>1, <1>2, <1>3, BeginTrainingKeeps, BeginCallKeeps, CrashKeeps DEF Next

\* Nothing but an activation changes which models are active.
LEMMA RowsStayActive ==
  ASSUME IInv, [Next]_vars, ~ \E t \in Trainers : Activate(t)
  PROVE  Active' = Active
<1>1. CASE UNCHANGED models
  BY <1>1 DEF Active
<1>2. CASE \E t \in Trainers, v \in Versions : BeginTraining(t, v)
  BY <1>1, <1>2, StatusAlone DEF IInv, BeginTraining, Status
<1>3. CASE \E t \in Trainers : MarkFailed(t)
  BY <1>3, StatusAlone DEF IInv, MarkFailed, TrainersOK, Trains, Status
<1>4. QED
  BY <1>1, <1>2, <1>3
     DEF Next, TrainingStep, Fit, SetAside, Publish, PublishFails, TrainingFails, SeeFailure,
         MarkFails, CallStep, PickModel, BeginRun, NoModel, RefuseRun, Verify, LoadAndComplete, Answer, LinkKey,
         CallFails, FailureUnwritten, GivesUp,
         BeginCall, Crash, training, vars

LEMMA Invariance == Spec => []IInv
BY Initially, Inductive, PTL DEF Spec

\* The variables keep their types.
THEOREM ForecastsTyped == Spec => []TypeOK
<1>1. IInv => TypeOK
  BY DEF IInv
<1>2. QED
  BY <1>1, Invariance, PTL

\* An active model has an artifact directory, or a trainer at work holds it aside, or a crash took
\* the trainer that did.
THEOREM FilesOfActiveModel == Spec => []ActiveModelHasFiles
<1>1. IInv => ActiveModelHasFiles
  BY DEF IInv
<1>2. QED
  BY <1>1, Invariance, PTL

\* However many requests carry the one key, and whatever happens to them, they commit one run, and
\* the key names it only when it is complete or blocked.
THEOREM OneRunPerKey == Spec => []KeyMakesOneRun
<1>1. IInv => KeyMakesOneRun
  BY DEF IInv
<1>2. QED
  BY <1>1, Invariance, PTL

\* Once a model is active, every step of every trainer, and every crash, leaves exactly one.
THEOREM OneActiveModel == Spec => OneModelStaysActive
<1>1. ASSUME IInv, [Next]_vars
      PROVE  Active # {} => \E v \in Versions : Active' = {v}
  <2>1. CASE \E t \in Trainers : Activate(t)
    BY <1>1, <2>1, ActivateKeeps
  <2>2. CASE ~ \E t \in Trainers : Activate(t)
    <3>1. Active' = Active
      BY <1>1, <2>2, RowsStayActive
    <3>2. QED
      BY <1>1, <3>1 DEF IInv, OneActive, Active
  <2>3. QED
    BY <2>1, <2>2
<1>2. QED
  BY <1>1, Invariance, PTL DEF Spec, OneModelStaysActive

-----------------------------------------------------------------------------
(* Forecasts implements ForecastLedger.  That needs to know, besides IInv, that a run is its
   caller's own, which runs until that caller completes it and stays completed until that caller is
   done with it; and that a model is ready only once it was trained, so that the model a caller
   picked was, even if it has been replaced or marked as failed since. *)
RunsAreOwn ==
  \A c \in Callers : Forecasting(c) =>
    /\ runs[call[c].run].status =
         IF call[c].at \in {"verify", "load"} THEN "running" ELSE "completed"
    /\ call[c].at = "load" => call[c].settings # 0
    /\ \A d \in Callers : Forecasting(d) /\ call[d].run = call[c].run => d = c

ReadyIsTrained == \A v \in Versions : models[v].status = "ready" => models[v].trained
PicksWereTrained == \A c \in Callers : call[c].at = "begin" => call[c].version \in Trained
TrainedInv == ReadyIsTrained /\ PicksWereTrained

\* One caller moves on, and no run changes but its own.
LEMMA OwnRunsKept ==
  ASSUME IInv, RunsAreOwn, NEW c \in Callers, NEW x \in Calling,
         call' = [call EXCEPT ![c] = x],
         \A i \in 1 .. Len(runs) : runs'[i] = runs[i] \/ (Forecasting(c) /\ i = call[c].run),
         x.at \in {"verify", "load", "answer", "link"} =>
           /\ (Forecasting(c) /\ x.run = call[c].run) \/ x.run = Len(runs) + 1
           /\ runs'[x.run].status = IF x.at \in {"verify", "load"} THEN "running" ELSE "completed"
           /\ x.at = "load" => x.settings # 0
  PROVE  RunsAreOwn'
<1>1. call'[c] = x /\ \A d \in Callers : d # c => call'[d] = call[d]
  BY DEF IInv, TypeOK
<1>2. Len(runs) \in Nat /\ \A d \in Callers : Forecasting(d) => call[d].run \in 1 .. Len(runs)
  BY KeyedRuns DEF IInv, CallersHaveRuns
<1>3. ASSUME NEW d \in Callers, d # c, Forecasting(d)'
      PROVE  /\ Forecasting(d) /\ call'[d] = call[d] /\ runs'[call[d].run] = runs[call[d].run]
             /\ ~ (Forecasting(c)' /\ x.run = call[d].run)
  <2>1. call'[d] = call[d] /\ Forecasting(d)
    BY <1>1, <1>3 DEF Forecasting
  <2>2. call[d].run \in 1 .. Len(runs) /\ ~ (Forecasting(c) /\ call[d].run = call[c].run)
    BY <1>2, <1>3, <2>1 DEF RunsAreOwn
  <2>3. Forecasting(c)' => (Forecasting(c) /\ x.run = call[c].run) \/ x.run = Len(runs) + 1
    BY <1>1 DEF Forecasting
  <2>4. QED
    BY <1>2, <2>1, <2>2, <2>3
<1>4. ASSUME NEW d \in Callers, Forecasting(d)'
      PROVE  /\ runs'[call'[d].run].status =
                  IF call'[d].at \in {"verify", "load"} THEN "running" ELSE "completed"
             /\ call'[d].at = "load" => call'[d].settings # 0
  <2>1. CASE d = c
    BY <1>1, <1>4, <2>1 DEF Forecasting
  <2>2. CASE d # c
    BY <1>3, <1>4, <2>2 DEF RunsAreOwn
  <2>3. QED
    BY <2>1, <2>2
<1>5. ASSUME NEW d \in Callers, NEW e \in Callers, Forecasting(d)', Forecasting(e)',
             call'[e].run = call'[d].run
      PROVE  e = d
  <2>1. CASE d = c \/ e = c
    BY <1>1, <1>3, <1>5, <2>1
  <2>2. CASE d # c /\ e # c
    BY <1>3, <1>5, <2>2 DEF RunsAreOwn
  <2>3. QED
    BY <2>1, <2>2
<1>6. QED
  BY <1>4, <1>5 DEF RunsAreOwn

\* A caller that gives up or ends, and one that moves on with its run as it is.
LEMMA OwnRunsOfMovers ==
  ASSUME IInv, RunsAreOwn, NEW c \in Callers, NEW x \in Calling,
         call' = [call EXCEPT ![c] = x], runs' = runs,
         x.at \in {"verify", "load", "answer", "link"} =>
           /\ Forecasting(c) /\ x.run = call[c].run
           /\ x.at \in {"verify", "load"} <=> call[c].at \in {"verify", "load"}
           /\ x.at = "load" => x.settings # 0
  PROVE  RunsAreOwn'
BY OwnRunsKept DEF RunsAreOwn

LEMMA OwnRunsVerify ==
  ASSUME IInv, RunsAreOwn, NEW c \in Callers, Verify(c)
  PROVE  RunsAreOwn'
<1> DEFINE x == [call[c] EXCEPT !.at = "load", !.settings = dir[call[c].version]]
<1>1. call[c] \in Calling /\ call[c].at = "verify" /\ call[c].version \in Versions
  BY DEF IInv, TypeOK, CallersHaveRuns, Forecasting, Verify, Calls
<1>2. dir[call[c].version] \in 0 .. MaxBuilds /\ dir[call[c].version] # 0
  BY <1>1 DEF IInv, TypeOK, Verify
<1>3. x \in Calling /\ x.at = "load" /\ x.run = call[c].run /\ x.settings # 0
  BY <1>1, <1>2 DEF Calling
<1>4. call' = [call EXCEPT ![c] = x]
  BY DEF Verify, IInv, TypeOK
<1> HIDE DEF x
<1>5. QED
  BY <1>1, <1>3, <1>4, OwnRunsOfMovers DEF Verify, Forecasting

LEMMA OwnRunsAnswer ==
  ASSUME IInv, RunsAreOwn, NEW c \in Callers, Answer(c)
  PROVE  RunsAreOwn'
<1>1. call[c] \in Calling /\ call[c].at = "answer"
  BY DEF IInv, TypeOK, Answer, Calls
<1>2. CASE c \in Keyed
  <2> DEFINE x == [call[c] EXCEPT !.at = "link"]
  <2>1. x \in Calling /\ x.at = "link" /\ x.run = call[c].run
    BY <1>1 DEF Calling
  <2>2. call' = [call EXCEPT ![c] = x]
    BY <1>2 DEF Answer, Passes
  <2> HIDE DEF x
  <2>3. QED
    BY <1>1, <2>1, <2>2, OwnRunsOfMovers DEF Answer, Forecasting
<1>3. CASE c \notin Keyed
  BY <1>3, QuietCalls, OwnRunsOfMovers DEF Answer
<1>4. QED
  BY <1>2, <1>3

LEMMA OwnRunsBegin ==
  ASSUME IInv, RunsAreOwn, NEW c \in Callers, BeginCall(c)
  PROVE  RunsAreOwn'
<1> DEFINE x == [call[c] EXCEPT !.at = "choose"]
<1>1. x \in Calling /\ x.at = "choose" /\ call' = [call EXCEPT ![c] = x]
  BY DEF IInv, TypeOK, Calling, BeginCall, Passes
<1> HIDE DEF x
<1>2. QED
  BY <1>1, OwnRunsOfMovers DEF BeginCall

\* The run that is committed is nobody else's.
LEMMA OwnRunsCommit ==
  ASSUME IInv, RunsAreOwn, NEW c \in Callers, NEW x \in Calling, NEW y \in Run,
         call' = [call EXCEPT ![c] = x], runs' = Append(runs, y),
         \/ x.at = "verify" /\ x.run = Len(runs) + 1 /\ y.status = "running"
         \/ x.at = "quiet"
  PROVE  RunsAreOwn'
<1>1. runs'[Len(runs) + 1] = y /\ \A i \in 1 .. Len(runs) : runs'[i] = runs[i]
  BY RunCommitted DEF IInv
<1>2. QED
  BY <1>1, OwnRunsKept

LEMMA OwnRunsBeginRun ==
  ASSUME IInv, RunsAreOwn, NEW c \in Callers, BeginRun(c)
  PROVE  RunsAreOwn'
BY BeginRunWrites, OwnRunsCommit

LEMMA OwnRunsRefuse ==
  ASSUME IInv, RunsAreOwn, NEW c \in Callers, RefuseRun(c)
  PROVE  RunsAreOwn'
<1>1. call' = [call EXCEPT ![c] = Quiet]
  BY DEF RefuseRun
<1>2. QED
  BY <1>1, RefuseRunWrites, QuietCalls, OwnRunsCommit

\* A caller that has picked its model, or found none, has no run yet.
LEMMA OwnRunsPick ==
  ASSUME IInv, RunsAreOwn, NEW c \in Callers, (\E v \in Versions : PickModel(c, v)) \/ NoModel(c)
  PROVE  RunsAreOwn'
<1>1. ASSUME NEW v \in Versions, PickModel(c, v)
      PROVE  RunsAreOwn'
  <2> DEFINE x == [at |-> "begin", version |-> v, run |-> 0, settings |-> 0]
  <2>1. x \in Calling /\ x.at = "begin"
    BY ForecastConstantsOK DEF Calling
  <2>2. call' = [call EXCEPT ![c] = x]
    BY <1>1, PickedCaller DEF PickModel
  <2> HIDE DEF x
  <2>3. QED
    BY <1>1, <2>1, <2>2, OwnRunsOfMovers DEF PickModel
<1>2. CASE NoModel(c)
  <2> DEFINE x == [call[c] EXCEPT !.at = "refuse"]
  <2>1. x \in Calling /\ x.at = "refuse" /\ call' = [call EXCEPT ![c] = x]
    BY <1>2 DEF IInv, TypeOK, Calling, NoModel, Passes
  <2> HIDE DEF x
  <2>2. QED
    BY <1>2, <2>1, OwnRunsOfMovers DEF NoModel
<1>3. QED
  BY <1>1, <1>2

\* The run that is completed or failed is the caller's.
LEMMA OwnRunsEnd ==
  ASSUME IInv, RunsAreOwn, NEW c \in Callers, Forecasting(c), NEW x \in Calling,
         NEW status \in {"completed", "failed"},
         NEW settings \in 0 .. MaxBuilds, NEW model \in 0 .. MaxBuilds,
         Ends(c, status, settings, model), call' = [call EXCEPT ![c] = x],
         \/ x.at = "quiet"
         \/ x.at = "answer" /\ status = "completed" /\ x.run = call[c].run
  PROVE  RunsAreOwn'
<1>1. call[c].run \in 1 .. Len(runs)
  BY DEF IInv, CallersHaveRuns
<1>2. /\ runs'[call[c].run].status = status
      /\ \A i \in 1 .. Len(runs) : i # call[c].run => runs'[i] = runs[i]
  BY <1>1, RunEnded DEF IInv
<1>3. QED
  BY <1>2, OwnRunsKept

LEMMA OwnRunsComplete ==
  ASSUME IInv, RunsAreOwn, NEW c \in Callers, LoadAndComplete(c)
  PROVE  RunsAreOwn'
<1> DEFINE x == [call[c] EXCEPT !.at = "answer"]
<1>1. /\ Forecasting(c) /\ call[c] \in Calling /\ call[c].version \in Versions
      /\ call[c].settings \in 0 .. MaxBuilds /\ dir[call[c].version] \in 0 .. MaxBuilds
  BY DEF IInv, TypeOK, Calling, CallersHaveRuns, Forecasting, LoadAndComplete, Calls
<1>2. x \in Calling /\ x.at = "answer" /\ x.run = call[c].run
  BY <1>1 DEF Calling
<1>3. call' = [call EXCEPT ![c] = x]
  BY DEF LoadAndComplete, Passes
<1> HIDE DEF x
<1>4. QED
  BY <1>1, <1>2, <1>3, OwnRunsEnd DEF LoadAndComplete

LEMMA OwnRunsFail ==
  ASSUME IInv, RunsAreOwn, NEW c \in Callers, CallFails(c)
  PROVE  RunsAreOwn'
<1>1. 0 \in 0 .. MaxBuilds
  BY ForecastConstantsOK
<1>2. QED
  BY <1>1, QuietCalls, OwnRunsEnd DEF CallFails, Forecasting

LEMMA OwnRunsInductive ==
  ASSUME IInv, RunsAreOwn, [Next]_vars
  PROVE  RunsAreOwn'
<1>1. CASE UNCHANGED <<runs, call>>
  BY <1>1 DEF RunsAreOwn, Forecasting
<1>2. ASSUME NEW c \in Callers, CallStep(c)
      PROVE  RunsAreOwn'
  <2>1. LinkKey(c) \/ FailureUnwritten(c) \/ GivesUp(c) => RunsAreOwn'
    BY QuietCalls, OwnRunsOfMovers DEF LinkKey, FailureUnwritten, GivesUp
  <2>2. QED
    BY <1>2, <2>1, OwnRunsPick, OwnRunsBeginRun, OwnRunsRefuse, OwnRunsVerify, OwnRunsComplete,
       OwnRunsAnswer, OwnRunsFail DEF CallStep
<1>3. CASE Crash
  BY <1>3, QuietCalls DEF Crash, RunsAreOwn, Forecasting
<1>4. QED
  BY <1>1, <1>2, <1>3, OwnRunsBegin
     DEF Next, TrainingStep, BeginTraining, Fit, SetAside, Publish, PublishFails, Activate,
         TrainingFails, SeeFailure, MarkFailed, MarkFails, calling, vars

\* The record that a run's end writes.
LEMMA EndedRun ==
  ASSUME IInv, NEW c \in Callers, call[c].run \in 1 .. Len(runs),
         NEW status, NEW settings, NEW model, Ends(c, status, settings, model)
  PROVE  LET n == call[c].run
             f == Ledger!Forecast(status, runs[n].version, runs[n].keyed, settings, model)
         IN  runs' = [runs EXCEPT ![n] = f] /\ runs'[n] = f
<1> DEFINE n == call[c].run
           f == [status |-> status, version |-> runs[n].version, keyed |-> runs[n].keyed,
                 settings |-> settings, model |-> model]
           g == [status |-> status, version |-> runs[n].version, keyed |-> runs[n].keyed,
                 settings |-> runs[n].settings, model |-> runs[n].model]
           h == [status |-> status, version |-> runs[n].version, keyed |-> runs[n].keyed,
                 settings |-> settings, model |-> runs[n].model]
<1>1. runs[n] \in Run /\ n \in DOMAIN runs
  BY KeyedRuns DEF IInv
<1>2. [runs[n] EXCEPT !.status = status] = g
  BY <1>1 DEF Run
<1>3. [g EXCEPT !.settings = settings] = h
  OBVIOUS
<1>4. [h EXCEPT !.model = model] = f
  OBVIOUS
<1>5. runs' = [runs EXCEPT ![n] = f]
  BY <1>2, <1>3, <1>4 DEF Ends
<1> HIDE DEF f, g, h
<1>6. runs'[n] = f
  BY <1>1, <1>5
<1>7. f = Ledger!Forecast(status, runs[n].version, runs[n].keyed, settings, model)
  BY DEF Ledger!Forecast, f
<1>8. QED
  BY <1>5, <1>6, <1>7

\* A row that a trainer begins or marks as failed stays as trained as it was.
LEMMA TrainingAlone ==
  ASSUME TypeOK, NEW v \in Versions, NEW s \in Status \ {"ready"},
         models' = [models EXCEPT ![v].status = s]
  PROVE  Trained' = Trained /\ (ReadyIsTrained => ReadyIsTrained')
<1>1. \A w \in Versions : /\ models'[w].trained = models[w].trained
                          /\ models'[w].status = "ready" => models[w].status = "ready"
  BY DEF TypeOK, Row
<1>2. QED
  BY <1>1 DEF Trained, ReadyIsTrained

\* A model is trained when it takes over, and stays so.
LEMMA ActivateTrains ==
  ASSUME IInv, ReadyIsTrained, NEW t \in Trainers, Activate(t)
  PROVE  \E v \in Versions : /\ Active' = {v} /\ Trained' = Trained \cup {v}
                             /\ ReadyIsTrained'
<1> DEFINE v == train[t].version
<1>1. v \in Versions
  BY DEF IInv, TrainersOK, Activate, Trains
<1>2. models' = [w \in Versions |-> Activated(v, w)]
  BY DEF Activate
<1> HIDE DEF v
<1>3. \A w \in Versions : /\ Activated(v, w).active <=> w = v
                          /\ Activated(v, w).trained <=> w = v \/ models[w].trained
                          /\ Activated(v, w).status = "ready" => w = v \/ models[w].status = "ready"
  BY DEF IInv, TypeOK, Row, Activated
<1>4. Active' = {v}
  BY <1>1, <1>2, <1>3 DEF Active
<1>5. Trained' = Trained \cup {v}
  BY <1>1, <1>2, <1>3 DEF Trained
<1>6. ReadyIsTrained'
  BY <1>2, <1>3 DEF ReadyIsTrained
<1>7. QED
  BY <1>1, <1>4, <1>5, <1>6

\* Nothing but an activation changes which models were trained.
LEMMA TrainedStays ==
  ASSUME IInv, ReadyIsTrained, [Next]_vars, ~ \E t \in Trainers : Activate(t)
  PROVE  Trained' = Trained /\ ReadyIsTrained'
<1>1. CASE UNCHANGED models
  BY <1>1 DEF Trained, ReadyIsTrained
<1>2. CASE \E t \in Trainers, v \in Versions : BeginTraining(t, v)
  BY <1>1, <1>2, TrainingAlone DEF IInv, BeginTraining, Status
<1>3. CASE \E t \in Trainers : MarkFailed(t)
  <2>1. PICK t \in Trainers : MarkFailed(t)
    BY <1>3
  <2>2. train[t].version \in Versions /\ "failed" \in Status \ {"ready"}
    BY <2>1 DEF IInv, MarkFailed, TrainersOK, Trains, Status
  <2>3. QED
    BY <2>1, <2>2, TrainingAlone DEF IInv, MarkFailed
<1>4. QED
  BY <1>1, <1>2, <1>3
     DEF Next, TrainingStep, Fit, SetAside, Publish, PublishFails, TrainingFails, SeeFailure,
         MarkFails, CallStep, PickModel, BeginRun, NoModel, RefuseRun, Verify, LoadAndComplete, Answer, LinkKey,
         CallFails, FailureUnwritten, GivesUp,
         BeginCall, Crash, training, vars

\* A caller that is about to begin either was already, or has just picked a ready model.
LEMMA PicksStay ==
  ASSUME IInv, TrainedInv, [Next]_vars, Trained \subseteq Trained'
  PROVE  PicksWereTrained'
<1>1. ASSUME NEW c \in Callers, call'[c] = call[c], call'[c].at = "begin"
      PROVE  call'[c].version \in Trained'
  BY <1>1 DEF TrainedInv, PicksWereTrained
<1>2. CASE UNCHANGED call
  BY <1>1, <1>2 DEF PicksWereTrained
<1>3. ASSUME NEW c \in Callers, NEW x, call' = [call EXCEPT ![c] = x],
             x.at = "begin" => x.version \in Trained'
      PROVE  PicksWereTrained'
  BY <1>1, <1>3 DEF PicksWereTrained, IInv, TypeOK
<1>4. ASSUME NEW c \in Callers, NEW v \in Versions, PickModel(c, v)
      PROVE  PicksWereTrained'
  <2> DEFINE x == [at |-> "begin", version |-> v, run |-> 0, settings |-> 0]
  <2>1. v \in Trained
    BY <1>4 DEF PickModel, Serves, TrainedInv, ReadyIsTrained, Trained
  <2>2. call' = [call EXCEPT ![c] = x] /\ x.version = v
    BY <1>4, PickedCaller DEF PickModel
  <2> HIDE DEF x
  <2>3. QED
    BY <1>3, <2>1, <2>2
<1>5. ASSUME NEW c \in Callers, NEW a, call' = [call EXCEPT ![c].at = a], a # "begin"
      PROVE  PicksWereTrained'
  <2> DEFINE x == [call[c] EXCEPT !.at = a]
  <2>1. call' = [call EXCEPT ![c] = x] /\ x.at # "begin"
    BY <1>5 DEF IInv, TypeOK, Calling
  <2> HIDE DEF x
  <2>2. QED
    BY <1>3, <2>1
<1>6. ASSUME NEW c \in Callers, call' = [call EXCEPT ![c] = Quiet]
      PROVE  PicksWereTrained'
  BY <1>3, <1>6, QuietCalls
<1>7. ASSUME NEW c \in Callers, CallStep(c)
      PROVE  PicksWereTrained'
  <2>1. CASE BeginRun(c)
    BY <1>3, <2>1, BeginRunWrites
  <2>2. CASE Verify(c)
    <3> DEFINE x == [call[c] EXCEPT !.at = "load", !.settings = dir[call[c].version]]
    <3>1. call' = [call EXCEPT ![c] = x] /\ x.at = "load"
      BY <2>2 DEF Verify, IInv, TypeOK, Calling
    <3> HIDE DEF x
    <3>2. QED
      BY <1>3, <3>1
  <2>3. CASE NoModel(c) \/ LoadAndComplete(c) \/ Answer(c)
    BY <1>5, <1>6, <2>3 DEF NoModel, LoadAndComplete, Answer, Passes
  <2>4. CASE RefuseRun(c) \/ LinkKey(c) \/ CallFails(c) \/ FailureUnwritten(c) \/ GivesUp(c)
    BY <1>6, <2>4 DEF RefuseRun, LinkKey, CallFails, FailureUnwritten, GivesUp
  <2>5. QED
    BY <1>4, <1>7, <2>1, <2>2, <2>3, <2>4 DEF CallStep
<1>8. ASSUME NEW c \in Callers, BeginCall(c)
      PROVE  PicksWereTrained'
  BY <1>5, <1>8 DEF BeginCall, Passes
<1>9. CASE Crash
  BY <1>9, QuietCalls DEF Crash, PicksWereTrained
<1>10. QED
  BY <1>2, <1>7, <1>8, <1>9
     DEF Next, TrainingStep, BeginTraining, Fit, SetAside, Publish, PublishFails, Activate,
         TrainingFails, SeeFailure, MarkFailed, MarkFails, calling, vars

LEMMA TrainedInductive ==
  ASSUME IInv, TrainedInv, [Next]_vars
  PROVE  TrainedInv'
<1>1. Trained \subseteq Trained' /\ ReadyIsTrained'
  <2>1. CASE \E t \in Trainers : Activate(t)
    BY <2>1, ActivateTrains DEF TrainedInv
  <2>2. CASE ~ \E t \in Trainers : Activate(t)
    BY <2>2, TrainedStays DEF TrainedInv
  <2>3. QED
    BY <2>1, <2>2
<1>2. QED
  BY <1>1, PicksStay DEF TrainedInv

\* A caller changes no model.
LEMMA CallLeavesModels ==
  ASSUME UNCHANGED training
  PROVE  Active' = Active /\ Trained' = Trained
BY DEF training, Active, Trained

\* The run of a picked model is committed: the forecast begins, and the key's begins once.
LEMMA BeginRunBegins ==
  ASSUME IInv, TrainedInv, NEW c \in Callers, BeginRun(c)
  PROVE  \E v \in Versions : Ledger!Begin(v, c \in Keyed)
<1> DEFINE v == call[c].version
<1>1. runs' = Append(runs, Ledger!Forecast("running", v, c \in Keyed, 0, 0)) /\ v \in Versions
  BY BeginRunWrites
<1>2. Active' = Active /\ Trained' = Trained /\ key' = key
  BY CallLeavesModels DEF BeginRun
<1>3. c \in Keyed => Ledger!Unused
  BY KeyedRuns DEF IInv, Ledger!Unused, KeyIsHeld, Early, BeginRun, Calls
<1>4. v \in Trained
  BY DEF TrainedInv, PicksWereTrained, BeginRun, Calls
<1> HIDE DEF v
<1>5. Ledger!Begin(v, c \in Keyed)
  BY <1>1, <1>2, <1>3, <1>4 DEF Ledger!Begin
<1>6. QED
  BY <1>1, <1>5

\* A request without a model is refused; the key is linked to the run of the one that carries it.
LEMMA RefuseRunRefuses ==
  ASSUME IInv, NEW c \in Callers, RefuseRun(c)
  PROVE  Ledger!Refuse(c \in Keyed)
<1>1. Active' = Active /\ Trained' = Trained
  BY CallLeavesModels DEF RefuseRun
<1>2. c \in Keyed => Ledger!Unused
  BY KeyedRuns DEF IInv, Ledger!Unused, KeyIsHeld, Early, RefuseRun, Calls
<1>3. runs' = Append(runs, Ledger!Forecast("blocked", "none", c \in Keyed, 0, 0))
  BY RefuseRunWrites
<1>4. key'.run = IF c \in Keyed THEN Len(runs) + 1 ELSE key.run
  <2>1. key' = IF c \in Keyed THEN [key EXCEPT !.run = Len(runs) + 1] ELSE key
    BY DEF RefuseRun
  <2>2. key \in [registered : BOOLEAN, run : 0 .. Len(runs)]
    BY DEF IInv, TypeOK
  <2>3. QED
    BY <2>1, <2>2
<1>5. QED
  BY <1>1, <1>2, <1>3, <1>4 DEF Ledger!Refuse

\* A run is completed from the builds that the loader met.
LEMMA CompleteFinishes ==
  ASSUME IInv, RunsAreOwn, NEW c \in Callers, LoadAndComplete(c)
  PROVE  \E i \in DOMAIN runs : Ledger!Finish(i)
<1> DEFINE n == call[c].run
           settings == call[c].settings
           model == dir[call[c].version]
<1>1. Forecasting(c) /\ call[c].at = "load"
  BY DEF Forecasting, LoadAndComplete, Calls
<1>2. /\ n \in 1 .. Len(runs) /\ n \in DOMAIN runs /\ call[c].version \in Versions
      /\ call[c] \in Calling
  BY <1>1, KeyedRuns DEF IInv, CallersHaveRuns, TypeOK
<1>3. runs[n].status = "running" /\ settings # 0
  BY <1>1 DEF RunsAreOwn
<1>4. settings \in Nat \ {0} /\ model \in Nat \ {0}
  BY <1>2, <1>3, ForecastConstantsOK DEF IInv, TypeOK, Calling, LoadAndComplete
<1>5. Active' = Active /\ Trained' = Trained /\ key' = key /\ Ends(c, "completed", settings, model)
  BY CallLeavesModels DEF LoadAndComplete
<1> HIDE DEF settings, model
<1> DEFINE f == Ledger!Forecast("completed", runs[n].version, runs[n].keyed, settings, model)
<1>6. runs' = [runs EXCEPT ![n] = f] /\ runs'[n] = f
  BY <1>2, <1>5, EndedRun
<1>7. runs'[n].settings = settings /\ runs'[n].model = model
  BY <1>6 DEF Ledger!Forecast
<1> HIDE DEF n
<1>8. Ledger!Finish(n)
  BY <1>3, <1>4, <1>5, <1>6, <1>7 DEF Ledger!Finish, f
<1>9. QED
  BY <1>2, <1>8

\* The run that a failing caller overwrites is its own, which no key is linked to yet.
LEMMA CallFailsFails ==
  ASSUME IInv, RunsAreOwn, NEW c \in Callers, CallFails(c)
  PROVE  \E i \in DOMAIN runs : Ledger!Fail(i)
<1> DEFINE n == call[c].run
<1>1. Forecasting(c) /\ call[c].at # "quiet"
  BY DEF Forecasting, CallFails
<1>2. /\ n \in 1 .. Len(runs) /\ n \in DOMAIN runs /\ (runs[n].keyed <=> c \in Keyed)
      /\ n # 0
  BY <1>1, KeyedRuns DEF IInv, CallersHaveRuns
<1>3. runs[n].status \in {"running", "completed"}
  BY <1>1 DEF RunsAreOwn
<1>4. key.run # n
  BY <1>1, <1>2 DEF IInv, KeyIsHeld, KeyMakesOneRun
<1>5. Active' = Active /\ Trained' = Trained /\ key' = key /\ Ends(c, "failed", 0, 0)
  BY CallLeavesModels DEF CallFails
<1>6. runs' = [runs EXCEPT ![n] = Ledger!Forecast("failed", runs[n].version, runs[n].keyed, 0, 0)]
  BY <1>2, <1>5, EndedRun
<1> HIDE DEF n
<1>7. Ledger!Fail(n)
  BY <1>3, <1>4, <1>5, <1>6 DEF Ledger!Fail
<1>8. QED
  BY <1>2, <1>7

\* The key is linked by its one request, to the run that this request completed.
LEMMA LinkKeyLinks ==
  ASSUME IInv, NEW c \in Callers, LinkKey(c)
  PROVE  \E i \in DOMAIN runs : Ledger!Link(i)
<1> DEFINE n == call[c].run
<1>1. Forecasting(c) /\ call[c].at = "link"
  BY DEF Forecasting, LinkKey, Calls
<1>2. /\ n \in DOMAIN runs /\ c \in Keyed /\ runs[n].keyed /\ runs[n].status = "completed"
  BY <1>1, KeyedRuns DEF IInv, CallersHaveRuns
<1>3. key.run = 0
  BY <1>1, <1>2 DEF IInv, KeyIsHeld
<1>4. Active' = Active /\ Trained' = Trained /\ runs' = runs
  BY CallLeavesModels DEF LinkKey
<1>5. key'.run = n
  <2>1. key' = [key EXCEPT !.run = n] /\ key \in [registered : BOOLEAN, run : 0 .. Len(runs)]
    BY DEF LinkKey, IInv, TypeOK
  <2>2. QED
    BY <2>1
<1>6. Ledger!Link(n)
  BY <1>2, <1>3, <1>4, <1>5 DEF Ledger!Link
<1>7. QED
  BY <1>2, <1>6

\* Every step of a trainer or a caller is one operation of the ledger or none.
LEMMA ForecastStep ==
  ASSUME IInv, RunsAreOwn, TrainedInv, [Next]_vars
  PROVE  [Ledger!Next]_(Ledger!ledger)
<1>1. CASE \E t \in Trainers : Activate(t)
  <2>1. PICK v \in Versions : Active' = {v} /\ Trained' = Trained \cup {v}
    BY <1>1, ActivateTrains DEF TrainedInv
  <2>2. Ledger!Activate(v)
    BY <1>1, <2>1 DEF Ledger!Activate, Activate, calling
  <2>3. QED
    BY <2>2 DEF Ledger!Next
<1>2. CASE Active' = Active /\ Trained' = Trained /\ runs' = runs /\ key'.run = key.run
  BY <1>2 DEF Ledger!ledger
<1>3. ASSUME NEW c \in Callers, CallStep(c)
      PROVE  [Ledger!Next]_(Ledger!ledger)
  <2> (c \in Keyed) \in BOOLEAN
    OBVIOUS
  <2>1. CASE BeginRun(c)
    BY <2>1, BeginRunBegins DEF Ledger!Next
  <2>2. CASE RefuseRun(c)
    BY <2>2, RefuseRunRefuses DEF Ledger!Next
  <2>3. CASE LoadAndComplete(c)
    BY <2>3, CompleteFinishes DEF Ledger!Next
  <2>4. CASE CallFails(c)
    BY <2>4, CallFailsFails DEF Ledger!Next
  <2>5. CASE LinkKey(c)
    BY <2>5, LinkKeyLinks DEF Ledger!Next
  <2>6. CASE \/ \E v \in Versions : PickModel(c, v)
             \/ NoModel(c) \/ Verify(c) \/ Answer(c) \/ FailureUnwritten(c) \/ GivesUp(c)
    BY <1>2, <2>6, CallLeavesModels DEF PickModel, NoModel, Verify, Answer, FailureUnwritten, GivesUp
  <2>7. QED
    BY <1>3, <2>1, <2>2, <2>3, <2>4, <2>5, <2>6 DEF CallStep
<1>4. ASSUME NEW c \in Callers, BeginCall(c)
      PROVE  [Ledger!Next]_(Ledger!ledger)
  <2>1. Active' = Active /\ Trained' = Trained /\ runs' = runs
    BY <1>4, CallLeavesModels DEF BeginCall
  <2>2. key'.run = key.run
    BY <1>4 DEF IInv, TypeOK, BeginCall
  <2>3. QED
    BY <1>2, <2>1, <2>2
<1>5. CASE ~ (\E t \in Trainers : Activate(t)) /\ UNCHANGED <<runs, key>>
  BY <1>2, <1>5, RowsStayActive, TrainedStays DEF TrainedInv
<1>6. QED
  BY <1>1, <1>3, <1>4, <1>5
     DEF Next, TrainingStep, BeginTraining, Fit, SetAside, Publish, PublishFails,
         TrainingFails, SeeFailure, MarkFailed, MarkFails, Crash, calling, vars

LEMMA ForecastInit == Init => RunsAreOwn /\ TrainedInv /\ Ledger!Init
BY DEF Init, RunsAreOwn, Forecasting, Quiet, Active, Trained, TrainedInv, ReadyIsTrained,
       PicksWereTrained, Ledger!Init

\* For every number of models, trainings, forecasts and crashes, trainings and forecasts implement
\* the ledger: every step is one of its operations or none, so one model takes over from another
\* in one step, a forecast begins only with a model that once took over, the key's begins once, and
\* once the key is linked to it neither the link nor that forecast changes.
THEOREM TrainingsAndForecastsImplementLedger == Spec => ImplementsForecastLedger
<1>1. RunsAreOwn /\ IInv /\ [Next]_vars => RunsAreOwn'
  BY OwnRunsInductive
<1>2. TrainedInv /\ IInv /\ [Next]_vars => TrainedInv'
  BY TrainedInductive
<1>3. RunsAreOwn /\ TrainedInv /\ IInv /\ [Next]_vars => [Ledger!Next]_(Ledger!ledger)
  BY ForecastStep
<1>4. Spec => Ledger!Spec
  BY <1>1, <1>2, <1>3, ForecastInit, Invariance, PTL DEF Spec, Ledger!Spec
<1>5. QED
  BY <1>4 DEF ImplementsForecastLedger

-----------------------------------------------------------------------------
\* ConstraintVersions.

From(i) == versions[i].from

\* The parts of the inductive invariant.  Dates never go back from one version to any later one.
DatesOrdered == \A i, j \in 1 .. Latest : i < j => From(i) <= From(j)

\* A version is replaced exactly when the next one starts on its day.
ReplacedOnSameDay ==
  \A i \in 1 .. Latest : i < Latest => (versions[i].replaced <=> From(i) = From(i + 1))

\* What the next request will find: the latest version is not replaced, and inactive only when
\* somebody deactivated it.
LatestIsOpen ==
  Latest > 0 => /\ ~ versions[Latest].replaced
                /\ versions[Latest].active \/ versions[Latest].deactivated

\* An older version was deactivated or replaced, or it ended before the next one started.
OlderIsClosed ==
  \A i \in 1 .. Latest : i < Latest =>
    versions[i].deactivated \/ versions[i].replaced \/ versions[i].end < From(i + 1)

\* What a request without a key knows stays true: its version is there and starts no later than
\* the day it asks for, and only a deactivation or a newer version changes the end it loaded.
ClientsKnow ==
  \A c \in Clients : client[c].asks # "nothing" =>
    /\ client[c].at \in 1 .. Latest
    /\ From(client[c].at) <= client[c].day
    /\ client[c].at < Latest \/ versions[client[c].at].deactivated
         \/ client[c].end = versions[client[c].at].end

VersionsInv == DatesOrdered /\ ReplacedOnSameDay /\ LatestAloneIsActive /\ LatestIsOpen /\ OlderIsClosed

ConstraintInv == ConstraintTypeOK /\ VersionsInv /\ ClientsKnow

-----------------------------------------------------------------------------
\* A version is a record of its five fields.
LEMMA FreshFields ==
  ASSUME NEW day \in Days, NEW end \in EndDays
  PROVE  /\ Fresh(day, end) \in Version
         /\ Fresh(day, end).from = day /\ ~ Fresh(day, end).replaced /\ Fresh(day, end).active
BY DEF Fresh, Version

LEMMA NoEndIsEnd == NoEnd \in EndDays
BY ConstraintConstantsOK DEF NoEnd, EndDays

\* What an update leaves of the version it follows.
LEMMA ClosedFields ==
  ASSUME NEW v \in Version, NEW end \in EndDays, NEW day \in Days, v.from <= day, ~ v.replaced
  PROVE  /\ Closed(v, end, day) \in Version
         /\ Closed(v, end, day).from = v.from /\ ~ Closed(v, end, day).active
         /\ Closed(v, end, day).replaced <=> v.from = day
         /\ Closed(v, end, day).deactivated = v.deactivated
         /\ end = v.end => Closed(v, end, day).replaced \/ Closed(v, end, day).end < day
<1>1. CASE day = v.from
  <2>1. Closed(v, end, day) = [v EXCEPT !.active = FALSE, !.replaced = TRUE]
    BY <1>1 DEF Closed
  <2>2. /\ Closed(v, end, day) \in Version
        /\ Closed(v, end, day).from = v.from /\ ~ Closed(v, end, day).active
        /\ Closed(v, end, day).replaced
        /\ Closed(v, end, day).deactivated = v.deactivated
    BY <2>1 DEF Version
  <2>3. QED
    BY <1>1, <2>2
<1>2. CASE day # v.from
  <2> DEFINE e == IF end = day - 1 THEN v.end ELSE day - 1
  <2>1. day \in Int /\ v.from \in Int /\ v.from >= 1 /\ day <= LastDay
    BY ConstraintConstantsOK DEF Version, Days
  <2>2. e \in EndDays
    BY <1>2, <2>1, ConstraintConstantsOK DEF Version, EndDays, NoEnd
  <2>3. Closed(v, end, day) = [v EXCEPT !.active = FALSE, !.end = e]
    BY <1>2 DEF Closed
  <2> HIDE DEF e
  <2>4. /\ Closed(v, end, day) \in Version /\ Closed(v, end, day).end = e
        /\ Closed(v, end, day).from = v.from /\ ~ Closed(v, end, day).active
        /\ ~ Closed(v, end, day).replaced
        /\ Closed(v, end, day).deactivated = v.deactivated
    BY <2>2, <2>3 DEF Version
  <2>5. end = v.end => e < day
    BY <2>1 DEF e
  <2>6. QED
    BY <1>2, <2>4, <2>5
<1>3. QED
  BY <1>1, <1>2

\* What an import leaves of it.
LEMMA ShortenedFields ==
  ASSUME NEW v \in Version, NEW day \in Days, v.from < day, v.active \/ v.deactivated
  PROVE  /\ Shortened(v, day) \in Version
         /\ Shortened(v, day).from = v.from /\ ~ Shortened(v, day).active
         /\ Shortened(v, day).replaced = v.replaced
         /\ Shortened(v, day).deactivated \/ Shortened(v, day).end < day
<1> DEFINE e == IF v.end >= day THEN day - 1 ELSE v.end
<1>1. e \in EndDays /\ e < day
  BY ConstraintConstantsOK DEF Version, Days, EndDays, NoEnd
<1>2. CASE v.active
  <2>1. Shortened(v, day) = [v EXCEPT !.active = FALSE, !.end = e]
    BY <1>2 DEF Shortened
  <2> HIDE DEF e
  <2>2. QED
    BY <1>1, <2>1 DEF Version
<1>3. CASE ~ v.active
  BY <1>3 DEF Shortened
<1>4. QED
  BY <1>2, <1>3

\* The first version of a family.
LEMMA FirstVersion ==
  ASSUME ConstraintTypeOK, Latest = 0, NEW day \in Days, NEW end \in EndDays,
         versions' = <<Fresh(day, end)>>
  PROVE  versions' \in Seq(Version) /\ VersionsInv'
<1>1. Len(versions') = 1 /\ versions'[1] = Fresh(day, end) /\ versions' \in Seq(Version)
  BY FreshFields
<1>2. QED
  BY <1>1, FreshFields DEF VersionsInv, DatesOrdered, ReplacedOnSameDay, LatestAloneIsActive,
     LatestIsOpen, OlderIsClosed, Latest, From

\* A version w in the latest one's place, and one that follows it.
LEMMA NextVersion ==
  ASSUME ConstraintTypeOK, VersionsInv, Latest > 0,
         NEW w \in Version, NEW day \in Days, NEW end \in EndDays,
         w.from = From(Latest), From(Latest) <= day, ~ w.active,
         w.replaced <=> From(Latest) = day,
         w.deactivated \/ w.replaced \/ w.end < day,
         versions' = Append([versions EXCEPT ![Latest] = w], Fresh(day, end))
  PROVE  /\ versions' \in Seq(Version) /\ VersionsInv'
         /\ Latest' = Latest + 1
         /\ \A i \in 1 .. Latest : From(i)' = From(i)
<1>n. PICK n : n = Latest
  OBVIOUS
<1>0. n \in Nat \ {0} /\ versions \in [1 .. n -> Version] /\ versions \in Seq(Version) /\ n = Len(versions)
  BY <1>n DEF ConstraintTypeOK, Latest
<1> DEFINE old == [versions EXCEPT ![n] = w]
           new == Fresh(day, end)
<1>a. /\ old \in Seq(Version) /\ Len(old) = n /\ old[n] = w
      /\ \A i \in 1 .. n : i # n => old[i] = versions[i]
  <2>1. n \in 1 .. Len(versions)
    BY <1>0
  <2>2. /\ old \in Seq(Version) /\ Len(old) = Len(versions)
        /\ \A j \in 1 .. Len(versions) : old[j] = IF j = n THEN w ELSE versions[j]
    BY <1>0, <2>1, ExceptSeq
  <2>3. QED
    BY <1>0, <2>1, <2>2
<1>b. new \in Version
  BY FreshFields
<1> HIDE DEF new, old
<1>c. versions' = Append(old, new)
  BY <1>n DEF new, old
<1>r. PICK r : r = Append(old, new)
  OBVIOUS
<1>d. /\ r \in Seq(Version) /\ Len(r) = n + 1
      /\ r[n + 1] = new /\ r[n] = w
      /\ \A i \in 1 .. n : i # n => r[i] = versions[i]
  <2>1. /\ r \in Seq(Version) /\ Len(r) = Len(old) + 1
        /\ \A i \in 1 .. Len(old) : r[i] = old[i]
        /\ r[Len(old) + 1] = new
    BY <1>a, <1>b, <1>r, AppendProperties
  <2>a. n \in Nat \ {0}
    BY <1>0, Zenon
  <2>b. n \in 1 .. n
    BY <2>a
  <2>2. Len(old) = n /\ n \in 1 .. n
    BY <1>a, <2>b, Zenon
  <2>3. r[n + 1] = new /\ Len(r) = n + 1
    BY <2>1, <2>2, Zenon
  <2>4. \A i \in 1 .. n : r[i] = old[i]
    BY <2>1, <2>2, Zenon
  <2>5. QED
    BY <1>a, <2>1, <2>2, <2>3, <2>4, Zenon
<1>1. /\ versions' \in Seq(Version) /\ Latest' = n + 1
      /\ versions'[n + 1] = Fresh(day, end) /\ versions'[n] = w
      /\ \A i \in 1 .. n : i # n => versions'[i] = versions[i]
  BY <1>c, <1>d, <1>r DEF Latest, new
<1>2. \A i \in 1 .. n : From(i)' = From(i)
  BY <1>n, <1>0, <1>1 DEF From
<1>3. From(n + 1)' = day
  BY <1>1, FreshFields DEF From
<1>4. \A i \in 1 .. n : From(i) <= From(n) /\ From(i) \in Days
  BY <1>n, <1>0 DEF VersionsInv, DatesOrdered, From, Version, Days
<1>5. DatesOrdered'
  BY <1>n, <1>0, <1>1, <1>2, <1>3, <1>4 DEF VersionsInv, DatesOrdered, Days
<1>6. ReplacedOnSameDay'
  BY <1>n, <1>0, <1>1, <1>2, <1>3 DEF VersionsInv, ReplacedOnSameDay
<1>7. LatestAloneIsActive'
  BY <1>n, <1>0, <1>1 DEF VersionsInv, LatestAloneIsActive
<1>8. LatestIsOpen'
  BY <1>0, <1>1, FreshFields DEF LatestIsOpen
<1>9. OlderIsClosed'
  BY <1>n, <1>0, <1>1, <1>2, <1>3 DEF VersionsInv, OlderIsClosed
<1>10. QED
  BY <1>n, <1>1, <1>2, <1>5, <1>6, <1>7, <1>8, <1>9 DEF VersionsInv

\* A deactivation changes nothing but the end and the two flags of one version.
LEMMA Deactivated ==
  ASSUME ConstraintTypeOK, VersionsInv, NEW i \in 1 .. Latest, NEW loaded \in EndDays, NEW end \in EndDays,
         CloseAt(i, loaded, end)
  PROVE  /\ versions' \in Seq(Version) /\ VersionsInv' /\ Latest' = Latest
         /\ \A j \in 1 .. Latest : From(j)' = From(j)
         /\ versions'[i].deactivated
         /\ \A j \in 1 .. Latest : j # i => versions'[j] = versions[j]
<1> DEFINE v == versions[i]
           e == IF end = loaded THEN v.end ELSE end
           w == [[[v EXCEPT !.active = FALSE] EXCEPT !.end = e] EXCEPT !.deactivated = TRUE]
<1>0. versions \in Seq(Version) /\ v \in Version
  BY DEF ConstraintTypeOK, Latest
<1>1. versions' = [versions EXCEPT ![i] = w]
  <2>1. versions' = [[[versions EXCEPT ![i].active = FALSE] EXCEPT ![i].end = e] EXCEPT ![i].deactivated = TRUE]
    BY <1>0 DEF CloseAt, Version, Latest
  <2>2. QED
    BY <1>0, <2>1 DEF Version, Latest
<1>2. /\ w \in Version /\ w.from = versions[i].from /\ w.replaced = versions[i].replaced
      /\ ~ w.active /\ w.deactivated
  BY <1>0 DEF Version
<1> HIDE DEF w
<1>3. /\ versions' \in Seq(Version) /\ Latest' = Latest /\ versions'[i] = w
      /\ \A j \in 1 .. Latest : j # i => versions'[j] = versions[j]
  BY <1>0, <1>1, <1>2 DEF Latest
<1>4. \A j \in 1 .. Latest : /\ From(j)' = From(j) /\ versions'[j].replaced = versions[j].replaced
                             /\ versions'[j].active => versions[j].active
                             /\ versions[j].deactivated => versions'[j].deactivated
                             /\ ~ versions'[j].deactivated => versions'[j] = versions[j]
  BY <1>2, <1>3 DEF From
<1>5. DatesOrdered' /\ ReplacedOnSameDay' /\ LatestAloneIsActive'
  <2>1. Latest \in Nat
    BY <1>0 DEF Latest
  <2>2. DatesOrdered'
    BY <1>3, <1>4, <2>1 DEF VersionsInv, DatesOrdered
  <2>3. ReplacedOnSameDay'
    BY <1>3, <1>4, <2>1 DEF VersionsInv, ReplacedOnSameDay
  <2>4. LatestAloneIsActive'
    BY <1>3, <1>4, <2>1 DEF VersionsInv, LatestAloneIsActive
  <2>5. QED
    BY <2>2, <2>3, <2>4
<1>6. LatestIsOpen'
  BY <1>0, <1>2, <1>3 DEF VersionsInv, LatestIsOpen, Latest
<1>7. OlderIsClosed'
  BY <1>0, <1>3, <1>4 DEF VersionsInv, OlderIsClosed, Latest
<1>8. QED
  BY <1>2, <1>3, <1>4, <1>5, <1>6, <1>7 DEF VersionsInv

-----------------------------------------------------------------------------
\* What a request without a key knows survives a version that is added.
LEMMA ClientsSeeNextVersion ==
  ASSUME ConstraintTypeOK, ClientsKnow, Latest' = Latest + 1, client' \in [Clients -> Asking],
         \A i \in 1 .. Latest : From(i)' = From(i),
         \A c \in Clients : client'[c] = client[c] \/ client'[c].asks = "nothing"
  PROVE  ClientsKnow'
<1> SUFFICES ASSUME NEW c \in Clients, client'[c].asks # "nothing"
             PROVE  /\ client'[c].at \in 1 .. Latest'
                    /\ versions'[client'[c].at].from <= client'[c].day
                    /\ client'[c].at < Latest'
  BY DEF ClientsKnow, From
<1>1. client'[c] = client[c]
  OBVIOUS
<1>2. client[c].at \in 1 .. Latest /\ From(client[c].at) <= client[c].day
  BY <1>1 DEF ClientsKnow
<1>3. Latest \in Nat
  BY DEF ConstraintTypeOK, Latest
<1>5. versions'[client'[c].at].from <= client'[c].day
  <2>1. PICK i : i = client[c].at
    OBVIOUS
  <2>2. From(i)' = From(i) /\ From(i) <= client[c].day /\ client'[c].at = i
    BY <1>1, <1>2, <2>1
  <2>3. QED
    BY <1>1, <1>2, <2>1, <2>2 DEF From
<1>6. QED
  BY <1>1, <1>2, <1>3, <1>5

\* ... and a deactivation.
LEMMA ClientsSeeDeactivation ==
  ASSUME ConstraintTypeOK, VersionsInv, ClientsKnow, NEW i \in 1 .. Latest, NEW loaded \in EndDays, NEW end \in EndDays,
         CloseAt(i, loaded, end),
         \A c \in Clients : client'[c] = client[c] \/ client'[c].asks = "nothing"
  PROVE  ClientsKnow'
<1>0. /\ Latest' = Latest /\ \A j \in 1 .. Latest : From(j)' = From(j)
      /\ versions'[i].deactivated
      /\ \A j \in 1 .. Latest : j # i => versions'[j] = versions[j]
  BY Deactivated
<1> SUFFICES ASSUME NEW c \in Clients, client'[c].asks # "nothing"
             PROVE  /\ client'[c].at \in 1 .. Latest'
                    /\ versions'[client'[c].at].from <= client'[c].day
                    /\ client'[c].at < Latest' \/ versions'[client'[c].at].deactivated
                         \/ client'[c].end = versions'[client'[c].at].end
  BY DEF ClientsKnow, From
<1>1. client'[c] = client[c]
  OBVIOUS
<1>2. PICK n : n = client'[c].at
  OBVIOUS
<1>3. /\ n \in 1 .. Latest /\ From(n) <= client'[c].day
      /\ n < Latest \/ versions[n].deactivated \/ client'[c].end = versions[n].end
  BY <1>1, <1>2 DEF ClientsKnow
<1>5. versions'[client'[c].at].from <= client'[c].day
  BY <1>0, <1>2, <1>3 DEF From
<1>6. QED
  BY <1>0, <1>2, <1>3, <1>5

\* Nothing is known of a family nobody has seen.
LEMMA ConstraintInitially == ConstraintInit => ConstraintInv
<1> SUFFICES ASSUME ConstraintInit PROVE ConstraintInv
  OBVIOUS
<1>1. ConstraintTypeOK
  BY NoEndIsEnd, ConstraintConstantsOK DEF ConstraintInit, ConstraintTypeOK, Resting, Asking, Days
<1>2. VersionsInv /\ ClientsKnow
  BY DEF ConstraintInit, VersionsInv, DatesOrdered, ReplacedOnSameDay, LatestAloneIsActive, LatestIsOpen,
     OlderIsClosed, ClientsKnow, Latest, Resting
<1>3. QED
  BY <1>1, <1>2 DEF ConstraintInv

\* PATCH, keyed or late, on the latest version.
LEMMA FollowByKeeps ==
  ASSUME ConstraintTypeOK, VersionsInv, NEW i \in 1 .. Latest, NEW end \in EndDays, NEW day \in Days,
         From(i) <= day, i < Latest \/ versions[i].deactivated \/ end = versions[i].end,
         FollowBy(i, end, day)
  PROVE  /\ versions' \in Seq(Version) /\ VersionsInv' /\ Latest' = Latest + 1
         /\ \A j \in 1 .. Latest : From(j)' = From(j)
<1> DEFINE w == Closed(versions[i], end, day)
<1>1. i = Latest /\ Latest > 0 /\ versions[i] \in Version /\ ~ versions[i].replaced
  BY DEF FollowBy, Inserts, VersionsInv, LatestIsOpen, ConstraintTypeOK, Latest
<1>2. /\ w \in Version /\ w.from = versions[i].from /\ ~ w.active
      /\ w.replaced <=> versions[i].from = day
      /\ w.deactivated = versions[i].deactivated
      /\ end = versions[i].end => w.replaced \/ w.end < day
  BY <1>1, ClosedFields DEF From
<1>3. versions' = Append([versions EXCEPT ![Latest] = w], Fresh(day, NoEnd))
  BY <1>1 DEF FollowBy
<1>4. w.deactivated \/ w.replaced \/ w.end < day
  BY <1>1, <1>2
<1> HIDE DEF w
<1>5. QED
  BY <1>1, <1>2, <1>3, <1>4, NextVersion, NoEndIsEnd DEF From

LEMMA ImportRowKeeps ==
  ASSUME ConstraintInv, NEW day \in Days, NEW end \in EndDays, ImportRow(day, end)
  PROVE  ConstraintInv'
<1>1. client' = client /\ planned' = planned
  BY DEF ImportRow
<1>2. CASE Latest = 0
  <2>1. versions' = <<Fresh(day, end)>>
    BY <1>2 DEF ImportRow, ConstraintInv, ConstraintTypeOK, Latest
  <2>2. versions' \in Seq(Version) /\ VersionsInv'
    BY <1>2, <2>1, FirstVersion DEF ConstraintInv
  <2>3. ClientsKnow'
    BY <1>1, <1>2 DEF ConstraintInv, ClientsKnow
  <2>4. QED
    BY <1>1, <2>2, <2>3 DEF ConstraintInv, ConstraintTypeOK
<1>3. CASE Latest # 0
  <2> DEFINE v == versions[Latest]
             w == Shortened(v, day)
  <2>1. Latest > 0 /\ v \in Version /\ v.from < day /\ ~ v.replaced /\ (v.active \/ v.deactivated)
    BY <1>3 DEF ImportRow, StartsLater, ConstraintInv, VersionsInv, LatestIsOpen, ConstraintTypeOK, Latest
  <2>2. /\ w \in Version /\ w.from = v.from /\ ~ w.active /\ w.replaced = v.replaced
        /\ w.deactivated \/ w.end < day
    BY <2>1, ShortenedFields
  <2>3. versions' = Append([versions EXCEPT ![Latest] = w], Fresh(day, end))
    BY <1>3 DEF ImportRow
  <2>4. day \in Int /\ v.from \in Int
    BY <2>1 DEF Version, Days
  <2>5. w.from = From(Latest) /\ From(Latest) <= day /\ (w.replaced <=> From(Latest) = day)
    BY <2>1, <2>2, <2>4 DEF From
  <2> HIDE DEF w
  <2>6. /\ versions' \in Seq(Version) /\ VersionsInv' /\ Latest' = Latest + 1
        /\ \A i \in 1 .. Latest : From(i)' = From(i)
    BY <2>1, <2>2, <2>3, <2>5, NextVersion DEF ConstraintInv
  <2>7. ClientsKnow'
    BY <1>1, <2>6, ClientsSeeNextVersion DEF ConstraintInv, ConstraintTypeOK
  <2>8. QED
    BY <1>1, <2>6, <2>7 DEF ConstraintInv, ConstraintTypeOK
<1>4. QED
  BY <1>2, <1>3

LEMMA UpdateKeeps ==
  ASSUME ConstraintInv, NEW i \in 1 .. Latest, NEW end \in EndDays, NEW day \in Days,
         From(i) <= day, i < Latest \/ versions[i].deactivated \/ end = versions[i].end,
         FollowBy(i, end, day), planned' = planned, client' \in [Clients -> Asking],
         \A c \in Clients : client'[c] = client[c] \/ client'[c].asks = "nothing"
  PROVE  ConstraintInv'
<1>1. /\ versions' \in Seq(Version) /\ VersionsInv' /\ Latest' = Latest + 1
      /\ \A j \in 1 .. Latest : From(j)' = From(j)
  BY FollowByKeeps DEF ConstraintInv
<1>2. ClientsKnow'
  BY <1>1, ClientsSeeNextVersion DEF ConstraintInv
<1>3. QED
  BY <1>1, <1>2 DEF ConstraintInv, ConstraintTypeOK

LEMMA DeactivateKeeps ==
  ASSUME ConstraintInv, NEW i \in 1 .. Latest, NEW loaded \in EndDays, NEW end \in EndDays,
         CloseAt(i, loaded, end), planned' = planned, client' \in [Clients -> Asking],
         \A c \in Clients : client'[c] = client[c] \/ client'[c].asks = "nothing"
  PROVE  ConstraintInv'
<1>1. versions' \in Seq(Version) /\ VersionsInv'
  BY Deactivated DEF ConstraintInv
<1>2. ClientsKnow'
  BY ClientsSeeDeactivation DEF ConstraintInv
<1>3. QED
  BY <1>1, <1>2 DEF ConstraintInv, ConstraintTypeOK

\* A request without a key reads, or is answered: the versions stay.
LEMMA ReadingKeeps ==
  ASSUME ConstraintInv, UNCHANGED <<versions, planned>>, client' \in [Clients -> Asking], ClientsKnow'
  PROVE  ConstraintInv'
BY DEF ConstraintInv, ConstraintTypeOK, VersionsInv, DatesOrdered, ReplacedOnSameDay, LatestAloneIsActive, LatestIsOpen,
   OlderIsClosed, From, Latest

\* Every step keeps the invariant.
LEMMA ConstraintInductive == ConstraintInv /\ [ConstraintNext]_constraintVars => ConstraintInv'
<1> SUFFICES ASSUME ConstraintInv, [ConstraintNext]_constraintVars PROVE ConstraintInv'
  OBVIOUS
<1> USE DEF ConstraintInv
<1>0. /\ versions \in Seq(Version) /\ client \in [Clients -> Asking] /\ Resting \in Asking
      /\ Latest \in Nat /\ \A i \in 1 .. Latest : versions[i] \in Version
  BY NoEndIsEnd, ConstraintConstantsOK DEF ConstraintTypeOK, Latest, Resting, Asking, Days
<1>1. ASSUME NEW day \in Days, PlanCompletes(day) PROVE ConstraintInv'
  BY <1>1 DEF PlanCompletes, ConstraintTypeOK, VersionsInv, DatesOrdered, ReplacedOnSameDay, LatestAloneIsActive,
     LatestIsOpen, OlderIsClosed, ClientsKnow, From, Latest
<1>2. ASSUME NEW day \in Days, Create(day) PROVE ConstraintInv'
  <2>1. versions' \in Seq(Version) /\ VersionsInv'
    BY <1>2, FirstVersion, NoEndIsEnd DEF Create
  <2>2. ClientsKnow'
    BY <1>2 DEF Create, ClientsKnow
  <2>3. QED
    BY <1>2, <2>1, <2>2 DEF Create, ConstraintTypeOK
<1>3. ASSUME NEW day \in Days, Update(day) PROVE ConstraintInv'
  <2>1. Latest \in 1 .. Latest /\ From(Latest) <= day /\ versions[Latest].end \in EndDays
    BY <1>0, <1>3 DEF Update, MayUpdate, From, Version
  <2>2. QED
    BY <1>0, <1>3, <2>1, UpdateKeeps DEF Update
<1>4. ASSUME NEW day \in Days, Deactivate(day) PROVE ConstraintInv'
  <2>1. Latest \in 1 .. Latest /\ versions[Latest].end \in EndDays /\ day \in EndDays
    BY <1>0, <1>4, ConstraintConstantsOK DEF Deactivate, MayDeactivate, Version, Days, EndDays, NoEnd
  <2>2. QED
    BY <1>0, <1>4, <2>1, DeactivateKeeps DEF Deactivate
<1>5. ASSUME NEW day \in Days, NEW end \in EndDays, ImportRow(day, end) PROVE ConstraintInv'
  BY <1>5, ImportRowKeeps
<1>6. ASSUME NEW day \in Days, NEW c \in Clients, ReadToUpdate(c, day) PROVE ConstraintInv'
  <2> DEFINE a == [asks |-> "update", at |-> Latest, end |-> versions[Latest].end, day |-> day]
  <2>1. /\ Latest \in 1 .. Latest /\ From(Latest) <= day /\ a \in Asking
        /\ client' = [client EXCEPT ![c] = a] /\ UNCHANGED <<versions, planned>>
    BY <1>0, <1>6 DEF ReadToUpdate, MayUpdate, From, Version, Asking
  <2>2. ClientsKnow'
    BY <1>0, <2>1 DEF ClientsKnow, From, Latest
  <2>3. QED
    BY <1>0, <2>1, <2>2, ReadingKeeps
<1>7. ASSUME NEW day \in Days, NEW c \in Clients, ReadToDeactivate(c, day) PROVE ConstraintInv'
  <2> DEFINE a == [asks |-> "deactivate", at |-> Latest, end |-> versions[Latest].end, day |-> day]
  <2>1. /\ Latest \in 1 .. Latest /\ From(Latest) <= day /\ a \in Asking
        /\ client' = [client EXCEPT ![c] = a] /\ UNCHANGED <<versions, planned>>
    BY <1>0, <1>7 DEF ReadToDeactivate, MayDeactivate, From, Version, Asking
  <2>2. ClientsKnow'
    BY <1>0, <2>1 DEF ClientsKnow, From, Latest
  <2>3. QED
    BY <1>0, <2>1, <2>2, ReadingKeeps
<1>8. ASSUME NEW c \in Clients, LateUpdate(c) PROVE ConstraintInv'
  <2>1. PICK i, end, day : i = client[c].at /\ end = client[c].end /\ day = client[c].day
    OBVIOUS
  <2>2. /\ i \in 1 .. Latest /\ end \in EndDays /\ day \in Days /\ From(i) <= day
        /\ i < Latest \/ versions[i].deactivated \/ end = versions[i].end
    BY <1>0, <1>8, <2>1 DEF LateUpdate, ClientsKnow, Asking
  <2>3. FollowBy(i, end, day) /\ planned' = planned /\ client' = [client EXCEPT ![c] = Resting]
    BY <1>8, <2>1 DEF LateUpdate
  <2>4. QED
    BY <1>0, <2>2, <2>3, UpdateKeeps DEF Resting
<1>9. ASSUME NEW c \in Clients, LateDeactivate(c) PROVE ConstraintInv'
  <2>1. PICK i, end, day : i = client[c].at /\ end = client[c].end /\ day = client[c].day
    OBVIOUS
  <2>2. i \in 1 .. Latest /\ end \in EndDays /\ day \in EndDays
    BY <1>0, <1>9, <2>1, ConstraintConstantsOK DEF LateDeactivate, ClientsKnow, Asking, Days, EndDays, NoEnd
  <2>3. CloseAt(i, end, day) /\ planned' = planned /\ client' = [client EXCEPT ![c] = Resting]
    BY <1>9, <2>1 DEF LateDeactivate
  <2>4. QED
    BY <1>0, <2>2, <2>3, DeactivateKeeps DEF Resting
<1>10. ASSUME NEW c \in Clients, GiveUp(c) PROVE ConstraintInv'
  <2>1. client' = [client EXCEPT ![c] = Resting] /\ UNCHANGED <<versions, planned>>
    BY <1>10 DEF GiveUp
  <2>2. ClientsKnow'
    BY <1>0, <2>1 DEF ClientsKnow, From, Latest, Resting
  <2>3. QED
    BY <1>0, <2>1, <2>2, ReadingKeeps
<1>11. CASE UNCHANGED constraintVars
  <2>1. ClientsKnow'
    BY <1>11 DEF constraintVars, ClientsKnow, From, Latest
  <2>2. QED
    BY <1>0, <1>11, <2>1, ReadingKeeps DEF constraintVars
<1>12. QED
  BY <1>1, <1>2, <1>3, <1>4, <1>5, <1>6, <1>7, <1>8, <1>9, <1>10, <1>11 DEF ConstraintNext

-----------------------------------------------------------------------------
LEMMA ConstraintInvariance == ConstraintSpec => []ConstraintInv
<1>1. QED
  BY ConstraintInitially, ConstraintInductive, PTL DEF ConstraintSpec

\* The rows of a family, and what requests hold of them, have their types.
THEOREM ConstraintsTyped == ConstraintSpec => []ConstraintTypeOK
<1>1. ConstraintInv => ConstraintTypeOK
  BY DEF ConstraintInv
<1>2. QED
  BY <1>1, ConstraintInvariance, PTL

\* Versions follow their dates: create, update, deactivate and imports, with or without a key, in
\* any interleaving, leave no version that starts before an older one.
THEOREM VersionsFollowDates == ConstraintSpec => []DatesFollowVersions
<1>1. ConstraintInv => DatesFollowVersions
  <2> SUFFICES ASSUME ConstraintInv, NEW i \in 1 .. Latest - 1
               PROVE  /\ versions[i].from <= versions[i + 1].from
                      /\ versions[i].replaced <=> versions[i].from = versions[i + 1].from
    BY DEF DatesFollowVersions
  <2>1. Latest \in Nat /\ i \in 1 .. Latest /\ i + 1 \in 1 .. Latest /\ i < i + 1 /\ i < Latest
    BY DEF ConstraintInv, ConstraintTypeOK, Latest
  <2>2. QED
    BY <2>1 DEF ConstraintInv, VersionsInv, DatesOrdered, ReplacedOnSameDay, From
<1>2. QED
  BY <1>1, ConstraintInvariance, PTL

\* What _persist_business_constraints relies on when it closes the latest version alone: no older
\* one is active.
THEOREM OnlyTheLatestIsActive == ConstraintSpec => []LatestAloneIsActive
<1>1. ConstraintInv => LatestAloneIsActive
  BY DEF ConstraintInv, VersionsInv
<1>2. QED
  BY <1>1, ConstraintInvariance, PTL

\* Two versions in force on one day, which stops every plan of that day, take a deactivation of the
\* earlier one.
THEOREM OverlapsAreDeactivations == ConstraintSpec => []OverlapsComeFromDeactivations
<1>1. ConstraintInv => OverlapsComeFromDeactivations
  <2> SUFFICES ASSUME ConstraintInv, NEW i \in 1 .. Latest, NEW j \in 1 .. Latest, i < j,
                      NEW day \in Days, i \in InForce(day), j \in InForce(day)
               PROVE  versions[i].deactivated
    BY DEF OverlapsComeFromDeactivations
  <2>1. /\ Latest \in Nat /\ i < Latest /\ i + 1 \in 1 .. Latest
        /\ versions[i] \in Version /\ versions[j] \in Version /\ versions[i + 1] \in Version
    BY DEF ConstraintInv, ConstraintTypeOK, Latest
  <2>2. ~ versions[i].replaced /\ day <= versions[i].end /\ From(j) <= day
    BY DEF InForce, From
  <2>3. From(i + 1) <= From(j)
    <3>1. CASE j = i + 1
      BY <2>1, <3>1 DEF From, Version, Days
    <3>2. CASE j # i + 1
      BY <2>1, <3>2 DEF ConstraintInv, VersionsInv, DatesOrdered
    <3>3. QED
      BY <3>1, <3>2
  <2>4. versions[i].deactivated \/ versions[i].end < From(i + 1)
    BY <2>1, <2>2 DEF ConstraintInv, VersionsInv, OlderIsClosed
  <2>5. QED
    BY <2>1, <2>2, <2>3, <2>4 DEF From, Version, Days, EndDays
<1>2. QED
  BY <1>1, ConstraintInvariance, PTL
==============================================================================
