----------------------------- MODULE Forecasts ------------------------------
(***************************************************************************)
(* The forecast models of one store and the forecasts made with them:      *)
(* ForecastService.train, which replaces a version's artifact directory    *)
(* and then activates the version in the database, ForecastService.predict *)
(* and create_legacy_run, which reads the directory of the version that    *)
(* was ready, and the loader of the forecast core (load_artifacts).        *)
(*                                                                         *)
(* Every request runs in a thread of its own.  A directory is its build, 0 *)
(* when it is not there.  A database step is a transaction from its first  *)
(* write on; what was read before may be stale.  A crash takes every       *)
(* thread; the database and the directories stay.  `lost' is a history     *)
(* variable: it only remembers which failures could not be written.        *)
(***************************************************************************)
EXTENDS Naturals, Sequences, FiniteSets

CONSTANTS
  Versions,   \* model versions
  Trainers,   \* requests to train
  Callers,    \* requests to forecast
  Keyed,      \* the callers that carry the one Idempotency-Key (create_legacy_run)
  MaxBuilds,  \* bound on the trainings that build something
  MaxRuns,    \* bound on the forecast runs
  MaxFaults,  \* bound on the failures of the failure handler of a forecast
  MaxCrashes  \* bound on the crashes

ASSUME ForecastConstantsOK ==
  /\ Keyed \subseteq Callers
  /\ MaxBuilds \in Nat /\ MaxRuns \in Nat /\ MaxFaults \in Nat /\ MaxCrashes \in Nat

VARIABLES
  models,   \* per version: its row; trained says whether trained_at is set
  dir,      \* per version: its artifact directory
  builds,   \* builds made
  train,    \* trainers
  runs,     \* forecast runs, in order
  call,     \* callers
  key,      \* the key: whether it is registered, and its run, 0 when it has none
  lost,     \* the runs whose failure could not be written to them
  crashes

vars == <<models, dir, builds, train, runs, call, key, lost, crashes>>
training == <<models, dir, builds, train>>
calling == <<runs, call, key, lost>>

Idle == [at |-> "idle", version |-> "none", staged |-> 0, backup |-> 0]
Quiet == [at |-> "quiet", version |-> "none", run |-> 0, settings |-> 0]

Init ==
  /\ models = [v \in Versions |-> [status |-> "none", active |-> FALSE, trained |-> FALSE]]
  /\ dir = [v \in Versions |-> 0]
  /\ builds = 0
  /\ train = [t \in Trainers |-> Idle]
  /\ runs = <<>>
  /\ call = [c \in Callers |-> Quiet]
  /\ key = [registered |-> FALSE, run |-> 0]
  /\ lost = {}
  /\ crashes = 0

-----------------------------------------------------------------------------
\* Training.

Trains(t, at) == train[t].at = at
Moves(t, at) == train' = [train EXCEPT ![t].at = at]

\* The row of a new version, committed before anything is read.
BeginTraining(t, v) ==
  /\ Trains(t, "idle")
  /\ models' = IF models[v].status = "none" THEN [models EXCEPT ![v].status = "training"] ELSE models
  /\ train' = [train EXCEPT ![t] = [Idle EXCEPT !.at = "fit", !.version = v]]
  /\ UNCHANGED <<dir, builds, calling, crashes>>

\* The core builds a complete staging directory of the trainer's own.
Fit(t) ==
  /\ Trains(t, "fit") /\ builds < MaxBuilds
  /\ builds' = builds + 1
  /\ train' = [train EXCEPT ![t].at = "aside", ![t].staged = builds + 1]
  /\ UNCHANGED <<models, dir, calling, crashes>>

\* if final.exists(): final.replace(backup)
SetAside(t) ==
  /\ Trains(t, "aside")
  /\ train' = [train EXCEPT ![t].at = "publish", ![t].backup = dir[train[t].version]]
  /\ dir' = [dir EXCEPT ![train[t].version] = 0]
  /\ UNCHANGED <<models, builds, calling, crashes>>

\* staging.replace(final), which another trainer's directory in its place refuses.
Publish(t) ==
  /\ Trains(t, "publish") /\ dir[train[t].version] = 0
  /\ dir' = [dir EXCEPT ![train[t].version] = train[t].staged]
  /\ train' = [train EXCEPT ![t].at = "activate", ![t].backup = 0]
  /\ UNCHANGED <<models, builds, calling, crashes>>

\* ... and what is done when it is refused, for that or another reason.
Discarded(t) == dir[train[t].version]
PutBack(t) == IF dir[train[t].version] = 0 THEN train[t].backup ELSE dir[train[t].version]
PublishFails(t) ==
  /\ Trains(t, "publish")
  /\ dir' = [dir EXCEPT ![train[t].version] = PutBack(t)]
  /\ train' = [train EXCEPT ![t].at = "failing", ![t].backup = 0]
  /\ UNCHANGED <<models, builds, calling, crashes>>

\* One transaction: the manifest was read from the directory, every model is
\* deactivated, the trained one activated.
OthersStay(v, w) ==
  IF w = v THEN [status |-> "ready", active |-> TRUE, trained |-> TRUE] ELSE models[w]
Activated(v, w) ==
  IF w = v THEN [status |-> "ready", active |-> TRUE, trained |-> TRUE]
  ELSE IF models[w].active
       THEN [status |-> "inactive", active |-> FALSE, trained |-> models[w].trained]
       ELSE models[w]

Activate(t) ==
  /\ Trains(t, "activate") /\ dir[train[t].version] # 0
  /\ models' = [w \in Versions |-> Activated(train[t].version, w)]
  /\ train' = [train EXCEPT ![t] = Idle]
  /\ UNCHANGED <<dir, builds, calling, crashes>>

\* Anything else that goes wrong: the data, the core, a missing artifact, a moved
\* directory, the transaction.
TrainingFails(t) ==
  /\ train[t].at \in {"fit", "aside", "activate"}
  /\ Moves(t, "failing")
  /\ UNCHANGED <<models, dir, builds, calling, crashes>>

\* _mark_training_failed reads the model: one that is active is spared, one that
\* failed already stays as it is ...
Demotable(v) == ~ models[v].active /\ models[v].status # "failed"
SeeFailure(t) ==
  /\ Trains(t, "failing")
  /\ IF Demotable(train[t].version) THEN Moves(t, "mark")
     ELSE train' = [train EXCEPT ![t] = Idle]
  /\ UNCHANGED <<models, dir, builds, calling, crashes>>

\* ... and writes that it failed, without asking again.
MarkFailed(t) ==
  /\ Trains(t, "mark")
  /\ models' = [models EXCEPT ![train[t].version].status = "failed"]
  /\ train' = [train EXCEPT ![t] = Idle]
  /\ UNCHANGED <<dir, builds, calling, crashes>>

\* The failure handler may itself fail; the row stays as it is.
MarkFails(t) ==
  /\ train[t].at \in {"failing", "mark"}
  /\ train' = [train EXCEPT ![t] = Idle]
  /\ UNCHANGED <<models, dir, builds, calling, crashes>>

-----------------------------------------------------------------------------
\* Forecasting.

Calls(c, at) == call[c].at = at
Passes(c, at) == call' = [call EXCEPT ![c].at = at]

\* A keyed request registers its key in a transaction of its own, then forecasts; a
\* replay answers with the key's run, or 409 while there is none.
ForgetsKey(c) == TRUE
FindsKeyFree(c) == ~ key.registered
BeginCall(c) ==
  /\ Calls(c, "quiet")
  /\ c \in Keyed => FindsKeyFree(c)
  /\ key' = IF c \in Keyed THEN [key EXCEPT !.registered = TRUE] ELSE key
  /\ Passes(c, "choose")
  /\ UNCHANGED <<training, runs, lost, crashes>>

\* The model asked for, or for a keyed request the active one, must be ready.  It is
\* read before the first write: another training may activate its model, or mark this
\* one as failed, before the run is committed.
Serves(c, v) == models[v].status = "ready" /\ (c \in Keyed => models[v].active)
PickModel(c, v) ==
  /\ Calls(c, "choose") /\ Serves(c, v)
  /\ call' = [call EXCEPT ![c] = [Quiet EXCEPT !.at = "begin", !.version = v]]
  /\ UNCHANGED <<training, runs, key, lost, crashes>>

BeginRun(c) ==
  /\ Calls(c, "begin") /\ Len(runs) < MaxRuns
  /\ runs' = Append(runs, [status |-> "running", version |-> call[c].version, keyed |-> c \in Keyed,
                            settings |-> 0, model |-> 0])
  /\ call' = [call EXCEPT ![c] = [@ EXCEPT !.at = "verify", !.run = Len(runs) + 1]]
  /\ UNCHANGED <<training, key, lost, crashes>>

\* That model is not there: predict raises, which is all a request of its own does (see
\* GivesUp); create_legacy_run goes on to commit a blocked run, and links it when the
\* request has a key.
NoModel(c) ==
  /\ Calls(c, "choose")
  /\ \E v \in Versions : ~ Serves(c, v)
  /\ c \in Keyed => \A v \in Versions : ~ Serves(c, v)
  /\ Passes(c, "refuse")
  /\ UNCHANGED <<training, runs, key, lost, crashes>>

RefuseRun(c) ==
  /\ Calls(c, "refuse") /\ Len(runs) < MaxRuns
  /\ runs' = Append(runs, [status |-> "blocked", version |-> "none", keyed |-> c \in Keyed,
                            settings |-> 0, model |-> 0])
  /\ key' = IF c \in Keyed THEN [key EXCEPT !.run = Len(runs) + 1] ELSE key
  /\ call' = [call EXCEPT ![c] = Quiet]
  /\ UNCHANGED <<training, lost, crashes>>

\* The loader verifies the checksums and reads the settings, then the models.
Verify(c) ==
  /\ Calls(c, "verify") /\ dir[call[c].version] # 0
  /\ call' = [call EXCEPT ![c].at = "load", ![c].settings = dir[call[c].version]]
  /\ UNCHANGED <<training, runs, key, lost, crashes>>

EndsWell(c, status, settings, model) ==
  runs' = IF status = "failed" THEN runs
          ELSE [runs EXCEPT ![call[c].run] =
                  [@ EXCEPT !.status = status, !.settings = settings, !.model = model]]
Ends(c, status, settings, model) ==
  runs' = [runs EXCEPT ![call[c].run] =
             [@ EXCEPT !.status = status, !.settings = settings, !.model = model]]

\* The predictions are committed with the run's completion ...
LoadAndComplete(c) ==
  /\ Calls(c, "load") /\ dir[call[c].version] # 0
  /\ Ends(c, "completed", call[c].settings, dir[call[c].version])
  /\ Passes(c, "answer")
  /\ UNCHANGED <<training, key, lost, crashes>>

\* ... and read back for the answer; a keyed request then links the run in another
\* transaction.
Answer(c) ==
  /\ Calls(c, "answer")
  /\ IF c \in Keyed THEN Passes(c, "link") ELSE call' = [call EXCEPT ![c] = Quiet]
  /\ UNCHANGED <<training, runs, key, lost, crashes>>

LinkKey(c) ==
  /\ Calls(c, "link")
  /\ key' = [key EXCEPT !.run = call[c].run]
  /\ call' = [call EXCEPT ![c] = Quiet]
  /\ UNCHANGED <<training, runs, lost, crashes>>

\* An exception is written to the run, whatever stage it was in, over a completed
\* one when the answer cannot be read; nothing is linked.
CallFails(c) ==
  /\ call[c].at \in {"verify", "load", "answer"}
  /\ Ends(c, "failed", 0, 0)
  /\ call' = [call EXCEPT ![c] = Quiet]
  /\ UNCHANGED <<training, key, lost, crashes>>

\* The handler's own commit may fail: the run stays as it is.
FailureUnwritten(c) ==
  /\ call[c].at \in {"verify", "load", "answer"} /\ Cardinality(lost) < MaxFaults
  /\ lost' = lost \cup {call[c].run}
  /\ call' = [call EXCEPT ![c] = Quiet]
  /\ UNCHANGED <<training, runs, key, crashes>>

\* A request that fails outside that handler: before its run is there, or at the link.
GivesUp(c) ==
  /\ call[c].at \in {"choose", "begin", "refuse", "link"}
  /\ call' = [call EXCEPT ![c] = Quiet]
  /\ UNCHANGED <<training, runs, key, lost, crashes>>

Crash ==
  /\ crashes < MaxCrashes /\ crashes' = crashes + 1
  /\ train' = [t \in Trainers |-> Idle]
  /\ call' = [c \in Callers |-> Quiet]
  /\ UNCHANGED <<models, dir, builds, runs, key, lost>>

TrainingStep(t) ==
  \/ Fit(t) \/ SetAside(t) \/ Publish(t) \/ PublishFails(t) \/ Activate(t)
  \/ TrainingFails(t) \/ SeeFailure(t) \/ MarkFailed(t) \/ MarkFails(t)

CallStep(c) ==
  \/ \E v \in Versions : PickModel(c, v)
  \/ BeginRun(c) \/ NoModel(c) \/ RefuseRun(c)
  \/ Verify(c) \/ LoadAndComplete(c) \/ Answer(c) \/ LinkKey(c)
  \/ CallFails(c) \/ FailureUnwritten(c) \/ GivesUp(c)

Next ==
  \/ \E t \in Trainers : TrainingStep(t) \/ \E v \in Versions : BeginTraining(t, v)
  \/ \E c \in Callers : CallStep(c) \/ BeginCall(c)
  \/ Crash

\* A thread that has begun runs to its end.
Fairness ==
  /\ \A t \in Trainers : WF_vars(TrainingStep(t))
  /\ \A c \in Callers : WF_vars(CallStep(c))

Spec == Init /\ [][Next]_vars /\ Fairness

-----------------------------------------------------------------------------
Status == {"none", "training", "ready", "inactive", "failed"}
Row == [status : Status, active : BOOLEAN, trained : BOOLEAN]
Run == [status : {"running", "completed", "failed", "blocked"},
        version : Versions \cup {"none"}, keyed : BOOLEAN, settings : 0 .. MaxBuilds, model : 0 .. MaxBuilds]

Training == [at : {"idle", "fit", "aside", "publish", "activate", "failing", "mark"},
             version : Versions \cup {"none"}, staged : 0 .. MaxBuilds, backup : 0 .. MaxBuilds]
Calling == [at : {"quiet", "choose", "begin", "refuse", "verify", "load", "answer", "link"},
            version : Versions \cup {"none"}, run : Nat, settings : 0 .. MaxBuilds]

TypeOK ==
  /\ models \in [Versions -> Row]
  /\ dir \in [Versions -> 0 .. MaxBuilds] /\ builds \in 0 .. MaxBuilds
  /\ train \in [Trainers -> Training]
  /\ runs \in Seq(Run)
  /\ call \in [Callers -> Calling]
  /\ key \in [registered : BOOLEAN, run : 0 .. Len(runs)]
  /\ lost \subseteq 1 .. Len(runs)
  /\ crashes \in 0 .. MaxCrashes

\* Once the store has an active model it always has exactly one, whichever
\* trainings succeed, fail, race or are cut off.
Active == {v \in Versions : models[v].active}
OneModelStaysActive ==
  [][Active # {} => \E v \in Versions : Active' = {v}]_vars

\* An active model has an artifact directory: it is missing only while a trainer of
\* the version holds it aside, or when a crash took that trainer.
ActiveModelHasFiles ==
  \A v \in Active :
    \/ dir[v] # 0
    \/ crashes > 0
    \/ \E t \in Trainers : train[t].version = v /\ train[t].backup # 0

\* `A failed retrain must never demote the currently active ready model'
\* (forecast_service.py:436): an active model is ready.
FailedRetrainNeverDemotes == \A v \in Active : models[v].status = "ready"

\* The requests that carry one key make one run together, whatever they meet and
\* whenever they are repeated; the key is linked to it once it completed or was
\* blocked, and to no other.
KeyMakesOneRun ==
  /\ \A i, j \in DOMAIN runs : runs[i].keyed /\ runs[j].keyed => i = j
  /\ key.run # 0 => runs[key.run].keyed /\ runs[key.run].status \in {"completed", "blocked"}

\* Trainings and forecasts, however they interleave, fail or are cut off, implement the
\* ledger: one model takes over from another in one step, every forecast begins with a
\* model that once took over (the one a key's forecast found active may have been replaced
\* by then), a key's forecast begins once, and once the key is linked neither its link nor
\* that forecast changes (forecast_service.py:402-410, 447-454, 542-571).
Trained == {v \in Versions : models[v].trained}
Ledger == INSTANCE ForecastLedger
            WITH active <- Active, trained <- Trained, forecasts <- runs, linked <- key.run
ImplementsForecastLedger == Ledger!Spec

\* A forecast run gets its end, unless a crash took its thread, or writing its failure
\* failed too.
ForecastsEnd ==
  []<>(crashes > 0 \/ \A i \in DOMAIN runs \ lost : runs[i].status # "running")
=============================================================================
