------------------------------ MODULE ImportJob ------------------------------
(***************************************************************************)
(* One import after its upload: ImportService.confirm and .process, as     *)
(* concurrent handlers over its import_jobs row.                           *)
(*                                                                         *)
(* A process request works in four transactions: the claim (a conditional  *)
(* UPDATE to `processing'), the start audit, the terminal transaction, and *)
(* after an exception the one that marks the job failed.  Between them it  *)
(* holds nothing; before the first write of the terminal transaction it    *)
(* has already loaded the job and its mappings.  A confirm request reads   *)
(* the job's status first and writes mappings and status later.            *)
(*                                                                         *)
(* Imports do not share rows, so one import is enough.  The sheets of the  *)
(* import and their mappings are one value; parsing, row validation and    *)
(* the business tables are abstracted to which mapping was persisted.      *)
(* The names are the job's own, so that ImportProofs can extend this       *)
(* module and ImportCreate.                                                *)
(***************************************************************************)
EXTENDS Naturals, FiniteSets

CONSTANTS
  Workers,      \* process requests that may be in flight together
  Confirmers,   \* confirm requests that may be in flight together
  Mappings,     \* confirmed mappings a client may send
  Suggested,    \* the mapping proposed at upload, before any confirmation
  MaxWrites,    \* bound on committed business writes
  ConfirmAlone  \* TRUE when no client confirms an import while another
                \* request for it is in flight

ASSUME ImportConstantsOK ==
  /\ Suggested \notin Mappings
  /\ MaxWrites \in Nat /\ ConfirmAlone \in BOOLEAN

VARIABLES
  job,        \* import_jobs: status, mapping, result, business_persisted_at
  written,    \* committed runs of ImportBusinessPersistenceService.persist
  rows,       \* the mapping the business rows were last written from
  worker,     \* process requests: how far, claim held, what they loaded
  confirmer,  \* confirm requests: how far, the status they loaded
  lost        \* a claimed job lost its worker: crash or database failure

jobVars == <<job, written, rows, worker, confirmer, lost>>

Policies == {"atomic", "partial_success", "preview_only"}
Statuses == {"mapping_required", "confirmed", "processing", "completed", "failed"}
Everything == Mappings \cup {Suggested}

\* A completed job with its business data: process only replays its result.
Finished(j) == j.status = "completed" /\ j.result # "none" /\ j.stamped

\* An UPDATE sets a column only when it differs from what the session loaded.
Emit(stored, loaded, new) == IF new = loaded THEN stored ELSE new

Free == [stage |-> "idle", policy |-> "atomic", claimed |-> FALSE,
         seen |-> "mapping_required", mapping |-> Suggested]
Quiet == [stage |-> "idle", seen |-> "mapping_required"]

\* With ConfirmAlone a confirm overlaps no other request for the import.
NoConfirm == ConfirmAlone => \A c \in Confirmers : confirmer[c].stage = "idle"
NoRequest == NoConfirm /\ (ConfirmAlone => \A w \in Workers : worker[w].stage = "idle")

\* A new job, or one brought over from the legacy table with its result.
JobInit ==
  /\ \/ job = [status |-> "mapping_required", mapping |-> Suggested,
               result |-> "none", stamped |-> FALSE]
     \/ \E m \in Mappings : job = [status |-> "completed", mapping |-> m,
                                   result |-> "final", stamped |-> FALSE]
  /\ written = 0 /\ rows = Suggested
  /\ worker = [w \in Workers |-> Free]
  /\ confirmer = [c \in Confirmers |-> Quiet]
  /\ lost = FALSE

-----------------------------------------------------------------------------
At(w, stage) == worker[w].stage = stage
Goto(w, stage) == worker' = [worker EXCEPT ![w].stage = stage]
Leave(w) == worker' = [worker EXCEPT ![w] = Free]

\* A worker gives up.  If it holds the claim nothing will end the job.
Strand(w) ==
  /\ Leave(w)
  /\ lost' = (lost \/ (worker[w].claimed /\ job.status = "processing"))

BeginProcess(w, policy) ==
  /\ At(w, "idle") /\ NoConfirm
  /\ worker' = [worker EXCEPT ![w] = [Free EXCEPT !.stage = "check", !.policy = policy]]
  /\ UNCHANGED <<job, written, rows, confirmer, lost>>

\* _acquire_processing_claim reads the job: replay, refuse, claim, or go on unclaimed.
Check(w) ==
  /\ At(w, "check")
  /\ IF Finished(job) \/ job.status = "processing" THEN Leave(w)
     ELSE IF job.status \in {"confirmed", "completed"} THEN Goto(w, "claim")
     ELSE Goto(w, "start")
  /\ UNCHANGED <<job, written, rows, confirmer, lost>>

\* The conditional UPDATE of the claim, and what it requires of the row.
ClaimableUnlessFailed(status) == status # "failed"
Claimable(status) == status \in {"confirmed", "completed"}

Claim(w) ==
  /\ At(w, "claim")
  /\ IF Claimable(job.status)
     THEN /\ job' = [job EXCEPT !.status = "processing"]
          /\ worker' = [worker EXCEPT ![w].stage = "start", ![w].claimed = TRUE]
     ELSE Goto(w, "check") /\ UNCHANGED job
  /\ UNCHANGED <<written, rows, confirmer, lost>>

\* What a stage that loads the job again requires before it goes on.
Admits(w) ==
  /\ ~ Finished(job)
  /\ job.status = "processing" => worker[w].claimed
  /\ job.status \in {"confirmed", "completed", "processing"}

\* _record_processing_started: a finished job goes on to be replayed below; a
\* refusal ends the request, but marks the job failed if the claim is held.
RecordStarted(w) ==
  /\ At(w, "start")
  /\ IF Finished(job) \/ Admits(w) THEN Goto(w, "load")
     ELSE IF worker[w].claimed THEN Goto(w, "fail")
     ELSE Leave(w)
  /\ UNCHANGED <<job, written, rows, confirmer, lost>>

\* The working session loads the job; here a refusal is outside the try block.
LoadJob(w) ==
  /\ At(w, "load")
  /\ IF Admits(w)
     THEN worker' = [worker EXCEPT ![w].stage = "map", ![w].seen = job.status] /\ UNCHANGED lost
     ELSE Strand(w)
  /\ UNCHANGED <<job, written, rows, confirmer>>

LoadSuggested(w) ==
  /\ At(w, "map")
  /\ worker' = [worker EXCEPT ![w].stage = "run", ![w].mapping = Suggested]
  /\ UNCHANGED <<job, written, rows, confirmer, lost>>

\* All mappings of the import, as they are then.
LoadMappings(w) ==
  /\ At(w, "map")
  /\ worker' = [worker EXCEPT ![w].stage = "run", ![w].mapping = job.mapping]
  /\ UNCHANGED <<job, written, rows, confirmer, lost>>

\* Preview: the result is stored, no business data, and the claim given back.
Preview(w) ==
  /\ At(w, "run") /\ worker[w].policy = "preview_only"
  /\ job' = [job EXCEPT !.result = "preview",
                        !.status = Emit(job.status, worker[w].seen, "confirmed")]
  /\ Leave(w)
  /\ UNCHANGED <<written, rows, confirmer, lost>>

\* The status of a job whose business data is stored (legacy_status has its own word).
Done == "completed"

\* The terminal transaction: business rows, result and status in one commit.
Persist(w) ==
  /\ At(w, "run") /\ worker[w].policy # "preview_only"
  /\ written < MaxWrites
  /\ written' = written + 1
  /\ rows' = worker[w].mapping
  /\ job' = [job EXCEPT !.result = "final", !.stamped = TRUE,
                        !.status = Emit(job.status, worker[w].seen, Done)]
  /\ Leave(w)
  /\ UNCHANGED <<confirmer, lost>>

\* An exception from the pipeline, the rows (atomic policy), the database or the
\* terminal transaction: nothing of it is kept and the job will be marked failed.
RunRaisesQuietly(w) ==
  /\ At(w, "run")
  /\ Leave(w)
  /\ UNCHANGED <<job, written, rows, confirmer, lost>>
RunRaises(w) ==
  /\ At(w, "run")
  /\ Goto(w, "fail")
  /\ UNCHANGED <<job, written, rows, confirmer, lost>>

\* _mark_failed sets the status whatever it finds.
MarkFailed(w) ==
  /\ At(w, "fail")
  /\ job' = [job EXCEPT !.status = "failed"]
  /\ Leave(w)
  /\ UNCHANGED <<written, rows, confirmer, lost>>

\* A database failure elsewhere: before the claim the request just ends; while
\* the start is recorded a claimed job is marked failed; later it is stranded.
DatabaseFails(w) ==
  /\ worker[w].stage \in {"check", "claim", "start", "load", "map", "fail"}
  /\ IF At(w, "start") /\ worker[w].claimed THEN Goto(w, "fail") /\ UNCHANGED lost
     ELSE IF At(w, "map") THEN Goto(w, "fail") /\ UNCHANGED lost
     ELSE Strand(w)
  /\ UNCHANGED <<job, written, rows, confirmer>>

-----------------------------------------------------------------------------
\* The statuses in which a confirm is accepted.
Confirmable(status) == status \in {"mapping_required", "confirmed"}

BeginConfirm(c) ==
  /\ confirmer[c].stage = "idle" /\ NoRequest
  /\ confirmer' = [confirmer EXCEPT ![c].stage = "check"]
  /\ UNCHANGED <<job, written, rows, worker, lost>>

ReadStatus(c) ==
  /\ confirmer[c].stage = "check"
  /\ confirmer' = [confirmer EXCEPT ![c] =
       IF Confirmable(job.status) THEN [stage |-> "write", seen |-> job.status] ELSE Quiet]
  /\ UNCHANGED <<job, written, rows, worker, lost>>

\* The mappings are replaced and the status written from the one loaded.
WriteMapping(c, m) ==
  /\ confirmer[c].stage = "write"
  /\ job' = [job EXCEPT !.mapping = m,
                        !.status = Emit(job.status, confirmer[c].seen, "confirmed")]
  /\ confirmer' = [confirmer EXCEPT ![c] = Quiet]
  /\ UNCHANGED <<written, rows, worker, lost>>

\* A refused mapping or a database failure: nothing is kept.
ConfirmRaises(c) ==
  /\ confirmer[c].stage # "idle"
  /\ confirmer' = [confirmer EXCEPT ![c] = Quiet]
  /\ UNCHANGED <<job, written, rows, worker, lost>>

\* The process dies and is started again: nothing looks for claimed jobs.
Restart ==
  /\ worker' = [w \in Workers |-> Free]
  /\ confirmer' = [c \in Confirmers |-> Quiet]
  /\ lost' = (lost \/ job.status = "processing")
  /\ UNCHANGED <<job, written, rows>>

\* The steps a process request takes by itself.
ProcessProceeds(w) ==
  \/ Check(w) \/ Claim(w) \/ RecordStarted(w) \/ LoadJob(w) \/ LoadMappings(w)
  \/ Preview(w) \/ Persist(w) \/ RunRaises(w) \/ MarkFailed(w)

JobNext ==
  \/ \E w \in Workers :
       \/ \E policy \in Policies : BeginProcess(w, policy)
       \/ ProcessProceeds(w)
       \/ DatabaseFails(w)
  \/ \E c \in Confirmers :
       \/ BeginConfirm(c)
       \/ ReadStatus(c)
       \/ \E m \in Mappings : WriteMapping(c, m)
       \/ ConfirmRaises(c)
  \/ Restart

\* A request runs in a thread of its own: it goes on until it ends.
JobSpec == JobInit /\ [][JobNext]_jobVars /\ \A w \in Workers : WF_jobVars(ProcessProceeds(w))

-----------------------------------------------------------------------------
WorkerStages == {"idle", "check", "claim", "start", "load", "map", "run", "fail"}

Jobs == [status : Statuses, mapping : Everything,
         result : {"none", "preview", "final"}, stamped : BOOLEAN]
WorkerStates == [stage : WorkerStages, policy : Policies, claimed : BOOLEAN,
                 seen : Statuses, mapping : Everything]
ConfirmerStates == [stage : {"idle", "check", "write"}, seen : Statuses]

JobTypeOK ==
  /\ job \in Jobs
  /\ written \in 0 .. MaxWrites /\ rows \in Everything
  /\ worker \in [Workers -> WorkerStates]
  /\ confirmer \in [Confirmers -> ConfirmerStates]
  /\ lost \in BOOLEAN

\* One claim at a time: a worker holding the claim is alone with it and the job
\* still says `processing' until that worker ends it (_acquire_processing_claim).
ClaimIsExclusive ==
  \A w \in Workers : worker[w].claimed =>
    /\ job.status = "processing"
    /\ \A v \in Workers \ {w} : ~ worker[v].claimed /\ worker[v].stage \notin {"map", "run", "fail"}

\* The business rows of a completed job come from the mapping it records.
RowsFollowMapping == Finished(job) => rows = job.mapping

\* Process and confirm requests implement the ledger when no confirmation overlaps another
\* request (import_service.py:294-380, 391-649, 963-975): each claim is ended once, by who
\* holds it, and rows are written only under a claim and from the job's own mapping.
Ledger == INSTANCE ImportLedger WITH import <- job
ImplementsImportLedger == Ledger!Spec

\* A failed job is never processed again (CURRENT_STATE.md:631, non-retryable).
FailedIsFinal == [][job.status = "failed" => job'.status = "failed"]_jobVars

\* Completed, and no request still in flight that checked the job before that.
Settled == Finished(job) /\ \A w \in Workers : ~ At(w, "claim")

\* From then on the job is only replayed: its row and result never change again
\* and no request gets as far as claiming it.
CompletedIsReplayed == [][Settled => Settled' /\ job' = job]_jobVars

\* A claimed job ends, unless a crash or a database failure took its worker.
ProcessingEnds == job.status = "processing" ~> (job.status # "processing" \/ lost)

\* CURRENT_STATE.md:632: persist() runs once, whatever requests compete.
PersistedOnce == written <= 1

\* tests/test_import_normalized.py:437: of concurrent process requests only one
\* runs the pipeline at a time.
OnePipelineAtATime ==
  \A v, w \in Workers : At(v, "run") /\ At(w, "run") => v = w
=============================================================================
