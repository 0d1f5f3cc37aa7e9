------------------------------ MODULE Planning ------------------------------
(***************************************************************************)
(* Planning over one completed forecast: the ingredient demand             *)
(* (IngredientDemandLifecycle), the procurement plan runs                  *)
(* (OperationalProcurementLifecycle), the compatibility plan runs          *)
(* (LegacyPlanCompatibility) and the decision runs                         *)
(* (DecisionPlanningService.generate_decision).                            *)
(*                                                                         *)
(* Every request runs in a thread of its own and commits in several        *)
(* transactions.  A transaction takes SQLite's write lock with its first   *)
(* write: what it read before may be stale, what follows is one step with  *)
(* the commit.  Recipes are edited meanwhile.  Demand rows are the         *)
(* generations of recipes they were expanded from.                         *)
(***************************************************************************)
EXTENDS Naturals, Sequences, FiniteSets

CONSTANTS
  Demands,    \* requests for the ingredient demand
  Plans,      \* requests for procurement plans
  Legacies,   \* requests for a compatibility plan run
  Decisions,  \* requests for a decision run
  Keyed,      \* the requests that carry the Idempotency-Key of their endpoint
  Loads,      \* sets of requests: those of one of them are sent
  MaxEdits,   \* bound on the edits of recipes
  MaxFaults   \* bound on the crashes and the failed commits

Requests == Demands \cup Plans \cup Legacies \cup Decisions

\* A request is sent to one endpoint.
ASSUME PlanningConstantsOK ==
  /\ Demands \cap Plans = {} /\ Demands \cap Legacies = {} /\ Demands \cap Decisions = {}
  /\ Plans \cap Legacies = {} /\ Plans \cap Decisions = {} /\ Legacies \cap Decisions = {}
  /\ Keyed \subseteq Requests
  /\ Loads \subseteq SUBSET Requests /\ MaxEdits \in Nat /\ MaxFaults \in Nat

VARIABLES
  recipes,     \* their generation, and whether they fit the forecast
  demand,      \* the one demand run of the forecast, with its rows
  planRuns,    \* procurement plan runs, in order
  legacyRuns,  \* compatibility plan runs, in order
  decisions,   \* decision runs, in order
  keys,        \* per endpoint: 0, or the run its key registered
  req,         \* requests
  late,        \* history: who committed rows of which recipes after these were edited
  faults

vars == <<recipes, demand, planRuns, legacyRuns, decisions, keys, req, late, faults>>
runs == <<planRuns, legacyRuns, decisions>>

Endpoints == {"demand", "plans", "legacy", "decision"}
Endpoint(r) ==
  CASE r \in Demands -> "demand" [] r \in Plans -> "plans"
    [] r \in Legacies -> "legacy" [] r \in Decisions -> "decision"

\* saw: the status of the demand run it loaded; read: the recipes it read before it held
\* the lock; rows: the rows it loaded; run: the procurement run it works on; legacy: its
\* compatibility run; since: the recipes' generation when it began; answer: the run it
\* answers with.
Start == [at |-> "new", saw |-> "none", read |-> [gen |-> 0, fits |-> "missing"], rows |-> {},
          run |-> 0, legacy |-> 0, since |-> 0, answer |-> 0]

Init ==
  /\ recipes \in [gen : {1}, fits : {"fully", "elsewhere", "missing"}]
  /\ demand = [status |-> "none", rows |-> {}]
  /\ planRuns = <<>> /\ legacyRuns = <<>> /\ decisions = <<>>
  /\ keys = [e \in Endpoints |-> 0]
  /\ \E sent \in Loads :
       req = [r \in Requests |-> IF r \in sent THEN Start ELSE [Start EXCEPT !.at = "gone"]]
  /\ late = {} /\ faults = 0

Goes(r, at) == req' = [req EXCEPT ![r].at = at]
Answers(r, run) == req' = [req EXCEPT ![r].at = "done", ![r].answer = run]

\* The endpoint's key names a run already: the request is a replay.
Replays(r) == r \in Keyed /\ keys[Endpoint(r)] # 0
Registers(r, run) ==
  keys' = IF r \in Keyed THEN [keys EXCEPT ![Endpoint(r)] = run] ELSE keys

EditRecipes ==
  /\ recipes.gen <= MaxEdits
  /\ \E fits \in {"fully", "elsewhere", "missing"} :
       recipes' = [gen |-> recipes.gen + 1, fits |-> fits]
  /\ UNCHANGED <<demand, keys, req, late, faults, runs>>

-----------------------------------------------------------------------------
\* Ingredient demand.

\* The demand run is loaded before anything is locked.
SeeDemand(r) ==
  /\ req[r].at = IF r \in Demands THEN "new" ELSE "see"
  /\ req' = [req EXCEPT ![r].at = "expand", ![r].saw = demand.status]
  /\ UNCHANGED <<recipes, demand, late, keys, faults, runs>>

\* A decision refreshes the demand, the others reuse a completed one.
NeverRefreshes(r) == FALSE
Refreshes(r) == r \in Decisions

\* The key, a new run or the deletion is written, and locks, before recipes are read; a
\* request without a key that loaded a blocked run writes nothing until it commits.
Locks(r) == req[r].saw = "none" \/ Refreshes(r) \/ (r \in Demands /\ r \in Keyed)
Basis(r) == IF Locks(r) THEN recipes ELSE req[r].read

Kept(r) == IF Refreshes(r) THEN {} ELSE demand.rows

\* The inserts meet a run, or rows, of another request (a unique index): a run there is
\* one to a forecast, a row one to an ingredient and a day.  Rows of other recipes may
\* be of other ingredients; where they are not, the request errs.
Conflicts(r) ==
  \/ req[r].saw = "none" /\ demand.status # "none"
  \/ Basis(r).fits = "fully" /\ Basis(r).gen \in Kept(r)

\* What the transaction makes of the demand.  SQLAlchemy writes the columns that
\* change: a run loaded as blocked that blocks again keeps the status it has now.
RowsSurvive(r) == demand.rows \cup (IF Basis(r).fits = "fully" THEN {Basis(r).gen} ELSE {})
RowsAfter(r) == Kept(r) \cup (IF Basis(r).fits = "fully" THEN {Basis(r).gen} ELSE {})
StatusAfter(r) ==
  IF Basis(r).fits # "missing" THEN "completed"
  ELSE IF req[r].saw = "blocked" /\ ~ Refreshes(r) THEN demand.status ELSE "blocked"

ReplaysDemand(r) == r \in Demands /\ Replays(r)
Reuses(r) == req[r].saw = "completed" /\ ~ Refreshes(r)

\* Where the request goes when its demand is there, or is blocked.
Resolved(r) ==
  CASE r \in Demands -> "done" [] r \in Legacies -> "load" [] r \in Decisions -> "decide"
RefusedOutright(r) == "refused"
Refused(r) == IF r \in Legacies THEN "blocked" ELSE "refused"

ReuseDemand(r) ==
  /\ req[r].at = "expand"
  /\ Reuses(r) \/ ReplaysDemand(r)
  /\ Goes(r, Resolved(r))
  /\ UNCHANGED <<recipes, demand, late, keys, faults, runs>>

ReadRecipes(r) ==
  /\ req[r].at = "expand"
  /\ ~ Reuses(r) /\ ~ ReplaysDemand(r) /\ ~ Locks(r)
  /\ req' = [req EXCEPT ![r].at = "write", ![r].read = recipes]
  /\ UNCHANGED <<recipes, demand, keys, late, faults, runs>>

\* The expansion and its commit.
ExpandDemand(r) ==
  /\ req[r].at = IF Locks(r) THEN "expand" ELSE "write"
  /\ ~ Reuses(r) /\ ~ ReplaysDemand(r) /\ ~ Conflicts(r)
  /\ demand' = [status |-> StatusAfter(r), rows |-> RowsAfter(r)]
  /\ late' = late \cup [by : {r}, gen : (RowsAfter(r) \ demand.rows) \ {recipes.gen}]
  /\ IF r \in Demands THEN Registers(r, 1) ELSE UNCHANGED keys
  /\ Goes(r, IF Basis(r).fits = "missing" THEN Refused(r) ELSE Resolved(r))
  /\ UNCHANGED <<recipes, faults, runs>>

-----------------------------------------------------------------------------
\* Procurement plans, of a request of its own or inside a compatibility run.

\* The run and its rows are two reads; the second decides what both show.
LoadDemand(r) ==
  /\ req[r].at = IF r \in Plans THEN "new" ELSE "load"
  /\ IF demand.status = "completed" /\ demand.rows # {}
     THEN req' = [req EXCEPT ![r].at = "begin", ![r].rows = demand.rows]
     ELSE Goes(r, Refused(r))
  /\ UNCHANGED <<recipes, demand, late, keys, faults, runs>>

ReplayPlans(r) ==
  /\ r \in Plans /\ req[r].at = "begin" /\ Replays(r)
  /\ Answers(r, keys["plans"])
  /\ UNCHANGED <<recipes, demand, late, keys, faults, runs>>

\* The run is committed as running, with the key's resource.
BeginPlans(r) ==
  /\ req[r].at = "begin"
  /\ r \in Plans => ~ Replays(r)
  /\ planRuns' = Append(planRuns, [status |-> "running", rows |-> req[r].rows, plans |-> {}])
  /\ IF r \in Plans THEN Registers(r, Len(planRuns) + 1) ELSE UNCHANGED keys
  /\ req' = [req EXCEPT ![r].at = "plan", ![r].run = Len(planRuns) + 1]
  /\ UNCHANGED <<recipes, demand, late, faults, legacyRuns, decisions>>

Ends(status, rows) == [status |-> status, rows |-> rows,
                       plans |-> IF status = "completed" THEN rows ELSE {}]

\* build answers, or its error is written down; a compatibility run goes on with
\* the answer or ends as its error says.
LinksAnyway(r, status) == IF r \in Legacies THEN "link" ELSE "done"
AfterPlans(r, status) ==
  CASE r \in Legacies /\ status = "completed" -> "link"
    [] r \in Legacies /\ status # "completed" -> "blocked"
    [] OTHER -> "done"

Own(r) == req[r].run
EndPlans(r, status) ==
  /\ req[r].at = "plan"
  /\ planRuns' = [planRuns EXCEPT ![Own(r)] = Ends(status, req[r].rows)]
  /\ req' = [req EXCEPT ![r].at = AfterPlans(r, status),
                        ![r].answer = IF r \in Plans THEN req[r].run ELSE 0]
  /\ UNCHANGED <<recipes, demand, late, keys, faults, legacyRuns, decisions>>

-----------------------------------------------------------------------------
\* Compatibility plan runs.

ReplayLegacy(r) ==
  /\ r \in Legacies /\ req[r].at = "new" /\ Replays(r)
  /\ Answers(r, keys["legacy"])
  /\ UNCHANGED <<recipes, demand, late, keys, faults, runs>>

BeginLegacy(r) ==
  /\ r \in Legacies /\ req[r].at = "new" /\ ~ Replays(r)
  /\ legacyRuns' = Append(legacyRuns, [status |-> "running", run |-> 0, lines |-> {}])
  /\ Registers(r, Len(legacyRuns) + 1)
  /\ req' = [req EXCEPT ![r].at = "see", ![r].legacy = Len(legacyRuns) + 1]
  /\ UNCHANGED <<recipes, demand, late, faults, planRuns, decisions>>

\* The procurement run and its recommendations, in one transaction.
Link(r) ==
  /\ req[r].at = "link"
  /\ legacyRuns' = [legacyRuns EXCEPT ![req[r].legacy] =
       [status |-> "completed", run |-> req[r].run, lines |-> planRuns[req[r].run].plans]]
  /\ Goes(r, "read")
  /\ UNCHANGED <<recipes, demand, late, keys, faults, planRuns, decisions>>

ReadLegacy(r) ==
  /\ req[r].at = "read"
  /\ Answers(r, req[r].legacy)
  /\ UNCHANGED <<recipes, demand, late, keys, faults, runs>>

\* An error anywhere after the first commit, reading the answer included, is
\* written over the run.
AbandonLegacy(r) ==
  /\ req[r].at \in {"blocked", "failed"}
  /\ legacyRuns' = [legacyRuns EXCEPT ![req[r].legacy].status = req[r].at]
  /\ Answers(r, req[r].legacy)
  /\ UNCHANGED <<recipes, demand, late, keys, faults, planRuns, decisions>>

-----------------------------------------------------------------------------
\* Decision runs.

ReplayDecision(r) ==
  /\ r \in Decisions /\ Replays(r)
  /\ req[r].at = "new" \/ (req[r].at = "decide" /\ req[r].rows # {})
  /\ Answers(r, keys["decision"])
  /\ UNCHANGED <<recipes, demand, late, keys, faults, runs>>

BeginDecision(r) ==
  /\ r \in Decisions /\ req[r].at = "new" /\ ~ Replays(r)
  /\ req' = [req EXCEPT ![r].at = "see", ![r].since = recipes.gen]
  /\ UNCHANGED <<recipes, demand, late, keys, faults, runs>>

\* The rows are read in a second session, whatever became of the demand since.
LoadRows(r) ==
  /\ r \in Decisions /\ req[r].at = "decide" /\ req[r].rows = {}
  /\ IF demand.rows = {} THEN Goes(r, "refused")
     ELSE req' = [req EXCEPT ![r].rows = demand.rows]
  /\ UNCHANGED <<recipes, demand, late, keys, faults, runs>>

\* The key is registered with the run, after the computation.
RegistersUnseen(r) == TRUE
RegistersFirst(r) == ~ Replays(r)
Decide(r) ==
  /\ r \in Decisions /\ req[r].at = "decide" /\ req[r].rows # {}
  /\ RegistersFirst(r)
  /\ decisions' = Append(decisions, [rows |-> req[r].rows, since |-> req[r].since,
                                     keyed |-> r \in Keyed, summary |-> FALSE])
  /\ Registers(r, Len(decisions) + 1)
  /\ req' = [req EXCEPT ![r].at = "enrich", ![r].run = Len(decisions) + 1]
  /\ UNCHANGED <<recipes, demand, late, faults, planRuns, legacyRuns>>

\* The summary is written once, or never when its generation fails.
Enrich(r) ==
  /\ req[r].at = "enrich"
  /\ \E made \in BOOLEAN :
       decisions' = [decisions EXCEPT ![req[r].run].summary = made]
  /\ Answers(r, req[r].run)
  /\ UNCHANGED <<recipes, demand, late, keys, faults, planRuns, legacyRuns>>

-----------------------------------------------------------------------------
Ended == {"done", "refused", "gone"}
InFlight(r) == req[r].at \notin Ended \cup {"new"}

\* An error nobody foresaw: a unique index, a lock timeout, the optimizer.  The
\* transaction is rolled back.  A compatibility run writes down that it failed; the
\* procurement run it was in, like the one of a request for plans, stays running.
Errs(r) ==
  /\ InFlight(r) /\ req[r].at \notin {"blocked", "failed", "enrich"}
  /\ IF req[r].at = "plan"
     THEN faults < MaxFaults /\ faults' = faults + 1
     ELSE UNCHANGED faults
  /\ Goes(r, IF r \in Legacies THEN "failed" ELSE "refused")
  /\ UNCHANGED <<recipes, demand, late, keys, runs>>

\* Not even that could be written.
AbandonFails(r) ==
  /\ req[r].at \in {"blocked", "failed"}
  /\ faults < MaxFaults /\ faults' = faults + 1
  /\ Goes(r, "refused")
  /\ UNCHANGED <<recipes, demand, late, keys, runs>>

Crash ==
  /\ faults < MaxFaults /\ faults' = faults + 1
  /\ req' = [r \in Requests |-> IF InFlight(r) THEN [req[r] EXCEPT !.at = "gone"] ELSE req[r]]
  /\ UNCHANGED <<recipes, demand, late, keys, runs>>

Progress(r) ==
  \/ SeeDemand(r) \/ ReuseDemand(r) \/ ReadRecipes(r) \/ ExpandDemand(r)
  \/ LoadDemand(r) \/ ReplayPlans(r) \/ BeginPlans(r)
  \/ \E status \in {"completed", "blocked", "failed"} : EndPlans(r, status)
  \/ ReplayLegacy(r) \/ BeginLegacy(r) \/ Link(r) \/ ReadLegacy(r) \/ AbandonLegacy(r)
  \/ ReplayDecision(r) \/ BeginDecision(r) \/ LoadRows(r) \/ Decide(r) \/ Enrich(r)

Next ==
  \/ EditRecipes
  \/ \E r \in Requests : Progress(r) \/ Errs(r) \/ AbandonFails(r)
  \/ Crash

\* A thread that has begun runs to its end; Errs is the end of one that conflicts.
Fairness == \A r \in Requests : WF_vars(InFlight(r) /\ (Progress(r) \/ Errs(r)))

Spec == Init /\ [][Next]_vars /\ Fairness

-----------------------------------------------------------------------------
Gens == 0 .. MaxEdits + 1
Fits == {"fully", "elsewhere", "missing"}
PlanRun == [status : {"running", "completed", "blocked", "failed"},
            rows : SUBSET Gens, plans : SUBSET Gens]
LegacyRun == [status : {"running", "completed", "blocked", "failed"},
              run : Nat, lines : SUBSET Gens]
Decision == [rows : SUBSET Gens, since : Gens, keyed : BOOLEAN, summary : BOOLEAN]
Places == {"new", "see", "expand", "write", "load", "begin", "plan", "link", "read", "blocked",
           "failed", "decide", "enrich"} \cup Ended
Request == [at : Places, saw : {"none", "completed", "blocked"},
            read : [gen : Gens, fits : Fits], rows : SUBSET Gens, run : Nat,
            legacy : Nat, since : Gens, answer : Nat]

TypeOK ==
  /\ recipes \in [gen : Gens \ {0}, fits : Fits]
  /\ demand \in [status : {"none", "completed", "blocked"}, rows : SUBSET Gens]
  /\ planRuns \in Seq(PlanRun) /\ legacyRuns \in Seq(LegacyRun) /\ decisions \in Seq(Decision)
  /\ keys \in [Endpoints -> Nat]
  /\ req \in [Requests -> Request] /\ late \subseteq [by : Requests, gen : Gens]
  /\ faults \in 0 .. MaxFaults

\* A blocked demand has no rows left of an expansion, older or concurrent, and rows of two
\* expansions lie side by side only where a request that had loaded the run while it was
\* blocked added its own: a refresh never keeps what it found.
DemandIsWhole ==
  /\ demand.status = "blocked" => demand.rows = {}
  /\ \A g, h \in demand.rows :
       g = h \/ \E r \in Demands \cup Legacies : req[r].saw = "blocked"

\* `Decision packages must use a BOM expansion generated by the currently deployed
\* core': the rows a decision was computed from are at least as new as the recipes were
\* when its request began, however many requests expanded meanwhile ...
RowsAreNeverOld ==
  \A i \in DOMAIN decisions : \A g \in decisions[i].rows : g >= decisions[i].since

\* ... save those that came late from a request that has no key to register, and so may
\* read its recipes before it holds the lock; decisions and keyed requests never do.
Lockless == Legacies \cup (Demands \ Keyed)
CameLate(g) == \E w \in late : w.gen = g /\ w.by \in Lockless
DecisionsAreFresh ==
  \A i \in DOMAIN decisions :
    \A g \in decisions[i].rows : g >= decisions[i].since \/ CameLate(g)

\* A key makes one decision run, although two requests may both compute one, and
\* every request that carried a key and was answered, was answered the key's run.
KeysNameOneRun ==
  /\ Cardinality({i \in DOMAIN decisions : decisions[i].keyed}) <= 1
  /\ \A r \in Keyed \ Demands :
       req[r].at = "done" => req[r].answer = keys[Endpoint(r)]

\* A completed compatibility run is linked to a completed procurement run with
\* plans, that no other compatibility run is linked to, and recommends its lines.
LinkedRunsArePlanned ==
  \A i \in DOMAIN legacyRuns :
    LET l == legacyRuns[i] IN
    /\ l.status = "completed" => l.run # 0
    /\ l.run # 0 => /\ planRuns[l.run].status = "completed"
                    /\ l.lines = planRuns[l.run].plans /\ l.lines # {}
                    /\ \A j \in DOMAIN legacyRuns \ {i} : legacyRuns[j].run # l.run

\* What was committed as finished stays as it was: a procurement run that ended
\* keeps its status and plans, and a decision its package.
FinishedRunsStay ==
  [][/\ \A i \in DOMAIN planRuns :
          planRuns[i].status # "running" => planRuns'[i] = planRuns[i]
     /\ \A i \in DOMAIN decisions :
          /\ decisions'[i].rows = decisions[i].rows
          /\ decisions[i].summary => decisions'[i] = decisions[i]]_vars

\* A run that is running gets an end, unless a crash or a failed commit left it.
RunsEnd ==
  []<>(\/ faults > 0
       \/ \A list \in {planRuns, legacyRuns} : \A i \in DOMAIN list : list[i].status # "running")
=============================================================================
