# ShelfCash backend in TLA+

Specifications of the ShelfCash backend (`app/`, `shelfcash_core/`), checked with
TLC and, where marked, proved with TLAPS. Paths below are relative to the
repository; `completion_service.py` is `app/services/completion_service.py`, and
so on.

## The system

A FastAPI modular monolith, one uvicorn process, over one SQLite database, a
directory of forecast artifacts and one HTTP client to a language model. Endpoints
are synchronous and run in a thread pool, except `create_import`, which is a
coroutine on the event loop. Services open a SQLAlchemy session per request (or
several, one after another) and commit it themselves.

What makes the code concurrent is therefore the database, and three facts about
how it is used decide most specifications here:

1. **Reads are not locked.** Until a session's first INSERT, UPDATE or DELETE each
   SELECT sees whatever is committed at that moment, and two SELECTs of one
   handler may see different moments.
2. **The first write locks everything.** From its first write to its commit a
   session is the only writer and its writes are invisible. So *everything from
   the first write to the commit is one atomic step*, and everything a handler
   decided before that step it decided on a snapshot.
3. **An UPDATE writes what changed in the session.** SQLAlchemy sets a column only
   when the new value differs from the loaded one (`Emit`), by primary key. Writing
   back the loaded value is no write at all.

A handler is thus: some reading steps that fill a snapshot, then one writing step
computed from the snapshot. A refusal, a lock timeout and a crash before the
commit are the same thing: nothing is written. An `Idempotency-Key` matters twice:
a replayed key answers from the stored response, and because the key is mostly
registered first, its INSERT takes the lock and everything read after it is current.

Two parts are different: the forecast artifacts are directories that are renamed
outside any transaction, and the gateway to the language model is threads, an event
loop and an event between them. The two simulators and the procurement planner are
sequential; their hazards are numeric and lie in the order of a day's events.

## Inventory of components

| Component | State | Operations | Hard because | Correct when | Modelled |
|---|---|---|---|---|---|
| Purchase orders and budget (`completion_service.po`, `write("settings")`) | `purchase_orders`, lines, `budget_periods`, receipts | create, patch, confirm, receive, settings | version checks on stale snapshots, two conditional UPDATEs, a budget row shared by all orders, truncated costs | budget conserved, nothing received twice, no stale write | `PurchaseOrders`, `PurchaseLedger` |
| Import lifecycle (`import_service.py`) | `import_jobs`, mappings, issues, files | create, confirm, process, result | work in several transactions, claim by conditional UPDATE, crash between them, LLM call under the write lock | one claim, one persistence, every claim ends; files and rows agree, one import per key | `ImportJob` (confirm, process), `ImportCreate` (create) |
| Inventory (`completion_service._inventory_write`, `business_persistence._persist_inventory`) | lots, movements | count, adjustment, snapshot, receipt | balances are sums read before the lock; three writers with different disciplines | never negative, versions cover movements, what the missing lock costs is bounded | `InventoryLots` |
| Inventory constraints (`inventory_constraint_write_service.py`, `business_persistence.py:562-618`, `business_constraint_resolver.py`) | effective-dated versions | create, update, deactivate, import row, resolve | the latest version is read before the lock; a deactivation has no guard | versions in date order, overlaps only where somebody deactivated | `ConstraintVersions` |
| Forecasts (`forecast_service.py`) | artifact directories, model versions, runs | train, predict, keyed run | file system and database change separately; the key is committed before the work | one active model, with its files; one run per key; runs end | `Forecasts` |
| Demand, plan and decision runs (`services/decision/`, `decision_planning_service.py`) | demand run and rows, plan runs, compatibility runs, decision runs, keys | generate, replay, read, enrich | running rows committed before the work, keys registered after it, recipes edited meanwhile | rows no older than promised, one run per key, links to finished plans, no run stuck | `Planning` |
| Procurement planning (`procurement_planning_service.py`) | none (a computation) | project, choose a term, size, shrink, judge, recommend | rounding, caps, MOQ and shelf life one after the other | orders help, reach their target, grow with demand | `Procurement` |
| Inventory simulation (`inventory_simulation_service.py`) | none (a function) | simulate | FEFO, arrivals and expiry on one day | nothing is wasted that another order of use would save | `FefoSimulation` |
| Lot simulation of the core (`shelfcash_core/inventory`) | lots and ledger of a run | receive, spoil, serve, waste, close | day order; expired and undated arrivals; waste events | ledger balances, nothing expired used, unavoidable spoilage only | `LotPhysics` |
| LLM gateway (`app/llm/openrouter_qwen.py`, `main.py`) | owner loop and thread, client | load, ask, retry, close | loop published before it runs, several loops, shutdown posts on the loop it stops | nobody is left on a stopped loop, every request ends, shutdown ends | `LlmGateway` |
| Narratives (`app/decision_intelligence`) | none but the answer | ask, guard, publish, fall back | five guards with different strictness | published prose passed its guard as it is published, every question is answered | `Narration` |
| Idempotency (`idempotency_service.py`) | keys | register, replay | three disciplines: first, last, or committed before the work | one effect per key | inside its users |
| Other imported facts (`business_persistence.py`) | sales, usage, recipes, terms, calendar, menu | upsert per sheet kind | provenance keys, last writer wins | re-import changes nothing | no |
| Catalog, recipes, menu; supplier terms, calendar | rows | version-checked edits | lost updates | no lost update | no |
| Order optimisation, scenarios (`shelfcash_core/optimization`, `scenario`) | none | MILP, stress, Monte Carlo | | | no: an external solver over reals |
| Forecasting numerics (`shelfcash_core/models`, `features`, `calibration`, ...) | | | statistics over reals | | no: nothing to enumerate |
| BOM, units (`shelfcash_core/bom`) | none | expansion, conversion | decimals | | outcome only, in `Planning` |
| Shadow core (`shelfcash_forecast`) | | | copy of `shelfcash_core`, offline evaluation and optional shadow | | no: not authoritative |
| HTTP, schemas, migrations | | | | | no: input and output |

Components meet in the database only: an import's terminal transaction calls
business persistence, which writes lots and constraint versions; receiving an order
writes lots and the budget; the settings write changes the budget month that
confirmation reads; plans read forecasts, recipes, lots, terms and constraints, and a
purchase order is drafted from a plan's recommendations. A plan that resolved a
constraint pins its version (`planned` of `ConstraintVersions`). A decision calls the
demand lifecycle, a compatibility run calls the demand and the procurement lifecycle,
which is why these are one module.

## Modules

| Module | What it is | Code |
|---|---|---|
| `Sums` | sum of a function over a set | |
| `PurchaseCosts` | `int(quantity * unit_cost)` over whole quanta | `completion_service.py:356,410` |
| `PurchaseLedger` | abstract: what purchasing promises, one operation at a time | `completion_service.py:322-428` |
| `PurchaseOrders` | the concurrent handlers; refines `PurchaseLedger` | `completion_service.py:129-141, 298-428` |
| `PurchaseOrdersProofs`, `SumLemmas` | theorems, with the refinement; lemmas about sums | |
| `ImportLedger` | abstract: what processing promises of one import | `import_service.py:294-649, 963-995` |
| `ImportJob` | process and confirm requests of one import; refines `ImportLedger` | `import_service.py:294-649, 963-995` |
| `ImportCreate` | uploads: event loop, write lock, files, keys | `import_service.py:72-277, 717-742, 995-1005`, `idempotency_service.py:19-68` |
| `ImportProofs` | theorems about `ImportCreate` and `ImportJob` | |
| `InventoryLots`, `InventoryLotsProofs` | counts, adjustments, snapshots, receipts; theorems | `completion_service.py:144-179, 393-408`, `business_persistence.py:220-309` |
| `ConstraintVersions` | one family of constraint versions | `inventory_constraint_write_service.py:24-134`, `business_persistence.py:562-607` |
| `Planning` | demand, plan, compatibility and decision runs of one forecast | `ingredient_demand_lifecycle.py:33-126`, `operational_procurement_lifecycle.py:31-188`, `legacy_plan_compatibility.py:57-294`, `decision_planning_service.py:44-132` |
| `ForecastLedger` | abstract: what forecasting promises, without threads, directories or stages | `forecast_service.py:358-571` |
| `Forecasts` | training, activation, forecasts, keyed forecasts; refines `ForecastLedger` | `forecast_service.py:358-571`, `shelfcash_core/registry/loader.py` |
| `VersionProofs` | theorems about `Forecasts` and about `ConstraintVersions` | |
| `FefoSimulation` | `simulate` as a function | `inventory_simulation_service.py` |
| `Procurement` | `build` for one ingredient; uses `FefoSimulation` | `procurement_planning_service.py` |
| `ProcurementProofs` | theorems about `FefoSimulation`, and about `Procurement` | |
| `LotPhysics`, `LotPhysicsProofs` | `simulate_inventory` of the decision core; theorems | `shelfcash_core/inventory/simulator.py, fefo.py, accounting.py` |
| `LlmGateway` | the owner loop, requests on it, start and stop | `openrouter_qwen.py`, `main.py:73-100` |
| `Narration` | callers of the gateway with their guards and fallbacks; composes with `LlmGateway` | `narrative.py`, `overall_summary.py`, `ingredient_synthesis.py`, `what_if_evidence.py`, `strategy_expression.py` |
| `DecisionProofs` | theorems about `Planning`, and about `Narration` with `LlmGateway` | |
| `MC...` | instances for TLC: constants, cases, symmetry sets | |

Exact lines per definition are in `PROJECT.json`.

### PurchaseOrders

`po`, `line`, `budget`, `storeMonthly` are the rows; `stocked` the sum of the
receipt movements of a line; `req` the handlers in flight with what each has
loaded. `ReadOrder`, `ReadLines` are the two SELECTs (360, 363) with the version
and status checks on what was loaded; `Patch`, `Confirm`, `Receive`, `WriteSettings`
are the locked steps; `Fail` is every refusal and crash. `Confirm` and `Receive`
begin with the conditional UPDATE (`ClaimConfirm`, `ClaimReceive`; 313 and 304);
`Patch` has none (373). `KeyedReceive` is a delivery with an Idempotency-Key, which
reads under the lock. Quantities are integers, `Scale` quanta to a unit, so that
the truncation of fractional quantities is real integer division. Grouping by
supplier is the choice of a set of orders; plan checks, lots, audit rows and
response bodies are left out.

The constant `PatchAlone` states a discipline of the clients, not of the code:
nobody patches an order while another request for that order is in flight. With
it the handlers implement `PurchaseLedger`; without it some properties survive and
some do not, and there are runs for both.

### ImportJob

`job` is the row with its mapping (all sheets as one value), `written` counts
committed `persist()` runs, `rows` is the mapping the business rows came from. A
worker's stages are the transactions of `process`: `check` and `claim`
(`_acquire_processing_claim`), `start` (`_record_processing_started`), `load`,
`map`, `run`, and `fail` (`_mark_failed`). `Persist`, `Preview` are the terminal
transactions; `RunRaises` any exception of pipeline, rows or database in the try
block; `DatabaseFails` a failure elsewhere; `Restart` kills the process and starts it again. `lost`
records that a claimed job lost its worker. `ConfirmAlone` again states a client
discipline: confirmations overlap no other request. The names `JobInit`, `JobNext`, `JobSpec`
keep the module apart from `ImportCreate`, so that one module can prove things about both.

`ImportLedger` is the same job without requests: `Confirm`, `Claim`, and the three ends of
a claim, `Preview`, `Complete` (which alone writes rows, from the job's own mapping) and
`Fail`. Nothing leaves `failed`. `ImplementsImportLedger` maps `import` to `job`; what the
refinement shows is that between claim and end no request writes from a status or a mapping
that has changed since it was read. A completed job may be claimed again, in the ledger as
in the code: a request that checked the job before it completed does that (`PersistedOnce`, below). `RowsFollowMapping` follows from
the ledger and is proved, not run.

### ImportCreate

The one coroutine among the handlers, so fact 2 above does not make it one step:
the first sheet's `replace_issues` flushes and takes the write lock, and the
suggestions of later sheets are awaited with the lock held. `lock` is who has it,
`Thread` standing for any endpoint of the thread pool; `loop` is the create that
keeps the event loop, either waiting for the lock inside the driver (`Block`) or
on its way from the last suggestion to the commit, where it awaits nothing more.
`Prepare` is the stretch from the lookup of the key to the first await;
`RecordSheet` one sheet; `Register`, `Rename`, `Commit` the rest. `Undo` is the
`except` block, reached from an exception anywhere (`Fail`), the busy timeout
(`LockTimeout`) or a key with another hash. `files` has each file's state
(none, temporary, final) per import; `stray` the imports whose files a crash or a
`write_bytes` that failed half way left (such a path is not yet in `temp_paths`).
`Register` under the lock sees every committed key, so on SQLite the unique
constraint never fires and the `IntegrityError` branch is not modelled.
`Awaited` is a set of keys whose clients wait for the answer before they send the
key again; the others are sent at any time.

### InventoryLots

`lot` has the version and `snapshot_date` (days; 0 is none), `onhand` the sum of a
lot's movements, `clients` how many movements the API wrote of it, `dated` on which days
which source wrote one (what an import's row asks for).
`KeyedWrite` is a request with a key; `ReadLot`, `ReadSum`, `UnkeyedWrite` one
without. `SnapshotRow` is one row of an import's inventory sheet, `ReceiveGoods` a
delivered lot. A request has one line. `stale` is a history variable: the lots that
a request without a key wrote from a sum or a version no longer current. Two
invariants exempt these lots and no others; `OverdraftIsBounded` exempts none and says
what the missing lock costs at most: each request without a key that is in flight
overdraws a lot once, by what it saw there, and nothing that starts from a negative sum
goes further down.

### ConstraintVersions

`versions` is the family by version number. `Create`, `Update`, `Deactivate` are
requests with a key, which read under the lock; `ReadToUpdate`/`LateUpdate` and
`ReadToDeactivate`/`LateDeactivate` are requests without one, split where they take
it. `Inserts` is the unique index on the version number. `ImportRow` is a row of a
constraint sheet, `PlanCompletes` a plan that resolves the family and pins what it
found, and refuses two versions in force. `deactivated` is what the audit log
knows of a version.

### Forecasts

`dir` is the artifact directory of a version, named by the build in it; `train` and
`call` are the threads. `Fit` builds in a staging directory of its own, `SetAside`
and `Publish` are the two renames (392-395), `PutBack` what happens when the second
is refused, `Activate` the transaction. `SeeFailure`/`MarkFailed` are the read and
the write of `_mark_training_failed`. A keyed forecast commits its key before the
work (`BeginCall`) and links the run in a later transaction (`LinkKey`). `PickModel` is the
SELECT of a ready model (447-449), `BeginRun` the commit of the running run (450-454):
another training may activate its model, or mark this one as failed, in between.
`NoModel`/`RefuseRun` are the same two moments of a request that finds none. `CallFails` is
the `except` block of `predict`, `FailureUnwritten` that block when its own commit fails;
`lost` remembers those runs. A crash takes
every thread; directories and rows stay. What is computed, the residual backfill and
the shadow core are left out.

`ForecastLedger` is the same store without the threads: a set of active models, the
models that were active once, the forecasts in order and the one the key answers with.
`Activate` replaces the active model in one step; `Begin` commits a running forecast, with
a model that was active once and the key's only once (that the model is still active is
more than the code does), `Refuse` a blocked one; `Finish`, `Fail` and `Link` end a forecast and
link the key. `Fail` excludes the linked forecast and `Link` asks for an unlinked key,
so in the ledger a linked forecast and its link never change. `ImplementsForecastLedger`
maps `active` to the rows that are active, `trained` to those whose `trained_at` is set,
`forecasts` to `runs` and `linked` to `key.run`. The rows' status is not in the ledger: a
failing training may write `failed` over an active model (`FailedRetrainNeverDemotes`, below).

### Planning

One completed forecast. `demand` is its demand run with the generations of recipes
its rows were expanded from; `recipes` has the present generation and whether it
fits the forecast. `req` are the requests, and a request is of one of the four
kinds; a compatibility run and a decision call the demand lifecycle, a
compatibility run the procurement lifecycle, so they share its actions
(`SeeDemand`, `ReuseDemand`, `ReadRecipes`, `ExpandDemand`; `LoadDemand`, `BeginPlans`,
`EndPlans`). An expansion that writes before it reads recipes (its key, a new run, the
deletion of a refresh; `Locks`) is one step. One without a key that loaded a blocked run
reads recipes first (`ReadRecipes`) and takes the lock only to commit; `late` remembers who
committed rows of recipes edited since. The rows of two expansions collide on the unique
(run, ingredient, date) when they come from the same recipes; of different recipes they may
be of different ingredients, and then lie side by side. A `PlanningError` of a request that
loaded `blocked` writes `blocked` over `blocked`, which by fact 3 is no write.
Warnings are left out.
`ReplayPlans`, `ReplayLegacy`, `ReplayDecision` answer from the key; a decision looks
for its key twice, before and after it computes. `Errs` is an exception nobody
handles, `AbandonFails` one inside the handler that writes down a failure.

### FefoSimulation and Procurement

`Simulate` is `InventorySimulationService.simulate` as a recursive function on days;
it takes the order in which lots are used as a parameter, so that FEFO can be
compared with every other order. `Procurement` runs `build` on a case (lots, open
deliveries, demand per strategy, terms, constraints) in the steps of the code.
Quantities are whole; units of supplier and ingredient are the same; one ingredient
(ingredients meet only in the sums of cost and capacity).

### LotPhysics

`simulate_inventory` for one ingredient, one action per event: `Receive`, `Spoil` or
`Refuse` (an unknown expiry under the policy `reject`), `Demand`, one `Consume` per
lot touched, `Served`, `Waste` with one `Discard` per lot or `Overdraw`, `CloseDay`
with the check of `validate_accounting_ledger`. Every input is chosen freely: dates
before, in and after the horizon, arrivals already expired, no expiry, no receipt
date, not tracked, either `unknown_expiry`. `expires` is the last day on which `is_expired`
lets a lot be used: its expiry date, or with `expiry_inclusive = False` the day before it.
Nothing else that is modelled looks at the date itself.

### LlmGateway and Narration

A loop is started, set (published as `_owner_loop`, the event set), running,
stopping, stopped; between the last two of `set` and `running` another caller finds
a loop that does not run and starts a second one, and the model has that.
`seat` is where a business thread, or the lifespan of the application, stands:
asking for the loop, waiting for the event, posting, posted, sending, in the pause
before its second attempt. `BeginClose` captures the loop to stop and then posts
`close_client` on the loop that is the owner by then, which need not be the same.

`Narration` adds the callers: what they ask, what their guard accepts (`Accepts`),
what it publishes (`Says`) and the fallback. A sentence is what the guard of its own task
makes of it: sound, with one number that can be amended, with a number that cannot, or
barred by another of its checks. Which checks those are differs: the explanation's guard
looks for known ingredients, targets, causes, comparisons and risk wording by lists of words
(`narrative.py:1106-1255`), the what-if's for numbers, causal, mechanism and risk wording and
machine codes but for no other ingredient and no comparison (`what_if_evidence.py:320-346`).
The five guards also differ in what they amend, drop and publish; each is an operator.
The specification is `NarrationSpec`, beside the `Spec` of `Planning` in `DecisionProofs`.

## Runs

A run takes seconds; `create_imports`, `inventory` and `forecasts` about a minute, `planning` two.

| Run | Question | Result |
|---|---|---|
| `po_serial_patch` | two orders in half units, two handlers, patches never overlap: does the reservation always cover what is still to come, do the handlers implement the ledger, are snapshots of a current version current, do deliveries, stock and budget agree? | holds |
| `po_patch_race` | two months: what survives racing patches: spent money is worth the stock, a month is never overcommitted | holds |
| `po_patch_after_confirm` | `OnlyDraftsAreRewritten` (CURRENT_STATE.md:245) | fails: a patch that loaded the draft rewrites the confirmed order |
| `import_alone` | three process requests, separate confirmations, all policies and failures: one claim, is every step one of `ImportLedger`'s or none, claimed jobs end | holds |
| `create_imports` | two uploads at a time, one awaited key and one that is not, failures at every step, crashes: do files and rows agree, do keys hold, does every create end? | holds |
| `inventory` | keyed requests, two without a key, receipts and two imports: is only what a key-less request wrote from a stale row ever wrong, and by how much? | holds |
| `constraint_versions` | updates, deactivations, imports, a request without a key and planners at once: do version numbers follow dates, and do only deactivations make versions overlap? | holds |
| `planning` | seven loads of two or three requests, edits of recipes, a crash or failed commit: where can rows of two expansions meet, how old can a decision's rows be, do keys name one run, are links right, do runs end? | holds |
| `forecasts` | two trainings and two keyed forecasts at once over two versions, failures at every step and in the failure handler, a crash: is every step one of `ForecastLedger`'s or none, does an active model keep its files, does a key make one run, do runs end? | holds |
| `procurement` | all cases of two strategies over small stocks, terms and constraints: is FEFO best, do orders help, reach their target, grow with demand? | holds |
| `lot_physics` | two lots with every arrival, expiry, receipt and tracking, two days of demand, a waste event: does the ledger balance, is nothing expired used, is spoilage unavoidable, is every unit traced? | holds |
| `narration` | two callers and the lifespan over the gateway's loops, every outcome of an attempt, every shape of reply: is nobody left on a loop that stopped, is every question answered, does a stopping server stop? | holds |

## Statements the code does not keep

`po_patch_after_confirm` is a run of its own. The following properties are in the
modules too and TLC refutes each of them when it is added to the run's cfg (as an
INVARIANT, with the change named):

| Property | Module, cfg | Who says so | What happens |
|---|---|---|---|
| `ReservedIsOutstanding` | `PurchaseOrders`, `po_serial_patch.cfg` | test_completion_behavior.py:233 | 3 halves ordered at 1 and delivered one by one leave a reservation nobody releases: the order reserved `int(1.5)`, each delivery moves `int(0.5)` |
| `OnePipelineAtATime` | `ImportJob`, `import_alone.cfg` with `ConfirmAlone = FALSE` | test_import_normalized.py:437, CURRENT_STATE.md:632 | requests older than the first confirmation run unclaimed, together |
| `PersistedOnce` | `ImportJob`, `import_alone.cfg` as it is | CURRENT_STATE.md:632 | the claim accepts `completed`, so a request that read `confirmed` earlier persists again |
| `OneJobPerKey` | `ImportCreate`, `create_imports.cfg` | CURRENT_API_CONTRACT.md:57 | both look the key up before either registers it, and the second ignores that `register` answers with a replay |
| `NobodyOverdraws` | `InventoryLots`, `inventory.cfg` | completion_service.py:169 | an adjustment without a key checks a sum that is no longer current |
| `SnapshotsAreLatest` (a PROPERTY; `LastDay = 2`) | `InventoryLots`, `inventory.cfg` | business_persistence.py:296 | a snapshot that needs no movement (it opens a lot at zero) is invisible to the check for later movements, and one of an earlier day then sets `snapshot_date` back |
| `RowsAreNeverOld` | `Planning`, `planning.cfg` | decision_planning_service.py:61 | a request without a key finds the demand blocked and reads the recipes; they are edited; a decision begins and refreshes; the request commits the rows of the old recipes; the decision reads them beside its own, or alone |
| `OneVersionInForce` | `ConstraintVersions`, `constraint_versions.cfg` | INVENTORY_CONSTRAINT_CONTRACT.md:87 | a version deactivated as of a later day stays in force beside the one imported meanwhile; plans of that day then fail with `BUSINESS_CONSTRAINT_AMBIGUOUS` |
| `FailedRetrainNeverDemotes` | `Forecasts`, `forecasts.cfg` | forecast_service.py:436 | a failing training reads the model as inactive, another one activates it, and the failure is written over the active model |
| `MaximumStockIsEnforced` | `Procurement`, `procurement.cfg` | INVENTORY_CONSTRAINT_CONTRACT.md:55 | the maximum caps the requirement, packs and MOQ then round the order above it |
| `PoolHasOneLoop` | `LlmGateway`, `narration.cfg` | openrouter_qwen.py:56 | the event is set before the loop runs, so a second caller starts a second loop, and requests run on both over the client of one |
| `EveryAnswerIsSound` | `Narration`, `narration.cfg` | DECISIONS.md:75-76 | a summary or ingredient text passes because the guard amended a number or dropped a sentence, and is published as it was before |

Without `ConfirmAlone` TLC refutes `ImplementsImportLedger` too: a request that arrived before
a confirmation goes on with the status and mapping it read, so the discipline is no
convenience of the proof.

### Bounds

- `po_*`: two handlers suffice for every race of the order handlers: each has one
  locked step, and the other's reads lie before or after it. Two orders share a
  month; one order is enough where the property is about one order's own rows.
  `MaxQty = 2` with `Scale = 2` allows partial and full deliveries and an odd number
  of halves, the least quantity that is truncated. Monthly budgets are one too small
  and one large enough for an order. Orders of several lines are left to the proofs,
  which hold for every set of lines. `MaxVersion` bounds patches only, and is large
  enough for a patch to be tried after a confirmation; confirm and receive add at
  most `1 + MaxQty` versions per line.
- `create_imports`: two sheets is the least at which a suggestion is awaited under
  the lock, two files the least that can be half renamed, and three ids let two
  creates race after an earlier one committed. An id all of whose traces were
  cleaned up may be drawn again, which keeps the ids finite and identifies states
  that differ in nothing but the name of a failed import.
- `import_alone`: three workers, so that a claim can be lost, taken and refused at
  once; `MaxWrites = 2` lets the second persistence happen.
- `inventory`: one lot (lots meet nowhere but in the dates of movements), two requests
  without a key against keyed ones, so that a lot can be overdrawn twice, two imports,
  quantities up to one. One day suffices, as no property that is checked depends on days
  (the refusals that dates cause are refusals at any time); the theorems hold for any
  number. `MaxOnHand` and `MaxVersion` cut the unbounded growth. `Replayed` keeps the system from ending at
  those bounds, and stands for a replayed key.
- `constraint_versions`: one client without a key (two race no differently, since
  each has one locked step and keyed requests play the other), three days (before, at,
  after), four versions: the latest, the one it overlaps, one written meanwhile
  and one after.
- `planning`: each load is a set of requests that compete: the same kind
  twice with a third that shares its rows, or two compatibility runs of which one has no
  key. `MaxEdits = 2` edits of the recipes (away
  from the forecast and back, or two generations), which is what late rows of old recipes
  take, one fault, which is a crash or a
  failed commit inside a failure handler.
- `forecasts`: two versions, two trainings and two keyed forecasts at once, two
  builds (each version once, or one of them twice), two runs, one failure handler that
  fails, one crash.
- `procurement`: every case of `MCProcurement`: three days, two strategies whose
  demands are comparable, no, one or several lots and deliveries, terms with and
  without MOQ, packs and capacity, constraints with and without limits. The search
  is over cases; there is no interleaving.
- `lot_physics`: two lots is the least at which an order of use exists, two days the
  least at which a lot spoils between two demands, quantities and demands up to two
  leave a lot used in part. The proofs hold for all of these.
- `narration`: two callers, so that two loops can be started and an owner replaced,
  one of them free to ask for anything (`Interests`); two sentences let one be
  supported and the other not. Attempts are two in the code.
- `CHECK_DEADLOCK FALSE` stands in `planning`, `narration` and `lot_physics`, where
  all requests may be answered, the server be shut down and the horizon be over.
- Symmetry sets are used in runs that check safety and action properties only.

### Fairness

`ImportJob` needs weak fairness of `ProcessProceeds(w)`, the steps of one process
request. A request runs in its own thread, never waits for another request except
for the database lock (which its holder always releases at commit, rollback or
timeout), and a lock timeout is an exception, that is, another step. Starting
requests, confirmations, database failures and crashes are not fair.
`ProcessingEnds` therefore says what the code really provides: a claimed job ends
unless a crash or a database failure took its worker (`lost`); in that case it
stays in `processing`, as CURRENT_STATE.md:691 admits.

`ImportCreate` needs strong fairness of `Proceed(r)`: a create cannot run while
another one keeps the event loop, so its steps are enabled again and again rather
than always, and asyncio runs ready callbacks first in, first out, so none is passed
over for ever. The suggestion it awaits returns, as its HTTP client has a timeout
(`openrouter_mapping_timeout_seconds`). `ThreadUnlock` is weakly fair: a handler in
the thread pool waits for no create. Arrivals, failures and crashes are not fair.
Without the busy timeout two creates of two sheets would wait for each other for
ever, which is what the mutant of `EveryCreateEnds` shows.

`Planning` and `Forecasts` need weak fairness of the steps of a request, a training
or a forecast that has begun, for the reason given for `ImportJob`. Requests,
edits, faults and crashes are not fair. A run that was committed as running stays so
when a crash takes its thread or its failure cannot be written down either
(`AbandonFails`, `FailureUnwritten`); nothing in the code picks it up again. `RunsEnd`
excuses a behaviour with such a fault, `ForecastsEnd` one with a crash, and of the others
only the very runs in `lost`.

`LlmGateway` and `Narration` need weak fairness of every step of a thread that has
something to do: the owner's loop, a caller with its request, and the lifespan once
it closes. Each attempt ends, because the HTTP client has a timeout, and is
repeated at most once. Nobody has to ask a question and nobody has to stop the
server. `EveryQuestionIsAnswered` says that whoever asks is answered, by the model
or by the fallback; `ShutdownEnds` that `close_client` comes back.

## Proofs

The proofs are in one module per group of components; a module's inductive invariant is
checked by TLC on the run's instance before it is proved. Every theorem holds for all
values of the constants: any number of orders, requests, lots, versions, days and so on.

`PurchaseOrdersProofs`, for every set of orders, lines, handlers and months and all
costs, quantities and budgets. In every interleaving, racing patches included:

- `TypeCorrect`: `Spec => []TypeOK`. It carries real content: reserved and spent money
  stay natural numbers (a delivery is refused when the reservation is too small), and
  an order has a month exactly when it was confirmed.
- `CommitmentsWithinBudget`: only `Confirm` raises what a month has committed, and it
  computes the remaining budget under the lock; `Deliver` moves money from reserved to
  spent; no other action touches either.
- `SpentIsStocked`: what a month spent is at most the worth of the goods its orders put
  in stock, and exactly that where no cost has a fraction. Its invariant adds only that an
  order no month has confirmed has nothing in stock (`NothingUnconfirmed`): a patch may
  rewrite what is ordered, but not what was delivered and paid.
- `StatusMovesForward`: a patch keeps the stored status, and the two conditional UPDATEs
  admit only the statuses they move on from.

Under `PatchAlone`, the clients' discipline:

- `SnapshotsAreSafe`, `DeliveriesAreSafe`, `BudgetIsSafe`, `VersionsCount`,
  `DraftsOnlyAreRewritten`.
- `ReservationSuffices`: what is reserved covers what is still to come, so no delivery
  within the ordered quantities is refused for money. The cost of an order is truncated
  once when it is reserved and again at every delivery; `CostSplit` says that truncating the
  parts never costs more than truncating the whole, which is all it takes.
- `HandlersImplementLedger`: the handlers implement `PurchaseLedger`. Each locked step is
  one ledger operation (`CreateDrafts`, `PatchRedrafts`, `ConfirmCommits`, `DeliverSettles`,
  `SettingsRebudget`), because by the invariant what the handler loaded is what is stored
  and an order's stored line costs add up to the ledger's cost of its quantities; reading
  shows nothing.

Those under `PatchAlone` rest on one inductive invariant, `IInv`. Neither
`DeliveriesMatchOrder` nor `BudgetIsConserved` is inductive alone: a handler's
write is computed from its snapshot, so the invariant must say what a snapshot is
worth. Its parts are: types; loaded versions never exceed the stored ones, and a
handler whose loaded version is the stored one has loaded the stored rows
(`SnapshotOK`); a patch in flight is alone with its order, so its unguarded write
finds the rows it loaded; each order's rows agree with its status, its total with
the costs of its lines, and the budget with the totals. `SumLemmas` has what is
needed about sums over finite sets, which `Sums` defines as a number of coins, so that
the library's finite-set theorems take the place of an induction: sums of zero, of one
changed value, of two summands, of a multiple, and of values that grow.

`ImportProofs` has two parts. Uploads, in every interleaving: `UploadsTyped`,
`CommittedHaveFiles`, `FilesAreOwned`, `KeysNameOneContent`, `AwaitedKeysMakeOneImport`,
`AnswersAreCommitted`, `NoLockIsKept`. What the invariant adds: a create in flight shares
its id with nobody (`IdsAreOwn`), so cleaning up touches no other import; every keyed job
has its key's row and every row its job (`RowsAreJobs`); between `Register` and `Commit` no
other content can appear under the key, because who renames has the lock
(`RegisteredAgree`); a create with an awaited key is alone and its key has no row
(`AwaitedAlone`).

Processing, under `ConfirmAlone`: `OneClaimAtATime`, `RowsComeFromMapping`,
`FailedStaysFailed`, `CompletedStaysReplayed` and `RequestsImplementImportLedger`, the
refinement, with one lemma for each of the ledger's operations. One claim is not inductive alone, since
two requests may both have passed the check; the invariant says of a worker with the
claim that the job is `processing` and that the status and mappings it has loaded are the
stored ones, and of one without it that it gets no further than recording its start, and
only on a job nobody can claim (`WorkerOK`); and that a confirmation under way is alone and
has read the status that is stored (`ConfirmersAreAlone`). Without `ConfirmAlone` the
theorems are false, as the table above says.

`InventoryLotsProofs`: `InventoryTyped`; `NothingNegative` and `VersionsCover`, which exempt the
lots of the history variable `stale` and no others; `OverdraftBounded`, which exempts none.
The invariant adds that a lot nobody opened has no
movement of a client (`UnopenedIsUnmoved`, the base case of the version) and that a request
at work on a lot has found it (`WritersFoundLots`, so it never raises a lot from version 0).
For `OverdraftBounded` it counts debt: a request that saw something on hand may still take it
(`Owing`), every other has cleared the lot, and the lot is overdrawn by at most `MaxOnHand` for
each request that cleared it (`DebtCleared`); a request comes to owe only at a moment when
something is on hand, when there is no debt at all.

`VersionProofs`, about `Forecasts`: `ForecastsTyped`; `OneActiveModel`; `FilesOfActiveModel`, through the two
renames and every failure between them; `OneRunPerKey`. For the files, the invariant says what
a trainer has in hand at each of its steps (`TrainersOK`: a staged build until it published
it, a directory held aside only until then); for the key, that one caller at a time works
with it, that the key is registered and names no run while it does, and that no run carries
the key before that caller commits one (`KeyIsHeld`, `CallersHaveRuns`).
`TrainingsAndForecastsImplementLedger` is the refinement of `ForecastLedger`: each handler's
step is one operation of the ledger (`ActivateTrains`, `BeginRunBegins`, `RefuseRunRefuses`,
`CompleteFinishes`, `CallFailsFails`, `LinkKeyLinks`) or a stutter. It needs two more invariants.
`TrainedInv`: a model that is ready, and one that a caller picked and has not committed its run
for, was active once, whatever became of it since. `RunsAreOwn`: a run belongs to one caller at a time, runs until that caller completes it and
stays completed until that caller is done. Without it a failing caller could overwrite the
forecast that another caller's key is linked to.

`DecisionProofs`, about `Planning`: `PlanningTyped`; `WholeDemand`; `FreshDecisions`; `OneRunPerKey`;
`PlannedLinks`; `FinishedStays`. The invariant says of a request where it may be, by its kind
(`Placed`), in which state the runs are that it works on (`Owns`), that no two requests work
on one run and none on a procurement run that a compatibility run is linked to (`Apart`:
without it an error handler could overwrite a linked run), how old the rows are that it has
or would read, late ones aside (`Fresh`), and that who carried a key and committed a run is the one that
registered it (`Holds`).

About `Narration` with `LlmGateway`: `LoopsExist`, no thread posts on, and no shutdown stops, a
loop that was never started; `NobodyIsStranded`, no request and no shutdown is on one that has
stopped; `AnswersStay`. The gateway's part of the invariant follows the owner through the
life of the application: there is one whenever requests are served, and callers are away
before `close()` drops it (`OwnerIsKnown`). That nobody is stranded rests on an order: a loop
stops only after the lifespan had the client closed, by when callers are away, and the lifespan
posts nothing but that closing (`LoopsStopLast`).

`VersionProofs`, about `ConstraintVersions` (its specification is `ConstraintSpec`, beside
the `Spec` of `Forecasts`), is about a family of constraints with any number of
versions, days and requests in flight, with and without keys: `ConstraintsTyped`;
`VersionsFollowDates` (no version starts before an older one, although the latest
version is read before the lock); `OnlyTheLatestIsActive`, what
`_persist_business_constraints` relies on when it closes the latest version alone;
and `OverlapsAreDeactivations`: two versions in force on one day take a deactivation
of the earlier one. Overlaps are not inductive: the invariant has to say of every
older version that it was deactivated, replaced on its own day, or ended before
the next one began (`OlderIsClosed`), and of every request without a key what it
still knows of the version it read (`ClientsKnow`).

`LotPhysicsProofs` is about `simulate_inventory` for any set of lots, any horizon, all
quantities, dates, policies and waste events: `PhysicsTyped`; `LedgersBalance`, so the
check of `validate_accounting_ledger` never raises; `UnitsAreTraced`, every unit of a
lot is on the shelf, used, spoiled or wasted; `NoExpiredUse`; `SpoilageWasUnavoidable`,
no tracked unit spoils that a demand left short, or served by a tracked lot that lives
longer, could have used. The row of the day must balance after every step of the
day, not only at its end (`RowBalances`), and stages order what a day's uses and
shortages can be (`UsesInOrder`, `ShortInOrder`). The last theorem rests on
`ShortestLivedFirst`: the lot that is consumed is the one `sort_fefo` puts first.

`ProcurementProofs` is about `build` for every horizon, any lots and deliveries, all demands,
offers and rules. First about projections, which are pure functions:

- `FefoBest`: no fixed order of the lots throws away less or leaves less unserved than first
  expiring first out, over any horizon and any mix of arrivals. Day by day, FEFO keeps at
  least as much as any other order of what lasts until day x, for every x at once
  (`FefoSavesWhatLasts`, `LastingLeft`); what was thrown away, less what was short, plus
  what is left is the same under all orders (`BalanceKept`), so keeping more means
  having lost and missed less.
- `OrderAdds`: a delivery that carries no date goes behind every dated lot, so those are
  used and spoil as before (`AheadOfOrder`, `DayWithOrder`); what it adds covers what is
  short from its arrival on, and the rest of it is there at the end.
- `MoreDemandLeavesLess`: with more demand on any day no lot has more left.

Then about the steps of `build`: `PlansFollow`, the inductive invariant, says that every
plan is what its case makes it: the projection without an order, the requirement, an
offered term, packs that hold the requirement unless the shelf life shrank them, and the
projection with the order. `FefoIsBest`, `OrdersHelp`, `TargetReached` and
`MoreDemandMorePacks` put the two together for the four invariants the run checks. That the
chosen term is one of the offered needs an argument of its own: the ranks are compared
lexicographically, and of any tuples of naturals there is one that no other precedes
(`LowestRank`, from the library's well-founded orders).

Two devices take the place of induction, whose theorems have an operator as a parameter.
A statement about all days is a set of days, and the first day outside it, which exists
because `<` on the naturals is well founded, refutes its step (`DayInduction`;
`SubsetInduction` does the same for sets of lots, by cardinality). And a recursive
function defined by its own equation is unfolded by showing that a function satisfying the
equation exists (`ConsumedRows`): a least number of days for which there is none would
have a smaller one.

Assumptions: `ConstantsOK`, `CostsOK`, `CreateConstantsOK`, `ImportConstantsOK`,
`InventoryConstantsOK`, `ConstraintConstantsOK`, `ForecastConstantsOK`, `PlanningConstantsOK`,
`GatewayConstantsOK`, `NarrationConstantsOK`, `PhysicsConstantsOK`, `LastDayOK`,
`ProcurementConstantsOK` (finite sets, natural
numbers, positive scale, packs, horizon and quantities; lots are numbered, which is how ties are
broken; the lots of an ingredient are tracked all or none, since the mode is the ingredient's; the requests of the four endpoints are different requests; the lifespan is no
business thread); TLC evaluates them in every run of their modules. The model's atomic
locked step (fact 2 above) is an assumption about SQLite, not proved. Bounds on counters
are constants without an upper limit.

Some theorems state what no run checks, because they carry the proofs of the others
or say more than the runs ask: `TypeCorrect`, `VersionsCount`, `StatusMovesForward`,
`DraftsOnlyAreRewritten`, `UploadsTyped`, `AnswersAreCommitted`, `NoLockIsKept`,
`FailedStaysFailed`, `CompletedStaysReplayed`, `RowsComeFromMapping` and `OneActiveModel` (which the ledgers imply),
`ConstraintsTyped`, `OnlyTheLatestIsActive`,
`InventoryTyped`, `ForecastsTyped`, `PlanningTyped`, `FinishedStays`, `LoopsExist`, `AnswersStay`,
`PhysicsTyped`, and the four about projections and plans that the others of
`ProcurementProofs` rest on: `PlansFollow`, `FefoBest`, `OrderAdds`, `MoreDemandLeavesLess`.

### Model-checked only

Every invariant and every action property a run checks is stated by a theorem. What is left
to TLC, besides the statements it refutes:

- Liveness under fairness and ENABLED, which the prover does not handle: `ProcessingEnds`,
  `EveryCreateEnds`, `RunsEnd`, `ForecastsEnd`, `EveryQuestionIsAnswered`, `ShutdownEnds`.

## Not modelled

- **Catalog, recipes, menu, supplier terms, calendar**: rows with version-checked
  edits of the shape `ConstraintVersions` and `PurchaseOrders.WriteSettings` have, in
  many more fields; that recipes change under a demand run is in `Planning`. Their
  import (`_persist_recipes`, sales, usage) is an upsert by provenance key and only
  the inventory and constraint sheets, which have rules about dates, are modelled.
- **Order optimisation and scenarios** (`shelfcash_core/optimization`, `scenario`): a
  mixed integer program handed to an external solver, and Monte Carlo samples over
  reals. Only the physics they evaluate with is modelled (`LotPhysics`).
- **Forecasting numerics** (models, features, calibration, backtests): floating-point
  statistics; there is no state to interleave and no integer domain to enumerate.
- **BOM and units**: decimal arithmetic on data; its outcomes (expanded, not covered,
  failed) are choices in `Planning`.
- **Evidence and prompts** (`app/decision_intelligence`): the text of evidence,
  prompts and fallbacks is layout; the guards' decisions are in `Narration`.
- **`shelfcash_forecast`**: a copy of the core used for offline evaluation and as an
  optional shadow: it trains and predicts beside production, its failures are
  swallowed (`forecast_service.py:117-155`) and its results are only compared.
- **HTTP layer, schemas, envelopes, migrations**: input, output and one-off scripts.
- **Settings PUT as a client protocol**: that two writers with the same version both
  succeed is a hazard listed without a property; the write itself is an action of
  `PurchaseOrders`.

## Next

1. An abstract keyed effect that happens once, implemented by each of the three
   registration disciplines (first in the transaction, last before the commit, in a
   transaction of its own), with the refinement proved as `HandlersImplementLedger` is.
2. Recipes and menu edits, with supplier terms, as one module of versioned rows.

## Running it

`tlc -config po_serial_patch.cfg MCPurchaseOrders` and so on (each run's module is
in `PROJECT.json`); `tlapm PurchaseOrdersProofs.tla`.
