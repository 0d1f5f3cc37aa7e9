---------------------------- MODULE DecisionProofs ----------------------------
(***************************************************************************)
(* Decisions and what is said about them, for every set of requests, with  *)
(* and without keys, and for every number of edits and crashes: the demand *)
(* is whole, a decision's rows are as new as its request or came late, a   *)
(* key names one run, a compatibility run that completed is linked to      *)
(* plans of its own, and what finished stays.  Then, for every number of   *)
(* callers: requests find their loop and are never left on one that has    *)
(* stopped, and an answer stays as it was given.                           *)
(***************************************************************************)
EXTENDS Planning, Narration, FiniteSetTheorems, SequenceTheorems, TLAPS

\* The parts of the inductive invariant.  Where the requests of an endpoint may be ...
Placed(r) ==
  /\ req[r].at = "see" => r \in Legacies \cup Decisions
  /\ req[r].at \in {"new", "see"} => req[r].saw = "none"
  /\ req[r].at \in {"expand", "write"} => r \notin Plans
  /\ req[r].at \in {"load", "link", "read", "blocked", "failed"} => r \in Legacies
  /\ req[r].at \in {"begin", "plan"} => r \in Plans \cup Legacies
  /\ req[r].at \in {"decide", "enrich"} => r \in Decisions

\* ... and the runs it works on, in the state that its place says.
Owns(r) ==
  /\ req[r].at \in {"begin", "plan"} => req[r].rows # {}
  /\ req[r].at = "plan" => /\ req[r].run \in 1 .. Len(planRuns)
                           /\ planRuns[req[r].run].status = "running"
  /\ req[r].at = "link" => /\ req[r].run \in 1 .. Len(planRuns)
                           /\ planRuns[req[r].run].status = "completed"
                           /\ planRuns[req[r].run].plans # {}
  /\ req[r].at = "enrich" => /\ req[r].run \in 1 .. Len(decisions)
                             /\ ~ decisions[req[r].run].summary
  /\ r \in Legacies /\ InFlight(r) => req[r].legacy \in 1 .. Len(legacyRuns)

\* No two work on one run, and none on a procurement run that a compatibility run is linked to.
InPlans(r) == req[r].at \in {"plan", "link"}
Apart ==
  /\ \A r, q \in Requests : InPlans(r) /\ InPlans(q) /\ req[r].run = req[q].run => r = q
  /\ \A r, q \in Requests :
       req[r].at = "enrich" /\ req[q].at = "enrich" /\ req[r].run = req[q].run => r = q
  /\ \A r \in Requests : InPlans(r) =>
       \A i \in 1 .. Len(legacyRuns) : legacyRuns[i].run # req[r].run
Linked == \A i \in 1 .. Len(legacyRuns) : legacyRuns[i].run \in 0 .. Len(planRuns)

\* A decision's rows, once it has them, and the ones it would read, are of its own expansion, of a
\* later one, or came late.
NoneOlder(rows, since) == \A g \in rows : g >= since \/ CameLate(g)
Fresh(r) ==
  /\ req[r].since <= recipes.gen
  /\ r \in Decisions /\ req[r].at \in {"new", "see", "expand"} => req[r].rows = {}
  /\ req[r].at = "decide" =>
       NoneOlder(IF req[r].rows = {} THEN demand.rows ELSE req[r].rows, req[r].since)

\* A request that carried a key and committed a run is the one that registered it.
Holds(r) ==
  /\ r \in Keyed /\ r \in Plans /\ req[r].at = "plan" => keys["plans"] = req[r].run
  /\ r \in Keyed /\ r \in Legacies /\ InFlight(r) => keys["legacy"] = req[r].legacy
  /\ r \in Keyed /\ req[r].at = "enrich" => keys["decision"] = req[r].run
  /\ r \in Keyed \ Demands /\ req[r].at = "done" =>
       req[r].answer # 0 /\ req[r].answer = keys[Endpoint(r)]
KeyedDecision == \A i \in 1 .. Len(decisions) : decisions[i].keyed => keys["decision"] = i

NoRunNoRows == demand.status = "none" => demand.rows = {}

IInv ==
  /\ TypeOK /\ NoRunNoRows /\ DemandIsWhole
  /\ \A r \in Requests : Placed(r) /\ Owns(r) /\ Fresh(r) /\ Holds(r)
  /\ Apart /\ Linked /\ LinkedRunsArePlanned /\ KeyedDecision /\ DecisionsAreFresh

-----------------------------------------------------------------------------
(* The operators of the model. *)

LEMMA EndpointOf ==
  ASSUME NEW r \in Requests
  PROVE  /\ r \in Demands => Endpoint(r) = "demand"
         /\ r \in Plans => Endpoint(r) = "plans"
         /\ r \in Legacies => Endpoint(r) = "legacy"
         /\ r \in Decisions => Endpoint(r) = "decision"
BY PlanningConstantsOK DEF Endpoint, Requests

\* What a list becomes when a run is appended or replaced.
LEMMA Appended ==
  ASSUME NEW S, NEW s \in Seq(S), NEW x \in S, NEW r, r = Append(s, x)
  PROVE  /\ r \in Seq(S) /\ Len(r) = Len(s) + 1 /\ r[Len(s) + 1] = x
         /\ DOMAIN r = 1 .. Len(s) + 1
         /\ \A i \in 1 .. Len(s) : r[i] = s[i]
<1>1. /\ r \in Seq(S) /\ Len(r) = Len(s) + 1 /\ r[Len(s) + 1] = x
      /\ \A i \in 1 .. Len(s) : r[i] = s[i]
  BY AppendProperties
<1>2. DOMAIN r = 1 .. Len(r)
  BY <1>1
<1>3. QED
  BY <1>1, <1>2

LEMMA Replaced ==
  ASSUME NEW S, NEW s \in Seq(S), NEW n \in 1 .. Len(s), NEW x \in S, NEW r, r = [s EXCEPT ![n] = x]
  PROVE  /\ r \in Seq(S) /\ Len(r) = Len(s) /\ r[n] = x
         /\ DOMAIN r = 1 .. Len(s)
         /\ \A i \in 1 .. Len(s) : i # n => r[i] = s[i]
<1>1. /\ r \in Seq(S) /\ Len(r) = Len(s)
      /\ \A i \in 1 .. Len(s) : r[i] = IF i = n THEN x ELSE s[i]
  BY ExceptSeq
<1>2. DOMAIN r = 1 .. Len(r)
  BY <1>1
<1>3. QED
  BY <1>1, <1>2

\* The lists are sequences.
LEMMA Lists ==
  ASSUME TypeOK
  PROVE  /\ Len(planRuns) \in Nat /\ DOMAIN planRuns = 1 .. Len(planRuns)
         /\ \A i \in 1 .. Len(planRuns) : planRuns[i] \in PlanRun
         /\ Len(legacyRuns) \in Nat /\ DOMAIN legacyRuns = 1 .. Len(legacyRuns)
         /\ \A i \in 1 .. Len(legacyRuns) : legacyRuns[i] \in LegacyRun
         /\ Len(decisions) \in Nat /\ DOMAIN decisions = 1 .. Len(decisions)
         /\ \A i \in 1 .. Len(decisions) : decisions[i] \in Decision
BY DEF TypeOK

\* The record of the request that takes the step.
LEMMA Record ==
  ASSUME TypeOK, NEW r \in Requests, NEW x \in Request, req' = [req EXCEPT ![r] = x]
  PROVE  /\ req' \in [Requests -> Request] /\ req'[r] = x
         /\ \A q \in Requests : q # r => req'[q] = req[q]
BY DEF TypeOK

LEMMA Place ==
  ASSUME NEW x \in Request, NEW a \in Places
  PROVE  LET y == [x EXCEPT !.at = a] IN
         /\ y \in Request /\ y.at = a /\ y.saw = x.saw /\ y.read = x.read /\ y.rows = x.rows
         /\ y.run = x.run /\ y.legacy = x.legacy /\ y.since = x.since /\ y.answer = x.answer
BY DEF Request

\* Rows of two expansions have their reason for good: what a request saw it has seen.
LEMMA WholeStays ==
  ASSUME DemandIsWhole, demand' = demand, NEW r \in Requests,
         \A q \in Requests : q # r => req'[q] = req[q],
         req'[r].saw = req[r].saw \/ req[r].saw = "none"
  PROVE  DemandIsWhole'
<1>1. \A q \in Requests : req[q].saw = "blocked" => req'[q].saw = "blocked"
  OBVIOUS
<1>2. QED
  BY <1>1 DEF DemandIsWhole, Requests

-----------------------------------------------------------------------------
LEMMA Initially == Init => IInv
<1> SUFFICES ASSUME Init PROVE IInv
  OBVIOUS
<1>1. /\ planRuns = <<>> /\ legacyRuns = <<>> /\ decisions = <<>>
      /\ planRuns \in Seq(PlanRun) /\ legacyRuns \in Seq(LegacyRun) /\ decisions \in Seq(Decision)
      /\ Len(planRuns) = 0 /\ Len(legacyRuns) = 0 /\ Len(decisions) = 0
  BY DEF Init
<1>2. 0 \in Gens /\ 1 \in Gens \ {0}
  BY PlanningConstantsOK DEF Gens
<1>3. Start \in Request /\ [Start EXCEPT !.at = "gone"] \in Request
  BY <1>2 DEF Start, Request, Places, Ended, Fits
<1>4. /\ req \in [Requests -> Request]
      /\ \A r \in Requests : /\ req[r].at \in {"new", "gone"} /\ req[r].saw = "none"
                             /\ req[r].since = 0 /\ req[r].rows = {}
  BY <1>3 DEF Init, Start
<1>5. recipes.gen = 1 /\ demand.status = "none" /\ demand.rows = {} /\ late = {}
  BY DEF Init
<1>6. TypeOK
  BY <1>1, <1>2, <1>4, PlanningConstantsOK DEF Init, TypeOK, Fits
<1>7. \A r \in Requests : Placed(r) /\ Owns(r) /\ Fresh(r) /\ Holds(r)
  BY <1>4, <1>5 DEF Placed, Owns, Fresh, NoneOlder, CameLate, Holds, InFlight, Ended
<1>8. Apart /\ Linked /\ LinkedRunsArePlanned /\ KeyedDecision /\ DecisionsAreFresh
  BY <1>1, <1>4 DEF Apart, InPlans, Linked, LinkedRunsArePlanned, KeyedDecision, DecisionsAreFresh
<1>9. NoRunNoRows /\ DemandIsWhole
  BY <1>5 DEF NoRunNoRows, DemandIsWhole
<1>10. QED
  BY <1>6, <1>7, <1>8, <1>9 DEF IInv

\* A request that reads, replays, answers or errs: only its own record changes, and it takes up no
\* run that it did not work on.
LEMMA RequestMoves ==
  ASSUME IInv, NEW r \in Requests, NEW x \in Request, req' = [req EXCEPT ![r] = x],
         UNCHANGED <<recipes, demand, planRuns, legacyRuns, decisions, keys, late>>,
         faults' \in 0 .. MaxFaults,
         Placed(r)', Owns(r)', Fresh(r)', Holds(r)', x.saw = req[r].saw \/ req[r].saw = "none",
         x.at \notin {"plan", "link", "enrich"}
  PROVE  IInv'
<1>1. /\ req' \in [Requests -> Request] /\ req'[r] = x
      /\ \A q \in Requests : q # r => req'[q] = req[q]
  BY Record DEF IInv
<1>2. TypeOK'
  BY <1>1 DEF IInv, TypeOK
<1>3. ASSUME NEW q \in Requests, q # r
      PROVE  Placed(q)' /\ Owns(q)' /\ Fresh(q)' /\ Holds(q)'
  BY <1>1, <1>3 DEF IInv, Placed, Owns, Fresh, NoneOlder, CameLate, Holds, InFlight
<1>4. Apart'
  BY <1>1 DEF IInv, Apart, InPlans
<1>5. DemandIsWhole' /\ DecisionsAreFresh'
  BY <1>1, WholeStays DEF IInv, DecisionsAreFresh, CameLate
<1>6. QED
  BY <1>2, <1>3, <1>4, <1>5
     DEF IInv, NoRunNoRows, Linked, LinkedRunsArePlanned, KeyedDecision

\* ... to another place,
LEMMA RequestGoes ==
  ASSUME IInv, NEW r \in Requests, NEW a \in {"load", "blocked", "failed", "refused"}, Goes(r, a),
         UNCHANGED <<recipes, demand, planRuns, legacyRuns, decisions, keys, late>>,
         faults' \in 0 .. MaxFaults,
         a # "refused" => r \in Legacies /\ InFlight(r)
  PROVE  IInv'
<1> DEFINE x == [req[r] EXCEPT !.at = a]
<1>1. req[r] \in Request /\ a \in Places
  BY DEF IInv, TypeOK, Places, Ended
<1>2. /\ x \in Request /\ x.at = a /\ x.saw = req[r].saw /\ x.rows = req[r].rows /\ x.run = req[r].run
      /\ x.legacy = req[r].legacy /\ x.since = req[r].since /\ x.answer = req[r].answer
  BY <1>1, Place
<1>3. req' = [req EXCEPT ![r] = x]
  BY DEF Goes
<1> HIDE DEF x
<1>4. req'[r] = x
  BY <1>2, <1>3, Record DEF IInv
<1>5. Placed(r)' /\ Owns(r)'
  BY <1>2, <1>4 DEF IInv, Placed, Owns, InFlight, Ended
<1>6. Fresh(r)'
  BY <1>2, <1>4 DEF IInv, Fresh, NoneOlder, CameLate
<1>7. Holds(r)'
  BY <1>2, <1>4 DEF IInv, Holds, InFlight, Ended
<1>8. QED
  BY <1>2, <1>3, <1>5, <1>6, <1>7, RequestMoves

\* ... or with an answer.
LEMMA RequestAnswers ==
  ASSUME IInv, NEW r \in Requests, NEW run \in Nat, Answers(r, run),
         UNCHANGED <<recipes, demand, planRuns, legacyRuns, decisions, keys, late, faults>>,
         r \in Keyed \ Demands => run # 0 /\ run = keys[Endpoint(r)]
  PROVE  IInv'
<1> DEFINE x == [req[r] EXCEPT !.at = "done", !.answer = run]
<1>1. req[r] \in Request /\ "done" \in Places
  BY DEF IInv, TypeOK, Places, Ended
<1>2. /\ x \in Request /\ x.at = "done" /\ x.saw = req[r].saw /\ x.rows = req[r].rows
      /\ x.run = req[r].run /\ x.legacy = req[r].legacy /\ x.since = req[r].since /\ x.answer = run
  BY <1>1 DEF Request
<1>3. req' = [req EXCEPT ![r] = x]
  BY DEF Answers, IInv, TypeOK
<1> HIDE DEF x
<1>4. req'[r] = x
  BY <1>2, <1>3, Record DEF IInv
<1>5. Placed(r)' /\ Owns(r)' /\ Fresh(r)' /\ Holds(r)'
  BY <1>2, <1>4 DEF IInv, Placed, Owns, Fresh, NoneOlder, CameLate, Holds, InFlight, Ended
<1>6. faults' \in 0 .. MaxFaults
  BY DEF IInv, TypeOK
<1>7. QED
  BY <1>2, <1>3, <1>5, <1>6, RequestMoves

LEMMA SeeDemandKeeps ==
  ASSUME IInv, NEW r \in Requests, SeeDemand(r)
  PROVE  IInv'
<1> DEFINE x == [req[r] EXCEPT !.at = "expand", !.saw = demand.status]
<1>1. req[r] \in Request /\ demand.status \in {"none", "completed", "blocked"}
  BY DEF IInv, TypeOK
<1>2. /\ x \in Request /\ x.at = "expand" /\ x.rows = req[r].rows /\ x.run = req[r].run
      /\ x.legacy = req[r].legacy /\ x.since = req[r].since /\ x.answer = req[r].answer
  BY <1>1 DEF Request, Places
<1>3. req' = [req EXCEPT ![r] = x]
  BY DEF SeeDemand, IInv, TypeOK
<1> HIDE DEF x
<1>4. req'[r] = x /\ faults' \in 0 .. MaxFaults /\ req[r].saw = "none"
  BY <1>2, <1>3, Record DEF IInv, TypeOK, SeeDemand, Placed
<1>5. r \notin Plans /\ (r \in Legacies => InFlight(r))
  BY PlanningConstantsOK DEF IInv, Placed, SeeDemand, InFlight, Ended, Requests
<1>6. Placed(r)' /\ Owns(r)' /\ Fresh(r)' /\ Holds(r)'
  BY <1>2, <1>4, <1>5 DEF IInv, SeeDemand, Placed, Owns, Fresh, NoneOlder, CameLate, Holds, InFlight, Ended, runs
<1>7. QED
  BY <1>2, <1>3, <1>4, <1>6, RequestMoves DEF SeeDemand, runs

LEMMA ReuseDemandKeeps ==
  ASSUME IInv, NEW r \in Requests, ReuseDemand(r)
  PROVE  IInv'
<1>1. r \notin Decisions /\ r \notin Plans /\ faults' \in 0 .. MaxFaults
  BY PlanningConstantsOK DEF ReuseDemand, Reuses, Refreshes, ReplaysDemand, IInv, Placed, TypeOK
<1>2. CASE r \in Legacies
  <2>1. Resolved(r) = "load"
    BY <1>1, <1>2, PlanningConstantsOK DEF Resolved
  <2>2. "load" \in Places /\ InFlight(r)
    BY DEF Places, InFlight, Ended, ReuseDemand
  <2>3. QED
    BY <1>1, <1>2, <2>1, <2>2, RequestGoes DEF ReuseDemand, runs
<1>3. CASE r \in Demands
  <2> DEFINE x == [req[r] EXCEPT !.at = "done"]
  <2>1. Resolved(r) = "done"
    BY <1>1, <1>3, PlanningConstantsOK DEF Resolved
  <2>2. req[r] \in Request /\ "done" \in Places /\ r \notin Legacies
    BY <1>3, PlanningConstantsOK DEF Places, Ended, IInv, TypeOK
  <2>3. /\ x \in Request /\ x.at = "done" /\ x.saw = req[r].saw /\ x.rows = req[r].rows /\ x.run = req[r].run
        /\ x.legacy = req[r].legacy /\ x.since = req[r].since /\ x.answer = req[r].answer
    BY <2>2, Place
  <2>4. req' = [req EXCEPT ![r] = x]
    BY <2>1 DEF ReuseDemand, Goes
  <2> HIDE DEF x
  <2>5. req'[r] = x
    BY <2>3, <2>4, Record DEF IInv
  <2>6. Placed(r)' /\ Owns(r)' /\ Fresh(r)' /\ Holds(r)'
    BY <1>3, <2>2, <2>3, <2>5 DEF IInv, ReuseDemand, Placed, Owns, Fresh, NoneOlder, CameLate, Holds, InFlight, Ended, runs
  <2>7. QED
    BY <1>1, <2>3, <2>4, <2>6, RequestMoves DEF ReuseDemand, runs
<1>4. QED
  BY <1>1, <1>2, <1>3 DEF Requests

\* Whoever reads recipes without the lock has no key to register and refreshes nothing.
LEMMA Unlocked ==
  ASSUME NEW r \in Requests, r \notin Plans, ~ Locks(r)
  PROVE  r \in Lockless /\ r \notin Decisions /\ req[r].saw # "none"
BY DEF Locks, Refreshes, Lockless, Requests

LEMMA ReadRecipesKeeps ==
  ASSUME IInv, NEW r \in Requests, ReadRecipes(r)
  PROVE  IInv'
<1> DEFINE x == [req[r] EXCEPT !.at = "write", !.read = recipes]
<1>1. req[r] \in Request /\ recipes \in [gen : Gens, fits : Fits] /\ r \notin Plans
  BY DEF IInv, TypeOK, Placed, ReadRecipes
<1>2. /\ x \in Request /\ x.at = "write" /\ x.saw = req[r].saw /\ x.rows = req[r].rows
      /\ x.run = req[r].run /\ x.legacy = req[r].legacy /\ x.since = req[r].since
      /\ x.answer = req[r].answer
  BY <1>1 DEF Request, Places
<1>3. req' = [req EXCEPT ![r] = x]
  BY DEF ReadRecipes, IInv, TypeOK
<1> HIDE DEF x
<1>4. req'[r] = x /\ faults' \in 0 .. MaxFaults
  BY <1>2, <1>3, Record DEF IInv, TypeOK, ReadRecipes
<1>5. r \notin Decisions
  BY <1>1, Unlocked DEF ReadRecipes
<1>6. Placed(r)' /\ Owns(r)' /\ Holds(r)'
  BY <1>1, <1>2, <1>4 DEF IInv, ReadRecipes, Placed, Owns, Holds, InFlight, Ended, runs
<1>7. Fresh(r)'
  BY <1>2, <1>4, <1>5 DEF IInv, ReadRecipes, Fresh
<1>8. QED
  BY <1>2, <1>3, <1>4, <1>6, <1>7, RequestMoves DEF ReadRecipes, runs

LEMMA LoadDemandKeeps ==
  ASSUME IInv, NEW r \in Requests, LoadDemand(r)
  PROVE  IInv'
<1>1. /\ r \in Plans \/ (r \in Legacies /\ r \notin Plans /\ InFlight(r))
      /\ faults' \in 0 .. MaxFaults
  BY PlanningConstantsOK DEF LoadDemand, IInv, Placed, TypeOK, InFlight, Ended
<1>2. CASE demand.status = "completed" /\ demand.rows # {}
  <2> DEFINE x == [req[r] EXCEPT !.at = "begin", !.rows = demand.rows]
  <2>1. req[r] \in Request /\ demand.rows \in SUBSET Gens /\ "begin" \in Places
    BY DEF IInv, TypeOK, Places
  <2>2. /\ x \in Request /\ x.at = "begin" /\ x.saw = req[r].saw /\ x.rows = demand.rows /\ x.run = req[r].run
        /\ x.legacy = req[r].legacy /\ x.since = req[r].since /\ x.answer = req[r].answer
    BY <2>1 DEF Request
  <2>3. req' = [req EXCEPT ![r] = x]
    BY <1>2 DEF LoadDemand, IInv, TypeOK
  <2> HIDE DEF x
  <2>4. req'[r] = x
    BY <2>2, <2>3, Record DEF IInv
  <2>5. Placed(r)' /\ Owns(r)' /\ Fresh(r)' /\ Holds(r)'
    BY <1>1, <1>2, <2>2, <2>4, PlanningConstantsOK
       DEF IInv, LoadDemand, Placed, Owns, Fresh, NoneOlder, CameLate, Holds, InFlight, Ended, runs
  <2>6. QED
    BY <1>1, <2>2, <2>3, <2>5, RequestMoves DEF LoadDemand, runs
<1>3. CASE ~ (demand.status = "completed" /\ demand.rows # {})
  <2>1. Goes(r, Refused(r)) /\ UNCHANGED <<recipes, demand, planRuns, legacyRuns, decisions, keys, late>>
    BY <1>3 DEF LoadDemand, runs
  <2>2. /\ Refused(r) = "blocked" \/ Refused(r) = "refused"
        /\ Refused(r) = "blocked" => r \in Legacies /\ InFlight(r)
    BY <1>1, PlanningConstantsOK DEF Refused
  <2>3. {"blocked", "refused"} \subseteq Places
    BY DEF Places, Ended
  <2>4. QED
    BY <1>1, <2>1, <2>2, <2>3, RequestGoes
<1>4. QED
  BY <1>2, <1>3

LEMMA ReplayPlansKeeps ==
  ASSUME IInv, NEW r \in Requests, ReplayPlans(r)
  PROVE  IInv'
<1>1. keys["plans"] \in Nat /\ Endpoint(r) = "plans"
  BY EndpointOf DEF IInv, TypeOK, Endpoints, ReplayPlans
<1>2. QED
  BY <1>1, RequestAnswers DEF ReplayPlans, Replays, runs

LEMMA ReplayLegacyKeeps ==
  ASSUME IInv, NEW r \in Requests, ReplayLegacy(r)
  PROVE  IInv'
<1>1. keys["legacy"] \in Nat /\ Endpoint(r) = "legacy"
  BY EndpointOf DEF IInv, TypeOK, Endpoints, ReplayLegacy
<1>2. QED
  BY <1>1, RequestAnswers DEF ReplayLegacy, Replays, runs

LEMMA ReadLegacyKeeps ==
  ASSUME IInv, NEW r \in Requests, ReadLegacy(r)
  PROVE  IInv'
<1>1. r \in Legacies /\ InFlight(r) /\ Endpoint(r) = "legacy"
  BY EndpointOf DEF IInv, Placed, ReadLegacy, InFlight, Ended
<1>2. req[r].legacy \in Nat /\ req[r].legacy # 0 /\ (r \in Keyed => keys["legacy"] = req[r].legacy)
  BY <1>1 DEF IInv, TypeOK, Request, Holds, Owns
<1>3. QED
  BY <1>1, <1>2, RequestAnswers DEF ReadLegacy, runs

LEMMA ReplayDecisionKeeps ==
  ASSUME IInv, NEW r \in Requests, ReplayDecision(r)
  PROVE  IInv'
<1>1. keys["decision"] \in Nat /\ Endpoint(r) = "decision"
  BY EndpointOf DEF IInv, TypeOK, Endpoints, ReplayDecision
<1>2. QED
  BY <1>1, RequestAnswers DEF ReplayDecision, Replays, runs

\* The recipes can only become newer than when a decision began.
LEMMA BeginDecisionKeeps ==
  ASSUME IInv, NEW r \in Requests, BeginDecision(r)
  PROVE  IInv'
<1> DEFINE x == [req[r] EXCEPT !.at = "see", !.since = recipes.gen]
<1>1. req[r] \in Request /\ recipes.gen \in Gens /\ "see" \in Places
  BY DEF IInv, TypeOK, Places
<1>2. /\ x \in Request /\ x.at = "see" /\ x.saw = req[r].saw /\ x.rows = req[r].rows /\ x.run = req[r].run
      /\ x.legacy = req[r].legacy /\ x.since = recipes.gen /\ x.answer = req[r].answer
  BY <1>1 DEF Request
<1>3. req' = [req EXCEPT ![r] = x]
  BY DEF BeginDecision, IInv, TypeOK
<1> HIDE DEF x
<1>4. req'[r] = x /\ faults' \in 0 .. MaxFaults /\ r \notin Legacies
  BY <1>2, <1>3, Record, PlanningConstantsOK DEF IInv, TypeOK, BeginDecision
<1>5. Placed(r)' /\ Owns(r)' /\ Holds(r)'
  BY <1>1, <1>2, <1>4 DEF IInv, BeginDecision, Placed, Owns, Holds, InFlight, Ended, runs
<1>6. Fresh(r)'
  <2>1. recipes.gen <= recipes.gen
    BY <1>1 DEF Gens
  <2>2. r \in Decisions => req[r].rows = {}
    BY DEF IInv, BeginDecision, Fresh
  <2>3. QED
    BY <1>2, <1>4, <2>1, <2>2 DEF BeginDecision, Fresh
<1>7. QED
  BY <1>2, <1>3, <1>4, <1>5, <1>6, RequestMoves DEF BeginDecision, runs

LEMMA LoadRowsKeeps ==
  ASSUME IInv, NEW r \in Requests, LoadRows(r)
  PROVE  IInv'
<1>1. CASE demand.rows = {}
  <2>1. faults' \in 0 .. MaxFaults /\ "refused" \in Places
    BY DEF IInv, TypeOK, LoadRows, Places, Ended
  <2>2. QED
    BY <1>1, <2>1, RequestGoes DEF LoadRows, runs
<1>2. CASE demand.rows # {}
  <2> DEFINE x == [req[r] EXCEPT !.rows = demand.rows]
  <2>1. req[r] \in Request /\ demand.rows \in SUBSET Gens
    BY DEF IInv, TypeOK
  <2>2. /\ x \in Request /\ x.at = req[r].at /\ x.saw = req[r].saw /\ x.rows = demand.rows /\ x.run = req[r].run
        /\ x.legacy = req[r].legacy /\ x.since = req[r].since /\ x.answer = req[r].answer
    BY <2>1 DEF Request
  <2>3. req' = [req EXCEPT ![r] = x]
    BY <1>2 DEF LoadRows
  <2> HIDE DEF x
  <2>4. req'[r] = x /\ faults' \in 0 .. MaxFaults /\ r \notin Legacies
    BY <2>2, <2>3, Record, PlanningConstantsOK DEF IInv, TypeOK, LoadRows
  <2>5. Placed(r)' /\ Owns(r)' /\ Fresh(r)' /\ Holds(r)'
    BY <1>2, <2>2, <2>4 DEF IInv, LoadRows, Placed, Owns, Fresh, NoneOlder, CameLate, Holds, InFlight, Ended, runs
  <2>6. QED
    BY <2>2, <2>3, <2>4, <2>5, RequestMoves DEF LoadRows, runs
<1>3. QED
  BY <1>1, <1>2

LEMMA ErrsKeeps ==
  ASSUME IInv, NEW r \in Requests, Errs(r)
  PROVE  IInv'
<1>1. faults' \in 0 .. MaxFaults
  BY PlanningConstantsOK DEF IInv, TypeOK, Errs
<1>2. QED
  BY <1>1, RequestGoes DEF Errs, Places, Ended, runs

LEMMA AbandonFailsKeeps ==
  ASSUME IInv, NEW r \in Requests, AbandonFails(r)
  PROVE  IInv'
<1>1. faults' \in 0 .. MaxFaults
  BY PlanningConstantsOK DEF IInv, TypeOK, AbandonFails
<1>2. QED
  BY <1>1, RequestGoes DEF AbandonFails, Places, Ended, runs

-----------------------------------------------------------------------------
(* The steps that change recipes, demand or runs. *)

LEMMA EditRecipesKeeps ==
  ASSUME IInv, EditRecipes
  PROVE  IInv'
<1>1. /\ recipes' \in [gen : Gens \ {0}, fits : Fits]
      /\ recipes'.gen = recipes.gen + 1 /\ recipes.gen \in Nat
  <2>1. recipes.gen + 1 \in Gens \ {0} /\ recipes.gen \in Nat
    BY PlanningConstantsOK DEF EditRecipes, IInv, TypeOK, Gens
  <2>2. QED
    BY <2>1 DEF EditRecipes, Fits
<1>2. TypeOK'
  BY <1>1 DEF IInv, TypeOK, EditRecipes, runs
<1>3. \A r \in Requests : Placed(r)' /\ Owns(r)' /\ Holds(r)'
  BY DEF IInv, EditRecipes, runs, Placed, Owns, Holds, InFlight
<1>4. \A r \in Requests : Fresh(r)'
  <2>1. \A r \in Requests : req[r].since <= recipes'.gen
    BY <1>1 DEF IInv, TypeOK, Request, Gens, Fresh
  <2>2. QED
    BY <2>1 DEF IInv, Fresh, NoneOlder, CameLate, EditRecipes
<1>5. QED
  BY <1>2, <1>3, <1>4
     DEF EditRecipes, runs, IInv, NoRunNoRows, DemandIsWhole, Apart, InPlans, Linked,
         LinkedRunsArePlanned, KeyedDecision, DecisionsAreFresh, CameLate

\* What a request finds when it expands: recipes as they are, or as they were when it read them
\* without the lock, and only then may its rows be late.
LEMMA BasisOf ==
  ASSUME IInv, NEW r \in Requests
  PROVE  /\ Basis(r) \in [gen : Gens, fits : Fits]
         /\ Locks(r) => Basis(r).gen = recipes.gen
<1>1. recipes \in [gen : Gens \ {0}, fits : Fits] /\ req[r].read \in [gen : Gens, fits : Fits]
  BY DEF IInv, TypeOK, Request
<1>2. QED
  BY <1>1 DEF Basis

\* What an expansion makes of the demand: rows of its recipes, or none, and the ones that were
\* there, which a decision never gets to keep.
LEMMA DemandExpanded ==
  ASSUME IInv, NEW r \in Requests, ExpandDemand(r)
  PROVE  /\ demand' \in [status : {"none", "completed", "blocked"}, rows : SUBSET Gens]
         /\ late' \subseteq [by : Requests, gen : Gens] /\ late \subseteq late'
         /\ NoRunNoRows' /\ DemandIsWhole'
         /\ \A g \in demand'.rows :
              g = recipes.gen \/ CameLate(g)' \/ (r \notin Decisions /\ g \in demand.rows)
<1> DEFINE own == IF Basis(r).fits = "fully" THEN {Basis(r).gen} ELSE {}
           kept == IF r \in Decisions THEN {} ELSE demand.rows
<1>1. /\ demand \in [status : {"none", "completed", "blocked"}, rows : SUBSET Gens]
      /\ Basis(r) \in [gen : Gens, fits : Fits] /\ own \in SUBSET Gens /\ kept \in SUBSET Gens
      /\ req[r].saw \in {"none", "completed", "blocked"} /\ r \notin Plans
  BY BasisOf DEF IInv, TypeOK, Request, Placed, ExpandDemand
<1>2. RowsAfter(r) = kept \cup own
  BY DEF RowsAfter, Kept, Refreshes
<1>3. StatusAfter(r) \in {"none", "completed", "blocked"}
  <2>1. CASE Basis(r).fits # "missing"
    BY <2>1 DEF StatusAfter
  <2>2. CASE Basis(r).fits = "missing" /\ req[r].saw = "blocked" /\ ~ Refreshes(r)
    BY <1>1, <2>2 DEF StatusAfter
  <2>3. CASE Basis(r).fits = "missing" /\ ~ (req[r].saw = "blocked" /\ ~ Refreshes(r))
    BY <2>3 DEF StatusAfter
  <2>4. QED
    BY <2>1, <2>2, <2>3
<1>4. /\ demand' = [status |-> StatusAfter(r), rows |-> RowsAfter(r)]
      /\ late' = late \cup [by : {r}, gen : (RowsAfter(r) \ demand.rows) \ {recipes.gen}]
      /\ recipes' = recipes
  BY DEF ExpandDemand
<1> HIDE DEF own, kept
<1>5. demand' \in [status : {"none", "completed", "blocked"}, rows : SUBSET Gens]
  BY <1>1, <1>2, <1>3, <1>4
<1>6. demand'.status = StatusAfter(r) /\ demand'.rows = kept \cup own
  BY <1>2, <1>4
<1>7. late' \subseteq [by : Requests, gen : Gens] /\ late \subseteq late'
  BY <1>1, <1>2, <1>4 DEF IInv, TypeOK
<1>8. \A q \in Requests : req[q].saw = "blocked" => req'[q].saw = "blocked"
  BY DEF ExpandDemand, Goes, IInv, TypeOK, Request
<1>9. \/ r \in Decisions /\ kept = {}
      \/ kept = {} /\ demand.rows = {}
      \/ kept = demand.rows /\ req[r].saw = "blocked" /\ r \in Demands \cup Legacies
  BY <1>1 DEF kept, ExpandDemand, Reuses, Refreshes, Conflicts, IInv, NoRunNoRows, Requests
<1>10. DemandIsWhole' /\ NoRunNoRows'
  <2>1. demand'.status # "completed" => demand'.rows = {}
    <3>1. CASE Basis(r).fits # "missing"
      BY <1>6, <3>1 DEF StatusAfter
    <3>2. CASE Basis(r).fits = "missing" /\ req[r].saw = "blocked" /\ ~ Refreshes(r)
      <4>1. StatusAfter(r) = demand.status /\ own = {} /\ kept = demand.rows
        BY <3>2 DEF StatusAfter, own, kept, Refreshes
      <4>2. QED
        BY <1>1, <1>6, <4>1 DEF IInv, NoRunNoRows, DemandIsWhole
    <3>3. CASE Basis(r).fits = "missing" /\ ~ (req[r].saw = "blocked" /\ ~ Refreshes(r))
      <4>1. own = {} /\ kept = {}
        BY <1>9, <3>3 DEF own, kept, Refreshes
      <4>2. QED
        BY <1>6, <4>1
    <3>4. QED
      BY <3>1, <3>2, <3>3
  <2>2. \A g, h \in demand'.rows :
          g = h \/ \E q \in Demands \cup Legacies : req'[q].saw = "blocked"
    <3>1. CASE kept = {}
      BY <1>6, <3>1 DEF own
    <3>2. CASE req[r].saw = "blocked" /\ r \in Demands \cup Legacies
      BY <1>8, <3>2
    <3>3. QED
      BY <1>9, <3>1, <3>2
  <2>3. QED
    BY <2>1, <2>2 DEF DemandIsWhole, NoRunNoRows
<1>11. ASSUME NEW g \in demand'.rows
       PROVE  g = recipes.gen \/ CameLate(g)' \/ (r \notin Decisions /\ g \in demand.rows)
  <2>1. CASE g \in kept
    BY <2>1 DEF kept
  <2>2. CASE g \in own /\ g # recipes.gen /\ g \notin demand.rows
    <3>1. g = Basis(r).gen /\ g \in RowsAfter(r)
      BY <1>2, <2>2 DEF own
    <3>2. r \in Lockless
      BY <1>1, <2>2, <3>1, BasisOf, Unlocked
    <3>3. [by |-> r, gen |-> g] \in late'
      BY <1>4, <2>2, <3>1
    <3>4. QED
      BY <3>2, <3>3 DEF CameLate
  <2>3. CASE g \in own /\ g \in demand.rows /\ g # recipes.gen
    <3>1. ~ Locks(r) /\ g = Basis(r).gen
      BY <2>3, BasisOf DEF own
    <3>2. QED
      BY <1>1, <2>3, <3>1, Unlocked
  <2>4. QED
    BY <1>6, <2>1, <2>2, <2>3
<1>12. QED
  BY <1>5, <1>7, <1>10, <1>11

LEMMA ExpandDemandKeeps ==
  ASSUME IInv, NEW r \in Requests, ExpandDemand(r)
  PROVE  IInv'
<1>1. /\ demand' \in [status : {"none", "completed", "blocked"}, rows : SUBSET Gens]
      /\ late' \subseteq [by : Requests, gen : Gens] /\ late \subseteq late'
      /\ NoRunNoRows' /\ DemandIsWhole'
      /\ \A g \in demand'.rows :
           g = recipes.gen \/ CameLate(g)' \/ (r \notin Decisions /\ g \in demand.rows)
  BY DemandExpanded
<1>2. /\ keys' \in [Endpoints -> Nat]
      /\ \A e \in {"plans", "legacy", "decision"} : keys'[e] = keys[e]
  <2>1. CASE r \in Demands /\ r \in Keyed
    BY <2>1, EndpointOf DEF ExpandDemand, Registers, IInv, TypeOK, Endpoints
  <2>2. CASE ~ (r \in Demands /\ r \in Keyed)
    BY <2>2 DEF ExpandDemand, Registers, IInv, TypeOK
  <2>3. QED
    BY <2>1, <2>2
<1>3. PICK a \in {"blocked", "refused", "done", "load", "decide"} :
        /\ Goes(r, a) /\ (a = "done" => r \in Demands) /\ (a = "decide" => r \in Decisions)
        /\ (a \in {"blocked", "load"} => r \in Legacies)
  <2>1. r \in Demands \/ r \in Legacies \/ r \in Decisions
    BY DEF ExpandDemand, IInv, Placed, Requests
  <2>2. CASE Basis(r).fits = "missing"
    BY <2>1, <2>2 DEF ExpandDemand, Refused
  <2>3. CASE Basis(r).fits # "missing"
    <3>1. Goes(r, Resolved(r))
      BY <2>3 DEF ExpandDemand
    <3>2. CASE r \in Demands
      <4>1. Resolved(r) = "done" /\ r \notin Legacies /\ r \notin Decisions
        BY <3>2, PlanningConstantsOK DEF Resolved
      <4>2. QED
        BY <3>1, <3>2, <4>1
    <3>3. CASE r \in Legacies
      <4>1. Resolved(r) = "load" /\ r \notin Demands /\ r \notin Decisions
        BY <3>3, PlanningConstantsOK DEF Resolved
      <4>2. QED
        BY <3>1, <3>3, <4>1
    <3>4. CASE r \in Decisions
      <4>1. Resolved(r) = "decide" /\ r \notin Demands /\ r \notin Legacies
        BY <3>4, PlanningConstantsOK DEF Resolved
      <4>2. QED
        BY <3>1, <3>4, <4>1
    <3>5. QED
      BY <2>1, <3>2, <3>3, <3>4
  <2>4. QED
    BY <2>2, <2>3
<1> DEFINE x == [req[r] EXCEPT !.at = a]
<1>4. req[r] \in Request /\ a \in Places
  BY DEF IInv, TypeOK, Places, Ended
<1>5. /\ x \in Request /\ x.at = a /\ x.saw = req[r].saw /\ x.rows = req[r].rows /\ x.run = req[r].run
      /\ x.legacy = req[r].legacy /\ x.since = req[r].since /\ x.answer = req[r].answer
  BY <1>4, Place
<1>6. req' = [req EXCEPT ![r] = x]
  BY <1>3 DEF Goes
<1> HIDE DEF x
<1>7. /\ req' \in [Requests -> Request] /\ req'[r] = x
      /\ \A q \in Requests : q # r => req'[q] = req[q]
  BY <1>5, <1>6, Record DEF IInv
<1>8. /\ recipes' = recipes /\ planRuns' = planRuns /\ legacyRuns' = legacyRuns
      /\ decisions' = decisions /\ faults' = faults /\ req[r].at \in {"expand", "write"}
  BY DEF ExpandDemand, runs
<1>9. TypeOK'
  BY <1>1, <1>2, <1>7, <1>8 DEF IInv, TypeOK
<1>10. ASSUME NEW q \in Requests
       PROVE  Placed(q)' /\ Owns(q)'
  BY <1>3, <1>5, <1>7, <1>8, <1>10 DEF IInv, Placed, Owns, InFlight, Ended
<1>11. ASSUME NEW q \in Requests
       PROVE  Fresh(q)'
  <2>1. recipes.gen \in Nat /\ req[q].since \in Nat /\ req[q].since <= recipes.gen
    BY PlanningConstantsOK DEF IInv, TypeOK, Fresh, Request, Gens
  <2>2. \A g : CameLate(g) => CameLate(g)'
    BY <1>1 DEF CameLate
  <2>3. CASE q = r
    <3>1. req'[q].at = "decide" => /\ q \in Decisions /\ req'[q].rows = {}
      BY <1>3, <1>5, <1>7, <1>8, <2>3, Unlocked DEF IInv, Fresh, Placed, ExpandDemand
    <3>2. q \in Decisions /\ req'[q].at # "decide" => req'[q].at \notin {"new", "see", "expand"}
      BY <1>3, <1>5, <1>7, <2>3
    <3>3. req'[q].since = req[q].since
      BY <1>5, <1>7, <2>3
    <3>4. QED
      BY <1>1, <1>8, <2>1, <2>3, <3>1, <3>2, <3>3 DEF Fresh, NoneOlder
  <2>4. CASE q # r
    <3>1. NoneOlder(demand.rows, req[q].since) => NoneOlder(demand.rows, req[q].since)'
      BY <1>1, <1>7, <1>8, <2>1, <2>2, <2>4 DEF NoneOlder
    <3>2. NoneOlder(req[q].rows, req[q].since) => NoneOlder(req[q].rows, req[q].since)'
      BY <1>7, <2>2, <2>4 DEF NoneOlder
    <3>3. QED
      BY <1>7, <1>8, <2>4, <3>1, <3>2 DEF IInv, Fresh
  <2>5. QED
    BY <2>3, <2>4
<1>12. ASSUME NEW q \in Requests
       PROVE  Holds(q)'
  <2>1. q \notin Demands => Endpoint(q) \in {"plans", "legacy", "decision"}
    BY EndpointOf DEF Requests
  <2>2. QED
    BY <1>2, <1>3, <1>5, <1>7, <1>8, <2>1 DEF IInv, Holds, InFlight, Ended
<1>13. Apart'
  BY <1>3, <1>5, <1>7, <1>8 DEF IInv, Apart, InPlans
<1>14. Linked' /\ LinkedRunsArePlanned' /\ DecisionsAreFresh' /\ KeyedDecision'
  BY <1>1, <1>2, <1>8
     DEF IInv, Linked, LinkedRunsArePlanned, DecisionsAreFresh, CameLate, KeyedDecision
<1>15. QED
  BY <1>1, <1>9, <1>10, <1>11, <1>12, <1>13, <1>14 DEF IInv

LEMMA KeyRegistered ==
  ASSUME TypeOK, NEW r \in Requests, NEW run \in Nat, Registers(r, run)
  PROVE  /\ keys' \in [Endpoints -> Nat]
         /\ r \in Keyed => keys'[Endpoint(r)] = run
         /\ r \notin Keyed => keys' = keys
         /\ \A e \in Endpoints : e # Endpoint(r) => keys'[e] = keys[e]
BY EndpointOf DEF TypeOK, Registers, Endpoints, Requests

\* A key that is registered is registered with the first run: nobody who holds it, or was answered
\* with its run, sees it change.
LEMMA BeginPlansKeeps ==
  ASSUME IInv, NEW r \in Requests, BeginPlans(r)
  PROVE  IInv'
<1> DEFINE n == Len(planRuns) + 1
           y == [status |-> "running", rows |-> req[r].rows, plans |-> {}]
           x == [req[r] EXCEPT !.at = "plan", !.run = n]
<1>1. /\ req[r] \in Request /\ req[r].at = "begin" /\ req[r].rows \in SUBSET Gens /\ req[r].rows # {}
      /\ "plan" \in Places /\ n \in Nat /\ n # 0 /\ 0 \in Gens /\ planRuns \in Seq(PlanRun)
      /\ Len(planRuns) \in Nat
  <2>1. Len(planRuns) \in Nat /\ planRuns \in Seq(PlanRun)
    BY Lists DEF IInv, TypeOK
  <2>2. req[r] \in Request /\ req[r].at = "begin" /\ req[r].rows # {}
    BY DEF IInv, TypeOK, BeginPlans, Owns
  <2>3. req[r].rows \in SUBSET Gens /\ "plan" \in Places /\ 0 \in Gens
    BY <2>2, PlanningConstantsOK DEF Request, Places, Gens
  <2>4. QED
    BY <2>1, <2>2, <2>3
<1>2. /\ x \in Request /\ x.at = "plan" /\ x.saw = req[r].saw /\ x.rows = req[r].rows /\ x.run = n
      /\ x.legacy = req[r].legacy /\ x.since = req[r].since /\ x.answer = req[r].answer
  BY <1>1 DEF Request
<1>3. y \in PlanRun /\ y.status = "running"
  BY <1>1 DEF PlanRun
<1>4. req' = [req EXCEPT ![r] = x]
  BY DEF BeginPlans, IInv, TypeOK
<1>5. /\ planRuns' \in Seq(PlanRun) /\ Len(planRuns') = n /\ planRuns'[n] = y
      /\ \A i \in 1 .. Len(planRuns) : planRuns'[i] = planRuns[i]
  <2>1. planRuns' = Append(planRuns, y)
    BY DEF BeginPlans
  <2> HIDE DEF y
  <2>2. QED
    BY <1>1, <1>3, <2>1, Appended
<1> HIDE DEF x, y
<1>6. /\ req' \in [Requests -> Request] /\ req'[r] = x
      /\ \A q \in Requests : q # r => req'[q] = req[q]
  BY <1>2, <1>4, Record DEF IInv
<1>7. /\ recipes' = recipes /\ demand' = demand /\ legacyRuns' = legacyRuns
      /\ decisions' = decisions /\ late' = late /\ faults' = faults
  BY DEF BeginPlans
<1>8. /\ keys' \in [Endpoints -> Nat] /\ keys'["legacy"] = keys["legacy"]
      /\ keys'["decision"] = keys["decision"]
      /\ keys["plans"] # 0 => keys'["plans"] = keys["plans"]
      /\ r \in Plans /\ r \in Keyed => keys'["plans"] = n
  <2>1. CASE r \in Plans
    <3>1. Registers(r, n) /\ (r \in Keyed => keys["plans"] = 0) /\ Endpoint(r) = "plans"
      BY <2>1, EndpointOf DEF BeginPlans, Replays
    <3>2. QED
      BY <1>1, <3>1, KeyRegistered DEF IInv, Endpoints
  <2>2. CASE r \notin Plans
    BY <2>2 DEF BeginPlans, IInv, TypeOK
  <2>3. QED
    BY <2>1, <2>2
<1>9. TypeOK'
  BY <1>5, <1>6, <1>7, <1>8 DEF IInv, TypeOK
<1>10. r \in Plans \/ r \in Legacies
  BY <1>1 DEF IInv, Placed
<1>11. ASSUME NEW q \in Requests
       PROVE  Placed(q)' /\ Owns(q)'
  BY <1>1, <1>2, <1>3, <1>5, <1>6, <1>7, <1>10 DEF IInv, Placed, Owns, InFlight, Ended
<1>12. ASSUME NEW q \in Requests
       PROVE  Fresh(q)'
  BY <1>2, <1>6, <1>7 DEF IInv, Fresh, NoneOlder, CameLate
<1>13. ASSUME NEW q \in Requests
       PROVE  Holds(q)'
  <2>1. q \notin Demands => Endpoint(q) \in {"plans", "legacy", "decision"}
    BY EndpointOf DEF Requests
  <2>2. CASE q = r
    BY <1>1, <1>2, <1>6, <1>8, <2>2 DEF IInv, Holds, InFlight, Ended
  <2>3. CASE q # r
    <3>1. req'[q] = req[q]
      BY <1>6, <2>3
    <3>2. q \in Keyed /\ q \in Plans /\ req[q].at = "plan" => keys["plans"] = req[q].run /\ req[q].run # 0
      BY DEF IInv, Holds, Owns
    <3>3. q \in Keyed \ Demands /\ req[q].at = "done"
            => req[q].answer # 0 /\ req[q].answer = keys[Endpoint(q)]
      BY DEF IInv, Holds
    <3>4. QED
      BY <1>8, <2>1, <3>1, <3>2, <3>3 DEF IInv, Holds, InFlight
  <2>4. QED
    BY <2>2, <2>3
<1>14. \A i \in 1 .. Len(legacyRuns) : legacyRuns[i].run # n
  BY <1>1 DEF IInv, Linked
<1>15. \A q \in Requests : InPlans(q) => req[q].run # n
  BY <1>1 DEF IInv, Owns, InPlans
<1>16. Apart'
  BY <1>2, <1>6, <1>7, <1>14, <1>15 DEF IInv, Apart, InPlans
<1>17. Linked'
  BY <1>1, <1>5, <1>7 DEF IInv, Linked
<1>18. LinkedRunsArePlanned'
  <2>1. DOMAIN legacyRuns = 1 .. Len(legacyRuns)
    BY Lists DEF IInv
  <2>2. \A i \in 1 .. Len(legacyRuns) :
          legacyRuns[i].run # 0 => planRuns'[legacyRuns[i].run] = planRuns[legacyRuns[i].run]
    BY <1>1, <1>5 DEF IInv, Linked
  <2>3. QED
    BY <1>7, <2>1, <2>2 DEF IInv, LinkedRunsArePlanned
<1>19. KeyedDecision' /\ DecisionsAreFresh' /\ NoRunNoRows' /\ DemandIsWhole'
  BY <1>2, <1>6, <1>7, <1>8, WholeStays DEF IInv, KeyedDecision, DecisionsAreFresh, CameLate, NoRunNoRows
<1>20. QED
  BY <1>9, <1>11, <1>12, <1>13, <1>16, <1>17, <1>18, <1>19 DEF IInv

\* The run that ends was running, so it is nobody else's and linked to nothing.
LEMMA EndPlansKeeps ==
  ASSUME IInv, NEW r \in Requests, NEW status \in {"completed", "blocked", "failed"}, EndPlans(r, status)
  PROVE  /\ IInv'
         /\ \A i \in 1 .. Len(planRuns) : planRuns[i].status # "running" => planRuns'[i] = planRuns[i]
<1> DEFINE n == req[r].run
           y == Ends(status, req[r].rows)
           a == AfterPlans(r, status)
           b == IF r \in Plans THEN n ELSE 0
           x == [req[r] EXCEPT !.at = a, !.answer = b]
<1>1. /\ req[r] \in Request /\ req[r].at = "plan" /\ req[r].rows \in SUBSET Gens /\ req[r].rows # {}
      /\ n \in 1 .. Len(planRuns) /\ planRuns[n].status = "running"
      /\ 0 \in Gens /\ planRuns \in Seq(PlanRun) /\ Len(planRuns) \in Nat /\ n \in Nat /\ n # 0
  <2>1. req[r] \in Request /\ req[r].at = "plan" /\ 0 \in Gens /\ planRuns \in Seq(PlanRun)
    BY PlanningConstantsOK DEF IInv, TypeOK, EndPlans, Gens
  <2>2. req[r].rows \in SUBSET Gens
    BY <2>1 DEF Request
  <2>3. req[r].rows # {} /\ n \in 1 .. Len(planRuns) /\ planRuns[n].status = "running"
    BY <2>1 DEF IInv, Owns
  <2>4. Len(planRuns) \in Nat
    BY Lists DEF IInv
  <2>5. QED
    BY <2>1, <2>2, <2>3, <2>4
<1>2. r \in Plans \/ r \in Legacies
  BY <1>1 DEF IInv, Placed
<1>3. /\ a \in {"link", "blocked", "done"}
      /\ a = "link" => status = "completed" /\ r \in Legacies
      /\ a = "done" => r \in Plans /\ r \notin Legacies
      /\ a = "blocked" => r \in Legacies
  <2>1. CASE r \in Legacies /\ status = "completed"
    BY <2>1 DEF AfterPlans
  <2>2. CASE r \in Legacies /\ status # "completed"
    BY <2>2 DEF AfterPlans
  <2>3. CASE r \notin Legacies
    BY <1>2, <2>3 DEF AfterPlans
  <2>4. QED
    BY <2>1, <2>2, <2>3
<1>4. a \in Places /\ b \in Nat
  BY <1>1, <1>3 DEF Places, Ended
<1>5. /\ y \in PlanRun /\ y.status = status
      /\ status = "completed" => y.plans # {}
  BY <1>1 DEF Ends, PlanRun
<1>6. req' = [req EXCEPT ![r] = x]
  BY DEF EndPlans, IInv, TypeOK
<1>7. planRuns' = [planRuns EXCEPT ![n] = y]
  BY DEF EndPlans, Own
<1> HIDE DEF a, b, y
<1>8. /\ x \in Request /\ x.at = a /\ x.saw = req[r].saw /\ x.rows = req[r].rows /\ x.run = n
      /\ x.legacy = req[r].legacy /\ x.since = req[r].since /\ x.answer = b
  BY <1>1, <1>4 DEF Request
<1> HIDE DEF x
<1>9. /\ planRuns' \in Seq(PlanRun) /\ Len(planRuns') = Len(planRuns) /\ planRuns'[n] = y
      /\ \A i \in 1 .. Len(planRuns) : i # n => planRuns'[i] = planRuns[i]
  BY <1>1, <1>5, <1>7, Replaced
<1>10. /\ req' \in [Requests -> Request] /\ req'[r] = x
       /\ \A q \in Requests : q # r => req'[q] = req[q]
  BY <1>6, <1>8, Record DEF IInv
<1>11. /\ recipes' = recipes /\ demand' = demand /\ legacyRuns' = legacyRuns
       /\ decisions' = decisions /\ late' = late /\ faults' = faults /\ keys' = keys
  BY DEF EndPlans
<1>12. TypeOK'
  BY <1>9, <1>10, <1>11 DEF IInv, TypeOK
<1>13. \A q \in Requests : q # r /\ InPlans(q) => req[q].run # n
  BY <1>1 DEF IInv, Apart, InPlans
<1>14. ASSUME NEW q \in Requests
       PROVE  Placed(q)' /\ Owns(q)'
  <2>1. CASE q = r
    BY <1>1, <1>3, <1>5, <1>8, <1>9, <1>10, <1>11, <2>1 DEF IInv, Placed, Owns, InFlight, Ended
  <2>2. CASE q # r
    BY <1>9, <1>10, <1>11, <1>13, <2>2 DEF IInv, Placed, Owns, InFlight, InPlans
  <2>3. QED
    BY <2>1, <2>2
<1>15. ASSUME NEW q \in Requests
       PROVE  Fresh(q)'
  BY <1>3, <1>8, <1>10, <1>11 DEF IInv, Fresh, NoneOlder, CameLate
<1>16. ASSUME NEW q \in Requests
       PROVE  Holds(q)'
  <2>1. CASE q = r
    <3>1. r \in Plans => Endpoint(r) = "plans" /\ b = n
      BY EndpointOf DEF b
    <3>2. QED
      BY <1>1, <1>3, <1>8, <1>10, <1>11, <2>1, <3>1 DEF IInv, Holds, InFlight, Ended
  <2>2. CASE q # r
    BY <1>10, <1>11, <2>2 DEF IInv, Holds, InFlight
  <2>3. QED
    BY <2>1, <2>2
<1>17. Apart'
  BY <1>1, <1>3, <1>8, <1>10, <1>11 DEF IInv, Apart, InPlans
<1>18. Linked'
  BY <1>9, <1>11 DEF IInv, Linked
<1>19. LinkedRunsArePlanned'
  <2>1. DOMAIN legacyRuns = 1 .. Len(legacyRuns)
    BY Lists DEF IInv
  <2>2. \A i \in 1 .. Len(legacyRuns) : legacyRuns[i].run # n
    BY <1>1 DEF IInv, Apart, InPlans
  <2>3. \A i \in 1 .. Len(legacyRuns) :
          legacyRuns[i].run # 0 => planRuns'[legacyRuns[i].run] = planRuns[legacyRuns[i].run]
    BY <1>1, <1>9, <2>2 DEF IInv, Linked
  <2>4. QED
    BY <1>11, <2>1, <2>3 DEF IInv, LinkedRunsArePlanned
<1>20. KeyedDecision' /\ DecisionsAreFresh' /\ NoRunNoRows' /\ DemandIsWhole'
  BY <1>8, <1>10, <1>11, WholeStays DEF IInv, KeyedDecision, DecisionsAreFresh, CameLate, NoRunNoRows
<1>21. QED
  BY <1>1, <1>9, <1>12, <1>14, <1>15, <1>16, <1>17, <1>18, <1>19, <1>20 DEF IInv

LEMMA BeginLegacyKeeps ==
  ASSUME IInv, NEW r \in Requests, BeginLegacy(r)
  PROVE  IInv'
<1> DEFINE n == Len(legacyRuns) + 1
           y == [status |-> "running", run |-> 0, lines |-> {}]
           x == [req[r] EXCEPT !.at = "see", !.legacy = n]
<1>1. /\ req[r] \in Request /\ req[r].at = "new" /\ "see" \in Places /\ 0 \in Gens
      /\ legacyRuns \in Seq(LegacyRun) /\ Len(legacyRuns) \in Nat /\ n \in Nat /\ n # 0
      /\ r \in Legacies /\ r \notin Plans /\ r \notin Decisions
  <2>1. Len(legacyRuns) \in Nat /\ legacyRuns \in Seq(LegacyRun) /\ req[r] \in Request
    BY Lists DEF IInv, TypeOK
  <2>2. QED
    BY <2>1, PlanningConstantsOK DEF BeginLegacy, Places, Gens
<1>2. /\ x \in Request /\ x.at = "see" /\ x.saw = req[r].saw /\ x.rows = req[r].rows /\ x.run = req[r].run
      /\ x.legacy = n /\ x.since = req[r].since /\ x.answer = req[r].answer
  BY <1>1 DEF Request
<1>3. y \in LegacyRun /\ y.status = "running" /\ y.run = 0
  BY <1>1 DEF LegacyRun
<1>4. req' = [req EXCEPT ![r] = x]
  BY DEF BeginLegacy, IInv, TypeOK
<1>5. /\ legacyRuns' \in Seq(LegacyRun) /\ Len(legacyRuns') = n /\ legacyRuns'[n] = y
      /\ DOMAIN legacyRuns' = 1 .. n
      /\ \A i \in 1 .. Len(legacyRuns) : legacyRuns'[i] = legacyRuns[i]
  <2>1. legacyRuns' = Append(legacyRuns, y)
    BY DEF BeginLegacy
  <2> HIDE DEF y
  <2>2. QED
    BY <1>1, <1>3, <2>1, Appended
<1> HIDE DEF x, y
<1>6. /\ req' \in [Requests -> Request] /\ req'[r] = x
      /\ \A q \in Requests : q # r => req'[q] = req[q]
  BY <1>2, <1>4, Record DEF IInv
<1>7. /\ recipes' = recipes /\ demand' = demand /\ planRuns' = planRuns
      /\ decisions' = decisions /\ late' = late /\ faults' = faults
  BY DEF BeginLegacy
<1>8. /\ keys' \in [Endpoints -> Nat] /\ keys'["plans"] = keys["plans"]
      /\ keys'["decision"] = keys["decision"]
      /\ keys["legacy"] # 0 => keys'["legacy"] = keys["legacy"]
      /\ r \in Keyed => keys'["legacy"] = n
  <2>1. Registers(r, n) /\ (r \in Keyed => keys["legacy"] = 0) /\ Endpoint(r) = "legacy"
    BY EndpointOf DEF BeginLegacy, Replays
  <2>2. QED
    BY <1>1, <2>1, KeyRegistered DEF IInv, Endpoints
<1>9. TypeOK'
  BY <1>5, <1>6, <1>7, <1>8 DEF IInv, TypeOK
<1>10. ASSUME NEW q \in Requests
       PROVE  Placed(q)' /\ Owns(q)'
  BY <1>1, <1>2, <1>5, <1>6, <1>7 DEF IInv, Placed, Owns, InFlight, Ended
<1>11. ASSUME NEW q \in Requests
       PROVE  Fresh(q)'
  BY <1>1, <1>2, <1>6, <1>7 DEF IInv, Fresh, NoneOlder, CameLate
<1>12. ASSUME NEW q \in Requests
       PROVE  Holds(q)'
  <2>1. q \notin Demands => Endpoint(q) \in {"plans", "legacy", "decision"}
    BY EndpointOf DEF Requests
  <2>2. CASE q = r
    BY <1>1, <1>2, <1>6, <1>8, <2>2 DEF Holds, InFlight, Ended
  <2>3. CASE q # r
    <3>1. req'[q] = req[q]
      BY <1>6, <2>3
    <3>2. q \in Keyed /\ q \in Legacies /\ InFlight(q)
            => keys["legacy"] = req[q].legacy /\ req[q].legacy # 0
      BY <1>1 DEF IInv, Holds, Owns
    <3>3. q \in Keyed \ Demands /\ req[q].at = "done"
            => req[q].answer # 0 /\ req[q].answer = keys[Endpoint(q)]
      BY DEF IInv, Holds
    <3>4. QED
      BY <1>8, <2>1, <3>1, <3>2, <3>3 DEF IInv, Holds, InFlight
  <2>4. QED
    BY <2>2, <2>3
<1>13. Apart'
  <2>1. \A q \in Requests : InPlans(q) => req[q].run # 0
    BY DEF IInv, Owns, InPlans
  <2>2. QED
    BY <1>1, <1>2, <1>3, <1>5, <1>6, <1>7, <2>1 DEF IInv, Apart, InPlans
<1>14. Linked'
  BY <1>1, <1>3, <1>5, <1>7, Lists DEF IInv, Linked
<1>15. LinkedRunsArePlanned'
  <2>1. DOMAIN legacyRuns = 1 .. Len(legacyRuns)
    BY Lists DEF IInv
  <2>2. \A i \in 1 .. n : i # n => i \in 1 .. Len(legacyRuns)
    BY <1>1
  <2>3. QED
    BY <1>3, <1>5, <1>7, <2>1, <2>2 DEF IInv, LinkedRunsArePlanned
<1>16. KeyedDecision' /\ DecisionsAreFresh' /\ NoRunNoRows' /\ DemandIsWhole'
  BY <1>2, <1>6, <1>7, <1>8, WholeStays DEF IInv, KeyedDecision, DecisionsAreFresh, CameLate, NoRunNoRows
<1>17. QED
  BY <1>9, <1>10, <1>11, <1>12, <1>13, <1>14, <1>15, <1>16 DEF IInv

\* A step that replaces one compatibility run: what the requests and the other runs need of it.
LEMMA LegacyReplaced ==
  ASSUME IInv, NEW r \in Requests, r \in Legacies, InFlight(r), NEW x \in Request,
         req' = [req EXCEPT ![r] = x],
         NEW y \in LegacyRun, legacyRuns' = [legacyRuns EXCEPT ![req[r].legacy] = y],
         UNCHANGED <<recipes, demand, late, keys, faults, planRuns, decisions>>,
         Linked', Apart', LinkedRunsArePlanned',
         x.saw = req[r].saw, x.legacy = req[r].legacy, x.since = req[r].since,
         x.at \in {"read", "done"}, x.at = "done" => x.answer = req[r].legacy
  PROVE  IInv'
<1>1. /\ req' \in [Requests -> Request] /\ req'[r] = x
      /\ \A q \in Requests : q # r => req'[q] = req[q]
  BY Record DEF IInv
<1>2. legacyRuns \in Seq(LegacyRun) /\ req[r].legacy \in 1 .. Len(legacyRuns) /\ req[r].legacy # 0
  BY Lists DEF IInv, TypeOK, Owns
<1>3. legacyRuns' \in Seq(LegacyRun) /\ Len(legacyRuns') = Len(legacyRuns)
  BY <1>2, Replaced
<1>4. TypeOK'
  BY <1>1, <1>3 DEF IInv, TypeOK
<1>5. r \notin Demands /\ Endpoint(r) = "legacy"
  BY EndpointOf, PlanningConstantsOK
<1>6. ASSUME NEW q \in Requests
      PROVE  Placed(q)' /\ Owns(q)' /\ Fresh(q)' /\ Holds(q)'
  <2>1. CASE q = r
    BY <1>1, <1>2, <1>3, <1>5, <2>1, PlanningConstantsOK
       DEF IInv, Placed, Owns, Fresh, NoneOlder, CameLate, Holds, InFlight, Ended
  <2>2. CASE q # r
    BY <1>1, <1>3, <2>2 DEF IInv, Placed, Owns, Fresh, NoneOlder, CameLate, Holds, InFlight, Ended
  <2>3. QED
    BY <2>1, <2>2
<1>7. KeyedDecision' /\ DecisionsAreFresh' /\ NoRunNoRows' /\ DemandIsWhole'
  BY <1>1, WholeStays DEF IInv, KeyedDecision, DecisionsAreFresh, CameLate, NoRunNoRows
<1>8. QED
  BY <1>4, <1>6, <1>7 DEF IInv

\* The run that is linked is the request's own: no other compatibility run has it.
LEMMA LinkKeeps ==
  ASSUME IInv, NEW r \in Requests, Link(r)
  PROVE  IInv'
<1> DEFINE m == req[r].legacy
           n == req[r].run
           y == [status |-> "completed", run |-> n, lines |-> planRuns[n].plans]
           x == [req[r] EXCEPT !.at = "read"]
<1>1. /\ req[r] \in Request /\ req[r].at = "link" /\ "read" \in Places /\ r \in Legacies /\ InFlight(r)
      /\ n \in 1 .. Len(planRuns) /\ planRuns[n].status = "completed" /\ planRuns[n].plans # {}
      /\ m \in 1 .. Len(legacyRuns)
  BY DEF IInv, TypeOK, Placed, Owns, Link, InFlight, Ended, Places
<1>2. /\ legacyRuns \in Seq(LegacyRun) /\ planRuns[n] \in PlanRun /\ n \in Nat /\ n # 0
      /\ Len(planRuns) \in Nat /\ DOMAIN legacyRuns = 1 .. Len(legacyRuns)
  BY <1>1, Lists DEF IInv, TypeOK
<1>3. y \in LegacyRun /\ y.run = n /\ y.lines = planRuns[n].plans /\ y.status = "completed"
  BY <1>2 DEF LegacyRun, PlanRun
<1>4. legacyRuns' = [legacyRuns EXCEPT ![m] = y]
  BY DEF Link
<1>5. /\ x \in Request /\ x.at = "read" /\ x.saw = req[r].saw /\ x.legacy = m /\ x.since = req[r].since /\ x.run = n
  BY <1>1, Place
<1>6. req' = [req EXCEPT ![r] = x]
  BY DEF Link, Goes
<1> HIDE DEF x, y
<1>7. /\ Len(legacyRuns') = Len(legacyRuns) /\ legacyRuns'[m] = y
      /\ DOMAIN legacyRuns' = 1 .. Len(legacyRuns)
      /\ \A i \in 1 .. Len(legacyRuns) : i # m => legacyRuns'[i] = legacyRuns[i]
  BY <1>1, <1>2, <1>3, <1>4, Replaced
<1>8. req'[r] = x /\ \A q \in Requests : q # r => req'[q] = req[q]
  BY <1>5, <1>6, Record DEF IInv
<1>9. planRuns' = planRuns /\ decisions' = decisions
  BY DEF Link
<1>10. Linked'
  BY <1>1, <1>2, <1>3, <1>7, <1>9 DEF IInv, Linked
<1>11. /\ \A i \in 1 .. Len(legacyRuns) : legacyRuns[i].run # n
       /\ \A q \in Requests : q # r /\ InPlans(q) => req[q].run # n
  BY <1>1 DEF IInv, Apart, InPlans
<1>12. Apart'
  <2>1. \A q \in Requests : InPlans(q)' => q # r /\ InPlans(q) /\ req'[q] = req[q]
    BY <1>5, <1>8 DEF InPlans
  <2>2. \A q \in Requests : req'[q].at = "enrich" => req[q].at = "enrich" /\ req'[q] = req[q]
    BY <1>5, <1>8
  <2>3. \A i \in 1 .. Len(legacyRuns) : legacyRuns'[i].run = legacyRuns[i].run \/ legacyRuns'[i].run = n
    BY <1>3, <1>7
  <2>4. QED
    BY <1>7, <1>11, <2>1, <2>2, <2>3 DEF IInv, Apart
<1>13. LinkedRunsArePlanned'
  BY <1>1, <1>2, <1>3, <1>7, <1>9, <1>11 DEF IInv, LinkedRunsArePlanned
<1>14. QED
  BY <1>1, <1>3, <1>4, <1>5, <1>6, <1>10, <1>12, <1>13, LegacyReplaced DEF Link

LEMMA AbandonLegacyKeeps ==
  ASSUME IInv, NEW r \in Requests, AbandonLegacy(r)
  PROVE  IInv'
<1> DEFINE m == req[r].legacy
           y == [legacyRuns[m] EXCEPT !.status = req[r].at]
           x == [req[r] EXCEPT !.at = "done", !.answer = m]
<1>1. /\ req[r] \in Request /\ req[r].at \in {"blocked", "failed"} /\ "done" \in Places
      /\ r \in Legacies /\ InFlight(r) /\ m \in 1 .. Len(legacyRuns)
  BY DEF IInv, TypeOK, Placed, Owns, AbandonLegacy, InFlight, Ended, Places
<1>2. /\ legacyRuns \in Seq(LegacyRun) /\ legacyRuns[m] \in LegacyRun
      /\ DOMAIN legacyRuns = 1 .. Len(legacyRuns) /\ m \in Nat
  BY <1>1, Lists DEF IInv, TypeOK
<1>3. /\ y \in LegacyRun /\ y.run = legacyRuns[m].run /\ y.lines = legacyRuns[m].lines
      /\ y.status # "completed"
  BY <1>1, <1>2 DEF LegacyRun
<1>4. legacyRuns' = [legacyRuns EXCEPT ![m] = y]
  BY DEF AbandonLegacy
<1>5. x \in Request /\ x.at = "done" /\ x.saw = req[r].saw /\ x.legacy = m /\ x.since = req[r].since /\ x.answer = m
  BY <1>1, <1>2 DEF Request
<1>6. req' = [req EXCEPT ![r] = x]
  BY DEF AbandonLegacy, Answers, IInv, TypeOK
<1> HIDE DEF x, y
<1>7. /\ Len(legacyRuns') = Len(legacyRuns) /\ legacyRuns'[m] = y
      /\ DOMAIN legacyRuns' = 1 .. Len(legacyRuns)
      /\ \A i \in 1 .. Len(legacyRuns) : i # m => legacyRuns'[i] = legacyRuns[i]
  BY <1>1, <1>2, <1>3, <1>4, Replaced
<1>8. req'[r] = x /\ \A q \in Requests : q # r => req'[q] = req[q]
  BY <1>5, <1>6, Record DEF IInv
<1>9. /\ planRuns' = planRuns
      /\ \A i \in 1 .. Len(legacyRuns) :
           /\ legacyRuns'[i].run = legacyRuns[i].run /\ legacyRuns'[i].lines = legacyRuns[i].lines
           /\ legacyRuns'[i].status = "completed" => legacyRuns[i].status = "completed"
  BY <1>3, <1>7 DEF AbandonLegacy
<1>10. Linked'
  BY <1>7, <1>9 DEF IInv, Linked
<1>11. Apart'
  BY <1>1, <1>5, <1>7, <1>8, <1>9 DEF IInv, Apart, InPlans
<1>12. LinkedRunsArePlanned'
  BY <1>2, <1>7, <1>9 DEF IInv, LinkedRunsArePlanned
<1>13. UNCHANGED <<recipes, demand, late, keys, faults, planRuns, decisions>>
  BY DEF AbandonLegacy
<1>14. QED
  BY <1>1, <1>3, <1>4, <1>5, <1>6, <1>10, <1>11, <1>12, <1>13, LegacyReplaced

\* The rows of a decision are as new as its request; it registers the key, or no decision has one.
LEMMA DecideKeeps ==
  ASSUME IInv, NEW r \in Requests, Decide(r)
  PROVE  /\ IInv'
         /\ \A i \in 1 .. Len(decisions) : decisions'[i] = decisions[i]
<1> DEFINE n == Len(decisions) + 1
           y == [rows |-> req[r].rows, since |-> req[r].since, keyed |-> r \in Keyed, summary |-> FALSE]
           x == [req[r] EXCEPT !.at = "enrich", !.run = n]
<1>1. /\ req[r] \in Request /\ req[r].at = "decide" /\ "enrich" \in Places
      /\ req[r].rows \in SUBSET Gens /\ req[r].since \in Gens
      /\ decisions \in Seq(Decision) /\ Len(decisions) \in Nat /\ n \in Nat /\ n # 0
      /\ DOMAIN decisions = 1 .. Len(decisions)
  <2>1. Len(decisions) \in Nat /\ decisions \in Seq(Decision) /\ req[r] \in Request
    BY Lists DEF IInv, TypeOK
  <2>2. DOMAIN decisions = 1 .. Len(decisions)
    BY Lists DEF IInv
  <2>3. QED
    BY <2>1, <2>2 DEF Decide, Places, Request
<1>2. r \in Decisions /\ r \notin Plans /\ r \notin Legacies /\ r \notin Demands /\ Endpoint(r) = "decision"
  BY EndpointOf, PlanningConstantsOK DEF Decide
<1>3. NoneOlder(req[r].rows, req[r].since)
  BY <1>1 DEF IInv, Fresh, Decide
<1>4. /\ x \in Request /\ x.at = "enrich" /\ x.saw = req[r].saw /\ x.rows = req[r].rows /\ x.run = n
      /\ x.legacy = req[r].legacy /\ x.since = req[r].since /\ x.answer = req[r].answer
  BY <1>1 DEF Request
<1>5. /\ y \in Decision /\ y.rows = req[r].rows /\ y.since = req[r].since /\ ~ y.summary
      /\ y.keyed => r \in Keyed
  <2>1. y \in Decision
    BY <1>1 DEF Decision
  <2>2. y.rows = req[r].rows /\ y.since = req[r].since
    OBVIOUS
  <2>3. ~ y.summary
    OBVIOUS
  <2>4. y.keyed <=> r \in Keyed
    OBVIOUS
  <2>5. QED
    BY <2>1, <2>2, <2>3, <2>4
<1>6. req' = [req EXCEPT ![r] = x]
  BY DEF Decide, IInv, TypeOK
<1>7. /\ decisions' \in Seq(Decision) /\ Len(decisions') = n /\ decisions'[n] = y
      /\ DOMAIN decisions' = 1 .. n
      /\ \A i \in 1 .. Len(decisions) : decisions'[i] = decisions[i]
  <2>1. decisions' = Append(decisions, y)
    BY DEF Decide
  <2> HIDE DEF y
  <2>2. QED
    BY <1>1, <1>5, <2>1, Appended
<1> HIDE DEF x, y
<1>8. /\ req' \in [Requests -> Request] /\ req'[r] = x
      /\ \A q \in Requests : q # r => req'[q] = req[q]
  BY <1>4, <1>6, Record DEF IInv
<1>9. /\ recipes' = recipes /\ demand' = demand /\ planRuns' = planRuns
      /\ legacyRuns' = legacyRuns /\ late' = late /\ faults' = faults
  BY DEF Decide
<1>10. /\ keys' \in [Endpoints -> Nat] /\ keys'["plans"] = keys["plans"]
       /\ keys'["legacy"] = keys["legacy"]
       /\ keys["decision"] # 0 => keys'["decision"] = keys["decision"]
       /\ r \in Keyed => keys["decision"] = 0 /\ keys'["decision"] = n
  <2>1. Registers(r, n) /\ (r \in Keyed => keys["decision"] = 0)
    BY <1>2 DEF Decide, RegistersFirst, Replays
  <2>2. QED
    BY <1>1, <1>2, <2>1, KeyRegistered DEF IInv, Endpoints
<1>11. TypeOK'
  BY <1>7, <1>8, <1>9, <1>10 DEF IInv, TypeOK
<1>12. ASSUME NEW q \in Requests
       PROVE  Placed(q)' /\ Owns(q)'
  <2>1. CASE q = r
    BY <1>1, <1>2, <1>4, <1>5, <1>7, <1>8, <2>1 DEF Placed, Owns
  <2>2. CASE q # r
    BY <1>1, <1>7, <1>8, <1>9, <2>2 DEF IInv, Placed, Owns, InFlight
  <2>3. QED
    BY <2>1, <2>2
<1>13. ASSUME NEW q \in Requests
       PROVE  Fresh(q)'
  BY <1>1, <1>4, <1>8, <1>9 DEF IInv, Fresh, NoneOlder, CameLate
<1>14. ASSUME NEW q \in Requests
       PROVE  Holds(q)'
  <2>1. q \notin Demands => Endpoint(q) \in {"plans", "legacy", "decision"}
    BY EndpointOf DEF Requests
  <2>2. CASE q = r
    BY <1>1, <1>2, <1>4, <1>8, <1>10, <2>2 DEF Holds, InFlight, Ended
  <2>3. CASE q # r
    <3>1. req'[q] = req[q]
      BY <1>8, <2>3
    <3>2. q \in Keyed /\ req[q].at = "enrich" => keys["decision"] = req[q].run /\ req[q].run # 0
      BY <1>1 DEF IInv, Holds, Owns
    <3>3. q \in Keyed \ Demands /\ req[q].at = "done"
            => req[q].answer # 0 /\ req[q].answer = keys[Endpoint(q)]
      BY DEF IInv, Holds
    <3>4. QED
      BY <1>10, <2>1, <3>1, <3>2, <3>3 DEF IInv, Holds, InFlight
  <2>4. QED
    BY <2>2, <2>3
<1>15. Apart'
  <2>1. \A q \in Requests : req[q].at = "enrich" => req[q].run # n
    BY <1>1 DEF IInv, Owns
  <2>2. QED
    BY <1>1, <1>4, <1>8, <1>9, <2>1 DEF IInv, Apart, InPlans
<1>16. \A i \in 1 .. n : i # n => i \in 1 .. Len(decisions)
  BY <1>1
<1>17. KeyedDecision'
  <2>1. \A i \in 1 .. Len(decisions) : decisions[i].keyed => keys["decision"] = i /\ i # 0
    BY <1>1 DEF IInv, KeyedDecision
  <2>2. QED
    BY <1>5, <1>7, <1>10, <1>16, <2>1 DEF KeyedDecision
<1>18. DecisionsAreFresh'
  BY <1>1, <1>3, <1>5, <1>7, <1>9, <1>16 DEF IInv, DecisionsAreFresh, NoneOlder, CameLate
<1>19. Linked' /\ LinkedRunsArePlanned' /\ NoRunNoRows' /\ DemandIsWhole'
  BY <1>4, <1>8, <1>9, WholeStays DEF IInv, Linked, LinkedRunsArePlanned, NoRunNoRows
<1>20. QED
  BY <1>7, <1>11, <1>12, <1>13, <1>14, <1>15, <1>17, <1>18, <1>19 DEF IInv

\* Only the summary of the request's own decision changes, and there was none.
LEMMA EnrichKeeps ==
  ASSUME IInv, NEW r \in Requests, Enrich(r)
  PROVE  /\ IInv'
         /\ \A i \in 1 .. Len(decisions) :
              /\ decisions'[i].rows = decisions[i].rows
              /\ decisions[i].summary => decisions'[i] = decisions[i]
<1>1. PICK made \in BOOLEAN : decisions' = [decisions EXCEPT ![req[r].run].summary = made]
  BY DEF Enrich
<1> DEFINE n == req[r].run
           y == [decisions[n] EXCEPT !.summary = made]
           x == [req[r] EXCEPT !.at = "done", !.answer = n]
<1>2. /\ req[r] \in Request /\ req[r].at = "enrich" /\ "done" \in Places /\ n \in Nat /\ n # 0
      /\ n \in 1 .. Len(decisions) /\ ~ decisions[n].summary /\ decisions \in Seq(Decision)
      /\ DOMAIN decisions = 1 .. Len(decisions) /\ decisions[n] \in Decision
  <2>1. req[r] \in Request /\ req[r].at = "enrich" /\ decisions \in Seq(Decision) /\ "done" \in Places
    BY DEF IInv, TypeOK, Enrich, Places, Ended
  <2>2. n \in 1 .. Len(decisions) /\ ~ decisions[n].summary
    BY <2>1 DEF IInv, Owns
  <2>3. QED
    BY <2>1, <2>2, Lists DEF IInv
<1>3. r \in Decisions /\ r \notin Plans /\ r \notin Legacies /\ Endpoint(r) = "decision"
  BY <1>2, EndpointOf, PlanningConstantsOK DEF IInv, Placed
<1>4. x \in Request /\ x.at = "done" /\ x.saw = req[r].saw /\ x.since = req[r].since /\ x.answer = n
  BY <1>2 DEF Request
<1>5. /\ y \in Decision /\ y.rows = decisions[n].rows /\ y.since = decisions[n].since
      /\ y.keyed = decisions[n].keyed
  BY <1>2 DEF Decision
<1>6. req' = [req EXCEPT ![r] = x]
  BY DEF Enrich, Answers, IInv, TypeOK
<1>7. decisions' = [decisions EXCEPT ![n] = y]
  BY <1>1
<1> HIDE DEF x, y
<1>8. /\ decisions' \in Seq(Decision) /\ Len(decisions') = Len(decisions) /\ decisions'[n] = y
      /\ DOMAIN decisions' = 1 .. Len(decisions)
      /\ \A i \in 1 .. Len(decisions) : i # n => decisions'[i] = decisions[i]
  BY <1>2, <1>5, <1>7, Replaced
<1>9. /\ req' \in [Requests -> Request] /\ req'[r] = x
      /\ \A q \in Requests : q # r => req'[q] = req[q]
  BY <1>4, <1>6, Record DEF IInv
<1>10. /\ recipes' = recipes /\ demand' = demand /\ planRuns' = planRuns
       /\ legacyRuns' = legacyRuns /\ late' = late /\ faults' = faults /\ keys' = keys
  BY DEF Enrich
<1>11. TypeOK'
  BY <1>8, <1>9, <1>10 DEF IInv, TypeOK
<1>12. \A q \in Requests : q # r /\ req[q].at = "enrich" => req[q].run # n
  BY <1>2 DEF IInv, Apart
<1>13. ASSUME NEW q \in Requests
       PROVE  Placed(q)' /\ Owns(q)' /\ Fresh(q)' /\ Holds(q)'
  <2>1. CASE q = r
    BY <1>2, <1>3, <1>4, <1>9, <1>10, <2>1 DEF IInv, Placed, Owns, Fresh, NoneOlder, CameLate, Holds, InFlight, Ended
  <2>2. CASE q # r
    BY <1>8, <1>9, <1>10, <1>12, <2>2 DEF IInv, Placed, Owns, Fresh, NoneOlder, CameLate, Holds, InFlight
  <2>3. QED
    BY <2>1, <2>2
<1>14. Apart'
  BY <1>4, <1>9, <1>10 DEF IInv, Apart, InPlans
<1>15. KeyedDecision' /\ DecisionsAreFresh'
  BY <1>2, <1>5, <1>8, <1>10 DEF IInv, KeyedDecision, DecisionsAreFresh, CameLate
<1>16. Linked' /\ LinkedRunsArePlanned' /\ NoRunNoRows' /\ DemandIsWhole'
  BY <1>4, <1>9, <1>10, WholeStays DEF IInv, Linked, LinkedRunsArePlanned, NoRunNoRows
<1>17. QED
  BY <1>2, <1>5, <1>8, <1>11, <1>13, <1>14, <1>15, <1>16 DEF IInv

\* Requests that a crash cuts off work on nothing any more.
LEMMA CrashKeeps ==
  ASSUME IInv, Crash
  PROVE  IInv'
<1>1. ASSUME NEW x \in Request
      PROVE  /\ [x EXCEPT !.at = "gone"] \in Request
             /\ [x EXCEPT !.at = "gone"].at = "gone"
             /\ [x EXCEPT !.at = "gone"].since = x.since
             /\ [x EXCEPT !.at = "gone"].saw = x.saw
  BY Place DEF Places, Ended
<1>2. /\ req' \in [Requests -> Request]
      /\ \A r \in Requests : \/ req'[r] = req[r] /\ ~ InFlight(r)
                             \/ req'[r].at = "gone" /\ req'[r].since = req[r].since
      /\ \A r \in Requests : req'[r].saw = req[r].saw
  BY <1>1 DEF IInv, TypeOK, Crash
<1>3. /\ recipes' = recipes /\ demand' = demand /\ planRuns' = planRuns
      /\ legacyRuns' = legacyRuns /\ decisions' = decisions /\ keys' = keys /\ late' = late
      /\ faults' \in 0 .. MaxFaults
  BY PlanningConstantsOK DEF Crash, runs, IInv, TypeOK
<1>4. TypeOK'
  BY <1>2, <1>3 DEF IInv, TypeOK
<1>5. \A r \in Requests : Placed(r)' /\ Owns(r)' /\ Fresh(r)' /\ Holds(r)'
  BY <1>2, <1>3 DEF IInv, Placed, Owns, Fresh, NoneOlder, CameLate, Holds, InFlight, Ended
<1>6. Apart'
  BY <1>2, <1>3 DEF IInv, Apart, InPlans, InFlight, Ended
<1>7. DemandIsWhole'
  BY <1>2, <1>3 DEF IInv, DemandIsWhole, Requests
<1>8. QED
  BY <1>3, <1>4, <1>5, <1>6, <1>7
     DEF IInv, NoRunNoRows, Linked, LinkedRunsArePlanned, KeyedDecision, DecisionsAreFresh, CameLate

-----------------------------------------------------------------------------
LEMMA Inductive ==
  ASSUME IInv, [Next]_vars
  PROVE  IInv'
<1>1. ASSUME NEW r \in Requests, Progress(r)
      PROVE  IInv'
  BY <1>1, SeeDemandKeeps, ReuseDemandKeeps, ReadRecipesKeeps, ExpandDemandKeeps, LoadDemandKeeps, ReplayPlansKeeps,
     BeginPlansKeeps, EndPlansKeeps, ReplayLegacyKeeps, BeginLegacyKeeps, LinkKeeps, ReadLegacyKeeps,
     AbandonLegacyKeeps, ReplayDecisionKeeps, BeginDecisionKeeps, LoadRowsKeeps, DecideKeeps,
     EnrichKeeps DEF Progress
<1>2. CASE UNCHANGED vars
  <2>1. \A r \in Requests : Placed(r)' /\ Owns(r)' /\ Fresh(r)' /\ Holds(r)'
    BY <1>2 DEF vars, IInv, Placed, Owns, Fresh, NoneOlder, CameLate, Holds, InFlight
  <2>2. TypeOK' /\ NoRunNoRows' /\ DemandIsWhole' /\ Linked' /\ LinkedRunsArePlanned' /\ KeyedDecision'
    BY <1>2 DEF vars, IInv, TypeOK, NoRunNoRows, DemandIsWhole, Linked, LinkedRunsArePlanned, KeyedDecision
  <2>3. Apart' /\ DecisionsAreFresh'
    BY <1>2 DEF vars, IInv, Apart, InPlans, DecisionsAreFresh, CameLate
  <2>4. QED
    BY <2>1, <2>2, <2>3 DEF IInv
<1>3. QED
  BY <1>1, <1>2, EditRecipesKeeps, ErrsKeeps, AbandonFailsKeeps, CrashKeeps DEF Next

LEMMA Invariance == Spec => []IInv
BY Initially, Inductive, PTL DEF Spec

\* The variables keep their types.
THEOREM PlanningTyped == Spec => []TypeOK
<1>1. IInv => TypeOK
  BY DEF IInv
<1>2. QED
  BY <1>1, Invariance, PTL

\* However expansions and refreshes overlap, a blocked demand keeps no rows, and rows of two
\* expansions lie side by side only where a request had loaded the run while it was blocked.
THEOREM WholeDemand == Spec => []DemandIsWhole
<1>1. IInv => DemandIsWhole
  BY DEF IInv
<1>2. QED
  BY <1>1, Invariance, PTL

\* No decision is computed from rows older than the recipes its request began with, unless a request
\* without a key to register committed them late.
THEOREM FreshDecisions == Spec => []DecisionsAreFresh
<1>1. IInv => DecisionsAreFresh
  BY DEF IInv
<1>2. QED
  BY <1>1, Invariance, PTL

\* A key names one run: at most one decision carries it, and every request that carried one and was
\* answered was answered with its run.
THEOREM OneRunPerKey == Spec => []KeysNameOneRun
<1>1. ASSUME IInv
      PROVE  KeysNameOneRun
  <2> DEFINE S == {i \in DOMAIN decisions : decisions[i].keyed}
  <2>1. S \subseteq {keys["decision"]}
    BY <1>1, Lists DEF IInv, KeyedDecision
  <2>2. IsFiniteSet({keys["decision"]}) /\ Cardinality({keys["decision"]}) = 1
    BY FS_Singleton
  <2>3. Cardinality(S) <= 1
    BY <2>1, <2>2, FS_Subset
  <2>4. \A r \in Keyed \ Demands : req[r].at = "done" => req[r].answer = keys[Endpoint(r)]
    BY <1>1, PlanningConstantsOK DEF IInv, Holds
  <2>5. QED
    BY <2>3, <2>4 DEF KeysNameOneRun
<1>2. QED
  BY <1>1, Invariance, PTL

\* A compatibility run that completed is linked to a completed procurement run with plans, and to
\* one that nobody else is linked to.
THEOREM PlannedLinks == Spec => []LinkedRunsArePlanned
<1>1. IInv => LinkedRunsArePlanned
  BY DEF IInv
<1>2. QED
  BY <1>1, Invariance, PTL

\* Nothing that runs later touches a procurement run that ended, or the package of a decision.
THEOREM FinishedStays == Spec => FinishedRunsStay
<1> DEFINE A == /\ \A i \in DOMAIN planRuns :
                     planRuns[i].status # "running" => planRuns'[i] = planRuns[i]
                /\ \A i \in DOMAIN decisions :
                     /\ decisions'[i].rows = decisions[i].rows
                     /\ decisions[i].summary => decisions'[i] = decisions[i]
<1>1. ASSUME IInv, [Next]_vars
      PROVE  A
  <2>1. DOMAIN planRuns = 1 .. Len(planRuns) /\ DOMAIN decisions = 1 .. Len(decisions)
    BY <1>1, Lists DEF IInv
  <2>2. CASE UNCHANGED <<planRuns, decisions>>
    BY <2>2
  <2>3. ASSUME NEW r \in Requests, BeginPlans(r)
        PROVE  A
    <3>1. \A i \in 1 .. Len(planRuns) : planRuns'[i] = planRuns[i]
      BY <1>1, <2>3, AppendProperties DEF IInv, TypeOK, BeginPlans
    <3>2. QED
      BY <2>1, <2>3, <3>1 DEF BeginPlans
  <2>4. ASSUME NEW r \in Requests, NEW status \in {"completed", "blocked", "failed"}, EndPlans(r, status)
        PROVE  A
    BY <1>1, <2>1, <2>4, EndPlansKeeps DEF EndPlans
  <2>5. ASSUME NEW r \in Requests, Decide(r)
        PROVE  A
    BY <1>1, <2>1, <2>5, DecideKeeps DEF Decide
  <2>6. ASSUME NEW r \in Requests, Enrich(r)
        PROVE  A
    BY <1>1, <2>1, <2>6, EnrichKeeps DEF Enrich
  <2> HIDE DEF A
  <2>7. QED
    BY <1>1, <2>2, <2>3, <2>4, <2>5, <2>6
       DEF Next, Progress, EditRecipes, SeeDemand, ReuseDemand, ReadRecipes, ExpandDemand, LoadDemand, ReplayPlans,
           ReplayLegacy, BeginLegacy, Link, ReadLegacy, AbandonLegacy, ReplayDecision, BeginDecision,
           LoadRows, Errs, AbandonFails, Crash, runs, vars
<1>2. QED
  BY <1>1, Invariance, PTL DEF Spec, FinishedRunsStay

-----------------------------------------------------------------------------
\* The parts of the inductive invariant of the questions.  The gateway: its loops, ...
Stands == {"away", "asking", "waiting", "posting", "posted", "sending", "backoff", "content", "failed",
           "joining"}
GatewayTypeOK ==
  /\ app \in {"starting", "serving", "draining", "closing", "down"}
  /\ loops \in Seq({"started", "set", "running", "stopping", "stopped"})
  /\ owner \in 0 .. Len(loops) /\ closing \in 0 .. Len(loops) /\ client \in 0 .. Len(loops)
  /\ ready \in BOOLEAN
  /\ seat \in [Actors -> [at : Stands, loop : 0 .. Len(loops), attempt : 0 .. 2]]

\* ... the loop each request is on, and who asks for one in which part of the application's life.
OnALoop(a) == seat[a].at \in {"posting", "posted", "sending", "backoff"}
LoopsAreThere ==
  /\ \A a \in Actors : OnALoop(a) => seat[a].loop # 0
  /\ app = "closing" => closing # 0
OwnerIsKnown ==
  /\ app \in {"serving", "draining"} \/ (ready /\ app # "down") => owner # 0
  /\ \A c \in Callers : seat[c].at # "away" => app \in {"serving", "draining"}
  /\ seat[Lifespan].at \in {"asking", "waiting", "posting"} => app \in {"starting", "closing"}
  /\ app = "starting" /\ seat[Lifespan].at = "posting" => owner # 0

\* A caller that was not asked has no answer, and one that answers from the model says something
\* that the guard of its task let through.
QuestionTypeOK ==
  /\ available \in BOOLEAN
  /\ asked \in [Callers -> Tasks \cup {"none"}]
  /\ answer \in [Callers -> [source : {"none", "llm", "deterministic", "rules", "unavailable"},
                             says : SUBSET Sentences]]
AnswersPassedTheirGuard ==
  \A c \in Callers :
    /\ asked[c] = "none" => answer[c] = Unanswered /\ seat[c] = Away
    /\ answer[c].source = "llm" => answer[c].says \in Publications[asked[c]]
GatewayInv == GatewayTypeOK /\ LoopsAreThere /\ OwnerIsKnown
NInv == GatewayInv /\ QuestionTypeOK /\ AnswersPassedTheirGuard
-----------------------------------------------------------------------------
\* The gateway.

Seats(n) == [at : Stands, loop : 0 .. n, attempt : 0 .. 2]
LEMMA Loops == ASSUME GatewayTypeOK
               PROVE  /\ Len(loops) \in Nat
                      /\ \A l \in 1 .. Len(loops) : loops[l] \in {"started", "set", "running", "stopping", "stopped"}
                      /\ \A a \in Actors : seat[a] \in Seats(Len(loops))
<1>1. Len(loops) \in Nat /\ \A l \in 1 .. Len(loops) : loops[l] \in {"started", "set", "running", "stopping", "stopped"}
  BY LenProperties, ElementOfSeq DEF GatewayTypeOK
<1>2. \A a \in Actors : seat[a] \in Seats(Len(loops))
  BY DEF GatewayTypeOK, Seats
<1>3. QED
  BY <1>1, <1>2

LEMMA People == Lifespan \in Actors /\ Lifespan \notin Callers /\ Callers \subseteq Actors
BY GatewayConstantsOK DEF Actors

\* A step that moves one actor and nothing else keeps the types if the new seat has them.
LEMMA OneMoves ==
  ASSUME GatewayTypeOK, NEW a \in Actors, NEW s \in Seats(Len(loops)), seat' = [seat EXCEPT ![a] = s]
  PROVE  /\ seat' \in [Actors -> Seats(Len(loops))]
         /\ seat'[a] = s /\ \A b \in Actors \ {a} : seat'[b] = seat[b]
BY DEF GatewayTypeOK, Seats

\* A step that moves one actor, already on its way, on and leaves the loops alone.
LEMMA MovesOn ==
  ASSUME GatewayInv, NEW a \in Actors, NEW s \in Seats(Len(loops)), seat' = [seat EXCEPT ![a] = s],
         UNCHANGED <<app, closing, loops, owner, ready>>, client' \in 0 .. Len(loops),
         seat[a].at # "away" \/ (a \in Callers /\ app = "serving"),
         s.at \in {"posting", "posted", "sending", "backoff"} => s.loop # 0,
         a = Lifespan /\ s.at \in {"asking", "waiting", "posting"} =>
           app \in {"starting", "closing"} /\ (s.at = "posting" => owner # 0)
  PROVE  GatewayInv'
<1>1. seat' \in [Actors -> Seats(Len(loops))] /\ seat'[a] = s
      /\ \A b \in Actors \ {a} : seat'[b] = seat[b]
  BY OneMoves DEF GatewayInv
<1>2. GatewayTypeOK'
  BY <1>1 DEF GatewayInv, GatewayTypeOK, Seats
<1>3. LoopsAreThere'
  BY <1>1 DEF GatewayInv, LoopsAreThere, OnALoop
<1>4. OwnerIsKnown'
  BY <1>1, People DEF GatewayInv, OwnerIsKnown
<1>5. QED
  BY <1>2, <1>3, <1>4 DEF GatewayInv

LEMMA EnsureLoopKeeps ==
  ASSUME GatewayInv, NEW a \in Actors, EnsureLoop(a)
  PROVE  GatewayInv'
<1>1. CASE Running(owner) /\ seat' = [seat EXCEPT ![a] = [@ EXCEPT !.at = "posting", !.loop = owner]]
           /\ UNCHANGED <<closing, loops, ready>>
  <2> DEFINE s == [seat[a] EXCEPT !.at = "posting", !.loop = owner]
  <2>1. s \in Seats(Len(loops)) /\ s.at = "posting" /\ s.loop = owner
    BY Loops DEF GatewayInv, GatewayTypeOK, Seats, Stands
  <2>2. seat' = [seat EXCEPT ![a] = s]
    BY <1>1
  <2> HIDE DEF s
  <2>3. a = Lifespan => app \in {"starting", "closing"}
    BY DEF GatewayInv, OwnerIsKnown, EnsureLoop, At
  <2>4. QED
    BY <1>1, <2>1, <2>2, <2>3, MovesOn
       DEF GatewayInv, GatewayTypeOK, EnsureLoop, At, Running
<1>2. CASE ready' = FALSE /\ loops' = Append(loops, "started") /\ seat' = Moved(a, "waiting")
  <2>1. loops' \in Seq({"started", "set", "running", "stopping", "stopped"}) /\ Len(loops') = Len(loops) + 1
    BY <1>2, AppendProperties DEF GatewayInv, GatewayTypeOK
  <2> DEFINE s == [seat[a] EXCEPT !.at = "waiting"]
  <2>2. s \in Seats(Len(loops)) /\ s.at = "waiting"
    BY Loops DEF GatewayInv, GatewayTypeOK, Seats, Stands
  <2>3. seat' = [seat EXCEPT ![a] = s]
    BY <1>2 DEF Moved
  <2> HIDE DEF s
  <2>4. seat' \in [Actors -> Seats(Len(loops))] /\ seat'[a] = s
        /\ \A b \in Actors \ {a} : seat'[b] = seat[b]
    BY <2>2, <2>3, OneMoves DEF GatewayInv
  <2>5. seat' \in [Actors -> Seats(Len(loops'))]
    BY <2>1, <2>4, Loops DEF GatewayInv, Seats
  <2>6. GatewayTypeOK'
    <3>1. ready' \in BOOLEAN
      BY <1>2
    <3>2. owner' \in 0 .. Len(loops') /\ closing' \in 0 .. Len(loops') /\ client' \in 0 .. Len(loops')
      BY <2>1, Loops DEF GatewayInv, GatewayTypeOK, EnsureLoop
    <3>3. app' \in {"starting", "serving", "draining", "closing", "down"}
      BY DEF GatewayInv, GatewayTypeOK, EnsureLoop
    <3>4. QED
      BY <2>1, <2>5, <3>1, <3>2, <3>3 DEF GatewayTypeOK, Seats
  <2>7. LoopsAreThere'
    BY <1>2, <2>2, <2>4 DEF GatewayInv, LoopsAreThere, OnALoop, EnsureLoop
  <2>8. OwnerIsKnown'
    BY <1>2, <2>2, <2>4, People DEF GatewayInv, OwnerIsKnown, EnsureLoop, At
  <2>9. QED
    BY <2>6, <2>7, <2>8 DEF GatewayInv
<1>3. QED
  BY <1>1, <1>2 DEF EnsureLoop

LEMMA WaitingKeeps ==
  ASSUME GatewayInv, NEW a \in Actors, LoopIsReady(a) \/ LoopIsLate(a)
  PROVE  GatewayInv'
<1>1. a = Lifespan => app \in {"starting", "closing"}
  BY DEF GatewayInv, OwnerIsKnown, LoopIsReady, LoopIsLate, At
<1>2. CASE LoopIsReady(a)
  <2> DEFINE s == [seat[a] EXCEPT !.at = "posting", !.loop = owner]
  <2>1. s \in Seats(Len(loops)) /\ s.at = "posting" /\ s.loop = owner
    BY Loops DEF GatewayInv, GatewayTypeOK, Seats, Stands
  <2>2. seat' = [seat EXCEPT ![a] = s]
    BY <1>2 DEF LoopIsReady
  <2> HIDE DEF s
  <2>3. owner # 0
    BY <1>1, <1>2, People DEF GatewayInv, OwnerIsKnown, LoopIsReady, At, Actors
  <2>4. QED
    BY <1>1, <1>2, <2>1, <2>2, <2>3, MovesOn DEF GatewayInv, GatewayTypeOK, LoopIsReady, At
<1>3. CASE LoopIsLate(a)
  <2> DEFINE s == [Away EXCEPT !.at = "failed"]
  <2>1. s \in Seats(Len(loops)) /\ s.at = "failed"
    BY Loops DEF GatewayInv, Seats, Stands, Away
  <2>2. seat' = [seat EXCEPT ![a] = s]
    BY <1>3 DEF LoopIsLate
  <2> HIDE DEF s
  <2>3. QED
    BY <1>3, <2>1, <2>2, MovesOn DEF GatewayInv, GatewayTypeOK, LoopIsLate, At
<1>4. QED
  BY <1>2, <1>3

LEMMA PostKeeps ==
  ASSUME GatewayInv, NEW a \in Actors, Post(a)
  PROVE  GatewayInv'
<1> DEFINE s == IF loops[seat[a].loop] = "stopped" THEN [Away EXCEPT !.at = "failed"]
                ELSE [seat[a] EXCEPT !.at = "posted"]
<1>1. s \in Seats(Len(loops)) /\ s.at \in {"failed", "posted"} /\ (s.at = "posted" => s.loop = seat[a].loop)
  BY Loops DEF GatewayInv, Seats, Stands, Away
<1>2. seat' = [seat EXCEPT ![a] = s]
  BY DEF Post
<1> HIDE DEF s
<1>3. seat[a].loop # 0 /\ seat[a].at # "away"
  BY DEF GatewayInv, LoopsAreThere, OnALoop, Post, At
<1>4. QED
  BY <1>1, <1>2, <1>3, MovesOn DEF GatewayInv, GatewayTypeOK, Post

LEMMA ExchangeKeeps ==
  ASSUME GatewayInv, NEW c \in Callers, Exchange(c)
  PROVE  GatewayInv'
<1>1. c \in Actors /\ c # Lifespan
  BY People
<1>2. CASE Begin(c)
  <2> DEFINE t == [seat[c] EXCEPT !.at = "sending"]
             s == [seat[c] EXCEPT !.at = "sending", !.attempt = 1]
  <2>0. t \in Seats(Len(loops)) /\ t.at = "sending" /\ t.loop = seat[c].loop
        /\ s = [t EXCEPT !.attempt = 1]
    BY <1>1, Loops DEF GatewayInv, GatewayTypeOK, Seats, Stands
  <2> HIDE DEF t, s
  <2>1. s \in Seats(Len(loops)) /\ s.at = "sending" /\ s.loop = seat[c].loop
    BY <2>0 DEF Seats
  <2>2. seat' = [seat EXCEPT ![c] = s]
    BY <1>1, <1>2, Loops DEF Begin, GatewayInv, GatewayTypeOK, s
  <2>3. seat[c].loop \in 0 .. Len(loops) /\ seat[c].loop # 0 /\ seat[c].at # "away"
    BY <1>1, <1>2, Loops DEF GatewayInv, LoopsAreThere, OnALoop, Begin, At, Seats
  <2>4. client' \in 0 .. Len(loops)
    BY <1>2, <2>3 DEF GatewayInv, GatewayTypeOK, Begin
  <2>5. QED
    BY <1>1, <1>2, <2>1, <2>2, <2>3, <2>4, MovesOn DEF Begin
<1>3. ASSUME NEW outcome \in Outcomes, Receive(c, outcome)
      PROVE  GatewayInv'
  <2> DEFINE s == Attempted(seat[c], outcome)
  <2>1. s \in Seats(Len(loops)) /\ s.at \in {"backoff", "content", "failed"}
        /\ (s.at = "backoff" => s.loop = seat[c].loop)
    <3> DEFINE t == [seat[c] EXCEPT !.at = "backoff"]
               u == [seat[c] EXCEPT !.at = "backoff", !.attempt = 2]
    <3>1. seat[c] \in Seats(Len(loops)) /\ Len(loops) \in Nat
      BY <1>1, Loops DEF GatewayInv
    <3>2. t \in Seats(Len(loops)) /\ t.at = "backoff" /\ t.loop = seat[c].loop
          /\ u = [t EXCEPT !.attempt = 2]
      BY <3>1 DEF Seats, Stands
    <3>3. CASE outcome = "transient" /\ seat[c].attempt = 1
      <4>1. s = u
        BY <3>3 DEF Attempted
      <4> HIDE DEF t, u, s
      <4>2. QED
        BY <3>2, <4>1 DEF Seats
    <3>4. CASE ~(outcome = "transient" /\ seat[c].attempt = 1)
      <4>1. s = [Away EXCEPT !.at = IF outcome = "content" THEN "content" ELSE "failed"]
        BY <3>4 DEF Attempted
      <4> HIDE DEF s
      <4>2. QED
        BY <3>1, <4>1 DEF Seats, Stands, Away
    <3>5. QED
      BY <3>3, <3>4
  <2>2. seat' = [seat EXCEPT ![c] = s]
    BY <1>3 DEF Receive
  <2> HIDE DEF s
  <2>3. seat[c].loop # 0 /\ seat[c].at # "away"
    BY <1>1, <1>3 DEF GatewayInv, LoopsAreThere, OnALoop, Receive, At
  <2>4. QED
    BY <1>1, <1>3, <2>1, <2>2, <2>3, MovesOn DEF GatewayInv, GatewayTypeOK, Receive
<1>4. CASE Retry(c)
  <2> DEFINE s == [seat[c] EXCEPT !.at = "sending"]
  <2>1. s \in Seats(Len(loops)) /\ s.at = "sending" /\ s.loop = seat[c].loop
    BY <1>1, Loops DEF GatewayInv, GatewayTypeOK, Seats, Stands
  <2>2. seat' = [seat EXCEPT ![c] = s]
    BY <1>4 DEF Retry, Moved
  <2> HIDE DEF s
  <2>3. seat[c].loop # 0 /\ seat[c].at # "away"
    BY <1>1, <1>4 DEF GatewayInv, LoopsAreThere, OnALoop, Retry, At
  <2>4. QED
    BY <1>1, <1>4, <2>1, <2>2, <2>3, MovesOn DEF GatewayInv, GatewayTypeOK, Retry
<1>5. QED
  BY <1>2, <1>3, <1>4 DEF Exchange

LEMMA LoopStepKeeps ==
  ASSUME GatewayInv, LoopStep
  PROVE  GatewayInv'
<1>1. PICK l \in 1 .. Len(loops) : PublishLoop(l) \/ RunLoop(l) \/ EndLoop(l)
  BY DEF LoopStep
<1> DEFINE Turns(state) == loops' = [loops EXCEPT ![l] = state] /\ UNCHANGED <<app, closing, client, seat>>
<1>2. ASSUME NEW state \in {"set", "running", "stopped"}, Turns(state)
      PROVE  /\ loops' \in Seq({"started", "set", "running", "stopping", "stopped"})
             /\ Len(loops') = Len(loops)
  BY <1>2, ExceptSeq DEF GatewayInv, GatewayTypeOK
<1>3. CASE PublishLoop(l)
  <2>1. loops' \in Seq({"started", "set", "running", "stopping", "stopped"}) /\ Len(loops') = Len(loops)
    BY <1>2, <1>3 DEF PublishLoop
  <2>2. ready' \in BOOLEAN /\ owner' = l
    BY <1>3 DEF PublishLoop
  <2>3. GatewayTypeOK'
    BY <1>3, <2>1, <2>2, Loops DEF GatewayInv, GatewayTypeOK, PublishLoop
  <2>4. LoopsAreThere' /\ OwnerIsKnown'
    BY <1>3, <2>2 DEF GatewayInv, LoopsAreThere, OnALoop, OwnerIsKnown, PublishLoop
  <2>5. QED
    BY <2>3, <2>4 DEF GatewayInv
<1>4. CASE RunLoop(l) \/ EndLoop(l)
  <2>1. loops' \in Seq({"started", "set", "running", "stopping", "stopped"}) /\ Len(loops') = Len(loops)
        /\ UNCHANGED <<app, closing, owner, ready, client, seat>>
    BY <1>2, <1>4 DEF RunLoop, EndLoop
  <2>2. QED
    BY <2>1 DEF GatewayInv, GatewayTypeOK, LoopsAreThere, OnALoop, OwnerIsKnown
<1>5. QED
  BY <1>1, <1>3, <1>4

\* The application goes through its life once, with a loop from the moment it serves.
LEMMA EndingKeeps ==
  ASSUME GatewayInv, Ending \/ Drain \/ BeginClose
  PROVE  GatewayInv'
<1>1. CASE Drain
  BY <1>1, People DEF Drain, GatewayInv, GatewayTypeOK, LoopsAreThere, OnALoop, OwnerIsKnown
<1>2. CASE StartFails \/ CloseFails
  <2>1. app' = "down" /\ UNCHANGED <<closing, loops, owner, ready, client, seat>>
        /\ app \in {"starting", "closing"} /\ seat[Lifespan].at = "failed"
    BY <1>2 DEF StartFails, CloseFails, At
  <2>2. QED
    BY <2>1, People DEF GatewayInv, GatewayTypeOK, LoopsAreThere, OnALoop, OwnerIsKnown
<1>3. ASSUME NEW s \in Seats(Len(loops)), seat' = [seat EXCEPT ![Lifespan] = s]
      PROVE  /\ seat' \in [Actors -> Seats(Len(loops))] /\ seat'[Lifespan] = s
             /\ \A b \in Actors \ {Lifespan} : seat'[b] = seat[b]
  BY <1>3, OneMoves, People DEF GatewayInv
<1>4. Away \in Seats(Len(loops)) /\ Away.at = "away"
  BY Loops DEF GatewayInv, Away, Seats, Stands
<1>5. CASE Serve
  <2>1. seat' \in [Actors -> Seats(Len(loops))] /\ seat'[Lifespan].at = "away"
        /\ \A b \in Actors \ {Lifespan} : seat'[b] = seat[b]
    BY <1>3, <1>4, <1>5 DEF Serve
  <2>2. owner # 0
    BY <1>5 DEF Serve, At, GatewayInv, OwnerIsKnown
  <2>3. QED
    BY <1>5, <2>1, <2>2, People
       DEF Serve, GatewayInv, GatewayTypeOK, LoopsAreThere, OnALoop, OwnerIsKnown, Seats
<1>6. CASE BeginClose
  <2> DEFINE s == [Away EXCEPT !.at = "asking"]
  <2>1. s \in Seats(Len(loops)) /\ s.at = "asking"
    BY <1>4 DEF Seats, Stands
  <2>2. seat' = [seat EXCEPT ![Lifespan] = s]
    BY <1>6 DEF BeginClose
  <2> HIDE DEF s
  <2>3. seat' \in [Actors -> Seats(Len(loops))] /\ seat'[Lifespan].at = "asking"
        /\ \A b \in Actors \ {Lifespan} : seat'[b] = seat[b]
    BY <1>3, <2>1, <2>2
  <2>4. owner # 0 /\ closing' = owner
    BY <1>6 DEF BeginClose, GatewayInv, OwnerIsKnown
  <2>5. QED
    BY <1>6, <2>3, <2>4, People
       DEF BeginClose, At, GatewayInv, GatewayTypeOK, LoopsAreThere, OnALoop, OwnerIsKnown, Seats
<1>7. CASE CloseClient
  <2> DEFINE s == [seat[Lifespan] EXCEPT !.at = "joining"]
  <2>1. s \in Seats(Len(loops)) /\ s.at = "joining"
    BY Loops, People DEF GatewayInv, Seats, Stands
  <2>2. seat' = [seat EXCEPT ![Lifespan] = s]
    BY <1>7 DEF CloseClient, Moved
  <2> HIDE DEF s
  <2>3. seat' \in [Actors -> Seats(Len(loops))] /\ seat'[Lifespan].at = "joining"
        /\ \A b \in Actors \ {Lifespan} : seat'[b] = seat[b]
    BY <1>3, <2>1, <2>2
  <2>4. closing \in 1 .. Len(loops)
    BY <1>7, Loops DEF CloseClient, GatewayInv, GatewayTypeOK, LoopsAreThere
  <2>5. loops' \in Seq({"started", "set", "running", "stopping", "stopped"}) /\ Len(loops') = Len(loops)
    BY <1>7, <2>4, ExceptSeq DEF CloseClient, GatewayInv, GatewayTypeOK
  <2>6. GatewayTypeOK'
    BY <1>7, <2>3, <2>5, Loops DEF CloseClient, GatewayInv, GatewayTypeOK, Seats
  <2>7. LoopsAreThere' /\ OwnerIsKnown'
    BY <1>7, <2>3, People DEF CloseClient, GatewayInv, LoopsAreThere, OnALoop, OwnerIsKnown
  <2>8. QED
    BY <2>6, <2>7 DEF GatewayInv
<1>8. CASE Joined
  <2>1. seat' \in [Actors -> Seats(Len(loops))] /\ seat'[Lifespan].at = "away"
        /\ \A b \in Actors \ {Lifespan} : seat'[b] = seat[b]
    BY <1>3, <1>4, <1>8 DEF Joined
  <2>2. \A c \in Callers : seat[c].at = "away"
    BY <1>8 DEF Joined, GatewayInv, OwnerIsKnown
  <2>3. GatewayTypeOK'
    BY <1>8, <2>1, Loops DEF Joined, GatewayInv, GatewayTypeOK, Seats
  <2>4. LoopsAreThere' /\ OwnerIsKnown'
    BY <1>8, <2>1, <2>2, People DEF Joined, GatewayInv, LoopsAreThere, OnALoop, OwnerIsKnown
  <2>5. QED
    BY <2>3, <2>4 DEF GatewayInv
<1>9. QED
  BY <1>1, <1>2, <1>5, <1>6, <1>7, <1>8 DEF Ending

-----------------------------------------------------------------------------
\* The questions.

LEMMA AskKeeps ==
  ASSUME NInv, NEW c \in Callers, NEW task \in MayAsk(c), Ask(c, task)
  PROVE  NInv'
<1>1. task \in Tasks /\ task # "none" /\ c \in Actors /\ c # Lifespan
  BY NarrationConstantsOK, People DEF Tasks
<1>2. asked' = [asked EXCEPT ![c] = task] /\ answer[c] = Unanswered /\ asked[c] = "none"
      /\ app = "serving" /\ UNCHANGED <<available, app, closing, loops, owner, ready, client>>
  BY DEF NInv, AnswersPassedTheirGuard, Ask
<1>3. CASE Asks(c)
  <2> DEFINE s == [seat[c] EXCEPT !.at = "asking"]
  <2>1. s \in Seats(Len(loops)) /\ s.at = "asking"
    BY <1>1, Loops DEF NInv, GatewayInv, Seats, Stands
  <2>2. seat' = [seat EXCEPT ![c] = s]
    BY <1>3 DEF Asks, Moved
  <2> HIDE DEF s
  <2>3. GatewayInv'
    BY <1>1, <1>2, <2>1, <2>2, MovesOn DEF NInv, GatewayInv, GatewayTypeOK
  <2>4. QuestionTypeOK'
    BY <1>1, <1>2, <1>3 DEF NInv, QuestionTypeOK, Asks
  <2>5. AnswersPassedTheirGuard'
    <3>1. answer' = answer /\ answer[c].source = "none"
      BY <1>2, <1>3 DEF Asks, Unanswered
    <3>2. \A d \in Callers \ {c} : asked'[d] = asked[d] /\ seat'[d] = seat[d]
      BY <1>1, <1>2, <2>1, <2>2, OneMoves, People DEF NInv, QuestionTypeOK, GatewayInv
    <3>3. asked'[c] = task
      BY <1>2 DEF NInv, QuestionTypeOK
    <3>4. QED
      BY <1>1, <3>1, <3>2, <3>3 DEF NInv, AnswersPassedTheirGuard
  <2>6. QED
    BY <2>3, <2>4, <2>5 DEF NInv
<1>4. CASE Spares(c, task)
  <2>1. seat' = seat /\ answer' = [answer EXCEPT ![c] = Unaided(task)]
    BY <1>4 DEF Spares
  <2>2. Unaided(task) \in [source : {"none", "llm", "deterministic", "rules", "unavailable"},
                           says : SUBSET Sentences]
        /\ Unaided(task).source # "llm"
    BY DEF Unaided, From, Sentences
  <2>3. GatewayInv'
    BY <1>2, <2>1 DEF NInv, GatewayInv, GatewayTypeOK, LoopsAreThere, OnALoop, OwnerIsKnown
  <2>4. QuestionTypeOK'
    BY <1>1, <1>2, <2>1, <2>2 DEF NInv, QuestionTypeOK
  <2>5. AnswersPassedTheirGuard'
    BY <1>1, <1>2, <2>1, <2>2 DEF NInv, QuestionTypeOK, AnswersPassedTheirGuard
  <2>6. QED
    BY <2>3, <2>4, <2>5 DEF NInv
<1>5. QED
  BY <1>3, <1>4 DEF Ask

LEMMA AnsweringKeeps ==
  ASSUME NInv, NEW c \in Callers, Answering(c)
  PROVE  /\ NInv'
         /\ \E new : answer' = [answer EXCEPT ![c] = new]
         /\ Waits(c)
<1>1. c \in Actors /\ c # Lifespan
  BY People
<1>2. Waits(c) /\ Leaves(c) /\ UNCHANGED <<available, asked>> /\ asked[c] \in Tasks /\ seat[c].at # "away"
  BY DEF Answering, FallBack, Publish, NInv, QuestionTypeOK, Waits, At
<1>3. GatewayInv'
  <2>1. Away \in Seats(Len(loops)) /\ Away.at = "away"
    BY Loops DEF NInv, GatewayInv, Away, Seats, Stands
  <2>2. QED
    BY <1>1, <1>2, <2>1, MovesOn DEF Leaves, NInv, GatewayInv, GatewayTypeOK
<1> DEFINE Worded == [source : {"none", "llm", "deterministic", "rules", "unavailable"},
                      says : SUBSET Sentences]
           Given == \E new \in Worded : /\ answer' = [answer EXCEPT ![c] = new]
                                        /\ new.source = "llm" => new.says \in Publications[asked[c]]
<1>4. Given
  <2>1. CASE FallBack(c)
    <3>1. PICK fallback \in Fallbacks(asked[c]) : answer' = [answer EXCEPT ![c] = fallback]
      BY <2>1 DEF FallBack
    <3>2. fallback \in {From("rules", {}), From("deterministic", {"sound"}), From("unavailable", {})}
      BY DEF Fallbacks, Unaided
    <3>3. fallback \in Worded /\ fallback.source # "llm"
      BY <3>2 DEF From, Sentences
    <3>4. QED
      BY <3>1, <3>3
  <2>2. ASSUME NEW S \in SUBSET Sentences, Publish(c, S)
        PROVE  Given
    <3>1. From("llm", S) \in Worded /\ From("llm", S).says = S
      BY DEF From
    <3>2. answer' = [answer EXCEPT ![c] = From("llm", S)] /\ S \in Publications[asked[c]]
      BY <2>2 DEF Publish
    <3>3. QED
      BY <3>1, <3>2
  <2> HIDE DEF Given
  <2>3. QED
    BY <2>1, <2>2 DEF Answering
<1>5. QuestionTypeOK' /\ AnswersPassedTheirGuard'
  <2>1. seat'[c] = Away /\ \A b \in Callers \ {c} : seat'[b] = seat[b]
    BY <1>1, <1>2, People DEF Leaves, NInv, GatewayInv, GatewayTypeOK
  <2>2. QuestionTypeOK'
    BY <1>2, <1>4 DEF NInv, QuestionTypeOK
  <2>3. AnswersPassedTheirGuard'
    BY <1>2, <1>4, <2>1 DEF NInv, QuestionTypeOK, AnswersPassedTheirGuard, Waits
  <2>4. QED
    BY <2>2, <2>3
<1>6. QED
  BY <1>2, <1>3, <1>4, <1>5 DEF NInv

\* The steps of the gateway answer nothing, and move nobody who was not asked.
LEMMA GatewayStepKeeps ==
  ASSUME NInv, UNCHANGED narrating,
         \/ \E c \in Callers : Exchange(c)
         \/ \E a \in Actors : Asking(a)
         \/ LoopStep \/ Drain \/ BeginClose \/ Ending
  PROVE  NInv'
<1>1. GatewayInv'
  BY EnsureLoopKeeps, WaitingKeeps, PostKeeps, ExchangeKeeps, LoopStepKeeps, EndingKeeps DEF NInv, Asking
<1>2. QuestionTypeOK'
  BY DEF NInv, QuestionTypeOK, narrating
<1>3. \A c \in Callers : seat[c] = Away => seat'[c] = Away
  <2> SUFFICES ASSUME NEW c \in Callers, seat[c] = Away
               PROVE  seat'[c] = Away
    OBVIOUS
  <2>1. c \in Actors /\ c # Lifespan /\ seat[c].at = "away"
    BY People DEF Away
  <2>2. seat \in [Actors -> Seats(Len(loops))]
    BY DEF NInv, GatewayInv, GatewayTypeOK, Seats
  <2>3. ASSUME NEW b \in Callers, Exchange(b)
        PROVE  seat'[c] = seat[c]
    BY <2>1, <2>2, <2>3 DEF Exchange, Begin, Receive, Retry, At, Moved
  <2>4. ASSUME NEW a \in Actors, Asking(a)
        PROVE  seat'[c] = seat[c]
    BY <2>1, <2>2, <2>4 DEF Asking, EnsureLoop, LoopIsReady, LoopIsLate, Post, At, Moved
  <2>5. CASE LoopStep \/ Drain \/ BeginClose \/ Ending
    BY <2>1, <2>2, <2>5 DEF LoopStep, PublishLoop, RunLoop, EndLoop, Drain, BeginClose, Ending, Serve,
                            StartFails, CloseClient, Joined, CloseFails, Moved
  <2>6. QED
    BY <2>3, <2>4, <2>5
<1>4. AnswersPassedTheirGuard'
  BY <1>3 DEF NInv, AnswersPassedTheirGuard, narrating
<1>5. QED
  BY <1>1, <1>2, <1>4 DEF NInv

LEMMA NarrationInvariance == NarrationSpec => []NInv
<1>1. NarrationInit => NInv
  <2> SUFFICES ASSUME NarrationInit
               PROVE  NInv
    OBVIOUS
  <2>1. loops = <<>> /\ Len(loops) = 0 /\ loops \in Seq({"started", "set", "running", "stopping", "stopped"})
    BY EmptySeq DEF NarrationInit, GatewayInit
  <2>2. Away \in Seats(0)
    BY DEF Away, Seats, Stands
  <2>3. [Away EXCEPT !.at = "asking"] \in Seats(0)
    BY DEF Away, Seats, Stands
  <2>4. /\ seat \in [Actors -> Seats(0)] /\ seat[Lifespan].at = "asking"
        /\ \A c \in Callers : seat[c] = Away
    <3>1. seat = [[a \in Actors |-> Away] EXCEPT ![Lifespan] = [Away EXCEPT !.at = "asking"]]
      BY People DEF NarrationInit, GatewayInit
    <3>2. QED
      BY <2>2, <2>3, <3>1, People DEF Seats
  <2>5. GatewayTypeOK
    <3>1. app = "starting" /\ owner = 0 /\ closing = 0 /\ client = 0 /\ 0 \in 0 .. Len(loops)
      BY <2>1 DEF NarrationInit, GatewayInit
    <3>2. ready \in BOOLEAN
      BY DEF NarrationInit, GatewayInit
    <3>3. seat \in [Actors -> [at : Stands, loop : 0 .. Len(loops), attempt : 0 .. 2]]
      BY <2>1, <2>4 DEF Seats
    <3>4. QED
      BY <2>1, <3>1, <3>2, <3>3 DEF GatewayTypeOK
  <2>6. LoopsAreThere /\ OwnerIsKnown
    BY <2>4 DEF NarrationInit, GatewayInit, LoopsAreThere, OwnerIsKnown, OnALoop, Away, Actors
  <2>7. QuestionTypeOK /\ AnswersPassedTheirGuard
    BY <2>4 DEF NarrationInit, QuestionTypeOK, AnswersPassedTheirGuard, Unanswered
  <2>8. QED
    BY <2>5, <2>6, <2>7 DEF NInv, GatewayInv
<1>2. ASSUME NInv, [NarrationNext]_narrationVars
      PROVE  NInv'
  <2>1. CASE UNCHANGED narrationVars
    BY <1>2, <2>1 DEF narrationVars, gateway, narrating, NInv, GatewayInv, GatewayTypeOK, LoopsAreThere,
                      OnALoop, OwnerIsKnown, QuestionTypeOK, AnswersPassedTheirGuard
  <2>2. CASE NarrationNext
    BY <1>2, <2>2, AskKeeps, AnsweringKeeps, GatewayStepKeeps DEF NarrationNext, Live
  <2>3. QED
    BY <1>2, <2>1, <2>2
<1>3. QED
  BY <1>1, <1>2, PTL DEF NarrationSpec

\* Every request, post and shutdown finds its loop: no thread posts on a loop that was never started,
\* whichever threads start loops at once (_ensure_owner_loop, close).
THEOREM LoopsExist == NarrationSpec => [](GatewayTypeOK /\ LoopsAreThere)
<1>1. NInv => GatewayTypeOK /\ LoopsAreThere
  BY DEF NInv, GatewayInv
<1>2. QED
  BY <1>1, NarrationInvariance, PTL

\* A loop stops only when the application goes down, after the lifespan had the client closed; and
\* the lifespan posts nothing but the closing of the client.
LoopsStopLast ==
  /\ (\E l \in 1 .. Len(loops) : loops[l] \in {"stopping", "stopped"}) =>
       app = "down" \/ (app = "closing" /\ seat[Lifespan].at = "joining")
  /\ app = "down" => seat[Lifespan].at \in {"away", "failed"}
  /\ seat[Lifespan].at \in {"posted", "joining"} => app = "closing"
  /\ seat[Lifespan].at \notin {"sending", "backoff"}

\* A step of the callers leaves loops, application and lifespan alone.
LEMMA CallersStopNothing ==
  ASSUME NInv, LoopsStopLast, NEW c \in Callers,
         (\E task \in MayAsk(c) : Ask(c, task)) \/ Answering(c) \/ Exchange(c)
  PROVE  LoopsStopLast'
<1>1. UNCHANGED <<app, loops>>
  BY DEF Ask, Asks, Spares, Answering, FallBack, Publish, Leaves, Exchange, Begin, Receive, Retry
<1>2. seat'[Lifespan] = seat[Lifespan]
  <2>1. c # Lifespan /\ Lifespan \in Actors
    BY People
  <2>2. seat \in [Actors -> Seats(Len(loops))]
    BY DEF NInv, GatewayInv, GatewayTypeOK, Seats
  <2>3. seat' = seat \/ \E s : seat' = [seat EXCEPT ![c] = s]
    <3>1. CASE \E task \in MayAsk(c) : Ask(c, task)
      BY <3>1, <2>2, Zenon DEF Ask, Asks, Spares, Moved
    <3>2. CASE Answering(c)
      BY <3>2 DEF Answering, FallBack, Publish, Leaves
    <3>3. CASE Exchange(c)
      <4>1. CASE Begin(c)
        <5> DEFINE s == [seat[c] EXCEPT !.at = "sending", !.attempt = 1]
        <5>1. seat' = [seat EXCEPT ![c] = s]
          BY <4>1 DEF Begin
        <5>2. QED
          BY <5>1
      <4>2. ASSUME NEW outcome \in Outcomes, Receive(c, outcome)
            PROVE  \E s : seat' = [seat EXCEPT ![c] = s]
        BY <4>2 DEF Receive
      <4>3. CASE Retry(c)
        BY <4>3, Zenon DEF Retry, Moved
      <4>4. QED
        BY <3>3, <4>1, <4>2, <4>3 DEF Exchange
    <3>4. QED
      BY <3>1, <3>2, <3>3
  <2>4. QED
    BY <2>1, <2>2, <2>3
<1>3. QED
  BY <1>1, <1>2 DEF LoopsStopLast

\* Asking for a loop starts one and stops none; the lifespan asks before it serves and when it closes.
LEMMA AskingStopsNothing ==
  ASSUME NInv, LoopsStopLast, NEW a \in Actors, Asking(a)
  PROVE  LoopsStopLast'
<1>1. app' = app
  BY DEF Asking, EnsureLoop, LoopIsReady, LoopIsLate, Post
<1>2. Len(loops) \in Nat /\ seat \in [Actors -> Seats(Len(loops))] /\ Lifespan \in Actors
  BY Loops, People DEF NInv, GatewayInv, GatewayTypeOK, Seats
<1>3. /\ a # Lifespan => seat'[Lifespan] = seat[Lifespan]
      /\ a = Lifespan => /\ seat[Lifespan].at \in {"asking", "waiting", "posting"}
                         /\ seat'[Lifespan].at \in {"waiting", "posting", "posted", "failed"}
                         /\ seat'[Lifespan].at = "posted" => app # "starting"
  BY <1>2 DEF Asking, EnsureLoop, LoopIsReady, LoopIsLate, Post, At, Moved, Away, Seats
<1>4. a = Lifespan => app \in {"starting", "closing"}
  BY <1>3 DEF NInv, GatewayInv, OwnerIsKnown
<1>5. (\E l \in 1 .. Len(loops') : loops'[l] \in {"stopping", "stopped"}) =>
        \E l \in 1 .. Len(loops) : loops[l] \in {"stopping", "stopped"}
  <2>1. CASE loops' = loops
    BY <2>1
  <2>2. CASE loops' = Append(loops, "started")
    <3>1. /\ Len(loops') = Len(loops) + 1 /\ loops'[Len(loops) + 1] = "started"
          /\ \A l \in 1 .. Len(loops) : loops'[l] = loops[l]
      BY <2>2, AppendProperties DEF NInv, GatewayInv, GatewayTypeOK
    <3>2. QED
      BY <1>2, <3>1
  <2>3. QED
    BY <2>1, <2>2 DEF Asking, EnsureLoop, LoopIsReady, LoopIsLate, Post
<1>6. QED
  BY <1>1, <1>3, <1>4, <1>5 DEF LoopsStopLast

\* The loops themselves: one ends that was told to.
LEMMA LoopStepStopsNothing ==
  ASSUME NInv, LoopsStopLast, LoopStep
  PROVE  LoopsStopLast'
<1>1. UNCHANGED <<app, seat>>
  BY DEF LoopStep, PublishLoop, RunLoop, EndLoop
<1>2. PICK l \in 1 .. Len(loops) : PublishLoop(l) \/ RunLoop(l) \/ EndLoop(l)
  BY DEF LoopStep
<1>3. PICK state \in {"set", "running", "stopped"} :
        /\ loops' = [loops EXCEPT ![l] = state]
        /\ state = "stopped" => loops[l] = "stopping"
  BY <1>2 DEF PublishLoop, RunLoop, EndLoop
<1>4. Len(loops') = Len(loops) /\ \A k \in 1 .. Len(loops) : loops'[k] = IF k = l THEN state ELSE loops[k]
  BY <1>2, <1>3, ExceptSeq DEF NInv, GatewayInv, GatewayTypeOK
<1>5. (\E k \in 1 .. Len(loops') : loops'[k] \in {"stopping", "stopped"}) =>
        \E k \in 1 .. Len(loops) : loops[k] \in {"stopping", "stopped"}
  BY <1>2, <1>3, <1>4
<1>6. QED
  BY <1>1, <1>5 DEF LoopsStopLast

\* The life of the application: it stops a loop when everybody else has left.
LEMMA EndingStopsLast ==
  ASSUME NInv, LoopsStopLast, Ending \/ Drain \/ BeginClose
  PROVE  LoopsStopLast'
<1>1. seat \in [Actors -> Seats(Len(loops))] /\ Lifespan \in Actors
  BY People DEF NInv, GatewayInv, GatewayTypeOK, Seats
<1>2. CASE Drain
  BY <1>1, <1>2 DEF Drain, LoopsStopLast
<1>3. CASE BeginClose
  <2>1. seat'[Lifespan].at = "asking"
    BY <1>1, <1>3 DEF BeginClose, Away
  <2>2. QED
    BY <1>3, <2>1 DEF BeginClose, LoopsStopLast
<1>4. CASE Serve
  <2>1. seat'[Lifespan].at = "away"
    BY <1>1, <1>4 DEF Serve, Away
  <2>2. QED
    BY <1>4, <2>1 DEF Serve, LoopsStopLast, At
<1>5. CASE StartFails \/ CloseFails
  BY <1>5 DEF StartFails, CloseFails, LoopsStopLast, At
<1>6. CASE CloseClient
  <2>1. seat'[Lifespan].at = "joining"
    BY <1>1, <1>6 DEF CloseClient, Moved, Seats
  <2>2. QED
    BY <1>6, <2>1 DEF CloseClient, LoopsStopLast
<1>7. CASE Joined
  <2>1. seat'[Lifespan].at = "away"
    BY <1>1, <1>7 DEF Joined, Away
  <2>2. QED
    BY <1>7, <2>1 DEF Joined, LoopsStopLast
<1>8. QED
  BY <1>2, <1>3, <1>4, <1>5, <1>6, <1>7 DEF Ending

\* However many callers ask while loops start, fail or are replaced and the application stops, none of
\* them, nor the shutdown, waits on a loop that has stopped (_run_on_owner_loop, close).
THEOREM NobodyIsStranded == NarrationSpec => []NobodyWaitsOnAStoppedLoop
<1>1. NarrationInit => LoopsStopLast
  <2> SUFFICES ASSUME NarrationInit
               PROVE  LoopsStopLast
    OBVIOUS
  <2>1. loops = <<>> /\ Len(loops) = 0 /\ app = "starting"
    BY EmptySeq DEF NarrationInit, GatewayInit
  <2>2. seat[Lifespan].at = "asking"
    BY People DEF NarrationInit, GatewayInit, Away
  <2>3. QED
    BY <2>1, <2>2 DEF LoopsStopLast
<1>2. NInv /\ LoopsStopLast /\ [NarrationNext]_narrationVars => LoopsStopLast'
  <2> SUFFICES ASSUME NInv, LoopsStopLast, [NarrationNext]_narrationVars
               PROVE  LoopsStopLast'
    OBVIOUS
  <2>1. CASE UNCHANGED narrationVars
    BY <2>1 DEF narrationVars, gateway, LoopsStopLast
  <2>2. CASE NarrationNext
    BY <2>2, CallersStopNothing, AskingStopsNothing, LoopStepStopsNothing, EndingStopsLast
       DEF NarrationNext, Live
  <2>3. QED
    BY <2>1, <2>2
<1>3. NInv /\ LoopsStopLast => NobodyWaitsOnAStoppedLoop
  <2> SUFFICES ASSUME NInv, LoopsStopLast, NEW a \in Actors,
                      seat[a].at \in {"posted", "sending", "backoff"}
               PROVE  loops[seat[a].loop] # "stopped"
    BY DEF NobodyWaitsOnAStoppedLoop
  <2>1. seat[a].loop \in 1 .. Len(loops)
    BY Loops DEF NInv, GatewayInv, LoopsAreThere, OnALoop, Seats
  <2>2. ~(app = "down" \/ (app = "closing" /\ seat[Lifespan].at = "joining"))
    BY People DEF NInv, GatewayInv, OwnerIsKnown, LoopsStopLast, Actors
  <2>3. QED
    BY <2>1, <2>2 DEF LoopsStopLast
<1>4. QED
  BY <1>1, <1>2, <1>3, NarrationInvariance, PTL DEF NarrationSpec

\* An answer once given stays: nothing that a late attempt brings, or a fallback, replaces it.
THEOREM AnswersStay ==
  NarrationSpec => [][\A c \in Callers : answer[c] # Unanswered => answer'[c] = answer[c]]_narrationVars
<1> DEFINE A == \A c \in Callers : answer[c] # Unanswered => answer'[c] = answer[c]
<1>1. ASSUME NInv, [NarrationNext]_narrationVars
      PROVE  A
  <2>1. CASE UNCHANGED answer
    BY <2>1
  <2>2. ASSUME NEW c \in Callers, NEW task \in MayAsk(c), Ask(c, task)
        PROVE  A
    BY <1>1, <2>2 DEF Ask, Asks, Spares, NInv, AnswersPassedTheirGuard, QuestionTypeOK
  <2>3. ASSUME NEW c \in Callers, Answering(c)
        PROVE  A
    BY <1>1, <2>3, AnsweringKeeps DEF NInv, QuestionTypeOK, Waits
  <2> HIDE DEF A
  <2>4. QED
    BY <1>1, <2>1, <2>2, <2>3 DEF NarrationNext, Live, narrating, narrationVars
<1>2. QED
  BY <1>1, NarrationInvariance, PTL DEF NarrationSpec
=============================================================================
