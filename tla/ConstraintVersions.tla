------------------------- MODULE ConstraintVersions -------------------------
(***************************************************************************)
(* One family of inventory constraints (a store, an ingredient or none, a  *)
(* type): the versions InventoryConstraintWriteService adds, corrects and  *)
(* deactivates, the ones an import adds, and the version the planner finds *)
(* in force on a day (InventoryConstraintRepository.effective,             *)
(* BusinessConstraintResolver.resolve_constraint).                         *)
(*                                                                         *)
(* A request with an Idempotency-Key registers it first and so reads under *)
(* the write lock: it is one step.  One without reads, and locks with its  *)
(* first write.  A unique index on the version number makes the insert of  *)
(* a version that another request inserted meanwhile fail; a deactivation  *)
(* inserts nothing and has no such guard.  An import holds the lock when   *)
(* it gets here; a sheet with several rows is several steps of one row.    *)
(***************************************************************************)
EXTENDS Integers, Sequences

CONSTANTS
  Clients,      \* requests without a key that may be in flight together
  LastDay,      \* days are 1 .. LastDay
  MaxVersions   \* bound on the versions of the family

ASSUME ConstraintConstantsOK == LastDay \in Nat \ {0} /\ MaxVersions \in Nat

VARIABLES
  versions,  \* the rows of the family, by version
  planned,   \* cutoff dates of completed plans that traced the family
  client     \* requests without a key: what they loaded and ask for

constraintVars == <<versions, planned, client>>

Days == 1 .. LastDay
NoEnd == LastDay + 1      \* end_date is null
EndDays == 1 .. NoEnd

Latest == Len(versions)
Resting == [asks |-> "nothing", at |-> 0, end |-> NoEnd, day |-> 1]

\* A version as it is inserted.  `deactivated': the audit log has a deactivation of it.
Fresh(from, end) ==
  [from |-> from, end |-> end, active |-> TRUE, replaced |-> FALSE, deactivated |-> FALSE]

ConstraintInit ==
  /\ versions = <<>>
  /\ planned = {}
  /\ client = [c \in Clients |-> Resting]

-----------------------------------------------------------------------------
\* In force on a day: what resolve_constraint finds, and refuses when it is two.
InForce(day) ==
  {i \in 1 .. Latest : /\ ~ versions[i].replaced
                       /\ versions[i].from <= day /\ day <= versions[i].end}

\* A plan with this cutoff resolves the family and completes.
PlanCompletes(day) ==
  /\ \A i, j \in InForce(day) : i = j
  /\ planned' = planned \cup {day}
  /\ UNCHANGED <<versions, client>>

\* POST: the first version of a family that has none.
Create(day) ==
  /\ Latest = 0
  /\ versions' = <<Fresh(day, NoEnd)>>
  /\ UNCHANGED <<planned, client>>

\* A correction of the same date is refused when a completed plan's cutoff lies
\* in the version's period.
UsedByPlan(v) == \E day \in planned : v.from <= day /\ day <= v.end

MayUpdate(i, day) ==
  /\ i > 0 /\ i = Latest
  /\ versions[i].from <= day
  /\ day = versions[i].from => ~ UsedByPlan(versions[i])

\* What an update makes of the version it follows; end is the one it loaded.
Closed(v, end, day) ==
  IF day = v.from
  THEN [v EXCEPT !.active = FALSE, !.replaced = TRUE]
  ELSE [v EXCEPT !.active = FALSE, !.end = IF end = day - 1 THEN @ ELSE day - 1]

\* PATCH writes version i + 1, unless it is there already.
InsertsAnyway(i) == Latest < MaxVersions
Inserts(i) == Latest = i /\ i < MaxVersions
FollowBy(i, end, day) ==
  /\ Inserts(i)
  /\ versions' = Append([versions EXCEPT ![i] = Closed(@, end, day)], Fresh(day, NoEnd))

Update(day) ==
  /\ MayUpdate(Latest, day)
  /\ FollowBy(Latest, versions[Latest].end, day)
  /\ UNCHANGED <<planned, client>>

\* POST .../deactivate closes the version on the day asked for; it keeps its
\* version number, and may be closed again.
CloseAt(i, loaded, end) ==
  versions' = [versions EXCEPT ![i].active = FALSE,
                               ![i].end = IF end = loaded THEN @ ELSE end,
                               ![i].deactivated = TRUE]

MayDeactivate(i, end) == i > 0 /\ i = Latest /\ versions[i].from <= end

Deactivate(end) ==
  /\ MayDeactivate(Latest, end)
  /\ CloseAt(Latest, versions[Latest].end, end)
  /\ UNCHANGED <<planned, client>>

-----------------------------------------------------------------------------
\* Without a key: the checks on what is read ...
ReadToUpdate(c, day) ==
  /\ client[c].asks = "nothing" /\ MayUpdate(Latest, day)
  /\ client' = [client EXCEPT ![c] = [asks |-> "update", at |-> Latest,
                                      end |-> versions[Latest].end, day |-> day]]
  /\ UNCHANGED <<versions, planned>>

ReadToDeactivate(c, end) ==
  /\ client[c].asks = "nothing" /\ MayDeactivate(Latest, end)
  /\ client' = [client EXCEPT ![c] = [asks |-> "deactivate", at |-> Latest,
                                      end |-> versions[Latest].end, day |-> end]]
  /\ UNCHANGED <<versions, planned>>

\* ... and the write that follows.
LateUpdate(c) ==
  /\ client[c].asks = "update"
  /\ FollowBy(client[c].at, client[c].end, client[c].day)
  /\ client' = [client EXCEPT ![c] = Resting]
  /\ UNCHANGED planned

LateDeactivate(c) ==
  /\ client[c].asks = "deactivate"
  /\ CloseAt(client[c].at, client[c].end, client[c].day)
  /\ client' = [client EXCEPT ![c] = Resting]
  /\ UNCHANGED planned

\* The version was taken (IntegrityError), a lock timeout or a crash.
GiveUp(c) ==
  /\ client[c].asks # "nothing"
  /\ client' = [client EXCEPT ![c] = Resting]
  /\ UNCHANGED <<versions, planned>>

-----------------------------------------------------------------------------
\* An import's row starts after the latest version starts (one that starts no later
\* is refused, or is the row that made it and is skipped), and closes the latest
\* version when that is active and lasts too long.
StartsLater(day) == Latest > 0 => versions[Latest].from < day

ShortenedAfter(v, day) ==
  IF v.active
  THEN [v EXCEPT !.active = FALSE, !.end = IF @ > day THEN day - 1 ELSE @]
  ELSE v
Shortened(v, day) ==
  IF v.active
  THEN [v EXCEPT !.active = FALSE, !.end = IF @ >= day THEN day - 1 ELSE @]
  ELSE v

ImportRow(day, end) ==
  /\ day <= end /\ Latest < MaxVersions
  /\ StartsLater(day)
  /\ versions' = Append(IF Latest = 0 THEN versions
                        ELSE [versions EXCEPT ![Latest] = Shortened(@, day)],
                        Fresh(day, end))
  /\ UNCHANGED <<planned, client>>

ConstraintNext ==
  \/ \E day \in Days :
       \/ PlanCompletes(day)
       \/ Create(day)
       \/ Update(day)
       \/ Deactivate(day)
       \/ \E end \in EndDays : ImportRow(day, end)
       \/ \E c \in Clients : ReadToUpdate(c, day) \/ ReadToDeactivate(c, day)
  \/ \E c \in Clients : LateUpdate(c) \/ LateDeactivate(c) \/ GiveUp(c)

ConstraintSpec == ConstraintInit /\ [][ConstraintNext]_constraintVars

-----------------------------------------------------------------------------
Version == [from : Days, end : EndDays, active : BOOLEAN, replaced : BOOLEAN,
            deactivated : BOOLEAN]
Asking == [asks : {"nothing", "update", "deactivate"}, at : Nat, end : EndDays, day : Days]

ConstraintTypeOK ==
  /\ versions \in Seq(Version)
  /\ planned \in SUBSET Days
  /\ client \in [Clients -> Asking]

\* Versions are numbered in the order of their dates: a version starts on the day
\* of the one before it exactly when it replaced that one, and later otherwise,
\* whatever requests raced (`A new constraint version must start
\* after the previous version', business_persistence.py:597).
DatesFollowVersions ==
  \A i \in 1 .. Latest - 1 :
    /\ versions[i].from <= versions[i + 1].from
    /\ versions[i].replaced <=> versions[i].from = versions[i + 1].from

\* Only the latest version is ever active: an import shortens the latest version
\* alone, so an older active one would stay in force beside the new one.
LatestAloneIsActive ==
  \A i \in 1 .. Latest : i < Latest => ~ versions[i].active

\* Two versions in force on one day make every plan of that day fail
\* (BUSINESS_CONSTRAINT_AMBIGUOUS).  It takes a deactivation: when two overlap, the
\* earlier one was deactivated, whatever updates, corrections and imports raced.
OverlapsComeFromDeactivations ==
  \A i, j \in 1 .. Latest :
    i < j /\ (\E day \in Days : {i, j} \subseteq InForce(day))
      => versions[i].deactivated

\* INVENTORY_CONSTRAINT_CONTRACT.md: `Normal version updates require a later
\* effective date and close the previous version on the preceding day', so that
\* one version at most is in force on a day.
OneVersionInForce == \A day \in Days : \A i, j \in InForce(day) : i = j
=============================================================================
