---------------------------- MODULE ImportCreate ----------------------------
(***************************************************************************)
(* Uploads: ImportService.create_import, a coroutine on the one event loop *)
(* of the process, its files, its rows and its Idempotency-Key.            *)
(*                                                                         *)
(* Between two awaits a create has the event loop to itself.  It awaits    *)
(* pipeline.suggest for each sheet (a sheet the rules can map answers at   *)
(* once, which is one of the interleavings).  The first sheet's            *)
(* replace_issues makes SQLAlchemy flush, which takes SQLite's write lock; *)
(* later sheets' suggestions are awaited with the lock held.  A create     *)
(* that needs the lock then waits inside the database driver, and the      *)
(* whole event loop with it, until the lock is free or the busy timeout    *)
(* raises.  Endpoints in the thread pool take the lock too, but wait for   *)
(* no create.                                                              *)
(*                                                                         *)
(* One store.  A request's content is its request_hash.  Every upload has  *)
(* the same set of files and any number of sheets up to MaxSheets.         *)
(***************************************************************************)
EXTENDS Naturals

CONSTANTS
  Requests,   \* create requests that may be in flight together
  Ids,        \* import ids; an id with no trace left may be drawn again
  Keys,       \* Idempotency-Keys
  Contents,   \* what a request uploads
  Files,      \* files of one upload
  MaxSheets,  \* bound on the sheets of an upload
  None,       \* no key, no id, a free lock, a free loop
  Thread,     \* some request of the thread pool, as the lock's holder
  Awaited     \* keys that are never sent again before their create has ended

ASSUME CreateConstantsOK ==
  /\ None \notin Requests \cup Ids \cup Keys \cup {Thread}
  /\ Thread \notin Requests
  /\ MaxSheets \in Nat \ {0} /\ Awaited \subseteq Keys
  /\ Files # {} /\ Contents # {}

VARIABLES
  req,    \* per request: stage, key, content, import id, sheets left; an idle
          \* one with an id has been answered with that import
  jobs,   \* committed import_jobs
  keys,   \* committed idempotency rows of POST /api/v1/imports
  files,  \* the upload directory: each file of each import
  lock,   \* who holds the database's write lock
  loop,   \* the create that waits or works in the event loop, if one does
  stray   \* imports whose files an earlier crash or failed write left behind

vars == <<req, jobs, keys, files, lock, loop, stray>>

Job(i, k, c) == [id |-> i, key |-> k, content |-> c]
Request(stage, k, c, i, n) ==
  [stage |-> stage, key |-> k, content |-> c, id |-> i, left |-> n]

\* The same request further on, and after it ended without an import.
Step(r, stage, n) == Request(stage, req[r].key, req[r].content, req[r].id, n)
Ended(r) == Request("idle", None, req[r].content, None, 0)

InFlight(r) == req[r].stage # "idle"
Stages == {"idle", "suggest", "register", "rename"}
Nothing == [f \in Files |-> "none"]
Row(k) == {row \in keys : row.key = k}

\* uuid4: an id that no job, no file and no request has.
Fresh(i) ==
  /\ files[i] = Nothing
  /\ \A j \in jobs : j.id # i
  /\ \A r \in Requests : InFlight(r) => req[r].id # i

Init ==
  /\ req = [r \in Requests |->
       Request("idle", None, CHOOSE c \in Contents : TRUE, None, 0)]
  /\ jobs = {} /\ keys = {} /\ stray = {}
  /\ files = [i \in Ids |-> Nothing]
  /\ lock = None /\ loop = None

-----------------------------------------------------------------------------
\* A client sends a request in an idle slot; it runs when the loop is free.
Arrives(r, k) ==
  /\ ~ InFlight(r) /\ loop = None
  /\ k \in Awaited => \A q \in Requests : InFlight(q) => req[q].key # k

\* _existing_replay: the same key and hash answer with the import of the row.
\* Another hash is refused, which changes nothing.
Replay(r, k, c) ==
  /\ Arrives(r, k)
  /\ \E row \in Row(k) :
       row.hash = c /\ req' = [req EXCEPT ![r] = Request("idle", k, c, row.id, 0)]
  /\ UNCHANGED <<jobs, keys, files, lock, loop, stray>>

PrepareUnchecked(r, k, c, i, n) ==
  /\ Arrives(r, k) /\ Fresh(i)
  /\ req' = [req EXCEPT ![r] = Request("suggest", k, c, i, n)]
  /\ files' = [files EXCEPT ![i] = [f \in Files |-> "temp"]]
  /\ UNCHANGED <<jobs, keys, lock, loop, stray>>

\* No row for the key: the files are written and parsed, up to the first await.
Prepare(r, k, c, i, n) ==
  /\ Arrives(r, k) /\ Row(k) = {} /\ Fresh(i)
  /\ req' = [req EXCEPT ![r] = Request("suggest", k, c, i, n)]
  /\ files' = [files EXCEPT ![i] = [f \in Files |-> "temp"]]
  /\ UNCHANGED <<jobs, keys, lock, loop, stray>>

\* write_bytes fails in the middle of a file: its path is not yet in temp_paths,
\* so the cleanup of the files before it leaves this one.
WriteFails(r, k, i, f) ==
  /\ Arrives(r, k) /\ Row(k) = {} /\ Fresh(i)
  /\ files' = [files EXCEPT ![i][f] = "temp"]
  /\ stray' = stray \cup {i}
  /\ UNCHANGED <<req, jobs, keys, lock, loop>>

-----------------------------------------------------------------------------

UndoTemporary(r) ==
  /\ req' = [req EXCEPT ![r] = Ended(r)]
  /\ files' = [files EXCEPT ![req[r].id] =
       [f \in Files |-> IF @[f] = "temp" THEN "none" ELSE @[f]]]
  /\ lock' = IF lock = r THEN None ELSE lock
  /\ loop' = IF loop = r THEN None ELSE loop
  /\ UNCHANGED <<jobs, keys, stray>>

\* The handler's except blocks: rollback, and temporary and final files removed.
Undo(r) ==
  /\ req' = [req EXCEPT ![r] = Ended(r)]
  /\ files' = [files EXCEPT ![req[r].id] = Nothing]
  /\ lock' = IF lock = r THEN None ELSE lock
  /\ loop' = IF loop = r THEN None ELSE loop
  /\ UNCHANGED <<jobs, keys, stray>>

HasLoop(r) == loop \in {None, r}
LockedOut(r) == lock \notin {None, r}

\* suggest has answered: the sheet's rows are written, under the lock.  After the
\* last sheet the create keeps the loop to its end.
RecordSheet(r) ==
  /\ req[r].stage = "suggest" /\ HasLoop(r) /\ ~ LockedOut(r)
  /\ lock' = r
  /\ \/ /\ req[r].left > 1 /\ loop' = None
        /\ req' = [req EXCEPT ![r] = Step(r, "suggest", req[r].left - 1)]
     \/ /\ req[r].left = 1 /\ loop' = r
        /\ req' = [req EXCEPT ![r] = Step(r, "register", 0)]
  /\ UNCHANGED <<jobs, keys, files, stray>>

\* The sheet's rows need the lock while another session has it: the event loop waits.
Block(r) ==
  /\ req[r].stage = "suggest" /\ loop = None /\ LockedOut(r)
  /\ loop' = r
  /\ UNCHANGED <<req, jobs, keys, files, lock, stray>>

LockTimeoutRetries(r) ==
  /\ req[r].stage = "suggest" /\ loop = r /\ LockedOut(r)
  /\ UNCHANGED vars

\* The busy timeout: `database is locked' is raised.
LockTimeout(r) ==
  /\ req[r].stage = "suggest" /\ loop = r /\ LockedOut(r)
  /\ Undo(r)

RegisterAnyHash(r) ==
  /\ req[r].stage = "register"
  /\ req' = [req EXCEPT ![r] = Step(r, "rename", 0)]
  /\ UNCHANGED <<jobs, keys, files, lock, loop, stray>>

\* IdempotencyService.register, under the lock: a row with another hash raises;
\* one with the same hash is returned as a replay, which create_import ignores.
Register(r) ==
  /\ req[r].stage = "register"
  /\ IF \A row \in Row(req[r].key) : row.hash = req[r].content
     THEN /\ req' = [req EXCEPT ![r] = Step(r, "rename", 0)]
          /\ UNCHANGED <<jobs, keys, files, lock, loop, stray>>
     ELSE Undo(r)

\* temp_path.replace(final_path)
Rename(r, f) ==
  /\ req[r].stage = "rename" /\ files[req[r].id][f] = "temp"
  /\ files' = [files EXCEPT ![req[r].id][f] = "final"]
  /\ UNCHANGED <<req, jobs, keys, lock, loop, stray>>

\* What the session inserted: the job, and the key's row unless it was there.
Committed(r) ==
  LET i == req[r].id
      k == req[r].key
      c == req[r].content
  IN
  /\ jobs' = jobs \cup {Job(i, k, c)}
  /\ keys' = IF k # None /\ Row(k) = {} THEN keys \cup {[key |-> k, hash |-> c, id |-> i]}
             ELSE keys
  /\ req' = [req EXCEPT ![r] = Request("idle", k, c, i, 0)]
  /\ lock' = None /\ loop' = None
  /\ UNCHANGED <<files, stray>>

CommitBeforeRenames(r) == req[r].stage = "rename" /\ Committed(r)

Commit(r) ==
  /\ req[r].stage = "rename"
  /\ \A f \in Files : files[req[r].id][f] = "final"
  /\ Committed(r)

\* Any exception while the create runs: suggest, flush, rename or commit.
Fail(r) == InFlight(r) /\ HasLoop(r) /\ Undo(r)

-----------------------------------------------------------------------------
\* The process dies: every session is rolled back, nobody cleans up.
Crash ==
  /\ \E r \in Requests : InFlight(r)
  /\ req' = [r \in Requests |-> Ended(r)]
  /\ lock' = None /\ loop' = None
  /\ stray' = stray \cup {req[r].id : r \in {q \in Requests : InFlight(q)}}
  /\ UNCHANGED <<jobs, keys, files>>

\* A handler in the thread pool writes, and ends its transaction.
ThreadLock ==
  /\ lock = None /\ lock' = Thread
  /\ UNCHANGED <<req, jobs, keys, files, loop, stray>>

ThreadUnlock ==
  /\ lock = Thread /\ lock' = None
  /\ UNCHANGED <<req, jobs, keys, files, loop, stray>>

Arrive(r) ==
  \E k \in Keys \cup {None}, c \in Contents :
    \/ Replay(r, k, c)
    \/ \E i \in Ids, n \in 1..MaxSheets : Prepare(r, k, c, i, n)
    \/ \E i \in Ids, f \in Files : WriteFails(r, k, i, f)

\* The next step of a create that does not fail, and a timeout that ends its wait.
Proceed(r) ==
  \/ RecordSheet(r) \/ Block(r) \/ LockTimeout(r)
  \/ Register(r) \/ Commit(r)
  \/ \E f \in Files : Rename(r, f)

Next ==
  \/ \E r \in Requests : Arrive(r) \/ Proceed(r) \/ Fail(r)
  \/ Crash \/ ThreadLock \/ ThreadUnlock

\* The event loop runs ready callbacks first in, first out, and every suggestion
\* returns (its LLM call has a timeout); a thread's transaction ends.
Fairness ==
  /\ \A r \in Requests : SF_vars(Proceed(r))
  /\ WF_vars(ThreadUnlock)

Spec == Init /\ [][Next]_vars /\ Fairness

-----------------------------------------------------------------------------
ReqType == [stage : Stages, key : Keys \cup {None}, content : Contents,
            id : Ids \cup {None}, left : 0..MaxSheets]

TypeOK ==
  /\ req \in [Requests -> ReqType]
  /\ \A r \in Requests : InFlight(r) => req[r].id \in Ids
  /\ jobs \subseteq [id : Ids, key : Keys \cup {None}, content : Contents]
  /\ keys \subseteq [key : Keys, hash : Contents, id : Ids]
  /\ files \in [Ids -> [Files -> {"none", "temp", "final"}]]
  /\ lock \in Requests \cup {None, Thread} /\ loop \in Requests \cup {None}
  /\ stray \subseteq Ids

\* A committed import has all its files under their final names, whatever failed
\* or crashed around it: the renames come before the commit.
JobsHaveFiles == \A j \in jobs, f \in Files : files[j.id][f] = "final"

\* No file outlives its import: what lies in the upload directory belongs to a
\* committed import, to a create in flight, or was left by a crash or by a write
\* that failed half way.
FilesHaveOwners ==
  \A i \in Ids : files[i] # Nothing =>
    \/ \E j \in jobs : j.id = i
    \/ \E r \in Requests : InFlight(r) /\ req[r].id = i
    \/ i \in stray

\* docs/CURRENT_API_CONTRACT.md:57: a key that is sent again is replayed, so it
\* never makes a second import.
OneJobPerKey ==
  \A i, j \in jobs : i.key = j.key /\ i.key # None => i = j

\* The same, for the keys that clients send again only when the create that had
\* them has ended, by whatever failure or crash.
OneJobPerAwaitedKey ==
  \A i, j \in jobs : i.key = j.key /\ i.key \in Awaited => i = j

\* A key is never used for two contents, however the creates that send it overlap:
\* CURRENT_API_CONTRACT.md:57, a key with another payload is a conflict.
OneContentPerKey ==
  \A i, j \in jobs : i.key = j.key /\ i.key # None => i.content = j.content

\* An answer is about the import of that very key and content, and it exists.
AnswersMatch ==
  \A r \in Requests : ~ InFlight(r) /\ req[r].id # None =>
    Job(req[r].id, req[r].key, req[r].content) \in jobs

\* Whatever ended a create released the database and the event loop: who has the
\* lock has recorded a sheet and not yet ended, who has the loop is in flight.
LocksAreReleased ==
  /\ \A r \in Requests : lock = r \/ loop = r => InFlight(r)
  /\ \A r \in Requests : req[r].stage \in {"register", "rename"} => lock = r /\ loop = r

\* Creates that hold the lock across an await and creates that block the loop
\* waiting for it do not wait for each other for ever: every create ends.
EveryCreateEnds == \A r \in Requests : InFlight(r) ~> ~ InFlight(r)
=============================================================================
