---------------------------- MODULE ImportProofs ----------------------------
(***************************************************************************)
(* Theorems about imports, for every number of requests, keys, files,      *)
(* workers and mappings: uploads (ImportCreate) from the inductive         *)
(* invariant IInv, and the processing of an import that no confirmation    *)
(* overlaps (ImportJob) from JobIInv, with the refinement of ImportLedger. *)
(***************************************************************************)
EXTENDS ImportCreate, ImportJob, TLAPS


-----------------------------------------------------------------------------
(* Uploads: the inductive invariant *)

\* No create in flight shares its import id with a job or with another create.
IdsAreOwn ==
  /\ \A r, q \in Requests : InFlight(r) /\ InFlight(q) /\ req[r].id = req[q].id => r = q
  /\ \A r \in Requests : InFlight(r) => \A j \in jobs : j.id # req[r].id

\* A committed key has one row, which names a job with that key and content, and
\* every job with a key has it.
RowsAreJobs ==
  /\ \A row \in keys : Job(row.id, row.key, row.hash) \in jobs
  /\ \A j \in jobs : j.key # None =>
       \E row \in keys : row.key = j.key /\ row.hash = j.content
  /\ \A row, other \in keys : row.key = other.key => row = other

\* A create that has registered its key finds no other content under it, because
\* it has the lock until it commits.
RegisteredAgree ==
  \A r \in Requests : req[r].stage = "rename" =>
    \A row \in keys : row.key = req[r].key => row.hash = req[r].content

\* A create with an awaited key is the only one, and the key has no row yet.
AwaitedAlone ==
  \A r \in Requests : InFlight(r) /\ req[r].key \in Awaited =>
    /\ \A row \in keys : row.key # req[r].key
    /\ \A q \in Requests : InFlight(q) /\ req[q].key = req[r].key => q = r

IInv ==
  /\ TypeOK /\ LocksAreReleased /\ IdsAreOwn /\ JobsHaveFiles /\ FilesHaveOwners
  /\ RowsAreJobs /\ RegisteredAgree /\ AwaitedAlone
  /\ OneJobPerAwaitedKey /\ AnswersMatch

-----------------------------------------------------------------------------
(* Uploads: the steps *)

\* Register, when no row of the key has another content.
RegisterPasses(r) ==
  /\ req[r].stage = "register"
  /\ \A row \in Row(req[r].key) : row.hash = req[r].content
  /\ req' = [req EXCEPT ![r] = Step(r, "rename", 0)]
  /\ UNCHANGED <<jobs, keys, files, lock, loop, stray>>

\* What a step of one create that is under way may be.
Advance(r) ==
  \/ RecordSheet(r) \/ Block(r) \/ RegisterPasses(r) \/ Commit(r)
  \/ \E f \in Files : Rename(r, f)
  \/ InFlight(r) /\ Undo(r)

\* Every failure, timeout and refusal of a create under way is an Undo.
LEMMA CreateSteps ==
  ASSUME NEW r \in Requests, Proceed(r) \/ Fail(r)
  PROVE  Advance(r)
<1>1. CASE LockTimeout(r)
  BY <1>1 DEF LockTimeout, Advance, InFlight
<1>2. CASE Register(r)
  BY <1>2 DEF Register, Advance, RegisterPasses, InFlight
<1>3. CASE Fail(r)
  BY <1>3 DEF Fail, Advance
<1>4. CASE RecordSheet(r) \/ Block(r) \/ Commit(r) \/ \E f \in Files : Rename(r, f)
  BY <1>4 DEF Advance
<1>5. QED
  BY <1>1, <1>2, <1>3, <1>4 DEF Proceed

\* A request's record is what a step of it writes; the others keep theirs.
LEMMA Fields ==
  ASSUME NEW stage, NEW k, NEW c, NEW i, NEW n
  PROVE  /\ Request(stage, k, c, i, n).stage = stage
         /\ Request(stage, k, c, i, n).key = k
         /\ Request(stage, k, c, i, n).content = c
         /\ Request(stage, k, c, i, n).id = i
         /\ Request(stage, k, c, i, n).left = n
BY DEF Request

\* A request put together from well typed parts is well typed.
LEMMA RequestType ==
  ASSUME NEW stage \in Stages, NEW k \in Keys \cup {None}, NEW c \in Contents,
         NEW i \in Ids \cup {None}, NEW n \in 0..MaxSheets
  PROVE  Request(stage, k, c, i, n) \in ReqType
BY DEF Request, ReqType

-----------------------------------------------------------------------------
(* Types *)

\* After a step of r alone, every request is well typed if r's record is.
LEMMA ReqStaysTyped ==
  ASSUME TypeOK, NEW r \in Requests, NEW new \in ReqType,
         req' = [req EXCEPT ![r] = new], new.stage # "idle" => new.id \in Ids
  PROVE  /\ req' \in [Requests -> ReqType]
         /\ \A q \in Requests : InFlight(q)' => req'[q].id \in Ids
BY DEF TypeOK, InFlight

\* A request that arrives is replayed, prepared, or fails to write its files.
LEMMA ArriveKeepsTypes ==
  ASSUME TypeOK, NEW r \in Requests, Arrive(r)
  PROVE  TypeOK'
<1> USE CreateConstantsOK
<1>1. PICK k \in Keys \cup {None}, c \in Contents :
        \/ Replay(r, k, c)
        \/ \E i \in Ids, n \in 1..MaxSheets : Prepare(r, k, c, i, n)
        \/ \E i \in Ids, f \in Files : WriteFails(r, k, i, f)
  BY DEF Arrive
<1>2. CASE Replay(r, k, c)
  <2>1. PICK row \in keys : req' = [req EXCEPT ![r] = Request("idle", k, c, row.id, 0)]
    BY <1>2 DEF Replay, Row
  <2>2. row.id \in Ids
    BY DEF TypeOK
  <2>3. Request("idle", k, c, row.id, 0) \in ReqType
    BY <2>2, RequestType DEF Stages
  <2>4. Request("idle", k, c, row.id, 0).stage = "idle"
    BY Fields
  <2>5. /\ req' \in [Requests -> ReqType]
        /\ \A q \in Requests : InFlight(q)' => req'[q].id \in Ids
    BY <2>1, <2>3, <2>4, ReqStaysTyped
  <2>6. QED
    BY <1>2, <2>5 DEF TypeOK, Replay
<1>3. CASE \E i \in Ids, n \in 1..MaxSheets : Prepare(r, k, c, i, n)
  <2>1. PICK i \in Ids, n \in 1..MaxSheets : Prepare(r, k, c, i, n)
    BY <1>3
  <2>2. Request("suggest", k, c, i, n) \in ReqType
    BY RequestType DEF Stages
  <2>3. Request("suggest", k, c, i, n).id \in Ids
    BY Fields
  <2>4. /\ req' \in [Requests -> ReqType]
        /\ \A q \in Requests : InFlight(q)' => req'[q].id \in Ids
    BY <2>1, <2>2, <2>3, ReqStaysTyped DEF Prepare
  <2>5. files' \in [Ids -> [Files -> {"none", "temp", "final"}]]
    BY <2>1 DEF Prepare, TypeOK
  <2>6. QED
    BY <2>1, <2>4, <2>5 DEF TypeOK, Prepare
<1>4. CASE \E i \in Ids, f \in Files : WriteFails(r, k, i, f)
  BY <1>4 DEF WriteFails, TypeOK, InFlight
<1>5. QED
  BY <1>1, <1>2, <1>3, <1>4

\* Cleaning up a create resets its record and its files.
LEMMA UndoKeepsTypes ==
  ASSUME TypeOK, NEW r \in Requests, InFlight(r), Undo(r)
  PROVE  TypeOK'
<1> USE CreateConstantsOK
<1>1. req[r].content \in Contents /\ req[r].id \in Ids
  BY DEF TypeOK, ReqType
<1>2. Ended(r) \in ReqType /\ Ended(r).stage = "idle"
  BY <1>1, RequestType, Fields DEF Ended, Stages
<1>3. /\ req' \in [Requests -> ReqType]
      /\ \A q \in Requests : InFlight(q)' => req'[q].id \in Ids
  BY <1>2, ReqStaysTyped DEF Undo
<1>4. files' \in [Ids -> [Files -> {"none", "temp", "final"}]]
  BY DEF Undo, TypeOK, Nothing
<1>5. QED
  BY <1>3, <1>4 DEF Undo, TypeOK

\* A create under way changes its stage and its count of sheets within their types.
LEMMA AdvanceKeepsTypes ==
  ASSUME TypeOK, NEW r \in Requests, Advance(r)
  PROVE  TypeOK'
<1> USE CreateConstantsOK
<1> DEFINE k == req[r].key
           c == req[r].content
           i == req[r].id
           n == req[r].left
           Typed == /\ req' \in [Requests -> ReqType]
                    /\ \A q \in Requests : InFlight(q)' => req'[q].id \in Ids
<1>1. k \in Keys \cup {None} /\ c \in Contents /\ i \in Ids \cup {None} /\ n \in 0..MaxSheets
  BY DEF TypeOK, ReqType
<1>2. 0 \in 0..MaxSheets /\ {"suggest", "register", "rename"} \subseteq Stages
  BY DEF CreateConstantsOK, Stages
<1>3. ASSUME NEW stage \in Stages, NEW m \in 0..MaxSheets, InFlight(r),
             req' = [req EXCEPT ![r] = Step(r, stage, m)]
      PROVE  Typed
  <2>1. Step(r, stage, m) \in ReqType
    BY <1>1, RequestType DEF Step
  <2>2. Step(r, stage, m).id \in Ids
    BY <1>3, Fields DEF Step, TypeOK
  <2>3. QED
    BY <1>3, <2>1, <2>2, ReqStaysTyped
<1>4. CASE RecordSheet(r)
  <2>1. InFlight(r)
    BY <1>4 DEF RecordSheet, InFlight
  <2>2. CASE n > 1
    <3>1. n - 1 \in 0..MaxSheets
      BY <1>1, <2>2
    <3>2. req' = [req EXCEPT ![r] = Step(r, "suggest", n - 1)]
      BY <1>4, <2>2 DEF RecordSheet
    <3>3. Typed
      BY <1>3, <2>1, <3>1, <3>2 DEF Stages
    <3>4. QED
      BY <1>4, <3>3 DEF RecordSheet, TypeOK
  <2>3. CASE n = 1
    <3>1. req' = [req EXCEPT ![r] = Step(r, "register", 0)]
      BY <1>4, <2>3 DEF RecordSheet
    <3>2. Typed
      BY <1>2, <1>3, <2>1, <3>1
    <3>3. QED
      BY <1>4, <3>2 DEF RecordSheet, TypeOK
  <2>4. QED
    BY <1>4, <2>2, <2>3 DEF RecordSheet
<1>5. CASE Block(r)
  BY <1>5 DEF Block, TypeOK, InFlight
<1>6. CASE RegisterPasses(r)
  <2>1. InFlight(r) /\ req' = [req EXCEPT ![r] = Step(r, "rename", 0)]
    BY <1>6 DEF RegisterPasses, InFlight
  <2>2. Typed
    BY <1>2, <1>3, <2>1
  <2>3. QED
    BY <1>6, <2>2 DEF RegisterPasses, TypeOK
<1>7. CASE Commit(r)
  <2>1. i \in Ids
    BY <1>7 DEF Commit, TypeOK, InFlight
  <2>2. Request("idle", k, c, i, 0) \in ReqType /\ Request("idle", k, c, i, 0).stage = "idle"
    BY <1>1, RequestType, Fields DEF Stages
  <2>3. Typed
    BY <1>7, <2>2, ReqStaysTyped DEF Commit, Committed
  <2>4. /\ jobs' \subseteq [id : Ids, key : Keys \cup {None}, content : Contents]
        /\ keys' \subseteq [key : Keys, hash : Contents, id : Ids]
    BY <1>1, <1>7, <2>1 DEF Commit, Committed, TypeOK, Job
  <2>5. QED
    BY <1>7, <2>3, <2>4 DEF Commit, Committed, TypeOK
<1>8. CASE \E f \in Files : Rename(r, f)
  BY <1>8 DEF Rename, TypeOK, InFlight
<1>9. CASE InFlight(r) /\ Undo(r)
  BY <1>9, UndoKeepsTypes
<1>10. QED
  BY <1>4, <1>5, <1>6, <1>7, <1>8, <1>9 DEF Advance

\* A crash ends every request; the thread pool touches the lock only.
LEMMA OthersKeepTypes ==
  ASSUME TypeOK, Crash \/ ThreadLock \/ ThreadUnlock
  PROVE  TypeOK'
<1>1. CASE Crash
  <2>1. \A r \in Requests : req'[r] = Ended(r)
    BY <1>1 DEF Crash
  <2>2. \A r \in Requests : req'[r] \in ReqType /\ req'[r].stage = "idle"
    <3>1. TAKE r \in Requests
    <3>2. req[r].content \in Contents
      BY DEF TypeOK, ReqType
    <3>3. Ended(r) \in ReqType /\ Ended(r).stage = "idle"
      BY <3>2, RequestType, Fields, CreateConstantsOK DEF Ended, Stages
    <3>4. QED
      BY <2>1, <3>3
  <2>3. stray' \subseteq Ids
    BY <1>1 DEF Crash, TypeOK
  <2>4. QED
    BY <1>1, <2>2, <2>3 DEF Crash, TypeOK, InFlight
<1>2. CASE ThreadLock \/ ThreadUnlock
  BY <1>2 DEF ThreadLock, ThreadUnlock, TypeOK, InFlight
<1>3. QED
  BY <1>1, <1>2

\* Every step keeps the types.
LEMMA TypeStep ==
  ASSUME TypeOK, [Next]_vars
  PROVE  TypeOK'
<1>1. CASE UNCHANGED vars
  BY <1>1 DEF vars, TypeOK, InFlight
<1>2. CASE Next
  BY <1>2, CreateSteps, ArriveKeepsTypes, AdvanceKeepsTypes, OthersKeepTypes DEF Next
<1>3. QED
  BY <1>1, <1>2

-----------------------------------------------------------------------------
(* The lock and the event loop *)

\* Only RecordSheet takes the lock, and whoever ends releases lock and loop.
LEMMA LocksStep ==
  ASSUME TypeOK, LocksAreReleased, [Next]_vars
  PROVE  LocksAreReleased'
<1> USE CreateConstantsOK DEF LocksAreReleased, InFlight
<1>1. CASE \E r \in Requests : Arrive(r)
  <2>1. PICK r \in Requests : Arrive(r)
    BY <1>1
  <2>2. CASE \E k \in Keys \cup {None}, c \in Contents : Replay(r, k, c)
    <3>1. /\ lock' = lock /\ loop' = loop /\ lock # r /\ loop # r
          /\ req'[r].stage = "idle" /\ \A q \in Requests \ {r} : req'[q] = req[q]
      BY <2>2, Fields DEF Replay, Arrives, TypeOK
    <3>2. QED
      BY <3>1
  <2>3. CASE \E k \in Keys \cup {None}, c \in Contents, i \in Ids, n \in 1..MaxSheets :
                Prepare(r, k, c, i, n)
    <3>1. /\ lock' = lock /\ loop' = loop /\ lock # r /\ loop # r
          /\ req'[r].stage = "suggest" /\ \A q \in Requests \ {r} : req'[q] = req[q]
      BY <2>3, Fields DEF Prepare, Arrives, TypeOK
    <3>2. QED
      BY <3>1
  <2>4. CASE \E k \in Keys \cup {None}, i \in Ids, f \in Files : WriteFails(r, k, i, f)
    BY <2>4 DEF WriteFails
  <2>5. QED
    BY <2>1, <2>2, <2>3, <2>4 DEF Arrive
<1>2. CASE \E r \in Requests : Proceed(r) \/ Fail(r)
  <2>1. PICK r \in Requests : Advance(r)
    BY <1>2, CreateSteps
  <2>2. CASE RecordSheet(r)
    BY <2>2, Fields DEF RecordSheet, HasLoop, LockedOut, TypeOK, Step
  <2>3. CASE Block(r)
    BY <2>3 DEF Block, LockedOut, TypeOK
  <2>4. CASE RegisterPasses(r)
    BY <2>4, Fields DEF RegisterPasses, TypeOK, Step
  <2>5. CASE Commit(r)
    BY <2>5, Fields DEF Commit, Committed, TypeOK
  <2>6. CASE \E f \in Files : Rename(r, f)
    BY <2>6 DEF Rename
  <2>7. CASE InFlight(r) /\ Undo(r)
    BY <2>7, Fields DEF Undo, Ended, TypeOK
  <2>8. QED
    BY <2>1, <2>2, <2>3, <2>4, <2>5, <2>6, <2>7 DEF Advance
<1>3. CASE Crash
  BY <1>3, Fields DEF Crash, Ended
<1>4. CASE ThreadLock \/ ThreadUnlock
  BY <1>4 DEF ThreadLock, ThreadUnlock
<1>5. CASE UNCHANGED vars
  BY <1>5 DEF vars
<1>6. QED
  BY <1>1, <1>2, <1>3, <1>4, <1>5 DEF Next

-----------------------------------------------------------------------------
(* Import ids and files *)

\* An id is drawn fresh and goes from the create to its job.
LEMMA IdsStep ==
  ASSUME TypeOK, IdsAreOwn, [Next]_vars
  PROVE  IdsAreOwn'
<1> USE DEF IdsAreOwn, InFlight
<1>1. CASE \E r \in Requests : Arrive(r)
  <2>1. PICK r \in Requests : Arrive(r)
    BY <1>1
  <2>2. CASE \E k \in Keys \cup {None}, c \in Contents : Replay(r, k, c)
    <3>1. /\ jobs' = jobs /\ req'[r].stage = "idle"
          /\ \A q \in Requests \ {r} : req'[q] = req[q]
      BY <2>2, Fields DEF Replay, TypeOK
    <3>2. QED
      BY <3>1
  <2>3. CASE \E k \in Keys \cup {None}, c \in Contents, i \in Ids, n \in 1..MaxSheets :
                Prepare(r, k, c, i, n)
    <3>1. PICK i \in Ids :
            /\ Fresh(i) /\ jobs' = jobs /\ req'[r].id = i
            /\ \A q \in Requests \ {r} : req'[q] = req[q]
      BY <2>3, Fields DEF Prepare, TypeOK
    <3>2. QED
      BY <3>1 DEF Fresh
  <2>4. CASE \E k \in Keys \cup {None}, i \in Ids, f \in Files : WriteFails(r, k, i, f)
    BY <2>4 DEF WriteFails
  <2>5. QED
    BY <2>1, <2>2, <2>3, <2>4 DEF Arrive
<1>2. CASE \E r \in Requests : Proceed(r) \/ Fail(r)
  <2>1. PICK r \in Requests : Advance(r)
    BY <1>2, CreateSteps
  <2>2. CASE RecordSheet(r)
    BY <2>2, Fields DEF RecordSheet, TypeOK, Step
  <2>3. CASE Block(r)
    BY <2>3 DEF Block
  <2>4. CASE RegisterPasses(r)
    BY <2>4, Fields DEF RegisterPasses, TypeOK, Step
  <2>5. CASE Commit(r)
    <3>1. /\ req'[r].stage = "idle" /\ \A q \in Requests \ {r} : req'[q] = req[q]
          /\ \A j \in jobs' : j \in jobs \/ j.id = req[r].id
      BY <2>5, Fields DEF Commit, Committed, TypeOK, Job
    <3>2. QED
      BY <2>5, <3>1 DEF Commit
  <2>6. CASE \E f \in Files : Rename(r, f)
    BY <2>6 DEF Rename
  <2>7. CASE InFlight(r) /\ Undo(r)
    BY <2>7, Fields DEF Undo, Ended, TypeOK
  <2>8. QED
    BY <2>1, <2>2, <2>3, <2>4, <2>5, <2>6, <2>7 DEF Advance
<1>3. CASE Crash
  BY <1>3, Fields DEF Crash, Ended
<1>4. CASE ThreadLock \/ ThreadUnlock
  BY <1>4 DEF ThreadLock, ThreadUnlock
<1>5. CASE UNCHANGED vars
  BY <1>5 DEF vars
<1>6. QED
  BY <1>1, <1>2, <1>3, <1>4, <1>5 DEF Next

\* Files change under ids that no job has, and a job comes after its last rename.
LEMMA JobFilesStep ==
  ASSUME TypeOK, IdsAreOwn, JobsHaveFiles, [Next]_vars
  PROVE  JobsHaveFiles'
<1> USE DEF JobsHaveFiles
<1>1. CASE \E r \in Requests : Arrive(r)
  <2>1. PICK r \in Requests : Arrive(r)
    BY <1>1
  <2>2. CASE \E k \in Keys \cup {None}, c \in Contents : Replay(r, k, c)
    BY <2>2 DEF Replay
  <2>3. CASE \E k \in Keys \cup {None}, c \in Contents, i \in Ids, n \in 1..MaxSheets :
                Prepare(r, k, c, i, n)
    BY <2>3 DEF Prepare, Fresh, TypeOK
  <2>4. CASE \E k \in Keys \cup {None}, i \in Ids, f \in Files : WriteFails(r, k, i, f)
    BY <2>4 DEF WriteFails, Fresh, TypeOK
  <2>5. QED
    BY <2>1, <2>2, <2>3, <2>4 DEF Arrive
<1>2. CASE \E r \in Requests : Proceed(r) \/ Fail(r)
  <2>1. PICK r \in Requests : Advance(r)
    BY <1>2, CreateSteps
  <2>2. CASE RecordSheet(r) \/ Block(r) \/ RegisterPasses(r)
    BY <2>2 DEF RecordSheet, Block, RegisterPasses
  <2>3. CASE Commit(r)
    <3>1. files' = files /\ \A j \in jobs' : j \in jobs \/ j.id = req[r].id
      BY <2>3 DEF Commit, Committed, Job
    <3>2. QED
      BY <2>3, <3>1 DEF Commit
  <2>4. CASE \E f \in Files : Rename(r, f)
    <3>1. InFlight(r) /\ jobs' = jobs
      BY <2>4 DEF Rename, InFlight
    <3>2. \A j \in jobs : j.id \in Ids /\ j.id # req[r].id
      BY <3>1 DEF IdsAreOwn, TypeOK
    <3>3. \A i \in Ids : i # req[r].id => files'[i] = files[i]
      BY <2>4 DEF Rename, TypeOK
    <3>4. QED
      BY <3>1, <3>2, <3>3
  <2>5. CASE InFlight(r) /\ Undo(r)
    <3>1. \A j \in jobs : j.id \in Ids /\ j.id # req[r].id
      BY <2>5 DEF IdsAreOwn, TypeOK
    <3>2. jobs' = jobs /\ \A i \in Ids : i # req[r].id => files'[i] = files[i]
      BY <2>5 DEF Undo, TypeOK
    <3>3. QED
      BY <3>1, <3>2
  <2>6. QED
    BY <2>1, <2>2, <2>3, <2>4, <2>5 DEF Advance
<1>3. CASE Crash \/ ThreadLock \/ ThreadUnlock
  BY <1>3 DEF Crash, ThreadLock, ThreadUnlock
<1>4. CASE UNCHANGED vars
  BY <1>4 DEF vars
<1>5. QED
  BY <1>1, <1>2, <1>3, <1>4 DEF Next

\* Files appear with a create in flight and go with it, unless it crashes.
LEMMA OwnersStep ==
  ASSUME TypeOK, FilesHaveOwners, [Next]_vars
  PROVE  FilesHaveOwners'
<1> USE DEF FilesHaveOwners, InFlight
<1>1. CASE \E r \in Requests : Arrive(r)
  <2>1. PICK r \in Requests : Arrive(r)
    BY <1>1
  <2>2. ~ InFlight(r)
    BY <2>1 DEF Arrive, Replay, Prepare, WriteFails, Arrives
  <2>3. CASE \E k \in Keys \cup {None}, c \in Contents : Replay(r, k, c)
    <3>1. /\ jobs' = jobs /\ files' = files /\ stray' = stray
          /\ \A q \in Requests \ {r} : req'[q] = req[q]
      BY <2>3 DEF Replay, TypeOK
    <3>2. QED
      BY <2>2, <3>1
  <2>4. CASE \E k \in Keys \cup {None}, c \in Contents, i \in Ids, n \in 1..MaxSheets :
                Prepare(r, k, c, i, n)
    <3>1. PICK i \in Ids :
            /\ jobs' = jobs /\ stray' = stray
            /\ req'[r].stage = "suggest" /\ req'[r].id = i
            /\ \A q \in Requests \ {r} : req'[q] = req[q]
            /\ \A j \in Ids \ {i} : files'[j] = files[j]
      BY <2>4, Fields DEF Prepare, TypeOK
    <3>2. QED
      BY <2>2, <3>1
  <2>5. CASE \E k \in Keys \cup {None}, i \in Ids, f \in Files : WriteFails(r, k, i, f)
    <3>1. PICK i \in Ids :
            /\ jobs' = jobs /\ req' = req /\ stray' = stray \cup {i}
            /\ \A j \in Ids \ {i} : files'[j] = files[j]
      BY <2>5 DEF WriteFails, TypeOK
    <3>2. QED
      BY <3>1
  <2>6. QED
    BY <2>1, <2>3, <2>4, <2>5 DEF Arrive
<1>2. CASE \E r \in Requests : Proceed(r) \/ Fail(r)
  <2>1. PICK r \in Requests : Advance(r)
    BY <1>2, CreateSteps
  <2>2. CASE RecordSheet(r)
    BY <2>2, Fields DEF RecordSheet, TypeOK, Step
  <2>3. CASE Block(r)
    BY <2>3 DEF Block
  <2>4. CASE RegisterPasses(r)
    BY <2>4, Fields DEF RegisterPasses, TypeOK, Step
  <2>5. CASE Commit(r)
    <3>1. Job(req[r].id, req[r].key, req[r].content) \in jobs'
      BY <2>5 DEF Commit, Committed
    <3>2. \E j \in jobs' : j.id = req[r].id
      BY <3>1 DEF Job
    <3>3. /\ files' = files /\ stray' = stray /\ jobs \subseteq jobs'
          /\ \A q \in Requests \ {r} : req'[q] = req[q]
      BY <2>5 DEF Commit, Committed, TypeOK
    <3>4. QED
      BY <3>2, <3>3
  <2>6. CASE \E f \in Files : Rename(r, f)
    <3>1. /\ jobs' = jobs /\ req' = req /\ stray' = stray
          /\ InFlight(r) /\ \A i \in Ids : i # req[r].id => files'[i] = files[i]
      BY <2>6 DEF Rename, TypeOK
    <3>2. QED
      BY <3>1
  <2>7. CASE InFlight(r) /\ Undo(r)
    <3>1. /\ jobs' = jobs /\ stray' = stray /\ files'[req[r].id] = Nothing
          /\ \A i \in Ids : i # req[r].id => files'[i] = files[i]
          /\ \A q \in Requests \ {r} : req'[q] = req[q]
      BY <2>7 DEF Undo, TypeOK
    <3>2. QED
      BY <3>1 DEF Nothing
  <2>8. QED
    BY <2>1, <2>2, <2>3, <2>4, <2>5, <2>6, <2>7 DEF Advance
<1>3. CASE Crash
  BY <1>3 DEF Crash, Nothing
<1>4. CASE ThreadLock \/ ThreadUnlock
  BY <1>4 DEF ThreadLock, ThreadUnlock, Nothing
<1>5. CASE UNCHANGED vars
  BY <1>5 DEF vars, Nothing
<1>6. QED
  BY <1>1, <1>2, <1>3, <1>4, <1>5 DEF Next

-----------------------------------------------------------------------------
(* Keys *)

\* What a commit adds: the job, and the key's row unless the key had one.
LEMMA CommitAdds ==
  ASSUME TypeOK, NEW r \in Requests, Commit(r)
  PROVE  /\ jobs' = jobs \cup {Job(req[r].id, req[r].key, req[r].content)}
         /\ keys \subseteq keys'
         /\ \A row \in keys' \ keys :
              /\ row = [key |-> req[r].key, hash |-> req[r].content, id |-> req[r].id]
              /\ req[r].key # None /\ \A other \in keys : other.key # req[r].key
         /\ req[r].key # None => \E row \in keys' : row.key = req[r].key
         /\ req'[r] = Request("idle", req[r].key, req[r].content, req[r].id, 0)
         /\ \A q \in Requests \ {r} : req'[q] = req[q]
<1> DEFINE k == req[r].key
           new == [key |-> k, hash |-> req[r].content, id |-> req[r].id]
<1>1. CASE k # None /\ Row(k) = {}
  <2>1. keys' = keys \cup {new} /\ new.key = k
    BY <1>1 DEF Commit, Committed
  <2>2. \A other \in keys : other.key # k
    BY <1>1 DEF Row
  <2>3. QED
    BY <1>1, <2>1, <2>2 DEF Commit, Committed, TypeOK
<1>2. CASE ~ (k # None /\ Row(k) = {})
  <2>1. keys' = keys
    BY <1>2 DEF Commit, Committed
  <2>2. k # None => \E row \in keys : row.key = k
    BY <1>2 DEF Row
  <2>3. QED
    BY <2>1, <2>2 DEF Commit, Committed, TypeOK
<1>3. QED
  BY <1>1, <1>2

\* Every other step leaves the tables alone.
LEMMA OnlyCommitsWrite ==
  ASSUME [Next]_vars, \A r \in Requests : ~ Commit(r)
  PROVE  jobs' = jobs /\ keys' = keys
<1>1. CASE \E r \in Requests : Arrive(r)
  BY <1>1 DEF Arrive, Replay, Prepare, WriteFails
<1>2. CASE \E r \in Requests : Proceed(r) \/ Fail(r)
  <2>1. PICK r \in Requests : Advance(r)
    BY <1>2, CreateSteps
  <2>2. QED
    BY <2>1 DEF Advance, RecordSheet, Block, RegisterPasses, Rename, Undo
<1>3. CASE Crash \/ ThreadLock \/ ThreadUnlock \/ UNCHANGED vars
  BY <1>3 DEF Crash, ThreadLock, ThreadUnlock, vars
<1>4. QED
  BY <1>1, <1>2, <1>3 DEF Next

\* The commit of a create adds its job and the row of its key together.
LEMMA RowsStep ==
  ASSUME TypeOK, RowsAreJobs, RegisteredAgree, [Next]_vars
  PROVE  RowsAreJobs'
<1>1. CASE \A r \in Requests : ~ Commit(r)
  BY <1>1, OnlyCommitsWrite DEF RowsAreJobs
<1>2. CASE \E r \in Requests : Commit(r)
  <2>1. PICK r \in Requests : Commit(r)
    BY <1>2
  <2> DEFINE i == req[r].id
             k == req[r].key
             c == req[r].content
  <2>2. /\ jobs' = jobs \cup {Job(i, k, c)} /\ keys \subseteq keys'
        /\ \A row \in keys' \ keys :
             /\ row = [key |-> k, hash |-> c, id |-> i]
             /\ k # None /\ \A other \in keys : other.key # k
        /\ k # None => \E row \in keys' : row.key = k
    BY <2>1, CommitAdds
  <2>3. \A row \in keys' \ keys : row.key = k /\ row.hash = c /\ row.id = i
    BY <2>2
  <2>4. \A row \in keys' : Job(row.id, row.key, row.hash) \in jobs'
    BY <2>2, <2>3 DEF RowsAreJobs
  <2>5. \A row, other \in keys' : row.key = other.key => row = other
    BY <2>2, <2>3 DEF RowsAreJobs
  <2>6. \A row \in keys' : row.key = k => row.hash = c
    BY <2>1, <2>3 DEF RegisteredAgree, Commit
  <2>7. ASSUME NEW j \in jobs', j.key # None
        PROVE  \E row \in keys' : row.key = j.key /\ row.hash = j.content
    <3>1. CASE j \in jobs
      BY <2>2, <2>7, <3>1 DEF RowsAreJobs
    <3>2. CASE j = Job(i, k, c)
      <4>1. j.key = k /\ j.content = c
        BY <3>2 DEF Job
      <4>2. QED
        BY <2>2, <2>6, <2>7, <4>1
    <3>3. QED
      BY <2>2, <3>1, <3>2
  <2>8. QED
    BY <2>4, <2>5, <2>7 DEF RowsAreJobs
<1>3. QED
  BY <1>1, <1>2

\* Between registering and committing nobody else commits, as the lock is held.
LEMMA RegisteredStep ==
  ASSUME TypeOK, LocksAreReleased, RegisteredAgree, [Next]_vars
  PROVE  RegisteredAgree'
<1> USE DEF RegisteredAgree
<1>1. CASE \E r \in Requests : Arrive(r)
  <2>1. PICK r \in Requests : Arrive(r)
    BY <1>1
  <2>2. \A q \in Requests : req'[q] = req[q] \/ req'[q].stage \in {"idle", "suggest"}
    BY <2>1, Fields DEF Arrive, Replay, Prepare, WriteFails, TypeOK
  <2>3. keys' = keys
    BY <2>1 DEF Arrive, Replay, Prepare, WriteFails
  <2>4. QED
    BY <2>2, <2>3
<1>2. CASE \E r \in Requests : Proceed(r) \/ Fail(r)
  <2>1. PICK r \in Requests : Advance(r)
    BY <1>2, CreateSteps
  <2>2. CASE RecordSheet(r)
    BY <2>2, Fields DEF RecordSheet, TypeOK, Step
  <2>3. CASE Block(r)
    BY <2>3 DEF Block
  <2>4. CASE RegisterPasses(r)
    <3>1. /\ keys' = keys /\ \A q \in Requests \ {r} : req'[q] = req[q]
          /\ req'[r].key = req[r].key /\ req'[r].content = req[r].content
      BY <2>4, Fields DEF RegisterPasses, TypeOK, Step
    <3>2. \A row \in keys : row.key = req[r].key => row.hash = req[r].content
      BY <2>4 DEF RegisterPasses, Row
    <3>3. QED
      BY <3>1, <3>2
  <2>5. CASE Commit(r)
    <3>1. req'[r].stage = "idle" /\ \A q \in Requests \ {r} : req'[q] = req[q]
      BY <2>5, CommitAdds, Fields
    <3>2. \A q \in Requests : req[q].stage = "rename" => q = r
      BY <2>5 DEF Commit, LocksAreReleased
    <3>3. QED
      BY <3>1, <3>2
  <2>6. CASE \E f \in Files : Rename(r, f)
    BY <2>6 DEF Rename
  <2>7. CASE InFlight(r) /\ Undo(r)
    BY <2>7, Fields DEF Undo, Ended, TypeOK
  <2>8. QED
    BY <2>1, <2>2, <2>3, <2>4, <2>5, <2>6, <2>7 DEF Advance
<1>3. CASE Crash
  BY <1>3, Fields DEF Crash, Ended
<1>4. CASE ThreadLock \/ ThreadUnlock \/ UNCHANGED vars
  BY <1>4 DEF ThreadLock, ThreadUnlock, vars
<1>5. QED
  BY <1>1, <1>2, <1>3, <1>4 DEF Next

\* A create with an awaited key arrives alone, at a key without a row.
LEMMA AwaitedStep ==
  ASSUME TypeOK, AwaitedAlone, [Next]_vars
  PROVE  AwaitedAlone'
<1> USE DEF AwaitedAlone, InFlight
<1>1. CASE \E r \in Requests : Arrive(r)
  <2>1. PICK r \in Requests : Arrive(r)
    BY <1>1
  <2>2. CASE \E k \in Keys \cup {None}, c \in Contents : Replay(r, k, c)
    <3>1. /\ keys' = keys /\ req'[r].stage = "idle"
          /\ \A q \in Requests \ {r} : req'[q] = req[q]
      BY <2>2, Fields DEF Replay, TypeOK
    <3>2. QED
      BY <3>1
  <2>3. CASE \E k \in Keys \cup {None}, c \in Contents, i \in Ids, n \in 1..MaxSheets :
                Prepare(r, k, c, i, n)
    <3>1. PICK k \in Keys \cup {None} :
            /\ keys' = keys /\ Arrives(r, k) /\ Row(k) = {}
            /\ req'[r].stage = "suggest" /\ req'[r].key = k
            /\ \A q \in Requests \ {r} : req'[q] = req[q]
      BY <2>3, Fields DEF Prepare, TypeOK
    <3>2. k \in Awaited => \A q \in Requests : InFlight(q) => req[q].key # k
      BY <3>1 DEF Arrives
    <3>3. \A row \in keys : row.key # k
      BY <3>1 DEF Row
    <3>4. QED
      BY <3>1, <3>2, <3>3
  <2>4. CASE \E k \in Keys \cup {None}, i \in Ids, f \in Files : WriteFails(r, k, i, f)
    BY <2>4 DEF WriteFails
  <2>5. QED
    BY <2>1, <2>2, <2>3, <2>4 DEF Arrive
<1>2. CASE \E r \in Requests : Proceed(r) \/ Fail(r)
  <2>1. PICK r \in Requests : Advance(r)
    BY <1>2, CreateSteps
  <2>2. CASE RecordSheet(r)
    BY <2>2, Fields DEF RecordSheet, TypeOK, Step
  <2>3. CASE Block(r)
    BY <2>3 DEF Block
  <2>4. CASE RegisterPasses(r)
    BY <2>4, Fields DEF RegisterPasses, TypeOK, Step
  <2>5. CASE Commit(r)
    <3>1. req'[r].stage = "idle" /\ \A q \in Requests \ {r} : req'[q] = req[q]
      BY <2>5, CommitAdds, Fields
    <3>2. \A row \in keys' : row \in keys \/ row.key = req[r].key
      BY <2>5, CommitAdds
    <3>3. InFlight(r)
      BY <2>5 DEF Commit
    <3>4. QED
      BY <3>1, <3>2, <3>3
  <2>6. CASE \E f \in Files : Rename(r, f)
    BY <2>6 DEF Rename
  <2>7. CASE InFlight(r) /\ Undo(r)
    BY <2>7, Fields DEF Undo, Ended, TypeOK
  <2>8. QED
    BY <2>1, <2>2, <2>3, <2>4, <2>5, <2>6, <2>7 DEF Advance
<1>3. CASE Crash
  BY <1>3, Fields DEF Crash, Ended
<1>4. CASE ThreadLock \/ ThreadUnlock \/ UNCHANGED vars
  BY <1>4 DEF ThreadLock, ThreadUnlock, vars
<1>5. QED
  BY <1>1, <1>2, <1>3, <1>4 DEF Next

\* A committed awaited key has a row, and a create that commits one found none.
LEMMA OneJobStep ==
  ASSUME TypeOK, RowsAreJobs, AwaitedAlone, OneJobPerAwaitedKey, [Next]_vars
  PROVE  OneJobPerAwaitedKey'
<1> USE DEF OneJobPerAwaitedKey
<1>1. CASE \A r \in Requests : ~ Commit(r)
  BY <1>1, OnlyCommitsWrite
<1>2. CASE \E r \in Requests : Commit(r)
  <2>1. PICK r \in Requests : Commit(r)
    BY <1>2
  <2>2. jobs' = jobs \cup {Job(req[r].id, req[r].key, req[r].content)}
    BY <2>1, CommitAdds
  <2>3. Job(req[r].id, req[r].key, req[r].content).key = req[r].key
    BY DEF Job
  <2>4. ASSUME NEW j \in jobs, j.key = req[r].key, req[r].key \in Awaited
        PROVE  FALSE
    <3>1. \A row \in keys : row.key # req[r].key
      BY <2>1, <2>4 DEF AwaitedAlone, Commit, InFlight
    <3>2. j.key # None
      BY <2>4, CreateConstantsOK
    <3>3. QED
      BY <2>4, <3>1, <3>2 DEF RowsAreJobs
  <2>5. QED
    BY <2>2, <2>3, <2>4
<1>3. QED
  BY <1>1, <1>2

\* Jobs are never removed, a commit answers with its job, a replay with its row's.
LEMMA AnswersStep ==
  ASSUME TypeOK, RowsAreJobs, AnswersMatch, [Next]_vars
  PROVE  AnswersMatch'
<1> USE DEF AnswersMatch, InFlight
<1>1. CASE \E r \in Requests : Arrive(r)
  <2>1. PICK r \in Requests : Arrive(r)
    BY <1>1
  <2>2. jobs' = jobs
    BY <2>1 DEF Arrive, Replay, Prepare, WriteFails
  <2>3. CASE \E k \in Keys \cup {None}, c \in Contents : Replay(r, k, c)
    <3>1. PICK k \in Keys \cup {None}, c \in Contents, row \in keys :
            /\ row.key = k /\ row.hash = c
            /\ req' = [req EXCEPT ![r] = Request("idle", k, c, row.id, 0)]
      BY <2>3 DEF Replay, Row
    <3>2. /\ req'[r].key = row.key /\ req'[r].content = row.hash /\ req'[r].id = row.id
          /\ \A q \in Requests \ {r} : req'[q] = req[q]
      BY <3>1, Fields DEF TypeOK
    <3>3. Job(row.id, row.key, row.hash) \in jobs
      BY DEF RowsAreJobs
    <3>4. QED
      BY <2>2, <3>2, <3>3
  <2>4. CASE \E k \in Keys \cup {None}, c \in Contents, i \in Ids, n \in 1..MaxSheets :
                Prepare(r, k, c, i, n)
    <3>1. req'[r].stage = "suggest" /\ \A q \in Requests \ {r} : req'[q] = req[q]
      BY <2>4, Fields DEF Prepare, TypeOK
    <3>2. QED
      BY <2>2, <3>1
  <2>5. CASE \E k \in Keys \cup {None}, i \in Ids, f \in Files : WriteFails(r, k, i, f)
    BY <2>5 DEF WriteFails
  <2>6. QED
    BY <2>1, <2>3, <2>4, <2>5 DEF Arrive
<1>2. CASE \E r \in Requests : Proceed(r) \/ Fail(r)
  <2>1. PICK r \in Requests : Advance(r)
    BY <1>2, CreateSteps
  <2>2. CASE RecordSheet(r)
    BY <2>2, Fields DEF RecordSheet, TypeOK, Step
  <2>3. CASE Block(r)
    BY <2>3 DEF Block
  <2>4. CASE RegisterPasses(r)
    BY <2>4, Fields DEF RegisterPasses, TypeOK, Step
  <2>5. CASE Commit(r)
    <3>1. /\ jobs' = jobs \cup {Job(req[r].id, req[r].key, req[r].content)}
          /\ req'[r] = Request("idle", req[r].key, req[r].content, req[r].id, 0)
          /\ \A q \in Requests \ {r} : req'[q] = req[q]
      BY <2>5, CommitAdds
    <3>2. /\ req'[r].key = req[r].key /\ req'[r].content = req[r].content
          /\ req'[r].id = req[r].id
      BY <3>1, Fields
    <3>3. QED
      BY <3>1, <3>2
  <2>6. CASE \E f \in Files : Rename(r, f)
    BY <2>6 DEF Rename
  <2>7. CASE InFlight(r) /\ Undo(r)
    <3>1. /\ jobs' = jobs /\ req'[r].id = None
          /\ \A q \in Requests \ {r} : req'[q] = req[q]
      BY <2>7, Fields DEF Undo, Ended, TypeOK
    <3>2. QED
      BY <3>1
  <2>8. QED
    BY <2>1, <2>2, <2>3, <2>4, <2>5, <2>6, <2>7 DEF Advance
<1>3. CASE Crash
  BY <1>3, Fields DEF Crash, Ended
<1>4. CASE ThreadLock \/ ThreadUnlock \/ UNCHANGED vars
  BY <1>4 DEF ThreadLock, ThreadUnlock, vars
<1>5. QED
  BY <1>1, <1>2, <1>3, <1>4 DEF Next

-----------------------------------------------------------------------------
(* Uploads: the theorems *)

\* Initially nothing is stored and nobody is in flight.
LEMMA InitIInv ==
  ASSUME Init
  PROVE  IInv
<1> DEFINE any == CHOOSE c \in Contents : TRUE
<1>1. any \in Contents /\ 0 \in 0..MaxSheets /\ "idle" \in Stages
  BY CreateConstantsOK DEF Stages
<1> HIDE DEF any
<1>2. ASSUME NEW r \in Requests
      PROVE  /\ req[r] \in ReqType /\ req[r].stage = "idle" /\ req[r].id = None
  <2>1. req[r] = Request("idle", None, any, None, 0)
    BY DEF Init, any
  <2>2. QED
    BY <1>1, <2>1, RequestType, Fields
<1>3. TypeOK
  BY <1>2 DEF Init, TypeOK, InFlight, Nothing
<1>4. LocksAreReleased
  BY <1>2, CreateConstantsOK DEF Init, LocksAreReleased
<1>5. IdsAreOwn /\ AwaitedAlone /\ RegisteredAgree /\ AnswersMatch
  BY <1>2 DEF IdsAreOwn, AwaitedAlone, RegisteredAgree, AnswersMatch, InFlight
<1>6. JobsHaveFiles /\ FilesHaveOwners /\ RowsAreJobs /\ OneJobPerAwaitedKey
  BY DEF Init, JobsHaveFiles, FilesHaveOwners, RowsAreJobs, OneJobPerAwaitedKey
<1>7. QED
  BY <1>3, <1>4, <1>5, <1>6 DEF IInv

\* The invariant holds of every behaviour.
LEMMA Inductive == Spec => []IInv
<1>1. Init => IInv
  BY InitIInv
<1>2. IInv /\ [Next]_vars => IInv'
  BY TypeStep, LocksStep, IdsStep, JobFilesStep, OwnersStep, RowsStep,
     RegisteredStep, AwaitedStep, OneJobStep, AnswersStep DEF IInv
<1>3. QED
  BY <1>1, <1>2, PTL DEF Spec

\* Every request, row, file and lock stays within its type.
THEOREM UploadsTyped == Spec => []TypeOK
<1>1. IInv => TypeOK
  BY DEF IInv
<1>2. QED
  BY <1>1, Inductive, PTL

\* A committed import has all its files, whatever failed or crashed around it.
THEOREM CommittedHaveFiles == Spec => []JobsHaveFiles
<1>1. IInv => JobsHaveFiles
  BY DEF IInv
<1>2. QED
  BY <1>1, Inductive, PTL

\* No file lies about that a committed import, a create in flight, a crash or a
\* half written file does not explain.
THEOREM FilesAreOwned == Spec => []FilesHaveOwners
<1>1. IInv => FilesHaveOwners
  BY DEF IInv
<1>2. QED
  BY <1>1, Inductive, PTL

\* A key names one content in every interleaving of creates.
THEOREM KeysNameOneContent == Spec => []OneContentPerKey
<1>1. RowsAreJobs => OneContentPerKey
  BY DEF RowsAreJobs, OneContentPerKey
<1>2. IInv => OneContentPerKey
  BY <1>1 DEF IInv
<1>3. QED
  BY <1>2, Inductive, PTL

\* A key that is sent again only after its create has ended makes one import.
THEOREM AwaitedKeysMakeOneImport == Spec => []OneJobPerAwaitedKey
<1>1. IInv => OneJobPerAwaitedKey
  BY DEF IInv
<1>2. QED
  BY <1>1, Inductive, PTL

\* Answers, replays included, name a committed import of the key and content sent.
THEOREM AnswersAreCommitted == Spec => []AnswersMatch
<1>1. IInv => AnswersMatch
  BY DEF IInv
<1>2. QED
  BY <1>1, Inductive, PTL

\* Nobody keeps the write lock or the event loop after it has ended.
THEOREM NoLockIsKept == Spec => []LocksAreReleased
<1>1. IInv => LocksAreReleased
  BY DEF IInv
<1>2. QED
  BY <1>1, Inductive, PTL

-----------------------------------------------------------------------------
(* Processing: the inductive invariant *)

Held == {"start", "load", "map", "run", "fail"}

\* A worker with the claim finds the job `processing' and, once it has loaded
\* them, its status and its mappings as they are; one without it gets no further
\* than recording its start, and there only if the job cannot be claimed.
WorkerOK(w) ==
  /\ worker[w].claimed => job.status = "processing" /\ worker[w].stage \in Held
  /\ ~ worker[w].claimed =>
       \/ worker[w].stage \in {"idle", "check", "claim"}
       \/ worker[w].stage = "start" /\ job.status \in {"mapping_required", "failed"}
  /\ worker[w].stage \in {"map", "run"} => worker[w].seen = "processing"
  /\ worker[w].stage = "run" => worker[w].mapping = job.mapping

OneClaim == \A v, w \in Workers : worker[v].claimed /\ worker[w].claimed => v = w

\* A confirmation under way is the only request, and what it read is current.
ConfirmersAreAlone ==
  \A c \in Confirmers : confirmer[c].stage # "idle" =>
    /\ \A w \in Workers : worker[w].stage = "idle"
    /\ \A d \in Confirmers : confirmer[d].stage # "idle" => d = c
    /\ confirmer[c].stage = "write" =>
         confirmer[c].seen = job.status /\ Confirmable(job.status)

JobIInv ==
  /\ ConfirmAlone
  /\ JobTypeOK
  /\ \A w \in Workers : WorkerOK(w)
  /\ OneClaim
  /\ ConfirmersAreAlone
  /\ RowsFollowMapping

-----------------------------------------------------------------------------
(* Processing: types *)

LEMMA FreeType == /\ Free \in WorkerStates /\ Free.stage = "idle" /\ Free.claimed = FALSE
                  /\ Quiet \in ConfirmerStates /\ Quiet.stage = "idle"
BY DEF Free, Quiet, WorkerStates, ConfirmerStates, WorkerStages, Policies, Statuses, Everything

\* A worker that moves to a stage keeps the rest of what it knows.
LEMMA WorkerGoes ==
  ASSUME JobTypeOK, NEW w \in Workers, NEW s \in WorkerStages,
         worker' = [worker EXCEPT ![w].stage = s]
  PROVE  /\ worker' \in [Workers -> WorkerStates]
         /\ worker'[w].stage = s /\ worker'[w].claimed = worker[w].claimed
         /\ worker'[w].seen = worker[w].seen /\ worker'[w].mapping = worker[w].mapping
         /\ \A v \in Workers : v # w => worker'[v] = worker[v]
<1> DEFINE new == [worker[w] EXCEPT !.stage = s]
<1>1. worker[w] \in WorkerStates /\ worker \in [Workers -> WorkerStates]
  BY DEF JobTypeOK
<1>2. /\ new \in WorkerStates /\ new.stage = s /\ new.claimed = worker[w].claimed
      /\ new.seen = worker[w].seen /\ new.mapping = worker[w].mapping
  BY <1>1 DEF WorkerStates
<1>3. worker' = [worker EXCEPT ![w] = new]
  OBVIOUS
<1> HIDE DEF new
<1>4. QED
  BY <1>1, <1>2, <1>3

LEMMA WorkerLeaves ==
  ASSUME JobTypeOK, NEW w \in Workers, Leave(w)
  PROVE  /\ worker' \in [Workers -> WorkerStates]
         /\ worker'[w].stage = "idle" /\ worker'[w].claimed = FALSE
         /\ \A v \in Workers : v # w => worker'[v] = worker[v]
BY FreeType DEF JobTypeOK, Leave

\* What the steps of a worker do to its own state.
LEMMA WorkerBegins ==
  ASSUME JobTypeOK, NEW w \in Workers, NEW policy \in Policies, BeginProcess(w, policy)
  PROVE  /\ worker' \in [Workers -> WorkerStates]
         /\ worker'[w].stage = "check" /\ worker'[w].claimed = FALSE
         /\ \A v \in Workers : v # w => worker'[v] = worker[v]
<1> DEFINE mid == [Free EXCEPT !.stage = "check"]
           new == [mid EXCEPT !.policy = policy]
<1>1. mid \in WorkerStates /\ mid.stage = "check" /\ mid.claimed = FALSE
  BY FreeType DEF WorkerStates, WorkerStages
<1>2. worker' = [worker EXCEPT ![w] = new]
  BY DEF BeginProcess
<1> HIDE DEF mid
<1>3. new \in WorkerStates /\ new.stage = "check" /\ new.claimed = FALSE
  BY <1>1 DEF WorkerStates
<1> HIDE DEF new
<1>4. QED
  BY <1>2, <1>3 DEF JobTypeOK

\* Two columns of a worker's state change in one step.
LEMMA WorkerClaims ==
  ASSUME JobTypeOK, NEW w \in Workers,
         worker' = [worker EXCEPT ![w].stage = "start", ![w].claimed = TRUE]
  PROVE  /\ worker' \in [Workers -> WorkerStates]
         /\ worker'[w].stage = "start" /\ worker'[w].claimed = TRUE
         /\ \A v \in Workers : v # w => worker'[v] = worker[v]
<1> DEFINE mid == [worker EXCEPT ![w].stage = "start"]
           old == mid[w]
           new == [old EXCEPT !.claimed = TRUE]
<1>1. worker[w] \in WorkerStates /\ worker \in [Workers -> WorkerStates]
  BY DEF JobTypeOK
<1>2. mid[w] \in WorkerStates /\ mid[w].stage = "start"
      /\ mid \in [Workers -> WorkerStates]
      /\ \A v \in Workers : v # w => mid[v] = worker[v]
  BY <1>1 DEF WorkerStates, WorkerStages
<1>3. new \in WorkerStates /\ new.stage = "start" /\ new.claimed = TRUE
  BY <1>2 DEF WorkerStates
<1>4. worker' = [mid EXCEPT ![w] = new]
  OBVIOUS
<1> HIDE DEF mid, new
<1>5. QED
  BY <1>2, <1>3, <1>4

LEMMA WorkerLoads ==
  ASSUME JobTypeOK, NEW w \in Workers,
         worker' = [worker EXCEPT ![w].stage = "map", ![w].seen = job.status]
  PROVE  /\ worker' \in [Workers -> WorkerStates]
         /\ worker'[w].stage = "map" /\ worker'[w].claimed = worker[w].claimed
         /\ worker'[w].seen = job.status
         /\ \A v \in Workers : v # w => worker'[v] = worker[v]
<1> DEFINE mid == [worker EXCEPT ![w].stage = "map"]
           old == mid[w]
           new == [old EXCEPT !.seen = job.status]
<1>1. worker[w] \in WorkerStates /\ worker \in [Workers -> WorkerStates] /\ job.status \in Statuses
  BY DEF JobTypeOK, Jobs
<1>2. mid[w] \in WorkerStates /\ mid[w].stage = "map" /\ mid[w].claimed = worker[w].claimed
      /\ mid \in [Workers -> WorkerStates]
      /\ \A v \in Workers : v # w => mid[v] = worker[v]
  BY <1>1 DEF WorkerStates, WorkerStages
<1>3. new \in WorkerStates /\ new.stage = "map" /\ new.claimed = mid[w].claimed
      /\ new.seen = job.status
  BY <1>1, <1>2 DEF WorkerStates
<1>4. worker' = [mid EXCEPT ![w] = new]
  OBVIOUS
<1> HIDE DEF mid, new
<1>5. QED
  BY <1>2, <1>3, <1>4

LEMMA WorkerReads ==
  ASSUME JobTypeOK, NEW w \in Workers, LoadMappings(w)
  PROVE  /\ worker' \in [Workers -> WorkerStates]
         /\ worker'[w].stage = "run" /\ worker'[w].claimed = worker[w].claimed
         /\ worker'[w].seen = worker[w].seen /\ worker'[w].mapping = job.mapping
         /\ \A v \in Workers : v # w => worker'[v] = worker[v]
<1> DEFINE mid == [worker EXCEPT ![w].stage = "run"]
           old == mid[w]
           new == [old EXCEPT !.mapping = job.mapping]
<1>1. worker[w] \in WorkerStates /\ worker \in [Workers -> WorkerStates] /\ job.mapping \in Everything
  BY DEF JobTypeOK, Jobs
<1>2. mid[w] \in WorkerStates /\ mid[w].stage = "run" /\ mid[w].claimed = worker[w].claimed
      /\ mid[w].seen = worker[w].seen
      /\ mid \in [Workers -> WorkerStates]
      /\ \A v \in Workers : v # w => mid[v] = worker[v]
  BY <1>1 DEF WorkerStates, WorkerStages
<1>3. new \in WorkerStates /\ new.stage = "run" /\ new.claimed = mid[w].claimed
      /\ new.seen = mid[w].seen /\ new.mapping = job.mapping
  BY <1>1, <1>2 DEF WorkerStates
<1>4. worker' = [mid EXCEPT ![w] = new]
  BY DEF LoadMappings
<1> HIDE DEF mid, new
<1>5. QED
  BY <1>2, <1>3, <1>4
-----------------------------------------------------------------------------
(* Processing: the steps *)

\* While a process request is under way no confirmation is.
LEMMA NoConfirmation ==
  ASSUME JobIInv, NEW w \in Workers, worker[w].stage # "idle"
  PROVE  \A c \in Confirmers : confirmer[c].stage = "idle"
BY DEF JobIInv, ConfirmersAreAlone

\* A step of one worker that leaves the job as it is.
LEMMA WorkerMoves ==
  ASSUME JobIInv, NEW w \in Workers, UNCHANGED <<job, written, rows, confirmer>>,
         lost' \in BOOLEAN, worker' \in [Workers -> WorkerStates],
         \A v \in Workers : v # w => worker'[v] = worker[v],
         worker'[w].claimed => worker[w].claimed, WorkerOK(w)',
         \A c \in Confirmers : confirmer[c].stage = "idle"
  PROVE  JobIInv'
<1>1. JobTypeOK'
  BY DEF JobIInv, JobTypeOK
<1>2. \A v \in Workers : WorkerOK(v)'
  BY DEF JobIInv, WorkerOK
<1>3. OneClaim'
  BY DEF JobIInv, OneClaim
<1>4. ConfirmersAreAlone'
  BY DEF ConfirmersAreAlone
<1>5. RowsFollowMapping'
  BY DEF JobIInv, RowsFollowMapping, Finished
<1>6. QED
  BY <1>1, <1>2, <1>3, <1>4, <1>5 DEF JobIInv

\* Leaving is such a step, whatever is recorded as lost.
LEMMA WorkerGivesUp ==
  ASSUME JobIInv, NEW w \in Workers, UNCHANGED <<job, written, rows, confirmer>>,
         lost' \in BOOLEAN, Leave(w), worker[w].stage # "idle"
  PROVE  JobIInv'
<1>1. JobTypeOK
  BY DEF JobIInv
<1>2. WorkerOK(w)'
  BY <1>1, WorkerLeaves DEF WorkerOK
<1>3. QED
  BY <1>1, <1>2, WorkerLeaves, NoConfirmation, WorkerMoves

\* So is going on to a stage, with what is known there.
LEMMA WorkerGoesOn ==
  ASSUME JobIInv, NEW w \in Workers, UNCHANGED <<job, written, rows, confirmer>>,
         lost' = lost, NEW s \in WorkerStages, Goto(w, s), worker[w].stage # "idle",
         s \notin {"map", "run"},
         worker[w].claimed => s \in Held,
         ~ worker[w].claimed => \/ s \in {"idle", "check", "claim"}
                                \/ s = "start" /\ job.status \in {"mapping_required", "failed"}
  PROVE  JobIInv'
<1>1. JobTypeOK /\ WorkerOK(w) /\ lost' \in BOOLEAN
  BY DEF JobIInv, JobTypeOK
<1>2. worker' = [worker EXCEPT ![w].stage = s]
  BY DEF Goto
<1>3. /\ worker' \in [Workers -> WorkerStates]
      /\ worker'[w].stage = s /\ worker'[w].claimed = worker[w].claimed
      /\ \A v \in Workers : v # w => worker'[v] = worker[v]
  BY <1>1, <1>2, WorkerGoes
<1>4. WorkerOK(w)'
  BY <1>1, <1>3 DEF WorkerOK
<1>5. QED
  BY <1>1, <1>3, <1>4, NoConfirmation, WorkerMoves

LEMMA BeginInv ==
  ASSUME JobIInv, NEW w \in Workers, NEW policy \in Policies, BeginProcess(w, policy)
  PROVE  JobIInv'
<1>1. JobTypeOK /\ ConfirmAlone /\ lost \in BOOLEAN
  BY DEF JobIInv, JobTypeOK
<1>2. /\ UNCHANGED <<job, written, rows, confirmer, lost>>
      /\ \A c \in Confirmers : confirmer[c].stage = "idle"
  BY <1>1 DEF BeginProcess, NoConfirm
<1>3. /\ worker' \in [Workers -> WorkerStates]
      /\ worker'[w].stage = "check" /\ worker'[w].claimed = FALSE
      /\ \A v \in Workers : v # w => worker'[v] = worker[v]
  BY <1>1, WorkerBegins
<1>4. WorkerOK(w)'
  BY <1>3 DEF WorkerOK
<1>5. QED
  BY <1>1, <1>2, <1>3, <1>4, WorkerMoves

LEMMA StatusKnown ==
  ASSUME JobIInv
  PROVE  /\ job.status \in Statuses
         /\ \A w \in Workers : worker[w] \in WorkerStates
BY DEF JobIInv, JobTypeOK, Jobs

LEMMA CheckInv ==
  ASSUME JobIInv, NEW w \in Workers, Check(w)
  PROVE  JobIInv'
<1>1. /\ UNCHANGED <<job, written, rows, confirmer, lost>>
      /\ worker[w].stage = "check" /\ lost \in BOOLEAN
  BY DEF Check, At, JobIInv, JobTypeOK
<1>2. ~ worker[w].claimed
  BY <1>1 DEF JobIInv, WorkerOK, Held
<1>3. CASE Leave(w)
  BY <1>1, <1>3, WorkerGivesUp
<1>4. CASE Goto(w, "claim")
  <2>1. "claim" \in WorkerStages /\ "claim" \notin {"map", "run"}
    BY DEF WorkerStages
  <2>2. QED
    BY <1>1, <1>2, <1>4, <2>1, WorkerGoesOn
<1>5. CASE Goto(w, "start") /\ job.status \notin {"confirmed", "completed", "processing"}
  <2>1. job.status \in {"mapping_required", "failed"}
    BY <1>5, StatusKnown DEF Statuses
  <2>2. "start" \in WorkerStages /\ "start" \notin {"map", "run"}
    BY DEF WorkerStages
  <2>3. QED
    BY <1>1, <1>2, <1>5, <2>1, <2>2, WorkerGoesOn
<1>6. QED
  BY <1>3, <1>4, <1>5 DEF Check

\* The conditional UPDATE succeeds only while nobody has the claim.
LEMMA ClaimInv ==
  ASSUME JobIInv, NEW w \in Workers, Claim(w)
  PROVE  JobIInv'
<1>1. /\ UNCHANGED <<written, rows, confirmer, lost>>
      /\ worker[w].stage = "claim" /\ lost \in BOOLEAN /\ JobTypeOK
  BY DEF Claim, At, JobIInv, JobTypeOK
<1>2. ~ worker[w].claimed
  BY <1>1 DEF JobIInv, WorkerOK, Held
<1>3. CASE Goto(w, "check") /\ UNCHANGED job
  <2>1. "check" \in WorkerStages /\ "check" \notin {"map", "run"}
    BY DEF WorkerStages
  <2>2. QED
    BY <1>1, <1>2, <1>3, <2>1, WorkerGoesOn
<1>4. CASE /\ job.status \in {"confirmed", "completed"}
           /\ job' = [job EXCEPT !.status = "processing"]
           /\ worker' = [worker EXCEPT ![w].stage = "start", ![w].claimed = TRUE]
  <2>1. job' \in Jobs /\ job'.status = "processing" /\ job'.mapping = job.mapping
    BY <1>1, <1>4 DEF JobTypeOK, Jobs, Statuses
  <2>2. /\ worker' \in [Workers -> WorkerStates]
        /\ worker'[w].stage = "start" /\ worker'[w].claimed = TRUE
        /\ \A v \in Workers : v # w => worker'[v] = worker[v]
    BY <1>1, <1>4, WorkerClaims
  <2>3. \A v \in Workers : ~ worker[v].claimed /\ worker[v].stage \in {"idle", "check", "claim"}
    BY <1>4 DEF JobIInv, WorkerOK
  <2>4. \A v \in Workers : WorkerOK(v)'
    BY <2>1, <2>2, <2>3 DEF WorkerOK, Held
  <2>5. OneClaim'
    BY <2>2, <2>3 DEF OneClaim
  <2>6. ConfirmersAreAlone'
    BY <1>1, NoConfirmation DEF ConfirmersAreAlone
  <2>7. JobTypeOK'
    BY <1>1, <2>1, <2>2 DEF JobTypeOK
  <2>8. RowsFollowMapping'
    BY <2>1 DEF RowsFollowMapping, Finished
  <2>9. QED
    BY <2>4, <2>5, <2>6, <2>7, <2>8 DEF JobIInv
<1>5. QED
  BY <1>3, <1>4 DEF Claim, Claimable

\* Without the claim nobody gets past the start.
LEMMA RecordStartedInv ==
  ASSUME JobIInv, NEW w \in Workers, RecordStarted(w)
  PROVE  JobIInv'
<1>1. /\ UNCHANGED <<job, written, rows, confirmer, lost>>
      /\ worker[w].stage = "start" /\ lost \in BOOLEAN
  BY DEF RecordStarted, At, JobIInv, JobTypeOK
<1>2. ~ worker[w].claimed => job.status \in {"mapping_required", "failed"}
  BY <1>1 DEF JobIInv, WorkerOK
<1>3. CASE Leave(w)
  BY <1>1, <1>3, WorkerGivesUp
<1>4. CASE Goto(w, "load") /\ (Finished(job) \/ Admits(w))
  <2>1. worker[w].claimed
    BY <1>2, <1>4 DEF Finished, Admits
  <2>2. "load" \in WorkerStages /\ "load" \notin {"map", "run"} /\ "load" \in Held
    BY DEF WorkerStages, Held
  <2>3. QED
    BY <1>1, <1>4, <2>1, <2>2, WorkerGoesOn
<1>5. CASE Goto(w, "fail") /\ worker[w].claimed
  <2>1. "fail" \in WorkerStages /\ "fail" \notin {"map", "run"} /\ "fail" \in Held
    BY DEF WorkerStages, Held
  <2>2. QED
    BY <1>1, <1>5, <2>1, WorkerGoesOn
<1>6. QED
  BY <1>3, <1>4, <1>5 DEF RecordStarted

\* Past the start a worker has the claim, so the job says `processing'.
LEMMA HasClaim ==
  ASSUME JobIInv, NEW w \in Workers, worker[w].stage \in {"load", "map", "run", "fail"}
  PROVE  worker[w].claimed /\ job.status = "processing"
BY DEF JobIInv, WorkerOK

LEMMA LoadJobInv ==
  ASSUME JobIInv, NEW w \in Workers, LoadJob(w)
  PROVE  JobIInv'
<1>1. /\ UNCHANGED <<job, written, rows, confirmer>>
      /\ worker[w].stage = "load" /\ lost \in BOOLEAN /\ JobTypeOK
  BY DEF LoadJob, At, JobIInv, JobTypeOK
<1>2. worker[w].claimed /\ job.status = "processing"
  BY <1>1, HasClaim
<1>3. CASE Strand(w)
  <2>1. Leave(w) /\ lost' \in BOOLEAN
    BY <1>1, <1>3 DEF Strand
  <2>2. QED
    BY <1>1, <2>1, WorkerGivesUp
<1>4. CASE worker' = [worker EXCEPT ![w].stage = "map", ![w].seen = job.status] /\ UNCHANGED lost
  <2>1. /\ worker' \in [Workers -> WorkerStates]
        /\ worker'[w].stage = "map" /\ worker'[w].claimed = worker[w].claimed
        /\ worker'[w].seen = job.status
        /\ \A v \in Workers : v # w => worker'[v] = worker[v]
    BY <1>1, <1>4, WorkerLoads
  <2>2. WorkerOK(w)'
    BY <1>1, <1>2, <2>1 DEF WorkerOK, Held
  <2>3. QED
    BY <1>1, <1>2, <1>4, <2>1, <2>2, NoConfirmation, WorkerMoves
<1>5. QED
  BY <1>3, <1>4 DEF LoadJob

LEMMA LoadMappingsInv ==
  ASSUME JobIInv, NEW w \in Workers, LoadMappings(w)
  PROVE  JobIInv'
<1>1. /\ UNCHANGED <<job, written, rows, confirmer, lost>>
      /\ worker[w].stage = "map" /\ lost \in BOOLEAN /\ JobTypeOK
  BY DEF LoadMappings, At, JobIInv, JobTypeOK
<1>2. worker[w].claimed /\ job.status = "processing" /\ worker[w].seen = "processing"
  BY <1>1, HasClaim DEF JobIInv, WorkerOK
<1>3. /\ worker' \in [Workers -> WorkerStates]
      /\ worker'[w].stage = "run" /\ worker'[w].claimed = worker[w].claimed
      /\ worker'[w].seen = worker[w].seen /\ worker'[w].mapping = job.mapping
      /\ \A v \in Workers : v # w => worker'[v] = worker[v]
  BY <1>1, WorkerReads
<1>4. WorkerOK(w)'
  BY <1>1, <1>2, <1>3 DEF WorkerOK, Held
<1>5. QED
  BY <1>1, <1>2, <1>3, <1>4, NoConfirmation, WorkerMoves

\* The worker with the claim ends the job: the others are not past their checks,
\* so nothing they know of the job's status is wrong.
LEMMA JobEnds ==
  ASSUME JobIInv, NEW w \in Workers, worker[w].stage \in {"run", "fail"}, Leave(w),
         UNCHANGED <<confirmer, lost>>, job' \in Jobs, written' \in 0 .. MaxWrites,
         rows' \in Everything, RowsFollowMapping'
  PROVE  JobIInv'
<1>1. JobTypeOK /\ worker[w].claimed /\ job.status = "processing"
  BY HasClaim DEF JobIInv
<1>2. /\ worker' \in [Workers -> WorkerStates]
      /\ worker'[w].stage = "idle" /\ worker'[w].claimed = FALSE
      /\ \A v \in Workers : v # w => worker'[v] = worker[v]
  BY <1>1, WorkerLeaves
<1>3. \A v \in Workers : v # w =>
        ~ worker[v].claimed /\ worker[v].stage \in {"idle", "check", "claim"}
  BY <1>1 DEF JobIInv, OneClaim, WorkerOK
<1>4. \A v \in Workers : ~ worker'[v].claimed /\ worker'[v].stage \in {"idle", "check", "claim"}
  BY <1>2, <1>3
<1>5. \A v \in Workers : WorkerOK(v)'
  BY <1>4 DEF WorkerOK
<1>6. OneClaim'
  BY <1>4 DEF OneClaim
<1>7. ConfirmersAreAlone'
  BY NoConfirmation DEF ConfirmersAreAlone
<1>8. JobTypeOK'
  BY <1>1, <1>2 DEF JobTypeOK
<1>9. QED
  BY <1>5, <1>6, <1>7, <1>8 DEF JobIInv

\* What the terminal transaction writes as status is what it means to write.
LEMMA EmitsStatus ==
  ASSUME JobIInv, NEW w \in Workers, worker[w].stage = "run", NEW s, s # "processing"
  PROVE  Emit(job.status, worker[w].seen, s) = s
<1>1. worker[w].seen = "processing"
  BY DEF JobIInv, WorkerOK
<1>2. QED
  BY <1>1 DEF Emit

LEMMA PreviewInv ==
  ASSUME JobIInv, NEW w \in Workers, Preview(w)
  PROVE  JobIInv'
<1> DEFINE s == Emit(job.status, worker[w].seen, "confirmed")
           mid == [job EXCEPT !.result = "preview"]
<1>1. /\ UNCHANGED <<written, rows, confirmer, lost>>
      /\ worker[w].stage = "run" /\ Leave(w) /\ JobTypeOK
  BY DEF Preview, At, JobIInv
<1>2. s = "confirmed" /\ "confirmed" \in Statuses
  BY <1>1, EmitsStatus DEF Statuses
<1>3. mid \in Jobs
  BY <1>1 DEF JobTypeOK, Jobs
<1>4. job' = [mid EXCEPT !.status = s]
  BY DEF Preview
<1> HIDE DEF s, mid
<1>5. job' \in Jobs /\ job'.status = "confirmed"
  BY <1>2, <1>3, <1>4 DEF Jobs
<1>6. RowsFollowMapping'
  BY <1>5 DEF RowsFollowMapping, Finished
<1>7. QED
  BY <1>1, <1>5, <1>6, JobEnds DEF JobTypeOK

\* The rows are written from the job's own mapping.
LEMMA PersistInv ==
  ASSUME JobIInv, NEW w \in Workers, Persist(w)
  PROVE  JobIInv'
<1> DEFINE s == Emit(job.status, worker[w].seen, Done)
           one == [job EXCEPT !.result = "final"]
           two == [one EXCEPT !.stamped = TRUE]
<1>1. /\ UNCHANGED <<confirmer, lost>>
      /\ worker[w].stage = "run" /\ Leave(w) /\ JobTypeOK
      /\ written < MaxWrites /\ written' = written + 1 /\ rows' = worker[w].mapping
  BY DEF Persist, At, JobIInv
<1>2. s \in Statuses
  BY <1>1, EmitsStatus DEF Statuses, Done
<1>3. one \in Jobs /\ one.mapping = job.mapping
  BY <1>1 DEF JobTypeOK, Jobs
<1>4. two \in Jobs /\ two.mapping = one.mapping
  BY <1>3 DEF Jobs
<1>5. job' = [two EXCEPT !.status = s]
  BY DEF Persist
<1> HIDE DEF s, one, two
<1>6. job' \in Jobs /\ job'.mapping = job.mapping
  BY <1>2, <1>3, <1>4, <1>5 DEF Jobs
<1>7. worker[w].mapping = job.mapping /\ job.mapping \in Everything
  BY <1>1 DEF JobIInv, WorkerOK, JobTypeOK, Jobs
<1>8. RowsFollowMapping' /\ rows' \in Everything
  BY <1>1, <1>6, <1>7 DEF RowsFollowMapping
<1>9. written' \in 0 .. MaxWrites
  BY <1>1, ImportConstantsOK DEF JobTypeOK
<1>10. QED
  BY <1>1, <1>6, <1>8, <1>9, JobEnds

LEMMA MarkFailedInv ==
  ASSUME JobIInv, NEW w \in Workers, MarkFailed(w)
  PROVE  JobIInv'
<1>1. /\ UNCHANGED <<written, rows, confirmer, lost>>
      /\ worker[w].stage = "fail" /\ Leave(w) /\ JobTypeOK
      /\ job' = [job EXCEPT !.status = "failed"]
  BY DEF MarkFailed, At, JobIInv
<1>2. job' \in Jobs /\ job'.status = "failed"
  BY <1>1 DEF JobTypeOK, Jobs, Statuses
<1>3. RowsFollowMapping'
  BY <1>2 DEF RowsFollowMapping, Finished
<1>4. QED
  BY <1>1, <1>2, <1>3, JobEnds DEF JobTypeOK

\* An exception on the way to the end of the job.
LEMMA RaiseInv ==
  ASSUME JobIInv, NEW w \in Workers, RunRaises(w) \/ DatabaseFails(w)
  PROVE  JobIInv'
<1>1. /\ UNCHANGED <<job, written, rows, confirmer>>
      /\ worker[w].stage # "idle" /\ lost \in BOOLEAN /\ JobTypeOK
  BY DEF RunRaises, DatabaseFails, At, JobIInv, JobTypeOK
<1>2. "fail" \in WorkerStages /\ "fail" \notin {"map", "run"} /\ "fail" \in Held
  BY DEF WorkerStages, Held
<1>3. CASE Goto(w, "fail") /\ worker[w].claimed /\ UNCHANGED lost
  BY <1>1, <1>2, <1>3, WorkerGoesOn
<1>4. CASE Strand(w)
  <2>1. Leave(w) /\ lost' \in BOOLEAN
    BY <1>1, <1>4 DEF Strand
  <2>2. QED
    BY <1>1, <2>1, WorkerGivesUp
<1>5. worker[w].stage \in {"map", "run"} => worker[w].claimed
  BY HasClaim
<1>6. QED
  BY <1>3, <1>4, <1>5 DEF RunRaises, DatabaseFails, At

\* A step of a confirmation that leaves the job as it is.
LEMMA ConfirmerMoves ==
  ASSUME JobIInv, UNCHANGED <<job, written, rows, worker, lost>>,
         confirmer' \in [Confirmers -> ConfirmerStates], ConfirmersAreAlone'
  PROVE  JobIInv'
<1>1. JobTypeOK' /\ RowsFollowMapping'
  BY DEF JobIInv, JobTypeOK, RowsFollowMapping, Finished
<1>2. OneClaim' /\ \A w \in Workers : WorkerOK(w)'
  BY DEF JobIInv, OneClaim, WorkerOK
<1>3. QED
  BY <1>1, <1>2 DEF JobIInv

LEMMA BeginConfirmInv ==
  ASSUME JobIInv, NEW c \in Confirmers, BeginConfirm(c)
  PROVE  JobIInv'
<1> DEFINE old == confirmer[c]
           new == [old EXCEPT !.stage = "check"]
<1>1. /\ UNCHANGED <<job, written, rows, worker, lost>>
      /\ confirmer' = [confirmer EXCEPT ![c] = new]
      /\ confirmer \in [Confirmers -> ConfirmerStates]
      /\ \A d \in Confirmers : confirmer[d].stage = "idle"
      /\ \A w \in Workers : worker[w].stage = "idle"
  BY DEF BeginConfirm, NoRequest, NoConfirm, JobIInv, JobTypeOK
<1>2. new \in ConfirmerStates /\ new.stage = "check"
  BY <1>1 DEF ConfirmerStates
<1> HIDE DEF new
<1>3. /\ confirmer' \in [Confirmers -> ConfirmerStates] /\ confirmer'[c].stage = "check"
      /\ \A d \in Confirmers : d # c => confirmer'[d].stage = "idle"
  BY <1>1, <1>2
<1>4. ConfirmersAreAlone'
  BY <1>1, <1>3 DEF ConfirmersAreAlone
<1>5. QED
  BY <1>1, <1>3, <1>4, ConfirmerMoves

\* It keeps the status it has read: no other request changes it meanwhile.
LEMMA ReadStatusInv ==
  ASSUME JobIInv, NEW c \in Confirmers, ReadStatus(c)
  PROVE  JobIInv'
<1> DEFINE new == IF Confirmable(job.status) THEN [stage |-> "write", seen |-> job.status]
                  ELSE Quiet
<1>1. /\ UNCHANGED <<job, written, rows, worker, lost>>
      /\ confirmer' = [confirmer EXCEPT ![c] = new]
      /\ confirmer \in [Confirmers -> ConfirmerStates]
      /\ confirmer[c].stage = "check"
  BY DEF ReadStatus, JobIInv, JobTypeOK
<1>2. /\ new \in ConfirmerStates
      /\ new.stage \in {"write", "idle"}
      /\ new.stage = "write" => new.seen = job.status /\ Confirmable(job.status)
  BY FreeType, StatusKnown DEF ConfirmerStates
<1>3. /\ \A w \in Workers : worker[w].stage = "idle"
      /\ \A d \in Confirmers : confirmer[d].stage # "idle" => d = c
  BY <1>1 DEF JobIInv, ConfirmersAreAlone
<1> HIDE DEF new
<1>4. /\ confirmer' \in [Confirmers -> ConfirmerStates] /\ confirmer'[c] = new
      /\ \A d \in Confirmers : d # c => confirmer'[d].stage = "idle"
  BY <1>1, <1>2, <1>3
<1>5. ConfirmersAreAlone'
  BY <1>1, <1>2, <1>3, <1>4 DEF ConfirmersAreAlone
<1>6. QED
  BY <1>1, <1>4, <1>5, ConfirmerMoves

LEMMA ConfirmRaisesInv ==
  ASSUME JobIInv, NEW c \in Confirmers, ConfirmRaises(c)
  PROVE  JobIInv'
<1>1. /\ UNCHANGED <<job, written, rows, worker, lost>>
      /\ confirmer' = [confirmer EXCEPT ![c] = Quiet]
      /\ confirmer \in [Confirmers -> ConfirmerStates]
  BY DEF ConfirmRaises, JobIInv, JobTypeOK
<1>2. /\ confirmer' \in [Confirmers -> ConfirmerStates]
      /\ confirmer'[c].stage = "idle"
      /\ \A d \in Confirmers : d # c => confirmer'[d] = confirmer[d]
  BY <1>1, FreeType
<1>3. ConfirmersAreAlone'
  BY <1>1, <1>2 DEF JobIInv, ConfirmersAreAlone
<1>4. QED
  BY <1>1, <1>2, <1>3, ConfirmerMoves

\* A confirmation writes `confirmed', whatever of the two it read.
LEMMA WritesConfirmed ==
  ASSUME JobIInv, NEW c \in Confirmers, NEW m \in Mappings, WriteMapping(c, m)
  PROVE  /\ \A w \in Workers : worker[w].stage = "idle"
         /\ \A d \in Confirmers : d # c => confirmer[d].stage = "idle"
         /\ Confirmable(job.status)
         /\ job' \in Jobs /\ job'.status = "confirmed"
<1> DEFINE s == Emit(job.status, confirmer[c].seen, "confirmed")
           mid == [job EXCEPT !.mapping = m]
<1>1. /\ confirmer[c].stage = "write" /\ job \in Jobs
      /\ job' = [mid EXCEPT !.status = s]
  BY DEF WriteMapping, JobIInv, JobTypeOK
<1>2. /\ \A w \in Workers : worker[w].stage = "idle"
      /\ \A d \in Confirmers : d # c => confirmer[d].stage = "idle"
      /\ confirmer[c].seen = job.status /\ Confirmable(job.status)
  BY <1>1 DEF JobIInv, ConfirmersAreAlone
<1>3. s = "confirmed" /\ "confirmed" \in Statuses
  BY <1>2 DEF Emit, Statuses
<1>4. mid \in Jobs
  BY <1>1 DEF Jobs, Everything
<1> HIDE DEF s, mid
<1>5. job' \in Jobs /\ job'.status = "confirmed"
  BY <1>1, <1>3, <1>4 DEF Jobs
<1>6. QED
  BY <1>2, <1>5

LEMMA WriteMappingInv ==
  ASSUME JobIInv, NEW c \in Confirmers, NEW m \in Mappings, WriteMapping(c, m)
  PROVE  JobIInv'
<1>1. /\ UNCHANGED <<written, rows, worker, lost>>
      /\ confirmer' = [confirmer EXCEPT ![c] = Quiet]
      /\ JobTypeOK
  BY DEF WriteMapping, JobIInv
<1>2. /\ \A w \in Workers : worker[w].stage = "idle"
      /\ \A d \in Confirmers : d # c => confirmer[d].stage = "idle"
      /\ job' \in Jobs /\ job'.status = "confirmed"
  BY WritesConfirmed
<1>3. confirmer' \in [Confirmers -> ConfirmerStates]
      /\ \A d \in Confirmers : confirmer'[d].stage = "idle"
  BY <1>1, <1>2, FreeType DEF JobTypeOK
<1>4. JobTypeOK'
  BY <1>1, <1>2, <1>3 DEF JobTypeOK
<1>5. \A w \in Workers : ~ worker[w].claimed
  BY <1>2 DEF JobIInv, WorkerOK, Held
<1>6. OneClaim' /\ \A w \in Workers : WorkerOK(w)'
  BY <1>1, <1>2, <1>5 DEF OneClaim, WorkerOK
<1>7. ConfirmersAreAlone'
  BY <1>3 DEF ConfirmersAreAlone
<1>8. RowsFollowMapping'
  BY <1>2 DEF RowsFollowMapping, Finished
<1>9. QED
  BY <1>4, <1>6, <1>7, <1>8 DEF JobIInv

\* A restart forgets every request and leaves the job.
LEMMA RestartInv ==
  ASSUME JobIInv, Restart
  PROVE  JobIInv'
<1>1. /\ UNCHANGED <<job, written, rows>>
      /\ worker' = [w \in Workers |-> Free] /\ confirmer' = [c \in Confirmers |-> Quiet]
      /\ lost' \in BOOLEAN
  BY DEF Restart, JobIInv, JobTypeOK
<1>2. JobTypeOK'
  BY <1>1, FreeType DEF JobIInv, JobTypeOK
<1>3. OneClaim' /\ \A w \in Workers : WorkerOK(w)'
  BY <1>1, FreeType DEF OneClaim, WorkerOK
<1>4. ConfirmersAreAlone'
  BY <1>1, FreeType DEF ConfirmersAreAlone
<1>5. RowsFollowMapping'
  BY <1>1 DEF JobIInv, RowsFollowMapping, Finished
<1>6. QED
  BY <1>2, <1>3, <1>4, <1>5 DEF JobIInv

LEMMA JobInitIInv ==
  ASSUME ConfirmAlone, JobInit
  PROVE  JobIInv
<1>1. job \in Jobs /\ job.stamped = FALSE
  <2>1. CASE job = [status |-> "mapping_required", mapping |-> Suggested,
                    result |-> "none", stamped |-> FALSE]
    BY <2>1 DEF Jobs, Statuses, Everything
  <2>2. CASE \E m \in Mappings : job = [status |-> "completed", mapping |-> m,
                                       result |-> "final", stamped |-> FALSE]
    BY <2>2 DEF Jobs, Statuses, Everything
  <2>3. QED
    BY <2>1, <2>2 DEF JobInit
<1>2. JobTypeOK
  <2>1. written \in 0 .. MaxWrites /\ rows \in Everything /\ lost \in BOOLEAN
    <3>1. written = 0 /\ rows = Suggested /\ lost = FALSE
      BY DEF JobInit
    <3>2. 0 \in 0 .. MaxWrites /\ Suggested \in Everything
      BY ImportConstantsOK DEF Everything
    <3>3. QED
      BY <3>1, <3>2
  <2>2. /\ worker \in [Workers -> WorkerStates]
        /\ confirmer \in [Confirmers -> ConfirmerStates]
    BY FreeType DEF JobInit
  <2>3. QED
    BY <1>1, <2>1, <2>2 DEF JobTypeOK
<1>3. OneClaim /\ \A w \in Workers : WorkerOK(w)
  BY FreeType DEF JobInit, OneClaim, WorkerOK
<1>4. ConfirmersAreAlone
  BY FreeType DEF JobInit, ConfirmersAreAlone
<1>5. RowsFollowMapping
  BY <1>1 DEF RowsFollowMapping, Finished
<1>6. QED
  BY <1>2, <1>3, <1>4, <1>5 DEF JobIInv

LEMMA JobStep ==
  ASSUME JobIInv, [JobNext]_jobVars
  PROVE  JobIInv'
<1>1. CASE UNCHANGED jobVars
  BY <1>1 DEF jobVars, JobIInv, JobTypeOK, OneClaim, WorkerOK, ConfirmersAreAlone,
             RowsFollowMapping, Finished
<1>2. ASSUME NEW w \in Workers, ProcessProceeds(w)
      PROVE  JobIInv'
  BY <1>2, CheckInv, ClaimInv, RecordStartedInv, LoadJobInv, LoadMappingsInv, PreviewInv,
     PersistInv, MarkFailedInv, RaiseInv DEF ProcessProceeds
<1>3. QED
  BY <1>1, <1>2, BeginInv, RaiseInv, BeginConfirmInv, ReadStatusInv, WriteMappingInv,
     ConfirmRaisesInv, RestartInv DEF JobNext

LEMMA JobInductive == ConfirmAlone => (JobSpec => []JobIInv)
<1> SUFFICES ASSUME ConfirmAlone PROVE JobSpec => []JobIInv
  OBVIOUS
<1>1. JobInit => JobIInv
  BY JobInitIInv
<1>2. JobIInv /\ [JobNext]_jobVars => JobIInv'
  BY JobStep
<1>3. QED
  BY <1>1, <1>2, PTL DEF JobSpec

\* While no confirmation overlaps another request of its import, whatever
\* process requests compete, fail or are cut off by a restart, one at most has
\* the claim, and no other is loading, running or failing the job.
THEOREM OneClaimAtATime == ConfirmAlone => (JobSpec => []ClaimIsExclusive)
<1>1. JobIInv => ClaimIsExclusive
  BY DEF JobIInv, ClaimIsExclusive, OneClaim, WorkerOK
<1>2. QED
  BY <1>1, JobInductive, PTL

\* Under the same discipline the business rows of a completed import come from
\* the mapping its job records.
THEOREM RowsComeFromMapping == ConfirmAlone => (JobSpec => []RowsFollowMapping)
<1>1. JobIInv => RowsFollowMapping
  BY DEF JobIInv
<1>2. QED
  BY <1>1, JobInductive, PTL

-----------------------------------------------------------------------------
(* Processing: what an ended job never does again *)

\* Only a claim, the end of the claimed job and a confirmation write to the job.
LEMMA JobWrites ==
  ASSUME JobIInv, [JobNext]_jobVars
  PROVE  \/ job' = job
         \/ job.status \in {"confirmed", "completed"} /\ \E w \in Workers : At(w, "claim")
         \/ job.status = "processing"
         \/ Confirmable(job.status)
<1>1. ASSUME NEW w \in Workers, Claim(w)
      PROVE  \/ job' = job
             \/ job.status \in {"confirmed", "completed"} /\ At(w, "claim")
  BY <1>1 DEF Claim, Claimable
<1>2. ASSUME NEW w \in Workers, Preview(w) \/ Persist(w) \/ MarkFailed(w)
      PROVE  job.status = "processing"
  BY <1>2, HasClaim DEF Preview, Persist, MarkFailed, At
<1>3. ASSUME NEW c \in Confirmers, NEW m \in Mappings, WriteMapping(c, m)
      PROVE  Confirmable(job.status)
  BY <1>3, WritesConfirmed
<1>4. ASSUME NEW w \in Workers, ProcessProceeds(w)
      PROVE  \/ job' = job
             \/ job.status \in {"confirmed", "completed"} /\ At(w, "claim")
             \/ job.status = "processing"
  BY <1>1, <1>2, <1>4 DEF ProcessProceeds, Check, RecordStarted, LoadJob, LoadMappings, RunRaises
<1>5. QED
  BY <1>3, <1>4 DEF JobNext, jobVars, BeginProcess, DatabaseFails, BeginConfirm, ReadStatus,
                    ConfirmRaises, Restart

\* A failed job stays failed: nothing claims, confirms or processes it again.
THEOREM FailedStaysFailed == ConfirmAlone => (JobSpec => FailedIsFinal)
<1>1. JobIInv /\ [JobNext]_jobVars => (job.status = "failed" => job'.status = "failed")
  BY JobWrites DEF Confirmable
<1>2. QED
  BY <1>1, JobInductive, PTL DEF JobSpec, FailedIsFinal

\* A worker that is not at the claim gets there only from a job it may claim.
LEMMA ReachesClaim ==
  ASSUME JobIInv, [JobNext]_jobVars, Finished(job), NEW w \in Workers, ~ At(w, "claim")
  PROVE  ~ At(w, "claim")'
<1>1. JobTypeOK /\ worker \in [Workers -> WorkerStates]
  BY DEF JobIInv, JobTypeOK
<1>2. job.status = "completed"
  BY DEF Finished
<1>3. ASSUME NEW v \in Workers, NEW s \in WorkerStages \ {"claim"}, Goto(v, s)
      PROVE  ~ At(w, "claim")'
  BY <1>1, <1>3, WorkerGoes DEF Goto, At
<1>4. ASSUME NEW v \in Workers, Leave(v)
      PROVE  ~ At(w, "claim")'
  BY <1>1, <1>4, WorkerLeaves DEF At
<1>5. ASSUME NEW v \in Workers, NEW policy \in Policies, BeginProcess(v, policy)
      PROVE  ~ At(w, "claim")'
  BY <1>1, <1>5, WorkerBegins DEF At
<1>6. ASSUME NEW v \in Workers, Check(v) \/ RecordStarted(v) \/ RunRaises(v)
                                \/ DatabaseFails(v)
      PROVE  ~ At(w, "claim")'
  <2>1. {"start", "load", "fail"} \subseteq WorkerStages \ {"claim"}
    BY DEF WorkerStages
  <2>2. QED
    BY <1>3, <1>4, <1>6, <2>1 DEF Check, RecordStarted, RunRaises, DatabaseFails, Strand
<1>7. ASSUME NEW v \in Workers, Claim(v)
      PROVE  ~ At(w, "claim")'
  <2>1. worker' = [worker EXCEPT ![v].stage = "start", ![v].claimed = TRUE]
    BY <1>2, <1>7 DEF Claim, Claimable
  <2>2. QED
    BY <1>1, <2>1, WorkerClaims DEF At
<1>8. ASSUME NEW v \in Workers, LoadJob(v) \/ LoadMappings(v) \/ Preview(v) \/ Persist(v)
                                \/ MarkFailed(v)
      PROVE  FALSE
  BY <1>2, <1>8, HasClaim DEF LoadJob, LoadMappings, Preview, Persist, MarkFailed, At
<1>9. CASE Restart
  BY <1>9, FreeType DEF Restart, At
<1>10. CASE UNCHANGED worker
  BY <1>10 DEF At
<1>11. QED
  BY <1>5, <1>6, <1>7, <1>8, <1>9, <1>10
  DEF JobNext, ProcessProceeds, jobVars, BeginConfirm, ReadStatus, WriteMapping, ConfirmRaises

\* Once an import is completed and no request that checked it before is about to
\* claim it, its row never changes again: every later request is a replay.
THEOREM CompletedStaysReplayed == ConfirmAlone => (JobSpec => CompletedIsReplayed)
<1> DEFINE A == Settled => Settled' /\ job' = job
<1>1. ASSUME JobIInv, [JobNext]_jobVars, Settled
      PROVE  Settled' /\ job' = job
  <2>1. Finished(job) /\ \A w \in Workers : ~ At(w, "claim")
    BY <1>1 DEF Settled
  <2>2. job' = job
    BY <1>1, <2>1, JobWrites DEF Finished, Confirmable
  <2>3. \A w \in Workers : ~ At(w, "claim")'
    BY <1>1, <2>1, ReachesClaim
  <2>4. QED
    BY <2>1, <2>2, <2>3 DEF Settled, Finished
<1>2. JobIInv /\ [JobNext]_jobVars => A
  BY <1>1
<1> HIDE DEF A
<1>3. ConfirmAlone => (JobSpec => [][A]_jobVars)
  BY <1>2, JobInductive, PTL DEF JobSpec
<1>4. QED
  BY <1>3 DEF A, CompletedIsReplayed

-----------------------------------------------------------------------------
(* Processing: ImportJob implements ImportLedger *)

\* A row with one column changed, in the ledger's words.
LEMMA RowWrites ==
  ASSUME NEW j \in Jobs, NEW s, NEW m, NEW r, NEW b
  PROVE  /\ [j EXCEPT !.status = s] = Ledger!Import(s, j.mapping, j.result, j.stamped)
         /\ [j EXCEPT !.mapping = m] = Ledger!Import(j.status, m, j.result, j.stamped)
         /\ [j EXCEPT !.result = r] = Ledger!Import(j.status, j.mapping, r, j.stamped)
         /\ [j EXCEPT !.stamped = b] = Ledger!Import(j.status, j.mapping, j.result, b)
BY DEF Jobs, Ledger!Import

LEMMA ClaimClaims ==
  ASSUME JobIInv, NEW w \in Workers, Claim(w)
  PROVE  Ledger!Claim \/ UNCHANGED Ledger!ledger
<1>1. job \in Jobs /\ UNCHANGED <<written, rows>>
  BY DEF JobIInv, JobTypeOK, Claim
<1>2. CASE Claimable(job.status)
  BY <1>1, <1>2, RowWrites DEF Claim, Claimable, Ledger!Claim
<1>3. CASE ~ Claimable(job.status)
  BY <1>1, <1>3 DEF Claim, Ledger!ledger
<1>4. QED
  BY <1>2, <1>3

\* The claim's holder gives it back with a preview ...
LEMMA PreviewPreviews ==
  ASSUME JobIInv, NEW w \in Workers, Preview(w)
  PROVE  Ledger!Preview
<1> DEFINE s == Emit(job.status, worker[w].seen, "confirmed")
           mid == [job EXCEPT !.result = "preview"]
<1>1. /\ job \in Jobs /\ UNCHANGED <<written, rows>>
      /\ worker[w].stage = "run" /\ job.status = "processing"
  BY HasClaim DEF Preview, At, JobIInv, JobTypeOK
<1>2. s = "confirmed"
  BY <1>1, EmitsStatus
<1>3. job' = [mid EXCEPT !.status = s]
  BY DEF Preview
<1>4. mid = [status |-> job.status, mapping |-> job.mapping, result |-> "preview",
             stamped |-> job.stamped]
  BY <1>1 DEF Jobs
<1> HIDE DEF s, mid
<1>5. job' = [status |-> "confirmed", mapping |-> job.mapping, result |-> "preview",
              stamped |-> job.stamped]
  BY <1>2, <1>3, <1>4
<1>6. QED
  BY <1>1, <1>5 DEF Ledger!Preview, Ledger!Import

\* ... completes it with rows from the job's own mapping ...
LEMMA PersistCompletes ==
  ASSUME JobIInv, NEW w \in Workers, Persist(w)
  PROVE  Ledger!Complete
<1> DEFINE s == Emit(job.status, worker[w].seen, Done)
           one == [job EXCEPT !.result = "final"]
           two == [one EXCEPT !.stamped = TRUE]
<1>1. /\ job \in Jobs /\ written' = written + 1 /\ rows' = worker[w].mapping
      /\ worker[w].stage = "run" /\ job.status = "processing"
  BY HasClaim DEF Persist, At, JobIInv, JobTypeOK
<1>2. s = "completed"
  BY <1>1, EmitsStatus DEF Done
<1>3. rows' = job.mapping
  BY <1>1 DEF JobIInv, WorkerOK
<1>4. job' = [two EXCEPT !.status = s]
  BY DEF Persist
<1>5. one = [status |-> job.status, mapping |-> job.mapping, result |-> "final",
             stamped |-> job.stamped]
  BY <1>1 DEF Jobs
<1>6. two = [status |-> job.status, mapping |-> job.mapping, result |-> "final", stamped |-> TRUE]
  <2>1. one \in Jobs
    BY <1>1 DEF Jobs
  <2> HIDE DEF one
  <2>2. two = Ledger!Import(one.status, one.mapping, one.result, TRUE)
    BY <2>1, RowWrites
  <2>3. QED
    BY <1>5, <2>2 DEF Ledger!Import
<1> HIDE DEF s, one, two
<1>7. job' = [status |-> "completed", mapping |-> job.mapping, result |-> "final", stamped |-> TRUE]
  BY <1>2, <1>4, <1>6
<1>8. QED
  BY <1>1, <1>3, <1>7 DEF Ledger!Complete, Ledger!Import

\* ... or fails it.
LEMMA MarkFailedFails ==
  ASSUME JobIInv, NEW w \in Workers, MarkFailed(w)
  PROVE  Ledger!Fail
<1>1. /\ job \in Jobs /\ UNCHANGED <<written, rows>> /\ job.status = "processing"
      /\ job' = [job EXCEPT !.status = "failed"]
  BY HasClaim DEF MarkFailed, At, JobIInv, JobTypeOK
<1>2. QED
  BY <1>1, RowWrites DEF Ledger!Fail

\* A confirmation maps the job it read.
LEMMA WriteMappingConfirms ==
  ASSUME JobIInv, NEW c \in Confirmers, NEW m \in Mappings, WriteMapping(c, m)
  PROVE  Ledger!Confirm(m)
<1> DEFINE s == Emit(job.status, confirmer[c].seen, "confirmed")
           mid == [job EXCEPT !.mapping = m]
<1>1. /\ job \in Jobs /\ UNCHANGED <<written, rows>> /\ confirmer[c].stage = "write"
      /\ job' = [mid EXCEPT !.status = s]
  BY DEF WriteMapping, JobIInv, JobTypeOK
<1>2. confirmer[c].seen = job.status /\ Confirmable(job.status)
  BY <1>1 DEF JobIInv, ConfirmersAreAlone
<1>3. s = "confirmed" /\ job.status \in {"mapping_required", "confirmed"}
  BY <1>2 DEF Emit, Confirmable
<1>4. mid = [status |-> job.status, mapping |-> m, result |-> job.result, stamped |-> job.stamped]
  BY <1>1 DEF Jobs
<1> HIDE DEF s, mid
<1>5. job' = [status |-> "confirmed", mapping |-> m, result |-> job.result, stamped |-> job.stamped]
  BY <1>1, <1>3, <1>4
<1>6. QED
  BY <1>1, <1>3, <1>5 DEF Ledger!Confirm, Ledger!Import

\* Every step of a request is one operation of the ledger or none.
LEMMA JobLedgerStep ==
  ASSUME JobIInv, [JobNext]_jobVars
  PROVE  [Ledger!Next]_(Ledger!ledger)
<1>1. CASE UNCHANGED <<job, written, rows>>
  BY <1>1 DEF Ledger!ledger
<1>2. ASSUME NEW w \in Workers, ProcessProceeds(w)
      PROVE  [Ledger!Next]_(Ledger!ledger)
  <2>1. CASE Check(w) \/ RecordStarted(w) \/ LoadJob(w) \/ LoadMappings(w) \/ RunRaises(w)
    BY <1>1, <2>1 DEF Check, RecordStarted, LoadJob, LoadMappings, RunRaises
  <2>2. CASE Claim(w) \/ Preview(w) \/ Persist(w) \/ MarkFailed(w)
    BY <2>2, ClaimClaims, PreviewPreviews, PersistCompletes, MarkFailedFails DEF Ledger!Next
  <2>3. QED
    BY <1>2, <2>1, <2>2 DEF ProcessProceeds
<1>3. ASSUME NEW c \in Confirmers, NEW m \in Mappings, WriteMapping(c, m)
      PROVE  Ledger!Next
  BY <1>3, WriteMappingConfirms DEF Ledger!Next
<1>4. QED
  BY <1>1, <1>2, <1>3
     DEF JobNext, jobVars, BeginProcess, DatabaseFails, BeginConfirm, ReadStatus, ConfirmRaises, Restart

\* While no confirmation overlaps another request, the requests of one import implement the
\* ledger, for every number of them: a claim ends once, by its holder; rows are written only under
\* a claim and from the job's own mapping; a failed import stays failed.
THEOREM RequestsImplementImportLedger == ConfirmAlone => (JobSpec => ImplementsImportLedger)
<1>1. JobInit => Ledger!Init
  BY DEF JobInit, Ledger!Init, Ledger!Import
<1>2. JobIInv /\ [JobNext]_jobVars => [Ledger!Next]_(Ledger!ledger)
  BY JobLedgerStep
<1>3. ConfirmAlone => (JobSpec => Ledger!Spec)
  BY <1>1, <1>2, JobInductive, PTL DEF JobSpec, Ledger!Spec
<1>4. QED
  BY <1>3 DEF ImplementsImportLedger
=============================================================================
