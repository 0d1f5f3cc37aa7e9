---------------------------- MODULE InventoryLots ----------------------------
(***************************************************************************)
(* The lots of one ingredient of a store and their ledger of movements:    *)
(* counts and adjustments (CompletionService._inventory_write), snapshots  *)
(* from imports (ImportBusinessPersistenceService._persist_inventory) and  *)
(* goods received into lots (CompletionService.po).                        *)
(*                                                                         *)
(* What is on hand of a lot is the sum of its movements.  A request with   *)
(* an Idempotency-Key registers the key first and so reads under the       *)
(* write lock; one without reads the lot and its sum first and locks only  *)
(* when it writes.  Imports and receipts hold the lock when they get here. *)
(*                                                                         *)
(* Quantities are in the lot's own unit.  A request has one line: the      *)
(* lines after the first are read under the lock the first one took.       *)
(***************************************************************************)
EXTENDS Integers, FiniteSets

CONSTANTS
  Lots,        \* lots that may exist
  Writers,     \* requests without a key that may be in flight together
  Imports,     \* imports with a snapshot of this ingredient
  LastDay,     \* business days are 1 .. LastDay, 0 is no day
  MaxQty,      \* largest quantity anybody counts, adjusts or receives
  MaxOnHand,   \* bound on what a lot holds
  MaxVersion   \* bound on a lot's version

ASSUME InventoryConstantsOK ==
  /\ {"api", "purchase_order"} \cap Imports = {}
  /\ IsFiniteSet(Writers)
  /\ LastDay \in Nat /\ MaxQty \in Nat /\ MaxOnHand \in Nat /\ MaxVersion \in Nat

VARIABLES
  lot,      \* inventory_lots: version (0: no such lot), snapshot_date
  onhand,   \* per lot, the sum of quantity_delta over its movements
  clients,  \* per lot, how many movements the API wrote
  dated,    \* per lot, the days on which a source wrote a movement
  writer,   \* requests without a key: what they loaded
  stale     \* history: the lots that were written from a sum or a row no longer current

ledger == <<lot, onhand, clients, dated>>
vars == <<ledger, writer, stale>>

Days == 1 .. LastDay
Sources == {"api", "purchase_order"} \cup Imports
Kinds == {"count", "adjustment"}
Changes == (-MaxQty .. MaxQty) \ {0}

NoLot == [version |-> 0, snapshot |-> 0]
Resting == [stage |-> "idle", kind |-> "count", lot |-> NoLot, at |-> {}, amount |-> 0, before |-> 0]

\* An UPDATE sets a column only when it differs from what the session loaded.
Emit(stored, loaded, new) == IF new = loaded THEN stored ELSE new

Exists(l) == lot[l].version > 0

Init ==
  /\ lot = [l \in Lots |-> NoLot]
  /\ onhand = [l \in Lots |-> 0]
  /\ clients = [l \in Lots |-> 0]
  /\ dated = [l \in Lots |-> {}]
  /\ writer = [w \in Writers |-> Resting]
  /\ stale = {}

-----------------------------------------------------------------------------
\* The movement of quantity delta, dated d; none is written for zero.
Move(l, d, source, delta) ==
  /\ onhand[l] + delta <= MaxOnHand
  /\ onhand' = [onhand EXCEPT ![l] = @ + delta]
  /\ IF delta = 0
     THEN UNCHANGED <<clients, dated>>
     ELSE /\ dated' = [dated EXCEPT ![l] = @ \cup {<<d, source>>}]
          /\ clients' = IF source = "api" THEN [clients EXCEPT ![l] = @ + 1] ELSE clients

\* The change a line asks for, given the sum it read: a count is a target.
Delta(kind, amount, before) == IF kind = "count" THEN amount - before ELSE amount

\* The check that leaves nothing negative, on the sum that was read.
AnyTarget(kind, amount, before) == TRUE
NoNewDebt(kind, amount, before) == before >= 0 => before + Delta(kind, amount, before) >= 0
TargetOK(kind, amount, before) == before + Delta(kind, amount, before) >= 0

\* The lot's row after a count or an adjustment dated d, from the loaded row.
WrittenSameVersion(kind, stored, seen, d) ==
  [version |-> seen.version,
   snapshot |-> IF kind = "count" THEN Emit(stored.snapshot, seen.snapshot, d)
                ELSE stored.snapshot]
Written(kind, stored, seen, d) ==
  [version |-> seen.version + 1,
   snapshot |-> IF kind = "count" THEN Emit(stored.snapshot, seen.snapshot, d)
                ELSE stored.snapshot]

\* Amounts a client sends.
Amounts(kind) == IF kind = "count" THEN 0 .. MaxQty ELSE Changes

WriteLine(kind, l, seen, amount, before, d) ==
  /\ TargetOK(kind, amount, before)
  /\ seen.version < MaxVersion
  /\ Move(l, d, "api", Delta(kind, amount, before))
  /\ lot' = [lot EXCEPT ![l] = Written(kind, lot[l], seen, d)]

\* A key that was used before is answered from its stored response.
Replayed == (\E l \in Lots : Exists(l)) /\ UNCHANGED vars

\* With a key everything happens under the lock.
KeyedWrite(kind, l, amount, d) ==
  /\ Exists(l)
  /\ WriteLine(kind, l, lot[l], amount, onhand[l], d)
  /\ UNCHANGED <<writer, stale>>

\* Without: load the lot (an adjustment finds the version it expects) ...
ReadLot(w, kind, l, amount) ==
  /\ writer[w].stage = "idle" /\ Exists(l)
  /\ writer' = [writer EXCEPT ![w] = [stage |-> "lot", kind |-> kind, lot |-> lot[l],
                                      at |-> {l}, amount |-> amount, before |-> 0]]
  /\ UNCHANGED <<ledger, stale>>

\* ... then the sum of its movements ...
ReadSum(w) ==
  /\ writer[w].stage = "lot"
  /\ \E l \in writer[w].at :
       writer' = [writer EXCEPT ![w].stage = "write", ![w].before = onhand[l]]
  /\ UNCHANGED <<ledger, stale>>

\* ... then write what follows from them.
UnkeyedWrite(w, d) ==
  /\ writer[w].stage = "write"
  /\ \E l \in writer[w].at :
       /\ WriteLine(writer[w].kind, l, writer[w].lot, writer[w].amount, writer[w].before, d)
       /\ stale' = IF writer[w].before = onhand[l] /\ writer[w].lot.version = lot[l].version
                   THEN stale ELSE stale \cup {l}
  /\ writer' = [writer EXCEPT ![w] = Resting]

\* A refusal, a lock timeout or a crash: nothing is written.
GiveUp(w) ==
  /\ writer[w].stage # "idle"
  /\ writer' = [writer EXCEPT ![w] = Resting]
  /\ UNCHANGED <<ledger, stale>>

\* A later movement of the ingredient makes an older count stale, and a day
\* has one import's movements of a lot.
NothingLaterThan(d) == \A l \in Lots, e \in Days, s \in Sources : <<e, s>> \in dated[l] => e <= d
OnlyImport(l, d, i) == \A j \in Imports \ {i} : <<d, j>> \notin dated[l]

\* A row of import i counted `target' of lot l on day d.  It opens the lot, or
\* corrects its sum; an existing lot keeps its version.  An import may have the
\* lot and day again in another of its sheets, not in the same one.
SnapshotRow(i, l, target, d) ==
  /\ NothingLaterThan(d)
  /\ IF Exists(l)
     THEN /\ OnlyImport(l, d, i)
          /\ Move(l, d, i, target - onhand[l])
          /\ lot' = [lot EXCEPT ![l].snapshot = d]
     ELSE /\ Move(l, d, i, target)
          /\ lot' = [lot EXCEPT ![l] = [version |-> 1, snapshot |-> d]]
  /\ UNCHANGED <<writer, stale>>

\* Goods of a purchase order arrive, in a new lot or in the one with that batch.
ReceiveGoods(l, quantity, d) ==
  /\ Move(l, d, "purchase_order", quantity)
  /\ lot' = [lot EXCEPT ![l].version = IF Exists(l) THEN @ ELSE 1]
  /\ UNCHANGED <<writer, stale>>

Next ==
  \/ \E l \in Lots, d \in Days :
       \/ \E kind \in Kinds : \E amount \in Amounts(kind) : KeyedWrite(kind, l, amount, d)
       \/ \E i \in Imports, target \in 0 .. MaxQty : SnapshotRow(i, l, target, d)
       \/ \E quantity \in 1 .. MaxQty : ReceiveGoods(l, quantity, d)
  \/ Replayed
  \/ \E w \in Writers :
       \/ \E l \in Lots, kind \in Kinds : \E amount \in Amounts(kind) :
            ReadLot(w, kind, l, amount)
       \/ ReadSum(w)
       \/ \E d \in Days : UnkeyedWrite(w, d)
       \/ GiveUp(w)

Spec == Init /\ [][Next]_vars

-----------------------------------------------------------------------------
Row == [version : Nat, snapshot : Days \cup {0}]

TypeOK ==
  /\ lot \in [Lots -> Row]
  /\ onhand \in [Lots -> Int]
  /\ clients \in [Lots -> Nat]
  /\ dated \in [Lots -> SUBSET (Days \X Sources)]
  /\ writer \in [Writers -> [stage : {"idle", "lot", "write"}, kind : Kinds, lot : Row,
                             at : SUBSET Lots, amount : Int, before : Int]]
  /\ stale \subseteq Lots

\* On hand is never negative (completion_service.py:169 refuses `Ton kho sau dieu chinh khong
\* duoc am'), unless a request without a key wrote the lot from a stale sum; and a lot that does
\* not exist has no movements.
OnHandNeverNegative ==
  \A l \in Lots \ stale : onhand[l] >= 0 /\ (~ Exists(l) => onhand[l] = 0)

\* No request, keyed or not, can take a lot below zero.  The code promises it
\* (completion_service.py:169) but keeps it only as above.
NobodyOverdraws == \A l \in Lots : onhand[l] >= 0

\* What the missing lock can cost at most (completion_service.py:159-169): each request without a
\* key that is in flight can overdraw a lot once, by what it saw there, and no count, adjustment or
\* snapshot that starts from a negative sum makes it worse.
OverdraftIsBounded == \A l \in Lots : onhand[l] >= -(Cardinality(Writers) * MaxOnHand)

\* Every movement a client wrote moved the lot's version, so that a client whose expected version
\* is current has seen them all; again unless a request without a key wrote from a stale row.
VersionCoversApiMoves == \A l \in Lots \ stale : Exists(l) => clients[l] < lot[l].version

\* An import's snapshot is the latest physical count of its lot, `including when its quantity did
\* not require a movement' (business_persistence.py:296): an import never sets the lot's
\* snapshot_date back.
SnapshotsAreLatest ==
  [][writer' = writer =>
       \A l \in Lots : lot'[l].version = lot[l].version => lot'[l].snapshot >= lot[l].snapshot]_vars
=============================================================================
