------------------------- MODULE InventoryLotsProofs -------------------------
(***************************************************************************)
(* For every number of lots, writers, imports and days: nothing on hand is *)
(* negative and every version covers the movements of its clients, but for *)
(* the lots that a request without a key wrote from what was no longer     *)
(* current; and those hold at worst what the requests without a key that   *)
(* are in flight together can have seen.                                   *)
(***************************************************************************)
EXTENDS InventoryLots, FiniteSetTheorems, TLAPS

\* A lot that nobody opened has no movement of a client, unless a stale write left one.
UnopenedIsUnmoved ==
  \A l \in Lots \ stale : ~ Exists(l) => clients[l] = 0

\* A request that works on a lot found it.
WritersFoundLots == \A w \in Writers : writer[w].at # {} => writer[w].lot.version > 0

IInv ==
  /\ TypeOK /\ WritersFoundLots
  /\ OnHandNeverNegative /\ UnopenedIsUnmoved /\ VersionCoversApiMoves

-----------------------------------------------------------------------------
(* The operators of the model. *)

\* A movement changes the sum of its lot, and a client's is counted.
LEMMA Moved ==
  ASSUME TypeOK, NEW l \in Lots, NEW d \in Days, NEW source \in Sources, NEW delta \in Int,
         Move(l, d, source, delta)
  PROVE  /\ onhand' \in [Lots -> Int] /\ onhand'[l] = onhand[l] + delta
         /\ \A k \in Lots : k # l => onhand'[k] = onhand[k]
         /\ onhand'[l] <= MaxOnHand
         /\ dated' \in [Lots -> SUBSET (Days \X Sources)]
         /\ clients' \in [Lots -> Nat] /\ clients'[l] \in {clients[l], clients[l] + 1}
         /\ \A k \in Lots : k # l => clients'[k] = clients[k]
         /\ source # "api" => clients' = clients
<1>1. onhand' \in [Lots -> Int] /\ onhand'[l] = onhand[l] + delta
      /\ (\A k \in Lots : k # l => onhand'[k] = onhand[k]) /\ onhand'[l] <= MaxOnHand
  BY DEF TypeOK, Move
<1>2. CASE delta = 0
  BY <1>1, <1>2 DEF TypeOK, Move
<1>3. CASE delta # 0
  <2>1. /\ dated' = [dated EXCEPT ![l] = dated[l] \cup {<<d, source>>}]
        /\ clients' = IF source = "api" THEN [clients EXCEPT ![l] = clients[l] + 1] ELSE clients
    BY <1>3 DEF Move
  <2>2. dated[l] \cup {<<d, source>>} \in SUBSET (Days \X Sources)
    BY DEF TypeOK
  <2>3. dated' \in [Lots -> SUBSET (Days \X Sources)]
    BY <2>1, <2>2 DEF TypeOK
  <2>4. QED
    BY <1>1, <2>1, <2>3 DEF TypeOK
<1>4. QED
  BY <1>2, <1>3

\* What a write makes of a row.
LEMMA Rewritten ==
  ASSUME NEW kind \in Kinds, NEW stored \in Row, NEW seen \in Row, NEW d \in Days
  PROVE  /\ Written(kind, stored, seen, d) \in Row
         /\ Written(kind, stored, seen, d).version = seen.version + 1
BY DEF Written, Emit, Row

LEMMA DeltaInt ==
  ASSUME NEW kind, NEW amount \in Int, NEW before \in Int
  PROVE  Delta(kind, amount, before) \in Int
BY DEF Delta

LEMMA AmountsInt ==
  ASSUME NEW kind \in Kinds, NEW amount \in Amounts(kind)
  PROVE  amount \in Int
BY InventoryConstantsOK DEF Amounts, Changes

-----------------------------------------------------------------------------
(* The steps. *)

LEMMA Initially == Init => IInv
<1> SUFFICES ASSUME Init PROVE IInv
  OBVIOUS
<1>1. TypeOK
  BY DEF Init, TypeOK, NoLot, Resting, Row, Kinds
<1>2. \A l \in Lots : ~ Exists(l) /\ onhand[l] = 0 /\ clients[l] = 0
  BY DEF Init, Exists, NoLot
<1>3. WritersFoundLots
  BY DEF Init, WritersFoundLots, Resting
<1>4. QED
  BY <1>1, <1>2, <1>3 DEF IInv, OnHandNeverNegative, UnopenedIsUnmoved, VersionCoversApiMoves

\* A client's line, from a row and a sum that are current unless the lot is marked stale.
LEMMA WriteLineKeeps ==
  ASSUME IInv, NEW kind \in Kinds, NEW l \in Lots, NEW seen \in Row, NEW amount \in Int,
         NEW before \in Int, NEW d \in Days, WriteLine(kind, l, seen, amount, before, d),
         writer' \in [Writers -> [stage : {"idle", "lot", "write"}, kind : Kinds, lot : Row,
                                  at : SUBSET Lots, amount : Int, before : Int]],
         WritersFoundLots', stale' \subseteq Lots, stale \subseteq stale', seen.version > 0,
         l \notin stale' => before = onhand[l] /\ seen.version = lot[l].version
  PROVE  IInv'
<1> DEFINE delta == Delta(kind, amount, before)
<1>1. /\ delta \in Int /\ before + delta >= 0 /\ Move(l, d, "api", delta)
      /\ lot' = [lot EXCEPT ![l] = Written(kind, lot[l], seen, d)]
  BY DeltaInt DEF WriteLine, TargetOK
<1> HIDE DEF delta
<1>2. /\ onhand' \in [Lots -> Int] /\ onhand'[l] = onhand[l] + delta
      /\ \A k \in Lots : k # l => onhand'[k] = onhand[k]
      /\ dated' \in [Lots -> SUBSET (Days \X Sources)]
      /\ clients' \in [Lots -> Nat] /\ clients'[l] \in {clients[l], clients[l] + 1}
      /\ \A k \in Lots : k # l => clients'[k] = clients[k]
  <2>1. "api" \in Sources
    BY DEF Sources
  <2>2. QED
    BY <1>1, <2>1, Moved DEF IInv
<1>3. /\ lot' \in [Lots -> Row] /\ lot'[l].version = seen.version + 1
      /\ \A k \in Lots : k # l => lot'[k] = lot[k]
  <2>1. PICK row : row = Written(kind, lot[l], seen, d)
    OBVIOUS
  <2>r. lot[l] \in Row
    BY DEF IInv, TypeOK
  <2>2. row \in Row /\ row.version = seen.version + 1
    BY <2>1, <2>r, Rewritten
  <2>3. lot' = [lot EXCEPT ![l] = row]
    BY <1>1, <2>1
  <2>4. QED
    BY <2>2, <2>3 DEF IInv, TypeOK
<1>4. seen.version \in Nat /\ lot[l].version \in Nat
  BY DEF IInv, TypeOK, Row
<1>5. TypeOK'
  BY <1>2, <1>3 DEF TypeOK
<1>6. Exists(l)' /\ \A k \in Lots : k # l => (Exists(k)' <=> Exists(k))
  BY <1>3, <1>4 DEF Exists
<1>7. OnHandNeverNegative'
  BY <1>1, <1>2, <1>6 DEF IInv, TypeOK, OnHandNeverNegative
<1>8. UnopenedIsUnmoved'
  BY <1>2, <1>6 DEF IInv, UnopenedIsUnmoved
<1>9. VersionCoversApiMoves'
  <2> SUFFICES ASSUME NEW k \in Lots \ stale', Exists(k)'
               PROVE  clients'[k] < lot'[k].version
    BY DEF VersionCoversApiMoves
  <2>1. CASE k # l
    BY <1>2, <1>3, <1>6, <2>1 DEF IInv, VersionCoversApiMoves
  <2>2. CASE k = l
    <3>1. seen.version = lot[l].version /\ l \notin stale
      BY <2>2
    <3>2. clients[l] < lot[l].version
      BY <2>2, <3>1 DEF IInv, VersionCoversApiMoves, Exists
    <3>3. clients[l] \in Nat
      BY DEF IInv, TypeOK
    <3>4. QED
      BY <1>2, <1>3, <1>4, <2>2, <3>1, <3>2, <3>3
  <2>3. QED
    BY <2>1, <2>2
<1>10. QED
  BY <1>5, <1>7, <1>8, <1>9 DEF IInv

LEMMA KeyedWriteKeeps ==
  ASSUME IInv, NEW kind \in Kinds, NEW l \in Lots, NEW amount \in Amounts(kind), NEW d \in Days,
         KeyedWrite(kind, l, amount, d)
  PROVE  IInv'
<1>1. lot[l] \in Row /\ onhand[l] \in Int /\ amount \in Int
  BY AmountsInt DEF IInv, TypeOK
<1>2. writer' = writer /\ WritersFoundLots'
  BY DEF KeyedWrite, IInv, WritersFoundLots
<1>3. QED
  BY <1>1, <1>2, WriteLineKeeps DEF KeyedWrite, IInv, TypeOK, Exists

\* Reading, and giving up, move only the writer.
LEMMA WriterMoves ==
  ASSUME IInv, UNCHANGED <<ledger, stale>>,
         writer' \in [Writers -> [stage : {"idle", "lot", "write"}, kind : Kinds, lot : Row,
                                  at : SUBSET Lots, amount : Int, before : Int]],
         WritersFoundLots'
  PROVE  IInv'
<1>1. TypeOK'
  BY DEF IInv, TypeOK, ledger
<1>2. /\ lot' = lot /\ onhand' = onhand /\ clients' = clients /\ stale' = stale
      /\ \A l \in Lots : Exists(l)' <=> Exists(l)
  BY DEF Exists, ledger
<1>3. QED
  BY <1>1, <1>2 DEF IInv, OnHandNeverNegative, UnopenedIsUnmoved, VersionCoversApiMoves

LEMMA ReadLotKeeps ==
  ASSUME IInv, NEW w \in Writers, NEW kind \in Kinds, NEW l \in Lots, NEW amount \in Amounts(kind),
         ReadLot(w, kind, l, amount)
  PROVE  IInv'
<1>1. lot[l] \in Row /\ amount \in Int
  BY AmountsInt DEF IInv, TypeOK
<1>2. writer' \in [Writers -> [stage : {"idle", "lot", "write"}, kind : Kinds, lot : Row,
                              at : SUBSET Lots, amount : Int, before : Int]]
  BY <1>1 DEF ReadLot, IInv, TypeOK
<1>3. WritersFoundLots'
  BY DEF ReadLot, IInv, TypeOK, WritersFoundLots, Exists
<1>4. QED
  BY <1>2, <1>3, WriterMoves DEF ReadLot

LEMMA ReadSumKeeps ==
  ASSUME IInv, NEW w \in Writers, ReadSum(w)
  PROVE  IInv'
<1>1. PICK l \in writer[w].at : writer' = [writer EXCEPT ![w].stage = "write", ![w].before = onhand[l]]
  BY DEF ReadSum
<1>2. onhand[l] \in Int
  BY DEF IInv, TypeOK
<1>3. writer' \in [Writers -> [stage : {"idle", "lot", "write"}, kind : Kinds, lot : Row,
                              at : SUBSET Lots, amount : Int, before : Int]]
  BY <1>1, <1>2 DEF IInv, TypeOK
<1>4. WritersFoundLots'
  BY <1>1 DEF IInv, TypeOK, WritersFoundLots
<1>5. QED
  BY <1>3, <1>4, WriterMoves DEF ReadSum

LEMMA RestingTyped ==
  ASSUME IInv, NEW w \in Writers, writer' = [writer EXCEPT ![w] = Resting]
  PROVE  /\ writer' \in [Writers -> [stage : {"idle", "lot", "write"}, kind : Kinds, lot : Row,
                                    at : SUBSET Lots, amount : Int, before : Int]]
         /\ WritersFoundLots'
<1>1. /\ Resting \in [stage : {"idle", "lot", "write"}, kind : Kinds, lot : Row,
                      at : SUBSET Lots, amount : Int, before : Int]
      /\ Resting.at = {}
  BY DEF Resting, NoLot, Row, Kinds
<1>2. QED
  BY <1>1 DEF IInv, TypeOK, WritersFoundLots

LEMMA UnkeyedWriteKeeps ==
  ASSUME IInv, NEW w \in Writers, NEW d \in Days, UnkeyedWrite(w, d)
  PROVE  IInv'
<1>1. PICK l \in writer[w].at :
        /\ WriteLine(writer[w].kind, l, writer[w].lot, writer[w].amount, writer[w].before, d)
        /\ stale' = IF writer[w].before = onhand[l] /\ writer[w].lot.version = lot[l].version
                    THEN stale ELSE stale \cup {l}
  BY DEF UnkeyedWrite
<1>2. /\ writer[w].kind \in Kinds /\ writer[w].lot \in Row /\ l \in Lots
      /\ writer[w].amount \in Int /\ writer[w].before \in Int /\ writer[w].lot.version > 0
  BY DEF IInv, TypeOK, WritersFoundLots
<1>3. /\ stale' \subseteq Lots /\ stale \subseteq stale'
      /\ l \notin stale' => writer[w].before = onhand[l] /\ writer[w].lot.version = lot[l].version
  BY <1>1, <1>2 DEF IInv, TypeOK
<1>4. writer' \in [Writers -> [stage : {"idle", "lot", "write"}, kind : Kinds, lot : Row,
                              at : SUBSET Lots, amount : Int, before : Int]] /\ WritersFoundLots'
  BY RestingTyped DEF UnkeyedWrite
<1>5. QED
  BY <1>1, <1>2, <1>3, <1>4, WriteLineKeeps

LEMMA GiveUpKeeps ==
  ASSUME IInv, NEW w \in Writers, GiveUp(w)
  PROVE  IInv'
BY RestingTyped, WriterMoves DEF GiveUp

\* An import's row or received goods: no client's movement, and a sum that is not negative.
LEMMA OthersMoveKeeps ==
  ASSUME IInv, NEW l \in Lots, NEW d \in Days, NEW source \in Sources, source # "api",
         NEW delta \in Int, Move(l, d, source, delta),
         l \notin stale => onhand[l] + delta >= 0,
         NEW row \in Row, lot' = [lot EXCEPT ![l] = row],
         row.version = IF Exists(l) THEN lot[l].version ELSE 1,
         UNCHANGED <<writer, stale>>
  PROVE  IInv'
<1>1. /\ onhand' \in [Lots -> Int] /\ onhand'[l] = onhand[l] + delta
      /\ \A k \in Lots : k # l => onhand'[k] = onhand[k]
      /\ dated' \in [Lots -> SUBSET (Days \X Sources)] /\ clients' = clients
  BY Moved DEF IInv
<1>2. /\ lot' \in [Lots -> Row] /\ lot'[l] = row
      /\ \A k \in Lots : k # l => lot'[k] = lot[k]
  BY DEF IInv, TypeOK
<1>3. lot[l].version \in Nat
  BY DEF IInv, TypeOK, Row
<1>4. TypeOK' /\ WritersFoundLots'
  BY <1>1, <1>2 DEF IInv, TypeOK, WritersFoundLots
<1>5. Exists(l)' /\ \A k \in Lots : k # l => (Exists(k)' <=> Exists(k))
  BY <1>2, <1>3 DEF Exists
<1>6. OnHandNeverNegative'
  BY <1>1, <1>5 DEF IInv, OnHandNeverNegative
<1>7. UnopenedIsUnmoved'
  BY <1>1, <1>5 DEF IInv, UnopenedIsUnmoved
<1>8. VersionCoversApiMoves'
  <2> SUFFICES ASSUME NEW k \in Lots \ stale, Exists(k)'
               PROVE  clients[k] < lot'[k].version
    BY <1>1 DEF VersionCoversApiMoves
  <2>1. CASE Exists(k)
    <3>1. lot'[k].version = lot[k].version
      BY <1>2, <2>1
    <3>2. QED
      BY <2>1, <3>1 DEF IInv, VersionCoversApiMoves
  <2>2. CASE ~ Exists(k)
    <3>1. k = l /\ lot'[k].version = 1
      BY <1>2, <1>5, <2>2
    <3>2. clients[k] = 0
      BY <2>2 DEF IInv, UnopenedIsUnmoved
    <3>3. QED
      BY <3>1, <3>2
  <2>3. QED
    BY <2>1, <2>2
<1>9. QED
  BY <1>4, <1>6, <1>7, <1>8 DEF IInv

LEMMA SnapshotRowKeeps ==
  ASSUME IInv, NEW l \in Lots, NEW i \in Imports, NEW target \in 0 .. MaxQty, NEW d \in Days,
         SnapshotRow(i, l, target, d)
  PROVE  IInv'
<1>1. /\ i \in Sources /\ i # "api" /\ target \in Nat /\ onhand[l] \in Int /\ lot[l] \in Row
      /\ d \in Days \cup {0} /\ UNCHANGED <<writer, stale>>
  BY InventoryConstantsOK DEF Sources, IInv, TypeOK, SnapshotRow
<1>2. CASE Exists(l)
  <2> DEFINE row == [lot[l] EXCEPT !.snapshot = d]
  <2>1. row \in Row /\ row.version = IF Exists(l) THEN lot[l].version ELSE 1
    BY <1>1, <1>2 DEF Row
  <2>2. lot' = [lot EXCEPT ![l] = row] /\ Move(l, d, i, target - onhand[l])
    BY <1>2 DEF SnapshotRow
  <2> HIDE DEF row
  <2>3. target - onhand[l] \in Int /\ onhand[l] + (target - onhand[l]) >= 0
    BY <1>1
  <2>4. QED
    BY <1>1, <1>2, <2>1, <2>2, <2>3, OthersMoveKeeps
<1>3. CASE ~ Exists(l)
  <2> DEFINE row == [version |-> 1, snapshot |-> d]
  <2>1. row \in Row /\ row.version = IF Exists(l) THEN lot[l].version ELSE 1
    BY <1>1, <1>3 DEF Row
  <2>2. lot' = [lot EXCEPT ![l] = row] /\ Move(l, d, i, target)
    BY <1>3 DEF SnapshotRow
  <2> HIDE DEF row
  <2>3. target \in Int /\ (l \notin stale => onhand[l] + target >= 0)
    BY <1>1 DEF IInv, OnHandNeverNegative
  <2>4. QED
    BY <1>1, <1>3, <2>1, <2>2, <2>3, OthersMoveKeeps
<1>4. QED
  BY <1>2, <1>3

LEMMA ReceiveGoodsKeeps ==
  ASSUME IInv, NEW l \in Lots, NEW quantity \in 1 .. MaxQty, NEW d \in Days,
         ReceiveGoods(l, quantity, d)
  PROVE  IInv'
<1> DEFINE v == IF Exists(l) THEN lot[l].version ELSE 1
           row == [lot[l] EXCEPT !.version = v]
<1>1. /\ "purchase_order" \in Sources /\ quantity \in Nat /\ onhand[l] \in Int /\ lot[l] \in Row
      /\ lot[l].version \in Nat /\ UNCHANGED <<writer, stale>>
  BY InventoryConstantsOK DEF Sources, IInv, TypeOK, Row, ReceiveGoods
<1>2. row \in Row /\ row.version = v
  BY <1>1 DEF Row
<1>3. lot' = [lot EXCEPT ![l] = row] /\ Move(l, d, "purchase_order", quantity)
  BY DEF ReceiveGoods
<1> HIDE DEF row
<1>4. quantity \in Int /\ (l \notin stale => onhand[l] + quantity >= 0)
  BY <1>1 DEF IInv, OnHandNeverNegative
<1>5. QED
  BY <1>1, <1>2, <1>3, <1>4, OthersMoveKeeps

LEMMA Inductive ==
  ASSUME IInv, [Next]_vars
  PROVE  IInv'
<1>1. CASE UNCHANGED vars
  BY <1>1, WriterMoves DEF vars, ledger, IInv, TypeOK, WritersFoundLots
<1>2. QED
  BY <1>1, KeyedWriteKeeps, SnapshotRowKeeps, ReceiveGoodsKeeps, ReadLotKeeps, ReadSumKeeps,
     UnkeyedWriteKeeps, GiveUpKeeps DEF Next, Replayed

LEMMA Invariance == Spec => []IInv
BY Initially, Inductive, PTL DEF Spec

\* The variables keep their types.
THEOREM InventoryTyped == Spec => []TypeOK
<1>1. IInv => TypeOK
  BY DEF IInv
<1>2. QED
  BY <1>1, Invariance, PTL

\* A lot holds nothing negative, unless a request without a key wrote it from a stale sum.
THEOREM NothingNegative == Spec => []OnHandNeverNegative
<1>1. IInv => OnHandNeverNegative
  BY DEF IInv
<1>2. QED
  BY <1>1, Invariance, PTL

\* A client that knows a lot's version has seen every movement of a client, with the same exception.
THEOREM VersionsCover == Spec => []VersionCoversApiMoves
<1>1. IInv => VersionCoversApiMoves
  BY DEF IInv
<1>2. QED
  BY <1>1, Invariance, PTL


-----------------------------------------------------------------------------
(* What the missing lock can cost. *)

\* A request without a key that saw something on hand of lot l may still take it; the others have
\* cleared the lot: they took what they saw, or saw nothing.
Owing(l) == {w \in Writers : writer[w].stage = "write" /\ l \in writer[w].at /\ writer[w].before > 0}
Cleared(l) == Writers \ Owing(l)

Allowed(n) == n * MaxOnHand

\* A request works on one lot; nothing on hand, and nothing a request saw of it, is above the bound;
\* and a lot is overdrawn by what the requests that cleared it may have taken.
OneLot == \A w \in Writers : \A k, l \in writer[w].at : k = l
HeldBounded == \A l \in Lots : onhand[l] <= MaxOnHand
SeenBounded == \A w \in Writers : writer[w].before <= MaxOnHand
Covered(l) == onhand[l] >= -Allowed(Cardinality(Cleared(l)))
DebtCleared == \A l \in Lots : Covered(l)

DInv == OneLot /\ HeldBounded /\ SeenBounded /\ DebtCleared

LEMMA AllowedNat ==
  ASSUME NEW n \in Nat
  PROVE  Allowed(n) \in Nat /\ Allowed(n + 1) = Allowed(n) + MaxOnHand
BY InventoryConstantsOK DEF Allowed

\* The more requests cleared a lot, the more it may be overdrawn.
LEMMA AllowedGrows ==
  ASSUME NEW A \in SUBSET Writers, NEW B \in SUBSET Writers, A \subseteq B
  PROVE  /\ Allowed(Cardinality(A)) \in Nat /\ Allowed(Cardinality(B)) \in Nat
         /\ Allowed(Cardinality(A)) <= Allowed(Cardinality(B))
<1>1. IsFiniteSet(A) /\ IsFiniteSet(B)
  BY FS_Subset, InventoryConstantsOK
<1>2. Cardinality(A) \in Nat /\ Cardinality(B) \in Nat /\ Cardinality(A) <= Cardinality(B)
  BY <1>1, FS_CardinalityType, FS_Subset
<1>3. PICK m, n : m = Cardinality(A) /\ n = Cardinality(B)
  OBVIOUS
<1>4. m * MaxOnHand <= n * MaxOnHand /\ m * MaxOnHand \in Nat /\ n * MaxOnHand \in Nat
  BY <1>2, <1>3, InventoryConstantsOK
<1>5. QED
  BY <1>3, <1>4 DEF Allowed

\* One more request cleared it.
LEMMA AllowedOneMore ==
  ASSUME NEW A \in SUBSET Writers, NEW w \in Writers \ A
  PROVE  Allowed(Cardinality(A \cup {w})) = Allowed(Cardinality(A)) + MaxOnHand
<1>1. IsFiniteSet(A)
  BY FS_Subset, InventoryConstantsOK
<1>2. Cardinality(A) \in Nat /\ Cardinality(A \cup {w}) = Cardinality(A) + 1
  BY <1>1, FS_CardinalityType, FS_AddElement
<1>3. QED
  BY <1>2, AllowedNat

\* A lot that is not taken from, or left with something, by a step that lets no request see more.
LEMMA DebtStays ==
  ASSUME TypeOK, TypeOK', DebtCleared, NEW l \in Lots, Owing(l)' \subseteq Owing(l),
         onhand'[l] >= onhand[l] \/ onhand'[l] >= 0
  PROVE  Covered(l)'
<1>1. Cleared(l) \subseteq Cleared(l)' /\ Cleared(l) \in SUBSET Writers /\ Cleared(l)' \in SUBSET Writers
  BY DEF Cleared
<1>2. /\ Allowed(Cardinality(Cleared(l))) \in Nat /\ Allowed(Cardinality(Cleared(l)')) \in Nat
      /\ Allowed(Cardinality(Cleared(l))) <= Allowed(Cardinality(Cleared(l)'))
  BY <1>1, AllowedGrows
<1>3. onhand[l] >= -Allowed(Cardinality(Cleared(l))) /\ onhand[l] \in Int /\ onhand'[l] \in Int
  BY DEF DebtCleared, Covered, TypeOK
<1>4. PICK a, b : a = Allowed(Cardinality(Cleared(l))) /\ b = Allowed(Cardinality(Cleared(l)'))
  OBVIOUS
<1>5. onhand'[l] >= -b
  BY <1>2, <1>3, <1>4
<1>6. QED
  BY <1>4, <1>5 DEF Covered

\* A request that writes a lot takes no more than it saw there, and has cleared the lot.
LEMMA UnkeyedDebt ==
  ASSUME IInv, IInv', DInv, NEW w \in Writers, NEW d \in Days, UnkeyedWrite(w, d)
  PROVE  DInv'
<1>1. PICK l \in writer[w].at :
        WriteLine(writer[w].kind, l, writer[w].lot, writer[w].amount, writer[w].before, d)
  BY DEF UnkeyedWrite
<1> DEFINE before == writer[w].before
           delta == Delta(writer[w].kind, writer[w].amount, before)
<1>2. /\ l \in Lots /\ before \in Int /\ delta \in Int /\ before <= MaxOnHand /\ before + delta >= 0
      /\ Move(l, d, "api", delta) /\ "api" \in Sources
  BY <1>1, DeltaInt DEF IInv, TypeOK, DInv, SeenBounded, WriteLine, TargetOK, Sources
<1>3. /\ writer[w].stage = "write" /\ writer' = [writer EXCEPT ![w] = Resting]
      /\ Resting.at = {} /\ Resting.before = 0 /\ Resting.stage = "idle"
  BY DEF UnkeyedWrite, Resting
<1> HIDE DEF delta
<1>4. /\ onhand' \in [Lots -> Int] /\ onhand'[l] = onhand[l] + delta /\ onhand'[l] <= MaxOnHand
      /\ \A k \in Lots : k # l => onhand'[k] = onhand[k]
  BY <1>2, Moved DEF IInv
<1>5. OneLot' /\ SeenBounded'
  BY <1>3, InventoryConstantsOK DEF DInv, OneLot, SeenBounded, IInv, TypeOK
<1>6. HeldBounded'
  BY <1>4 DEF DInv, HeldBounded
<1>7. \A k \in Lots : Owing(k)' = Owing(k) \ {w}
  BY <1>3 DEF Owing, IInv, TypeOK
<1>8. ASSUME NEW k \in Lots
      PROVE  Covered(k)'
  <2>1. CASE k # l \/ w \notin Owing(l)
    <3>1. k = l => ~ before > 0
      BY <1>1, <1>3, <2>1 DEF Owing
    <3>2. k = l => onhand'[k] >= onhand[k]
      BY <1>2, <1>4, <3>1 DEF IInv, TypeOK
    <3>3. k # l => onhand'[k] >= onhand[k]
      BY <1>4 DEF IInv, TypeOK
    <3>4. Owing(k)' \subseteq Owing(k)
      BY <1>7
    <3>5. QED
      BY <3>2, <3>3, <3>4, DebtStays DEF IInv, DInv
  <2>2. CASE k = l /\ w \in Owing(l)
    <3>1. /\ Cleared(l)' = Cleared(l) \cup {w} /\ w \in Writers \ Cleared(l)
          /\ Cleared(l) \in SUBSET Writers
      BY <1>2, <1>7, <2>2 DEF Cleared, Owing
    <3>2. /\ Allowed(Cardinality(Cleared(l)')) = Allowed(Cardinality(Cleared(l))) + MaxOnHand
          /\ Allowed(Cardinality(Cleared(l))) \in Nat
      BY <3>1, AllowedOneMore, AllowedGrows
    <3>3. onhand[l] >= -Allowed(Cardinality(Cleared(l))) /\ onhand[l] \in Int
      BY <1>2 DEF IInv, TypeOK, DInv, DebtCleared, Covered
    <3>4. PICK a, b : a = Allowed(Cardinality(Cleared(l))) /\ b = Allowed(Cardinality(Cleared(l)'))
      OBVIOUS
    <3>5. onhand'[l] >= -b
      BY <1>2, <1>4, <3>2, <3>3, <3>4, InventoryConstantsOK
    <3>6. QED
      BY <2>2, <3>4, <3>5 DEF Covered
  <2>3. QED
    BY <2>1, <2>2
<1>9. QED
  BY <1>5, <1>6, <1>8 DEF DInv, DebtCleared

\* Writes under the lock leave their lot with something, or with more than there was.
LEMMA LockedDebt ==
  ASSUME IInv, IInv', DInv, NEW l \in Lots, NEW d \in Days, NEW source \in Sources, NEW delta \in Int,
         Move(l, d, source, delta), onhand[l] + delta >= 0 \/ delta >= 0, writer' = writer
  PROVE  DInv'
<1>1. /\ onhand' \in [Lots -> Int] /\ onhand'[l] = onhand[l] + delta /\ onhand'[l] <= MaxOnHand
      /\ \A k \in Lots : k # l => onhand'[k] = onhand[k]
  BY Moved DEF IInv
<1>2. OneLot' /\ SeenBounded' /\ \A k \in Lots : Owing(k)' \subseteq Owing(k)
  BY DEF DInv, OneLot, SeenBounded, Owing
<1>3. HeldBounded'
  BY <1>1 DEF DInv, HeldBounded
<1>4. \A k \in Lots : onhand'[k] >= onhand[k] \/ onhand'[k] >= 0
  BY <1>1 DEF IInv, TypeOK
<1>5. \A k \in Lots : Covered(k)'
  BY <1>2, <1>4, DebtStays DEF IInv, DInv
<1>6. QED
  BY <1>2, <1>3, <1>5 DEF DInv, DebtCleared

\* A request that reads the sum of a lot in which something is may take it: nothing is owed there.
LEMMA ReadSumDebt ==
  ASSUME IInv, IInv', DInv, NEW w \in Writers, ReadSum(w)
  PROVE  DInv'
<1>1. PICK l \in writer[w].at :
        writer' = [writer EXCEPT ![w].stage = "write", ![w].before = onhand[l]]
  BY DEF ReadSum
<1>2. onhand' = onhand /\ l \in Lots /\ onhand[l] \in Int /\ writer[w].stage = "lot"
  BY DEF ReadSum, ledger, IInv, TypeOK
<1>3. OneLot' /\ SeenBounded' /\ HeldBounded'
  BY <1>1, <1>2 DEF DInv, OneLot, SeenBounded, HeldBounded, IInv, TypeOK
<1>4. ASSUME NEW k \in Lots
      PROVE  Covered(k)'
  <2>1. CASE k # l
    <3>1. Owing(k)' \subseteq Owing(k)
      BY <1>1, <1>2, <2>1 DEF Owing, DInv, OneLot, IInv, TypeOK
    <3>2. onhand'[k] >= onhand[k]
      BY <1>2 DEF IInv, TypeOK
    <3>3. QED
      BY <3>1, <3>2, DebtStays DEF IInv, DInv
  <2>2. CASE k = l /\ onhand[l] <= 0
    <3>1. Owing(k)' \subseteq Owing(k)
      BY <1>1, <1>2, <2>2 DEF Owing, IInv, TypeOK
    <3>2. onhand'[k] >= onhand[k]
      BY <1>2 DEF IInv, TypeOK
    <3>3. QED
      BY <3>1, <3>2, DebtStays DEF IInv, DInv
  <2>3. CASE k = l /\ onhand[l] > 0
    <3>1. Cleared(l)' \in SUBSET Writers
      BY DEF Cleared
    <3>2. PICK b : b = Allowed(Cardinality(Cleared(l)'))
      OBVIOUS
    <3>3. b \in Nat
      BY <3>1, <3>2, AllowedGrows
    <3>4. onhand'[k] >= -b
      BY <1>2, <2>3, <3>3
    <3>5. QED
      BY <2>3, <3>2, <3>4 DEF Covered
  <2>4. QED
    BY <1>2, <2>1, <2>2, <2>3
<1>5. QED
  BY <1>3, <1>4 DEF DInv, DebtCleared

\* A request that starts, or gives up, owes nothing.
LEMMA RestingDebt ==
  ASSUME IInv, IInv', DInv, NEW w \in Writers, onhand' = onhand,
         NEW r, r.stage # "write", r.before = 0, \A k, l \in r.at : k = l,
         writer' = [writer EXCEPT ![w] = r]
  PROVE  DInv'
<1>1. OneLot' /\ SeenBounded' /\ HeldBounded' /\ \A k \in Lots : Owing(k)' \subseteq Owing(k)
  BY InventoryConstantsOK DEF DInv, OneLot, SeenBounded, HeldBounded, Owing, IInv, TypeOK
<1>2. \A k \in Lots : Covered(k)'
  BY <1>1, DebtStays DEF IInv, DInv, TypeOK
<1>3. QED
  BY <1>1, <1>2 DEF DInv, DebtCleared

LEMMA DebtInitially == Init => DInv
<1> SUFFICES ASSUME Init PROVE DInv
  OBVIOUS
<1>1. OneLot /\ SeenBounded /\ HeldBounded
  BY InventoryConstantsOK DEF Init, OneLot, SeenBounded, HeldBounded, Resting
<1>2. ASSUME NEW l \in Lots
      PROVE  Covered(l)
  <2>1. Cleared(l) \in SUBSET Writers
    BY DEF Cleared
  <2>2. Allowed(Cardinality(Cleared(l))) \in Nat
    BY <2>1, AllowedGrows
  <2>3. onhand[l] = 0
    BY DEF Init
  <2>4. QED
    BY <2>2, <2>3 DEF Covered
<1>3. QED
  BY <1>1, <1>2 DEF DInv, DebtCleared

LEMMA DebtInductive ==
  ASSUME IInv, DInv, [Next]_vars
  PROVE  DInv'
<1>1. IInv'
  BY Inductive
<1>2. CASE UNCHANGED vars
  <2>1. onhand' = onhand /\ writer' = writer
    BY <1>2 DEF vars, ledger
  <2>2. OneLot' /\ SeenBounded' /\ HeldBounded' /\ \A k \in Lots : Owing(k)' \subseteq Owing(k)
    BY <2>1 DEF DInv, OneLot, SeenBounded, HeldBounded, Owing
  <2>3. \A k \in Lots : Covered(k)'
    BY <1>1, <2>1, <2>2, DebtStays DEF IInv, DInv, TypeOK
  <2>4. QED
    BY <2>2, <2>3 DEF DInv, DebtCleared
<1>3. ASSUME NEW kind \in Kinds, NEW l \in Lots, NEW amount \in Amounts(kind), NEW d \in Days,
             KeyedWrite(kind, l, amount, d)
      PROVE  DInv'
  <2>1. /\ Delta(kind, amount, onhand[l]) \in Int /\ "api" \in Sources
        /\ onhand[l] + Delta(kind, amount, onhand[l]) >= 0
    BY <1>3, AmountsInt, DeltaInt DEF KeyedWrite, WriteLine, TargetOK, IInv, TypeOK, Sources
  <2>2. QED
    BY <1>1, <1>3, <2>1, LockedDebt DEF KeyedWrite, WriteLine
<1>4. ASSUME NEW i \in Imports, NEW l \in Lots, NEW target \in 0 .. MaxQty, NEW d \in Days,
             SnapshotRow(i, l, target, d)
      PROVE  DInv'
  <2>1. PICK delta \in {target, target - onhand[l]} : Move(l, d, i, delta)
    BY <1>4 DEF SnapshotRow
  <2>2. delta \in Int /\ i \in Sources /\ (onhand[l] + delta >= 0 \/ delta >= 0)
    BY InventoryConstantsOK DEF Sources, IInv, TypeOK
  <2>3. QED
    BY <1>1, <1>4, <2>1, <2>2, LockedDebt DEF SnapshotRow
<1>5. ASSUME NEW l \in Lots, NEW quantity \in 1 .. MaxQty, NEW d \in Days, ReceiveGoods(l, quantity, d)
      PROVE  DInv'
  <2>1. quantity \in Int /\ quantity >= 0 /\ "purchase_order" \in Sources
    BY InventoryConstantsOK DEF Sources
  <2>2. QED
    BY <1>1, <1>5, <2>1, LockedDebt DEF ReceiveGoods
<1>6. ASSUME NEW w \in Writers, NEW kind \in Kinds, NEW l \in Lots, NEW amount \in Amounts(kind),
             ReadLot(w, kind, l, amount)
      PROVE  DInv'
  <2> DEFINE r == [stage |-> "lot", kind |-> kind, lot |-> lot[l], at |-> {l}, amount |-> amount,
                   before |-> 0]
  <2>1. r.stage # "write" /\ r.before = 0 /\ \A j, k \in r.at : j = k
    OBVIOUS
  <2>2. writer' = [writer EXCEPT ![w] = r] /\ onhand' = onhand
    BY <1>6 DEF ReadLot, ledger
  <2> HIDE DEF r
  <2>3. QED
    BY <1>1, <2>1, <2>2, RestingDebt
<1>7. ASSUME NEW w \in Writers, GiveUp(w)
      PROVE  DInv'
  <2>1. Resting.stage # "write" /\ Resting.before = 0 /\ \A j, k \in Resting.at : j = k
    BY DEF Resting
  <2>2. writer' = [writer EXCEPT ![w] = Resting] /\ onhand' = onhand
    BY <1>7 DEF GiveUp, ledger
  <2>3. QED
    BY <1>1, <2>1, <2>2, RestingDebt
<1>8. QED
  BY <1>1, <1>2, <1>3, <1>4, <1>5, <1>6, <1>7, ReadSumDebt, UnkeyedDebt DEF Next, Replayed

\* Whatever overlaps, a lot is overdrawn by no more than what the requests without a key that may be
\* in flight together can each have seen of it.
THEOREM OverdraftBounded == Spec => []OverdraftIsBounded
<1>1. DInv /\ IInv => OverdraftIsBounded
  <2> SUFFICES ASSUME DInv, IInv, NEW l \in Lots
               PROVE  onhand[l] >= -(Cardinality(Writers) * MaxOnHand)
    BY DEF OverdraftIsBounded
  <2>1. Cleared(l) \in SUBSET Writers /\ Writers \in SUBSET Writers
    BY DEF Cleared
  <2>2. /\ Allowed(Cardinality(Cleared(l))) \in Nat /\ Allowed(Cardinality(Writers)) \in Nat
        /\ Allowed(Cardinality(Cleared(l))) <= Allowed(Cardinality(Writers))
    BY <2>1, AllowedGrows
  <2>3. onhand[l] >= -Allowed(Cardinality(Cleared(l))) /\ onhand[l] \in Int
    BY DEF IInv, TypeOK, DInv, DebtCleared, Covered
  <2>4. onhand[l] >= -Allowed(Cardinality(Writers))
    BY <2>2, <2>3
  <2>5. QED
    BY <2>4 DEF Allowed
<1>2. Init => IInv /\ DInv
  BY Initially, DebtInitially
<1>3. IInv /\ DInv /\ [Next]_vars => IInv' /\ DInv'
  BY Inductive, DebtInductive
<1>4. QED
  BY <1>1, <1>2, <1>3, PTL DEF Spec
=============================================================================
