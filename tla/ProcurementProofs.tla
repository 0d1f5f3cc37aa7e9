-------------------------- MODULE ProcurementProofs --------------------------
(***************************************************************************)
(* For every horizon, stock, demand, offer and rule: no order of the lots  *)
(* serves more or wastes less than first expiring first out, an order only *)
(* helps and reaches its target, and more demand never needs fewer packs.  *)
(*                                                                         *)
(* The first parts are about FefoSimulation alone: a projection is         *)
(* unfolded into its rows (ConsumedRows), a row into facts about sums of   *)
(* stocks (RowFacts), and what holds of all days is shown by taking the    *)
(* first day it fails on (DayInduction).  The last parts are about         *)
(* Procurement: every plan is what its case makes it (IInv), and the       *)
(* invariants follow from the facts about projections.                     *)
(***************************************************************************)
EXTENDS Procurement, SumLemmas, WellFoundedInduction

\* Some member of a set of natural numbers is the least.
LEMMA LeastNatural ==
  ASSUME NEW T, T \subseteq Nat, T # {}
  PROVE  \E n \in T : \A m \in T : n <= m
<1>1. PICK n \in T : \A m \in T : ~ (<<m, n>> \in OpToRel(<, Nat))
  BY NatLessThanWellFounded, WFMin
<1>2. \A m \in T : <<m, n>> \in Nat \X Nat
  OBVIOUS
<1>3. \A m \in T : ~ (m < n)
  BY <1>1, <1>2 DEF OpToRel
<1>4. QED
  BY <1>3

\* The recursion of a projection has a solution: row by row.
LEMMA ConsumedRows ==
  ASSUME NEW first, NEW lots, NEW demand
  PROVE  LET r == Consumed(first, lots, demand)
         IN r = [day \in 0 .. LastDay |->
                   IF day = 0 THEN Opening(lots)
                   ELSE Row(first, lots, r[day - 1].stock, day, demand[day])]
<1> DEFINE Defined(g, day) == IF day = 0 THEN Opening(lots)
                              ELSE Row(first, lots, g[day - 1].stock, day, demand[day])
           Upto(g, n) == g = [day \in 0 .. n |-> Defined(g, day)]
           Bad == {n \in 0 .. LastDay : ~ \E g : Upto(g, n)}
<1>0. LastDay \in Nat
  BY LastDayOK
<1>1. Bad = {}
  <2> SUFFICES ASSUME Bad # {} PROVE FALSE
    OBVIOUS
  <2>1. Bad \subseteq Nat
    BY <1>0
  <2>2. PICK n \in Bad : \A m \in Bad : n <= m
    BY <2>1, LeastNatural
  <2>3. n # 0
    <3>1. Upto([day \in 0 .. 0 |-> Opening(lots)], 0)
      OBVIOUS
    <3>2. QED
      BY <3>1
  <2>4. n - 1 \in 0 .. LastDay /\ n \in 0 .. LastDay /\ n - 1 \notin Bad
    BY <1>0, <2>2, <2>3
  <2>5. PICK g : Upto(g, n - 1)
    BY <2>4
  <2> DEFINE h == [day \in 0 .. n |-> IF day = n THEN Defined(g, n) ELSE g[day]]
  <2>6. \A day \in 0 .. n : h[day] = Defined(h, day)
    <3> SUFFICES ASSUME NEW day \in 0 .. n PROVE h[day] = Defined(h, day)
      OBVIOUS
    <3>1. CASE day = 0
      <4>1. h[0] = g[0] /\ g[0] = Opening(lots)
        BY <2>3, <2>4, <2>5
      <4>2. QED
        BY <3>1, <4>1
    <3>2. CASE day # 0 /\ day # n
      <4>1. h[day] = g[day] /\ day - 1 \in 0 .. (n - 1) /\ day \in 0 .. (n - 1)
        BY <2>4, <3>2
      <4>2. h[day - 1] = g[day - 1]
        BY <2>4, <4>1
      <4>3. g[day] = Defined(g, day)
        BY <2>5, <4>1
      <4>4. QED
        BY <4>1, <4>2, <4>3
    <3>3. CASE day = n
      <4>1. h[n - 1] = g[n - 1] /\ h[n] = Defined(g, n)
        BY <2>3, <2>4
      <4>2. QED
        BY <3>3, <4>1
    <3>4. QED
      BY <3>1, <3>2, <3>3
  <2>7. h = [day \in 0 .. n |-> h[day]]
    OBVIOUS
  <2> HIDE DEF h
  <2>8. Upto(h, n)
    BY <2>6, <2>7
  <2>9. QED
    BY <2>2, <2>8
<1>2. \E g : Upto(g, LastDay)
  BY <1>0, <1>1
<1>3. QED
  BY <1>2 DEF Consumed

\* Induction, with the set of what is good in the place of a predicate.
LEMMA DayInduction ==
  ASSUME NEW Good, 0 \in Good, \A d \in Days : d - 1 \in Good => d \in Good
  PROVE  \A d \in 0 .. LastDay : d \in Good
<1> DEFINE Bad == {d \in 0 .. LastDay : d \notin Good}
<1>1. LastDay \in Nat
  BY LastDayOK
<1> SUFFICES ASSUME Bad # {} PROVE FALSE
  OBVIOUS
<1>2. Bad \subseteq Nat
  BY <1>1
<1>3. PICK d \in Bad : \A e \in Bad : d <= e
  BY <1>2, LeastNatural
<1>4. d # 0 /\ d \in Days /\ d - 1 \in 0 .. LastDay /\ d - 1 \notin Bad
  BY <1>1, <1>3 DEF Days
<1>5. QED
  BY <1>3, <1>4

\* The same for the subsets of a finite set, a member at a time.
LEMMA SubsetInduction ==
  ASSUME NEW S, IsFiniteSet(S), NEW Good,
         \A T \in SUBSET S : (\A U \in SUBSET T : U # T => U \in Good) => T \in Good
  PROVE  \A T \in SUBSET S : T \in Good
<1> DEFINE Bad == {T \in SUBSET S : T \notin Good}
<1> SUFFICES ASSUME Bad # {} PROVE FALSE
  OBVIOUS
<1>1. IsWellFoundedOn(StrictSubsetOrdering(S), FiniteSubsetsOf(S))
  BY FS_StrictSubsetOrderingWellFounded
<1>2. Bad \subseteq FiniteSubsetsOf(S)
  BY FS_FiniteSubsetsOfFinite
<1>3. PICK T \in Bad : \A U \in Bad : <<U, T>> \notin StrictSubsetOrdering(S)
  <2>1. Bad # {}
    OBVIOUS
  <2> HIDE DEF Bad
  <2>2. \E T \in Bad : \A U \in Bad : ~ (<<U, T>> \in StrictSubsetOrdering(S))
    BY <1>1, <1>2, <2>1, WFMin
  <2>3. QED
    BY <2>2
<1>4. \A U \in SUBSET T : U # T => U \in Good
  <2> SUFFICES ASSUME NEW U \in SUBSET T, U # T, U \notin Good PROVE FALSE
    OBVIOUS
  <2>1. U \in Bad /\ U \in SUBSET S /\ T \in SUBSET S
    OBVIOUS
  <2>2. <<U, T>> \in StrictSubsetOrdering(S)
    BY <2>1 DEF StrictSubsetOrdering
  <2>3. QED
    BY <1>3, <2>1, <2>2
<1>5. QED
  BY <1>4

\* The part of a sum is no more than the whole.
LEMMA SumPart ==
  ASSUME NEW S, IsFiniteSet(S), NEW f, \A x \in S : f[x] \in Nat, NEW T \in SUBSET S
  PROVE  SumOver(T, f) <= SumOver(S, f)
<1>1. AllCoins(T, f) \in SUBSET AllCoins(S, f)
  BY DEF AllCoins
<1>2. IsFiniteSet(AllCoins(S, f))
  BY AllCoinsFinite
<1>3. QED
  BY <1>1, <1>2, FS_Subset DEF SumOver, AllCoins

\* A sum over two parts that share nothing.
LEMMA SumTwoParts ==
  ASSUME NEW S, IsFiniteSet(S), NEW f, \A x \in S : f[x] \in Nat, NEW T \in SUBSET S
  PROVE  SumOver(S, f) = SumOver(T, f) + SumOver(S \ T, f)
<1>1. AllCoins(S, f) = AllCoins(T, f) \cup AllCoins(S \ T, f)
  BY DEF AllCoins
<1>2. AllCoins(T, f) \cap AllCoins(S \ T, f) = {}
  BY DEF AllCoins, Coins
<1>3. IsFiniteSet(T) /\ IsFiniteSet(S \ T)
  BY FS_Subset
<1>4. IsFiniteSet(AllCoins(T, f)) /\ IsFiniteSet(AllCoins(S \ T, f))
  BY <1>3, AllCoinsFinite
<1>5. Cardinality(AllCoins(S, f))
        = Cardinality(AllCoins(T, f)) + Cardinality(AllCoins(S \ T, f)) - Cardinality({})
  BY <1>1, <1>2, <1>4, FS_Union
<1>6. Cardinality({}) = 0 /\ Cardinality(AllCoins(T, f)) \in Nat
        /\ Cardinality(AllCoins(S \ T, f)) \in Nat
  BY <1>4, FS_EmptySet, FS_CardinalityType
<1>7. QED
  BY <1>5, <1>6 DEF SumOver, AllCoins

-----------------------------------------------------------------------------
\* An order to consume lots in.
Ranked(first, S) ==
  /\ \A k \in S : <<k, k>> \notin first
  /\ \A k, l \in S : k # l => <<k, l>> \in first \/ <<l, k>> \in first
  /\ \A k, l, m \in S : <<k, l>> \in first /\ <<l, m>> \in first => <<k, m>> \in first

\* With every lot, the lots that go before it.
Downward(first, S, D) ==
  /\ D \subseteq S
  /\ \A l \in D, k \in S : <<k, l>> \in first => k \in D

\* Of lots that go before the rest, one goes last, and the others still go before the rest.
LEMMA LastOfLots ==
  ASSUME NEW S, IsFiniteSet(S), NEW first, Ranked(first, S), NEW D \in SUBSET S, D # {}
  PROVE  \E l \in D : \A k \in D \ {l} : <<k, l>> \in first
<1> DEFINE Last(T) == \E l \in T : \A k \in T \ {l} : <<k, l>> \in first
           Good == {T \in SUBSET S : T = {} \/ Last(T)}
<1>1. ASSUME NEW T \in SUBSET S, \A U \in SUBSET T : U # T => U \in Good
      PROVE  T \in Good
  <2>1. CASE T = {}
    BY <2>1
  <2>2. CASE T # {}
    <3>1. PICK a \in T : TRUE
      BY <2>2
    <3>2. T \ {a} \in Good
      BY <1>1
    <3>3. CASE T \ {a} = {}
      BY <3>1, <3>3
    <3>4. CASE T \ {a} # {}
      <4>1. PICK l \in T \ {a} : \A k \in (T \ {a}) \ {l} : <<k, l>> \in first
        BY <3>2, <3>4
      <4>2. CASE <<a, l>> \in first
        BY <4>1, <4>2
      <4>3. CASE <<l, a>> \in first
        BY <4>1, <4>3 DEF Ranked
      <4>4. QED
        BY <4>1, <4>2, <4>3 DEF Ranked
    <3>5. QED
      BY <3>3, <3>4
  <2>3. QED
    BY <2>1, <2>2
<1> HIDE DEF Good
<1>2. D \in Good
  BY <1>1, SubsetInduction
<1>3. QED
  BY <1>2 DEF Good

\* A quantity of a stock.
Held(stock) == \A l \in DOMAIN stock : stock[l] \in Nat

Ahead(first, S, l) == {k \in S : <<k, l>> \in first}

\* What is taken from a lot.
LEMMA TakesLot ==
  ASSUME NEW first, NEW stock, IsFiniteSet(DOMAIN stock), Held(stock), NEW need \in Nat,
         NEW l \in DOMAIN stock
  PROVE  /\ SumOver(Ahead(first, DOMAIN stock, l), stock) \in Nat
         /\ Takes(first, stock, need)[l]
              = Least(stock[l], Greatest(0, need - SumOver(Ahead(first, DOMAIN stock, l), stock)))
         /\ Takes(first, stock, need)[l] \in 0 .. stock[l]
<1> DEFINE ahead == Ahead(first, DOMAIN stock, l)
<1>1. IsFiniteSet(ahead) /\ ahead \subseteq DOMAIN stock
  BY FS_Subset DEF Ahead
<1>2. SumOver(ahead, stock) \in Nat
  BY <1>1, SumNat DEF Held
<1>3. Takes(first, stock, need)[l] = Least(stock[l], Greatest(0, need - SumOver(ahead, stock)))
  BY DEF Takes, Ahead
<1>4. stock[l] \in Nat
  BY DEF Held
<1>5. QED
  BY <1>2, <1>3, <1>4 DEF Least, Greatest

\* What is taken from lots and the lots before them is what is needed, or all there is.
LEMMA TakesGreedily ==
  ASSUME NEW first, NEW stock, IsFiniteSet(DOMAIN stock), Held(stock), NEW need \in Nat,
         Ranked(first, DOMAIN stock), NEW E, Downward(first, DOMAIN stock, E)
  PROVE  SumOver(E, Takes(first, stock, need)) = Least(need, SumOver(E, stock))
<1> DEFINE S == DOMAIN stock
           t == Takes(first, stock, need)
           Good == {D \in SUBSET S : Downward(first, S, D) =>
                                       SumOver(D, t) = Least(need, SumOver(D, stock))}
<1>0. \A x \in S : t[x] \in Nat /\ stock[x] \in Nat
  <2>1. ASSUME NEW x \in S PROVE t[x] \in 0 .. stock[x] /\ stock[x] \in Nat
    BY TakesLot DEF Held
  <2> HIDE DEF t
  <2>2. QED
    BY <2>1
<1>1. ASSUME NEW D \in SUBSET S, \A U \in SUBSET D : U # D => U \in Good
      PROVE  D \in Good
  <2>1. CASE D = {}
    <3>1. SumOver(D, t) = 0 /\ SumOver(D, stock) = 0
      BY <2>1, SumEmpty
    <3>2. QED
      BY <3>1 DEF Least
  <2>2. CASE D # {} /\ Downward(first, S, D)
    <3>1. PICK l \in D : \A k \in D \ {l} : <<k, l>> \in first
      BY <2>2, LastOfLots
    <3> DEFINE B == D \ {l}
    <3>2. Downward(first, S, B)
      BY <2>2, <3>1 DEF Downward, Ranked
    <3>3. B \in Good
      BY <1>1
    <3>4. SumOver(B, t) = Least(need, SumOver(B, stock))
      BY <3>2, <3>3
    <3>5. Ahead(first, S, l) = B
      BY <2>2, <3>1 DEF Downward, Ranked, Ahead
    <3>6. /\ SumOver(B, stock) \in Nat
          /\ t[l] = Least(stock[l], Greatest(0, need - SumOver(B, stock)))
      BY <3>5, TakesLot
    <3>7. IsFiniteSet(D)
      BY FS_Subset
    <3>8. SumOver(D, t) = SumOver(B, t) + t[l]
      BY <1>0, <3>7, SumSplit
    <3>9. SumOver(D, stock) = SumOver(B, stock) + stock[l]
      BY <1>0, <3>7, SumSplit
    <3>10. stock[l] \in Nat
      BY <1>0
    <3> HIDE DEF B, t
    <3>11. SumOver(D, t) = Least(need, SumOver(D, stock))
      BY <3>4, <3>6, <3>8, <3>9, <3>10 DEF Least, Greatest
    <3>12. QED
      BY <3>11
  <2>3. CASE ~ Downward(first, S, D)
    BY <2>3
  <2>4. QED
    BY <2>1, <2>2, <2>3
<1>2. E \in SUBSET S
  BY DEF Downward
<1> HIDE DEF Good
<1>3. E \in Good
  BY <1>1, <1>2, SubsetInduction
<1>4. QED
  BY <1>3 DEF Good

\* A day of a row, step by step: the stock with the day's deliveries, without
\* what has expired, and the shares that came and went.
Arrived(lots, stock, day) ==
  [l \in DOMAIN lots |-> IF lots[l].arrives = day THEN lots[l].quantity ELSE stock[l]]
Fresh(lots, arrived, day) ==
  [l \in DOMAIN lots |-> IF Spoils(lots[l], day) THEN 0 ELSE arrived[l]]
Coming(lots, day) ==
  [l \in DOMAIN lots |-> IF lots[l].arrives = day THEN lots[l].quantity ELSE 0]
Spoilt(lots, arrived, day) ==
  [l \in DOMAIN lots |-> IF Spoils(lots[l], day) THEN arrived[l] ELSE 0]

FreshOf(lots, stock, day) == Fresh(lots, Arrived(lots, stock, day), day)

\* The lots are numbered.
LEMMA LotsFinite ==
  ASSUME NEW lots \in Seq(LotSet)
  PROVE  /\ Len(lots) \in Nat
         /\ DOMAIN lots = 1 .. Len(lots)
         /\ IsFiniteSet(DOMAIN lots)
         /\ DOMAIN lots \subseteq Int
         /\ \A l \in DOMAIN lots : lots[l] \in LotSet
<1>1. Len(lots) \in Nat /\ DOMAIN lots = 1 .. Len(lots)
  OBVIOUS
<1>2. \A l \in DOMAIN lots : lots[l] \in LotSet
  OBVIOUS
<1>3. IsFiniteSet(DOMAIN lots)
  BY <1>1, FS_Interval
<1>4. QED
  BY <1>1, <1>2, <1>3

\* The steps of a day keep the stocks natural and add up.
LEMMA FreshStock ==
  ASSUME NEW lots \in Seq(LotSet), NEW stock \in [DOMAIN lots -> Nat], NEW day
  PROVE  /\ Arrived(lots, stock, day) \in [DOMAIN lots -> Nat]
         /\ FreshOf(lots, stock, day) \in [DOMAIN lots -> Nat]
         /\ Spoilt(lots, Arrived(lots, stock, day), day) \in [DOMAIN lots -> Nat]
         /\ Coming(lots, day) \in [DOMAIN lots -> Nat]
<1> DEFINE a == Arrived(lots, stock, day)
<1>1. \A l \in DOMAIN lots : lots[l].quantity \in Nat
  BY LotsFinite DEF LotSet
<1>2. a \in [DOMAIN lots -> Nat]
  BY <1>1 DEF Arrived
<1>3. Coming(lots, day) \in [DOMAIN lots -> Nat]
  BY <1>1 DEF Coming
<1> HIDE DEF a
<1>4. Fresh(lots, a, day) \in [DOMAIN lots -> Nat]
  BY <1>2 DEF Fresh
<1>5. Spoilt(lots, a, day) \in [DOMAIN lots -> Nat]
  BY <1>2 DEF Spoilt
<1>6. QED
  BY <1>2, <1>3, <1>4, <1>5 DEF FreshOf, a

\* A total of natural numbers.
LEMMA TotalNat ==
  ASSUME NEW lots \in Seq(LotSet), NEW f \in [DOMAIN lots -> Nat]
  PROVE  /\ Total(f) \in Nat
         /\ Total(f) = SumOver(DOMAIN lots, f)
         /\ Held(f)
         /\ \A E \in SUBSET DOMAIN lots : SumOver(E, f) \in Nat
<1>1. DOMAIN f = DOMAIN lots /\ IsFiniteSet(DOMAIN lots)
  BY LotsFinite
<1>2. ASSUME NEW E \in SUBSET DOMAIN lots PROVE SumOver(E, f) \in Nat
  <2>1. IsFiniteSet(E)
    BY <1>1, FS_Subset
  <2>2. QED
    BY <2>1, SumNat
<1>3. QED
  BY <1>1, <1>2 DEF Total, Held

\* What a row reports of a day: what was thrown away, what was short, and what
\* each lot, and the lots that go before some, have left.
RowSound(first, lots, stock, day, need, row, f) ==
  /\ row.stock \in [DOMAIN lots -> Nat]
  /\ row.expired = Total(Arrived(lots, stock, day)) - Total(f)
  /\ row.shortage = Greatest(0, need - Total(f))
  /\ row.ending = Total(row.stock)
  /\ Total(row.stock) = Greatest(0, Total(f) - need)
  /\ \A l \in DOMAIN lots : row.stock[l] <= f[l]
  /\ \A l \in DOMAIN lots : row.stock[l] = Greatest(0, f[l] -
       Greatest(0, need - SumOver(Ahead(first, DOMAIN lots, l), f)))
  /\ \A E \in SUBSET DOMAIN lots : Downward(first, DOMAIN lots, E) =>
       SumOver(E, row.stock) = Greatest(0, SumOver(E, f) - need)

\* A row reports what its day did.
LEMMA RowFacts ==
  ASSUME NEW lots \in Seq(LotSet), NEW first, Ranked(first, DOMAIN lots),
         NEW stock \in [DOMAIN lots -> Nat], NEW day, NEW need \in Nat
  PROVE  RowSound(first, lots, stock, day, need,
                  Row(first, lots, stock, day, need), FreshOf(lots, stock, day))
<1> DEFINE f == FreshOf(lots, stock, day)
           row == Row(first, lots, stock, day, need)
           S == DOMAIN lots
           t == Takes(first, f, need)
           left == [l \in S |-> f[l] - t[l]]
<1>1. f \in [S -> Nat] /\ IsFiniteSet(S) /\ Held(f) /\ DOMAIN f = S
  BY FreshStock, LotsFinite, TotalNat
<1>2. /\ row.stock = left
      /\ row.expired = Total(Arrived(lots, stock, day)) - Total(f)
      /\ row.shortage = need - Total(t)
      /\ row.ending = Total(left)
  BY DEF Row, FreshOf, Fresh, Arrived
<1> HIDE DEF f, row
<1>3. ASSUME NEW l \in S
      PROVE  /\ t[l] \in 0 .. f[l] /\ f[l] \in Nat /\ t[l] \in Nat
             /\ left[l] \in Nat /\ left[l] <= f[l] /\ f[l] = left[l] + t[l]
             /\ left[l] = Greatest(0, f[l] - Greatest(0, need - SumOver(Ahead(first, S, l), f)))
  <2>1. /\ SumOver(Ahead(first, S, l), f) \in Nat
        /\ t[l] = Least(f[l], Greatest(0, need - SumOver(Ahead(first, S, l), f)))
        /\ t[l] \in 0 .. f[l]
    BY <1>1, TakesLot
  <2>2. left[l] = f[l] - t[l] /\ f[l] \in Nat
    BY <1>1
  <2> DEFINE u == SumOver(Ahead(first, S, l), f)
             x == t[l]
             y == f[l]
             z == left[l]
  <2>3. u \in Nat /\ x = Least(y, Greatest(0, need - u)) /\ z = y - x /\ y \in Nat
    BY <2>1, <2>2
  <2> HIDE DEF u, x, y, z
  <2>4. /\ x \in 0 .. y /\ x \in Nat /\ z \in Nat /\ z <= y /\ y = z + x
        /\ z = Greatest(0, y - Greatest(0, need - u))
    BY <2>3 DEF Least, Greatest
  <2>5. QED
    BY <2>3, <2>4 DEF u, x, y, z
<1>4. left \in [S -> Nat] /\ t \in [S -> Nat]
  <2>1. DOMAIN t = S
    BY <1>1 DEF Takes
  <2>2. t = [l \in S |-> t[l]]
    BY <1>1 DEF Takes
  <2>3. QED
    BY <1>3, <2>2
<1> HIDE DEF t, left
<1>5. ASSUME NEW E \in SUBSET S, Downward(first, S, E)
      PROVE  /\ SumOver(E, t) = Least(need, SumOver(E, f))
             /\ SumOver(E, left) = Greatest(0, SumOver(E, f) - need)
  <2>1. SumOver(E, t) = Least(need, SumOver(E, f))
    BY <1>1, <1>5, TakesGreedily DEF t
  <2>2. IsFiniteSet(E)
    BY <1>1, FS_Subset
  <2>3. \A x \in E : left[x] \in Nat /\ t[x] \in Nat /\ f[x] = left[x] + t[x]
    BY <1>3
  <2>4. SumOver(E, f) = SumOver(E, left) + SumOver(E, t)
    BY <2>2, <2>3, SumPlus
  <2>5. SumOver(E, left) \in Nat /\ SumOver(E, f) \in Nat
    BY <1>1, <1>4, TotalNat
  <2>6. QED
    BY <2>1, <2>4, <2>5 DEF Least, Greatest
<1>6. Downward(first, S, S)
  BY DEF Downward
<1>7. SumOver(S, t) = Least(need, SumOver(S, f)) /\ SumOver(S, left) = Greatest(0, SumOver(S, f) - need)
  BY <1>5, <1>6
<1>8. Total(t) = SumOver(S, t) /\ Total(left) = SumOver(S, left) /\ Total(f) = SumOver(S, f) /\ Total(f) \in Nat
  BY <1>1, <1>4, TotalNat
<1>9. need - Total(t) = Greatest(0, need - Total(f)) /\ Total(left) = Greatest(0, Total(f) - need)
  BY <1>7, <1>8 DEF Least, Greatest
<1>10. RowSound(first, lots, stock, day, need, row, f)
  BY <1>2, <1>3, <1>4, <1>5, <1>9 DEF RowSound
<1>11. QED
  BY <1>10 DEF row, f

\* Every lot has a date for FEFO to go by.
LEMMA ShelfOfLot ==
  ASSUME NEW lot \in LotSet
  PROVE  /\ Shelf(lot) \in Int
         /\ lot.tracked => Shelf(lot) = lot.expiry
         /\ ~ lot.tracked => Shelf(lot) = 0
<1>1. lot.expiry \in Int
  BY DEF LotSet
<1>2. CASE lot.tracked
  BY <1>1, <1>2 DEF Shelf
<1>3. CASE ~ lot.tracked
  BY <1>3 DEF Shelf
<1>4. QED
  BY <1>2, <1>3

\* FEFO is an order of the lots, and goes by what expires first.
LEMMA FefoRanks ==
  ASSUME NEW lots \in Seq(LotSet)
  PROVE  /\ Ranked(Fefo(lots), DOMAIN lots)
         /\ \A k, l \in DOMAIN lots :
              /\ Shelf(lots[k]) < Shelf(lots[l]) => <<k, l>> \in Fefo(lots)
              /\ <<k, l>> \in Fefo(lots) => Shelf(lots[k]) <= Shelf(lots[l])
<1> DEFINE S == DOMAIN lots
           x(k) == Shelf(lots[k])
           y(k) == lots[k].received
           Before(k, l) == \/ x(k) < x(l)
                           \/ x(k) = x(l) /\ y(k) < y(l)
                           \/ x(k) = x(l) /\ y(k) = y(l) /\ k < l
<1>1. \A k \in S : k \in Int /\ x(k) \in Int /\ y(k) \in Int
  <2> SUFFICES ASSUME NEW k \in S PROVE k \in Int /\ x(k) \in Int /\ y(k) \in Int
    OBVIOUS
  <2>1. lots[k] \in LotSet /\ k \in Int
    BY LotsFinite
  <2>2. QED
    BY <2>1, ShelfOfLot DEF LotSet
<1>2. \A k, l \in S : <<k, l>> \in Fefo(lots) <=> Before(k, l)
  BY DEF Fefo
<1> HIDE DEF x, y
<1>3. Ranked(Fefo(lots), S)
  <2>1. \A k \in S : ~ Before(k, k)
    BY <1>1
  <2>2. \A k, l \in S : k # l => Before(k, l) \/ Before(l, k)
    BY <1>1
  <2>3. \A k, l, m \in S : Before(k, l) /\ Before(l, m) => Before(k, m)
    BY <1>1
  <2> HIDE DEF Before
  <2>4. QED
    BY <1>2, <2>1, <2>2, <2>3 DEF Ranked
<1>4. \A k, l \in S : /\ x(k) < x(l) => Before(k, l)
                      /\ Before(k, l) => x(k) <= x(l)
  BY <1>1
<1> HIDE DEF Before
<1>5. QED
  BY <1>2, <1>3, <1>4 DEF x

\* The opening stock.
LEMMA OpeningStock ==
  ASSUME NEW lots \in Seq(LotSet)
  PROVE  /\ Opening(lots).stock \in [DOMAIN lots -> Nat]
         /\ Opening(lots).ending = Total(Opening(lots).stock)
         /\ \A l \in DOMAIN lots : Opening(lots).stock[l] =
              IF lots[l].arrives = 0 THEN lots[l].quantity ELSE 0
<1>1. \A l \in DOMAIN lots : lots[l].quantity \in Nat
  BY LotsFinite DEF LotSet
<1>2. QED
  BY <1>1 DEF Opening

\* The rows of a projection follow from one another; a lot that has not
\* arrived is not in stock.
ProjectionSound(first, lots, demand, r) ==
  /\ r[0] = Opening(lots)
  /\ \A d \in Days : r[d] = Row(first, lots, r[d - 1].stock, d, demand[d])
  /\ \A d \in 0 .. LastDay : r[d].stock \in [DOMAIN lots -> Nat]
  /\ \A d \in 0 .. LastDay : r[d].ending = Total(r[d].stock)
  /\ \A d \in 0 .. LastDay : \A l \in DOMAIN lots :
       lots[l].arrives > d => r[d].stock[l] = 0

\* Every projection is sound.
LEMMA Projected ==
  ASSUME NEW lots \in Seq(LotSet), NEW first, Ranked(first, DOMAIN lots),
         NEW demand \in [Days -> Nat]
  PROVE  ProjectionSound(first, lots, demand, Consumed(first, lots, demand))
<1> DEFINE r == Consumed(first, lots, demand)
<1>1. LastDay \in Nat \ {0} /\ Days = 1 .. LastDay
  BY LastDayOK DEF Days
<1>2. r = [day \in 0 .. LastDay |->
             IF day = 0 THEN Opening(lots)
             ELSE Row(first, lots, r[day - 1].stock, day, demand[day])]
  BY ConsumedRows
<1> HIDE DEF r
<1>3. r[0] = Opening(lots)
  BY <1>1, <1>2
<1>4. \A d \in Days : r[d] = Row(first, lots, r[d - 1].stock, d, demand[d])
  BY <1>1, <1>2
<1> DEFINE Sound(d) == /\ r[d].stock \in [DOMAIN lots -> Nat]
                       /\ \A l \in DOMAIN lots : lots[l].arrives > d => r[d].stock[l] = 0
                       /\ r[d].ending = Total(r[d].stock)
           Good == {d \in 0 .. LastDay : Sound(d)}
<1>5. \A l \in DOMAIN lots : lots[l].arrives \in Nat
  BY LotsFinite DEF LotSet
<1>6. Sound(0)
  <2>1. \A l \in DOMAIN lots : lots[l].arrives > 0 => r[0].stock[l] = 0
    BY <1>3, <1>5, OpeningStock
  <2>2. QED
    BY <1>3, <2>1, OpeningStock
<1>7. ASSUME NEW d \in Days, Sound(d - 1)
      PROVE  Sound(d)
  <2> DEFINE s == r[d - 1].stock
             f == FreshOf(lots, s, d)
  <2>0. s \in [DOMAIN lots -> Nat] /\ r[d] = Row(first, lots, s, d, demand[d]) /\ demand[d] \in Nat
    BY <1>4, <1>7
  <2>1. /\ r[d].stock \in [DOMAIN lots -> Nat]
        /\ r[d].ending = Total(r[d].stock)
        /\ \A l \in DOMAIN lots : r[d].stock[l] <= f[l]
    <3>1. RowSound(first, lots, s, d, demand[d], r[d], f)
      BY <2>0, RowFacts
    <3>2. QED
      BY <3>1 DEF RowSound
  <2>2. f \in [DOMAIN lots -> Nat]
    BY <1>7, FreshStock
  <2>3. ASSUME NEW l \in DOMAIN lots, lots[l].arrives > d
        PROVE  r[d].stock[l] = 0
    <3>1. d \in Int /\ d - 1 \in Int /\ lots[l].arrives \in Nat
      BY <1>1, <1>5
    <3>2. s[l] = 0 /\ lots[l].arrives # d
      BY <1>7, <2>3, <3>1
    <3>3. f[l] = 0
      BY <3>2 DEF FreshOf, Fresh, Arrived
    <3>4. r[d].stock[l] \in Nat /\ r[d].stock[l] <= 0
      BY <2>1, <3>3
    <3>5. QED
      BY <3>4
  <2>4. QED
    BY <2>1, <2>3
<1>8. 0 \in Good
  <2> HIDE DEF Sound
  <2>1. QED
    BY <1>1, <1>6
<1>9. \A d \in Days : d - 1 \in Good => d \in Good
  <2> HIDE DEF Sound
  <2>1. QED
    BY <1>1, <1>7
<1>10. \A d \in 0 .. LastDay : d \in Good
  <2> HIDE DEF Good
  <2>1. QED
    BY <1>8, <1>9, DayInduction
<1>11. \A d \in 0 .. LastDay : Sound(d)
  BY <1>10
<1>12. ProjectionSound(first, lots, demand, r)
  BY <1>3, <1>4, <1>11 DEF ProjectionSound
<1>13. QED
  BY <1>12 DEF r

\* A day of a projection: its row in terms of the stock the day before.
DaySound(first, lots, demand, r, d, s, f) ==
  /\ s \in [DOMAIN lots -> Nat]
  /\ f \in [DOMAIN lots -> Nat]
  /\ Total(f) \in Nat /\ Total(s) \in Nat /\ Total(r[d].stock) \in Nat
  /\ r[d].stock \in [DOMAIN lots -> Nat]
  /\ r[d].expired \in Nat
  /\ r[d].expired = Total(Spoilt(lots, Arrived(lots, s, d), d))
  /\ Total(f) = Total(s) + Total(Coming(lots, d)) - r[d].expired
  /\ Total(Coming(lots, d)) \in Nat
  /\ r[d].shortage = Greatest(0, demand[d] - Total(f))
  /\ r[d].shortage \in Nat
  /\ r[d].ending = Total(r[d].stock)
  /\ Total(r[d].stock) = Greatest(0, Total(f) - demand[d])
  /\ RowSound(first, lots, s, d, demand[d], r[d], f)

\* Every day of a projection is.
LEMMA ProjectedDay ==
  ASSUME NEW lots \in Seq(LotSet), NEW first, Ranked(first, DOMAIN lots),
         NEW demand \in [Days -> Nat], NEW r, r = Consumed(first, lots, demand),
         NEW d \in Days
  PROVE  DaySound(first, lots, demand, r, d, r[d - 1].stock, FreshOf(lots, r[d - 1].stock, d))
<1> DEFINE s == r[d - 1].stock
           f == FreshOf(lots, s, d)
           a == Arrived(lots, s, d)
           in == Coming(lots, d)
           out == Spoilt(lots, a, d)
           S == DOMAIN lots
<1>0. ProjectionSound(first, lots, demand, r)
  BY Projected
<1>1. d \in Int /\ d - 1 \in 0 .. LastDay /\ d \in 0 .. LastDay /\ demand[d] \in Nat
  BY LastDayOK DEF Days
<1>2. s \in [S -> Nat] /\ r[d].stock \in [S -> Nat]
  BY <1>0, <1>1 DEF ProjectionSound
<1>3. r[d] = Row(first, lots, s, d, demand[d])
  BY <1>0 DEF ProjectionSound
<1>4. \A l \in S : lots[l].arrives = d => s[l] = 0
  <2>1. \A l \in S : lots[l].arrives > d - 1 => s[l] = 0
    BY <1>0, <1>1 DEF ProjectionSound
  <2>2. \A l \in S : lots[l].arrives \in Nat
    BY LotsFinite DEF LotSet
  <2>3. QED
    BY <1>1, <2>1, <2>2
<1> HIDE DEF s
<1>13. RowSound(first, lots, s, d, demand[d], r[d], f)
  BY <1>1, <1>2, <1>3, RowFacts
<1>5. /\ r[d].expired = Total(a) - Total(f)
      /\ r[d].shortage = Greatest(0, demand[d] - Total(f))
      /\ r[d].ending = Total(r[d].stock)
      /\ Total(r[d].stock) = Greatest(0, Total(f) - demand[d])
  BY <1>13 DEF RowSound
<1>6. a \in [S -> Nat] /\ f \in [S -> Nat] /\ in \in [S -> Nat] /\ out \in [S -> Nat]
  BY <1>2, FreshStock
<1>7. Total(a) = Total(s) + Total(in)
  <2>1. \A l \in S : s[l] \in Nat /\ in[l] \in Nat /\ a[l] = s[l] + in[l]
    <3> SUFFICES ASSUME NEW l \in S PROVE s[l] \in Nat /\ in[l] \in Nat /\ a[l] = s[l] + in[l]
      OBVIOUS
    <3>1. s[l] \in Nat /\ in[l] \in Nat
      BY <1>2, <1>6
    <3>2. CASE lots[l].arrives = d
      <4>1. a[l] = lots[l].quantity /\ in[l] = lots[l].quantity /\ s[l] = 0
        BY <1>4, <3>2 DEF Arrived, Coming
      <4>2. QED
        BY <3>1, <4>1
    <3>3. CASE lots[l].arrives # d
      <4>1. a[l] = s[l] /\ in[l] = 0
        BY <3>3 DEF Arrived, Coming
      <4>2. QED
        BY <3>1, <4>1
    <3>4. QED
      BY <3>2, <3>3
  <2> HIDE DEF a, in
  <2>2. SumOver(S, a) = SumOver(S, s) + SumOver(S, in)
    BY <2>1, LotsFinite, SumPlus
  <2>3. QED
    BY <1>2, <1>6, <2>2, TotalNat
<1>8. Total(a) = Total(f) + Total(out)
  <2>1. \A l \in S : f[l] \in Nat /\ out[l] \in Nat /\ a[l] = f[l] + out[l]
    <3> SUFFICES ASSUME NEW l \in S PROVE f[l] \in Nat /\ out[l] \in Nat /\ a[l] = f[l] + out[l]
      OBVIOUS
    <3>1. f[l] \in Nat /\ out[l] \in Nat /\ a[l] \in Nat
      BY <1>6
    <3> HIDE DEF a
    <3>2. CASE Spoils(lots[l], d)
      <4>1. f[l] = 0 /\ out[l] = a[l]
        BY <3>2 DEF FreshOf, Fresh, Spoilt, a
      <4>2. QED
        BY <3>1, <4>1
    <3>3. CASE ~ Spoils(lots[l], d)
      <4>1. f[l] = a[l] /\ out[l] = 0
        BY <3>3 DEF FreshOf, Fresh, Spoilt, a
      <4>2. QED
        BY <3>1, <4>1
    <3>4. QED
      BY <3>2, <3>3
  <2> HIDE DEF a, out
  <2>2. SumOver(S, a) = SumOver(S, f) + SumOver(S, out)
    BY <2>1, LotsFinite, SumPlus
  <2>3. QED
    BY <1>6, <2>2, TotalNat
<1>9. /\ Total(a) \in Nat /\ Total(f) \in Nat /\ Total(in) \in Nat /\ Total(out) \in Nat
      /\ Total(s) \in Nat /\ Total(r[d].stock) \in Nat
  BY <1>2, <1>6, TotalNat
<1>10. r[d].expired = Total(out) /\ Total(f) = Total(s) + Total(in) - r[d].expired
  BY <1>5, <1>7, <1>8, <1>9
<1>11. r[d].shortage \in Nat
  BY <1>1, <1>5, <1>9 DEF Greatest
<1> HIDE DEF a, in, out, f
<1>12. DaySound(first, lots, demand, r, d, s, f)
  BY <1>2, <1>5, <1>6, <1>9, <1>10, <1>11, <1>13 DEF DaySound, a, in, out
<1>14. QED
  BY <1>12 DEF s, f

-----------------------------------------------------------------------------
\* Sums over the days.
LEMMA SumThrough ==
  ASSUME NEW f, \A e \in Days : f[e] \in Nat, NEW d \in Days
  PROVE  /\ SumOver(1 .. (d - 1), f) \in Nat
         /\ SumOver(1 .. d, f) \in Nat
         /\ SumOver(1 .. d, f) = SumOver(1 .. (d - 1), f) + f[d]
<1>1. d \in Nat /\ d - 1 \in Nat /\ LastDay \in Nat /\ d <= LastDay /\ d >= 1
  BY LastDayOK DEF Days
<1>2. IsFiniteSet(1 .. d) /\ 1 .. d \subseteq Days
  BY <1>1, FS_Interval DEF Days
<1>3. \A e \in 1 .. d : f[e] \in Nat
  BY <1>2
<1>4. (1 .. d) \ {d} = 1 .. (d - 1) /\ d \in 1 .. d
  BY <1>1
<1>5. SumOver((1 .. d) \ {d}, f) \in Nat /\ SumOver(1 .. d, f) = SumOver((1 .. d) \ {d}, f) + f[d]
  BY <1>2, <1>3, <1>4, SumSplit
<1>6. SumOver(1 .. (d - 1), f) \in Nat /\ SumOver(1 .. d, f) = SumOver(1 .. (d - 1), f) + f[d]
  BY <1>4, <1>5, Zenon
<1>7. f[d] \in Nat
  BY <1>3, <1>4
<1>8. QED
  BY <1>6, <1>7

ExpiredThrough(rows, day) == SumOver(1 .. day, [d \in 1 .. day |-> rows[d].expired])

\* The totals of a projection, day by day.
LEMMA TotalsOfRows ==
  ASSUME NEW r, \A e \in Days : r[e].shortage \in Nat /\ r[e].expired \in Nat
  PROVE  /\ ShortageThrough(r, 0) = 0 /\ ExpiredThrough(r, 0) = 0
         /\ \A d \in 0 .. LastDay : ShortageThrough(r, d) \in Nat /\ ExpiredThrough(r, d) \in Nat
         /\ \A d \in Days : /\ ShortageThrough(r, d) = ShortageThrough(r, d - 1) + r[d].shortage
                            /\ ExpiredThrough(r, d) = ExpiredThrough(r, d - 1) + r[d].expired
         /\ \A d \in 0 .. LastDay : ShortageThrough(r, d) <= Shortage(r)
         /\ Shortage(r) = ShortageThrough(r, LastDay) /\ Expired(r) = ExpiredThrough(r, LastDay)
<1> DEFINE f == [e \in Days |-> r[e].shortage]
           g == [e \in Days |-> r[e].expired]
<1>1. LastDay \in Nat \ {0} /\ Days = 1 .. LastDay
  BY LastDayOK DEF Days
<1>2. \A e \in Days : f[e] \in Nat /\ g[e] \in Nat /\ f[e] = r[e].shortage /\ g[e] = r[e].expired
  OBVIOUS
<1>3. ASSUME NEW d \in 0 .. LastDay
      PROVE  /\ ShortageThrough(r, d) = SumOver(1 .. d, f)
             /\ ExpiredThrough(r, d) = SumOver(1 .. d, g)
  <2>1. \A e \in 1 .. d : e \in Days
    BY <1>1
  <2>2. \A e \in 1 .. d : [x \in 1 .. d |-> r[x].shortage][e] = f[e]
    BY <2>1
  <2>3. \A e \in 1 .. d : [x \in 1 .. d |-> r[x].expired][e] = g[e]
    BY <2>1
  <2> HIDE DEF f, g
  <2>4. SumOver(1 .. d, [x \in 1 .. d |-> r[x].shortage]) = SumOver(1 .. d, f)
    BY <2>2, SumSame
  <2>5. SumOver(1 .. d, [x \in 1 .. d |-> r[x].expired]) = SumOver(1 .. d, g)
    BY <2>3, SumSame
  <2>6. QED
    BY <2>4, <2>5 DEF ShortageThrough, ExpiredThrough
<1>4. Expired(r) = SumOver(1 .. LastDay, g)
  BY <1>1 DEF Expired
<1> HIDE DEF f, g
<1>5. SumOver(1 .. 0, f) = 0 /\ SumOver(1 .. 0, g) = 0
  <2>1. 1 .. 0 = {}
    OBVIOUS
  <2>2. QED
    BY <2>1, SumEmpty
<1>6. ASSUME NEW d \in Days
      PROVE  /\ SumOver(1 .. (d - 1), f) \in Nat /\ SumOver(1 .. d, f) \in Nat
             /\ SumOver(1 .. d, f) = SumOver(1 .. (d - 1), f) + f[d]
             /\ SumOver(1 .. (d - 1), g) \in Nat /\ SumOver(1 .. d, g) \in Nat
             /\ SumOver(1 .. d, g) = SumOver(1 .. (d - 1), g) + g[d]
  BY <1>2, SumThrough
<1>7. \A d \in 0 .. LastDay : SumOver(1 .. d, f) \in Nat /\ SumOver(1 .. d, g) \in Nat
  BY <1>1, <1>5, <1>6
<1>8. ASSUME NEW d \in 0 .. LastDay
      PROVE  SumOver(1 .. d, f) <= SumOver(1 .. LastDay, f)
  <2>1. IsFiniteSet(1 .. LastDay) /\ 1 .. d \in SUBSET (1 .. LastDay)
    BY <1>1, FS_Interval
  <2>2. \A e \in 1 .. LastDay : f[e] \in Nat
    BY <1>1, <1>2
  <2>3. QED
    BY <2>1, <2>2, SumPart
<1>9. ShortageThrough(r, 0) = 0 /\ ExpiredThrough(r, 0) = 0
  BY <1>1, <1>3, <1>5
<1>10. \A d \in Days : /\ ShortageThrough(r, d) = ShortageThrough(r, d - 1) + r[d].shortage
                       /\ ExpiredThrough(r, d) = ExpiredThrough(r, d - 1) + r[d].expired
  <2> SUFFICES ASSUME NEW d \in Days
               PROVE  /\ ShortageThrough(r, d) = ShortageThrough(r, d - 1) + r[d].shortage
                      /\ ExpiredThrough(r, d) = ExpiredThrough(r, d - 1) + r[d].expired
    OBVIOUS
  <2>1. d \in 0 .. LastDay /\ d - 1 \in 0 .. LastDay
    BY <1>1
  <2>2. QED
    BY <1>2, <1>3, <1>6, <2>1
<1>11. LastDay \in 0 .. LastDay
  BY <1>1
<1>12. Shortage(r) = ShortageThrough(r, LastDay) /\ Expired(r) = ExpiredThrough(r, LastDay)
  BY <1>3, <1>4, <1>11 DEF Shortage
<1>13. \A d \in 0 .. LastDay : ShortageThrough(r, d) <= Shortage(r)
  BY <1>3, <1>8, <1>11, <1>12
<1>14. \A d \in 0 .. LastDay : ShortageThrough(r, d) \in Nat /\ ExpiredThrough(r, d) \in Nat
  BY <1>3, <1>7
<1>15. QED
  BY <1>9, <1>10, <1>12, <1>13, <1>14

\* Short on no more of any day, short by no more in all.
LEMMA ShortageGrows ==
  ASSUME NEW r, NEW q, \A e \in Days : r[e].shortage \in Nat /\ q[e].shortage \in Nat
                                         /\ r[e].shortage <= q[e].shortage
  PROVE  Shortage(r) <= Shortage(q)
<1>1. IsFiniteSet(1 .. LastDay) /\ Days = 1 .. LastDay
  BY LastDayOK, FS_Interval DEF Days
<1> DEFINE f == [d \in 1 .. LastDay |-> r[d].shortage]
           g == [d \in 1 .. LastDay |-> q[d].shortage]
<1>2. \A e \in 1 .. LastDay : f[e] \in Nat /\ g[e] \in Nat /\ f[e] <= g[e]
  BY <1>1
<1> HIDE DEF f, g
<1>3. SumOver(1 .. LastDay, f) <= SumOver(1 .. LastDay, g)
  BY <1>1, <1>2, SumGrows
<1>4. QED
  BY <1>3 DEF Shortage, ShortageThrough, f, g

-----------------------------------------------------------------------------
\* With more demand on any day, no lot has more left on any day, no day is
\* short by less, and the horizon ends with no more.
THEOREM MoreDemandLeavesLess ==
  ASSUME NEW lots \in Seq(LotSet), NEW first, Ranked(first, DOMAIN lots),
         NEW less \in [Days -> Nat], NEW more \in [Days -> Nat],
         \A d \in Days : less[d] <= more[d],
         NEW r, r = Consumed(first, lots, less), NEW q, q = Consumed(first, lots, more)
  PROVE  /\ Shortage(r) <= Shortage(q)
         /\ Ending(q) <= Ending(r)
<1> DEFINE S == DOMAIN lots
           F(d) == FreshOf(lots, r[d - 1].stock, d)
           G(d) == FreshOf(lots, q[d - 1].stock, d)
           Below(d) == \A l \in S : q[d].stock[l] <= r[d].stock[l]
           Good == {d \in 0 .. LastDay : Below(d)}
<1>1. LastDay \in Nat \ {0} /\ Days = 1 .. LastDay
  BY LastDayOK DEF Days
<1>2. /\ r[0] = Opening(lots)
      /\ \A d \in 0 .. LastDay : r[d].stock \in [S -> Nat] /\ r[d].ending = Total(r[d].stock)
  <2>1. ProjectionSound(first, lots, less, r)
    BY Projected
  <2>2. QED
    BY <2>1 DEF ProjectionSound
<1>12. /\ q[0] = Opening(lots)
       /\ \A d \in 0 .. LastDay : q[d].stock \in [S -> Nat] /\ q[d].ending = Total(q[d].stock)
  <2>1. ProjectionSound(first, lots, more, q)
    BY Projected
  <2>2. QED
    BY <2>1 DEF ProjectionSound
<1>3. IsFiniteSet(S)
  BY LotsFinite
<1>4. ASSUME NEW d \in Days, Below(d - 1)
      PROVE  /\ F(d) \in [S -> Nat] /\ G(d) \in [S -> Nat]
             /\ \A l \in S : G(d)[l] <= F(d)[l]
             /\ \A E \in SUBSET S : SumOver(E, G(d)) <= SumOver(E, F(d))
  <2>1. d - 1 \in 0 .. LastDay
    BY <1>1
  <2>2. F(d) \in [S -> Nat] /\ G(d) \in [S -> Nat]
    BY <1>2, <1>12, <2>1, FreshStock
  <2>3. ASSUME NEW l \in S
        PROVE  G(d)[l] <= F(d)[l]
    <3>1. /\ r[d - 1].stock[l] \in Nat /\ q[d - 1].stock[l] \in Nat
          /\ q[d - 1].stock[l] <= r[d - 1].stock[l] /\ lots[l].quantity \in Nat
      BY <1>2, <1>12, <1>4, <2>1, LotsFinite DEF LotSet
    <3>2. CASE Spoils(lots[l], d)
      <4>1. F(d)[l] = 0 /\ G(d)[l] = 0
        BY <3>2 DEF FreshOf, Fresh
      <4>2. QED
        BY <4>1
    <3>3. CASE ~ Spoils(lots[l], d)
      <4>1. F(d)[l] = IF lots[l].arrives = d THEN lots[l].quantity ELSE r[d - 1].stock[l]
        BY <3>3 DEF FreshOf, Fresh, Arrived
      <4>2. G(d)[l] = IF lots[l].arrives = d THEN lots[l].quantity ELSE q[d - 1].stock[l]
        BY <3>3 DEF FreshOf, Fresh, Arrived
      <4>3. QED
        BY <3>1, <4>1, <4>2
    <3>4. QED
      BY <3>2, <3>3
  <2> HIDE DEF F, G
  <2>4. ASSUME NEW E \in SUBSET S
        PROVE  SumOver(E, G(d)) <= SumOver(E, F(d))
    <3>1. IsFiniteSet(E) /\ \A l \in E : G(d)[l] \in Nat /\ F(d)[l] \in Nat /\ G(d)[l] <= F(d)[l]
      BY <1>3, <2>2, <2>3, FS_Subset
    <3>2. QED
      BY <3>1, SumGrows
  <2>5. QED
    BY <2>2, <2>3, <2>4
<1>5. ASSUME NEW d \in Days, Below(d - 1)
      PROVE  Below(d) /\ r[d].shortage \in Nat /\ q[d].shortage \in Nat
                      /\ r[d].shortage <= q[d].shortage
  <2>1. d - 1 \in 0 .. LastDay /\ less[d] \in Nat /\ more[d] \in Nat /\ less[d] <= more[d]
    BY <1>1
  <2>2. /\ r[d].shortage = Greatest(0, less[d] - Total(F(d)))
        /\ \A l \in S : r[d].stock[l] = Greatest(0, F(d)[l] -
                          Greatest(0, less[d] - SumOver(Ahead(first, S, l), F(d))))
    <3>1. DaySound(first, lots, less, r, d, r[d - 1].stock, F(d))
      BY ProjectedDay
    <3>2. QED
      BY <3>1 DEF DaySound, RowSound
  <2>3. /\ q[d].shortage = Greatest(0, more[d] - Total(G(d)))
        /\ \A l \in S : q[d].stock[l] = Greatest(0, G(d)[l] -
                          Greatest(0, more[d] - SumOver(Ahead(first, S, l), G(d))))
    <3>1. DaySound(first, lots, more, q, d, q[d - 1].stock, G(d))
      BY ProjectedDay
    <3>2. QED
      BY <3>1 DEF DaySound, RowSound
  <2>4. /\ F(d) \in [S -> Nat] /\ G(d) \in [S -> Nat]
        /\ \A l \in S : G(d)[l] <= F(d)[l]
        /\ \A E \in SUBSET S : SumOver(E, G(d)) <= SumOver(E, F(d))
    BY <1>4, <1>5
  <2>5. /\ Total(F(d)) = SumOver(S, F(d)) /\ Total(G(d)) = SumOver(S, G(d))
        /\ \A E \in SUBSET S : SumOver(E, F(d)) \in Nat /\ SumOver(E, G(d)) \in Nat
    BY <2>4, TotalNat
  <2> HIDE DEF F, G, Below
  <2>6. r[d].shortage \in Nat /\ q[d].shortage \in Nat /\ r[d].shortage <= q[d].shortage
    <3>1. /\ Total(F(d)) \in Nat /\ Total(G(d)) \in Nat /\ Total(G(d)) <= Total(F(d))
      BY <2>4, <2>5
    <3>2. QED
      BY <2>1, <2>2, <2>3, <3>1 DEF Greatest
  <2>7. ASSUME NEW l \in S
        PROVE  q[d].stock[l] <= r[d].stock[l]
    <3> DEFINE u == SumOver(Ahead(first, S, l), F(d))
               v == SumOver(Ahead(first, S, l), G(d))
               x == F(d)[l]
               y == G(d)[l]
    <3>1. Ahead(first, S, l) \in SUBSET S
      BY DEF Ahead
    <3>2. u \in Nat /\ v \in Nat /\ v <= u /\ x \in Nat /\ y \in Nat /\ y <= x
      BY <2>4, <2>5, <3>1
    <3>3. /\ r[d].stock[l] = Greatest(0, x - Greatest(0, less[d] - u))
          /\ q[d].stock[l] = Greatest(0, y - Greatest(0, more[d] - v))
      BY <2>2, <2>3
    <3> HIDE DEF u, v, x, y
    <3>4. QED
      BY <2>1, <3>2, <3>3 DEF Greatest
  <2>8. QED
    BY <2>6, <2>7 DEF Below
<1>6. Below(0)
  BY <1>1, <1>2, <1>12
<1>7. \A d \in 0 .. LastDay : Below(d)
  <2> HIDE DEF Below
  <2>1. 0 \in Good /\ \A d \in Days : d - 1 \in Good => d \in Good
    BY <1>1, <1>5, <1>6
  <2> HIDE DEF Good
  <2>2. \A d \in 0 .. LastDay : d \in Good
    BY <2>1, DayInduction
  <2>3. QED
    BY <2>2 DEF Good
<1> HIDE DEF Below
<1>8. \A d \in Days : d - 1 \in 0 .. LastDay
  BY <1>1
<1>9. \A d \in Days : r[d].shortage \in Nat /\ q[d].shortage \in Nat
                        /\ r[d].shortage <= q[d].shortage
  BY <1>5, <1>7, <1>8
<1>10. Shortage(r) <= Shortage(q)
  BY <1>9, ShortageGrows
<1>11. Ending(q) <= Ending(r)
  <2>1. LastDay \in 0 .. LastDay
    BY <1>1
  <2>2. r[LastDay].stock \in [S -> Nat] /\ q[LastDay].stock \in [S -> Nat]
    BY <1>2, <1>12, <2>1
  <2>3. \A l \in S : q[LastDay].stock[l] <= r[LastDay].stock[l]
    BY <1>7, <2>1 DEF Below
  <2>4. SumOver(S, q[LastDay].stock) <= SumOver(S, r[LastDay].stock)
    BY <1>3, <2>2, <2>3, SumGrows
  <2>5. /\ Total(r[LastDay].stock) = SumOver(S, r[LastDay].stock)
        /\ Total(q[LastDay].stock) = SumOver(S, q[LastDay].stock)
    BY <2>2, TotalNat
  <2>6. QED
    BY <1>2, <1>12, <2>1, <2>4, <2>5 DEF Ending
<1>13. QED
  BY <1>10, <1>11

-----------------------------------------------------------------------------
\* A stock with one more delivery, which carries no expiry date.
Added(lots, more, quantity, arrival) ==
  /\ more \in Seq(LotSet)
  /\ Len(more) = Len(lots) + 1
  /\ \A l \in DOMAIN lots : more[l] = lots[l]
  /\ more[Len(lots) + 1] = [quantity |-> quantity, expiry |-> Never, tracked |-> TRUE,
                            arrives |-> arrival, received |-> arrival]

\* The lots with a date: what can spoil within the horizon.
Perishable(lots) == {l \in DOMAIN lots : Shelf(lots[l]) < Never}

\* The lots with the order are the lots and the order.
LEMMA AddedLots ==
  ASSUME NEW lots \in Seq(LotSet), NEW more, NEW quantity \in Nat, NEW arrival \in Nat \ {0},
         Added(lots, more, quantity, arrival)
  PROVE  /\ DOMAIN more = DOMAIN lots \cup {Len(lots) + 1}
         /\ Len(lots) + 1 \notin DOMAIN lots
         /\ more \in Seq(LotSet)
         /\ IsFiniteSet(DOMAIN lots)
<1>1. Len(lots) \in Nat /\ DOMAIN lots = 1 .. Len(lots) /\ IsFiniteSet(DOMAIN lots)
  BY LotsFinite
<1>2. more \in Seq(LotSet) /\ Len(more) = Len(lots) + 1
  BY DEF Added
<1>3. DOMAIN more = 1 .. Len(more)
  BY <1>2, LotsFinite
<1>4. QED
  BY <1>1, <1>2, <1>3

\* The total with the order is the total without it and the order's share.
LEMMA TotalAdded ==
  ASSUME NEW lots \in Seq(LotSet), NEW more, NEW quantity \in Nat, NEW arrival \in Nat \ {0},
         Added(lots, more, quantity, arrival),
         NEW f \in [DOMAIN more -> Nat], NEW g \in [DOMAIN lots -> Nat],
         \A l \in DOMAIN lots : f[l] = g[l]
  PROVE  Total(f) = Total(g) + f[Len(lots) + 1]
<1> DEFINE o == Len(lots) + 1
           S == DOMAIN lots
<1>1. DOMAIN more = S \cup {o} /\ o \notin S /\ IsFiniteSet(S)
  BY AddedLots
<1>2. /\ \A x \in S : g[x] \in Nat /\ g[x] = f[x]
      /\ f[o] \in Nat
  BY <1>1
<1> HIDE DEF o
<1>3. SumOver(S \cup {o}, f) = SumOver(S, g) + f[o]
  BY <1>1, <1>2, SumAdd
<1>4. DOMAIN f = S \cup {o} /\ DOMAIN g = S
  BY <1>1
<1>5. QED
  BY <1>3, <1>4 DEF Total, o

\* A lot with a date is ahead of the order, and has the same lots ahead of it.
LEMMA AheadOfOrder ==
  ASSUME NEW lots \in Seq(LotSet), NEW more, NEW quantity \in Nat, NEW arrival \in Nat \ {0},
         Added(lots, more, quantity, arrival), NEW l \in Perishable(lots)
  PROVE  /\ Ahead(Fefo(more), DOMAIN more, l) = Ahead(Fefo(lots), DOMAIN lots, l)
         /\ Ahead(Fefo(lots), DOMAIN lots, l) \subseteq Perishable(lots)
<1> DEFINE o == Len(lots) + 1
           S == DOMAIN lots
<1>1. DOMAIN more = S \cup {o} /\ o \notin S /\ more \in Seq(LotSet)
  BY AddedLots
<1>2. l \in S /\ Shelf(lots[l]) < Never /\ more[l] = lots[l] /\ \A k \in S : more[k] = lots[k]
  BY DEF Perishable, Added
<1>3. \A k \in S : Shelf(lots[k]) \in Int
  BY LotsFinite, ShelfOfLot
<1>4. Never \in Int /\ Shelf(more[o]) = Never
  BY LastDayOK DEF Never, Added, Shelf
<1>5. \A k \in S : <<k, l>> \in Fefo(more) <=> <<k, l>> \in Fefo(lots)
  BY <1>1, <1>2 DEF Fefo
<1>6. <<o, l>> \notin Fefo(more)
  <2>1. <<o, l>> \in Fefo(more) => Shelf(more[o]) <= Shelf(more[l])
    BY <1>1, <1>2, FefoRanks
  <2>2. QED
    BY <1>2, <1>3, <1>4, <2>1
<1>7. Ahead(Fefo(more), DOMAIN more, l) = Ahead(Fefo(lots), S, l)
  BY <1>1, <1>5, <1>6 DEF Ahead
<1>8. ASSUME NEW k \in Ahead(Fefo(lots), S, l)
      PROVE  k \in Perishable(lots)
  <2>1. k \in S /\ <<k, l>> \in Fefo(lots)
    BY DEF Ahead
  <2>2. Shelf(lots[k]) <= Shelf(lots[l])
    BY <1>2, <2>1, FefoRanks
  <2>3. QED
    BY <1>2, <1>3, <1>4, <2>1, <2>2 DEF Perishable
<1>9. QED
  BY <1>7, <1>8

\* Only a lot with a date spoils.
LEMMA SpoilsPerishable ==
  ASSUME NEW lots \in Seq(LotSet), NEW l \in DOMAIN lots, NEW d \in Days, Spoils(lots[l], d)
  PROVE  l \in Perishable(lots)
<1>1. lots[l] \in LotSet
  BY LotsFinite
<1>2. lots[l].tracked /\ lots[l].expiry < d
  BY DEF Spoils
<1>3. Shelf(lots[l]) = lots[l].expiry /\ Shelf(lots[l]) \in Int
  BY <1>1, <1>2, ShelfOfLot
<1>4. d < Never /\ d \in Int /\ Never \in Int
  BY LastDayOK DEF Days, Never
<1>5. QED
  BY <1>2, <1>3, <1>4 DEF Perishable

\* The days with and without the order, when the order adds `extra' to the stock.
DayAdded(lots, r, w, d, extra) ==
  /\ \A l \in Perishable(lots) : w[d].stock[l] = r[d].stock[l]
  /\ w[d].expired = r[d].expired
  /\ w[d].shortage = Greatest(0, r[d].shortage - extra)
  /\ Total(w[d].stock) = Total(r[d].stock) + Greatest(0, extra - r[d].shortage)

\* A day with and without the order: nothing else expires, the dated lots are
\* left the same, and what the stock is ahead by makes up for what is short.
LEMMA DayWithOrder ==
  ASSUME NEW lots \in Seq(LotSet), NEW more, NEW quantity \in Nat, NEW arrival \in Nat \ {0},
         Added(lots, more, quantity, arrival), NEW demand \in [Days -> Nat],
         NEW r, r = Simulate(lots, demand), NEW w, w = Simulate(more, demand),
         NEW d \in Days,
         \A l \in Perishable(lots) : w[d - 1].stock[l] = r[d - 1].stock[l],
         NEW ahead \in Nat, Total(w[d - 1].stock) = Total(r[d - 1].stock) + ahead
  PROVE  DayAdded(lots, r, w, d, ahead + (IF arrival = d THEN quantity ELSE 0))
<1> DEFINE o == Len(lots) + 1
           S == DOMAIN lots
           s == r[d - 1].stock
           z == w[d - 1].stock
           F == FreshOf(lots, s, d)
           G == FreshOf(more, z, d)
           in == Coming(lots, d)
           inw == Coming(more, d)
           out == Spoilt(lots, Arrived(lots, s, d), d)
           outw == Spoilt(more, Arrived(more, z, d), d)
           P == Perishable(lots)
           late == IF arrival = d THEN quantity ELSE 0
<1>1. DOMAIN more = S \cup {o} /\ o \notin S /\ more \in Seq(LotSet) /\ IsFiniteSet(S)
  BY AddedLots
<1>2. \A l \in S : more[l] = lots[l]
  BY DEF Added
<1>3. /\ more[o].arrives = arrival /\ more[o].quantity = quantity
      /\ more[o].tracked /\ more[o].expiry = Never
  BY DEF Added
<1>4. DaySound(Fefo(lots), lots, demand, r, d, s, F)
  <2>1. Ranked(Fefo(lots), S)
    BY FefoRanks
  <2>2. r = Consumed(Fefo(lots), lots, demand)
    BY DEF Simulate
  <2>3. QED
    BY <2>1, <2>2, ProjectedDay
<1>5. DaySound(Fefo(more), more, demand, w, d, z, G)
  <2>1. Ranked(Fefo(more), DOMAIN more)
    BY <1>1, FefoRanks
  <2>2. w = Consumed(Fefo(more), more, demand)
    BY DEF Simulate
  <2>3. QED
    BY <1>1, <2>1, <2>2, ProjectedDay
<1>6. s \in [S -> Nat] /\ z \in [DOMAIN more -> Nat] /\ \A l \in P : z[l] = s[l]
  BY <1>4, <1>5 DEF DaySound
<1>7. ~ Spoils(more[o], d)
  <2>1. d < Never /\ d \in Int /\ Never \in Int
    BY LastDayOK DEF Days, Never
  <2>2. QED
    BY <1>3, <2>1 DEF Spoils
<1> HIDE DEF s, z
<1>8. \A l \in P : G[l] = F[l] /\ Arrived(more, z, d)[l] = Arrived(lots, s, d)[l]
  <2>1. P \subseteq S
    BY DEF Perishable
  <2>2. \A l \in P : Arrived(more, z, d)[l] = Arrived(lots, s, d)[l]
    BY <1>1, <1>2, <1>6, <2>1 DEF Arrived
  <2>3. QED
    BY <1>1, <1>2, <2>1, <2>2 DEF FreshOf, Fresh
<1>9. Total(outw) = Total(out)
  <2>1. outw \in [DOMAIN more -> Nat] /\ out \in [S -> Nat]
    BY <1>1, <1>6, FreshStock
  <2>2. \A l \in S : outw[l] = out[l]
    <3> SUFFICES ASSUME NEW l \in S PROVE outw[l] = out[l]
      OBVIOUS
    <3>1. CASE Spoils(lots[l], d)
      <4>1. l \in P
        BY <3>1, SpoilsPerishable
      <4>2. QED
        BY <1>1, <1>2, <1>8, <4>1 DEF Spoilt
    <3>2. CASE ~ Spoils(lots[l], d)
      BY <1>1, <1>2, <3>2 DEF Spoilt
    <3>3. QED
      BY <3>1, <3>2
  <2>3. outw[o] = 0
    BY <1>1, <1>7 DEF Spoilt
  <2> HIDE DEF out, outw
  <2>4. Total(outw) = Total(out) + outw[o]
    BY <2>1, <2>2, TotalAdded
  <2>5. Total(out) \in Nat
    BY <2>1, TotalNat
  <2>6. QED
    BY <2>3, <2>4, <2>5
<1>10. Total(inw) = Total(in) + late
  <2>1. inw \in [DOMAIN more -> Nat] /\ in \in [S -> Nat]
    BY <1>1, <1>6, FreshStock
  <2>2. \A l \in S : inw[l] = in[l]
    BY <1>1, <1>2 DEF Coming
  <2>3. inw[o] = late
    BY <1>1, <1>3 DEF Coming
  <2> HIDE DEF in, inw, late
  <2>4. Total(inw) = Total(in) + inw[o]
    BY <2>1, <2>2, TotalAdded
  <2>5. QED
    BY <2>3, <2>4
<1>11. ASSUME NEW l \in P PROVE w[d].stock[l] = r[d].stock[l]
  <2> DEFINE A == Ahead(Fefo(lots), S, l)
  <2>1. Ahead(Fefo(more), DOMAIN more, l) = A /\ A \subseteq P /\ l \in S
    BY AheadOfOrder DEF Perishable
  <2>2. SumOver(A, G) = SumOver(A, F)
    <3>1. \A x \in A : G[x] = F[x]
      BY <1>8, <2>1
    <3> HIDE DEF A, F, G
    <3>2. QED
      BY <3>1, SumSame
  <2>3. r[d].stock[l] = Greatest(0, F[l] - Greatest(0, demand[d] - SumOver(A, F)))
    BY <1>4, <2>1 DEF DaySound, RowSound
  <2>4. w[d].stock[l] = Greatest(0, G[l] - Greatest(0, demand[d] - SumOver(A, G)))
    <3>1. \A k \in DOMAIN more : w[d].stock[k] = Greatest(0, G[k] - Greatest(0, demand[d] -
                                    SumOver(Ahead(Fefo(more), DOMAIN more, k), G)))
      BY <1>5 DEF DaySound, RowSound
    <3>2. QED
      BY <1>1, <2>1, <3>1
  <2>5. G[l] = F[l]
    BY <1>8
  <2>6. QED
    BY <2>2, <2>3, <2>4, <2>5
<1> HIDE DEF P
<1>12. /\ Total(F) \in Nat /\ Total(s) \in Nat /\ r[d].expired = Total(out)
       /\ Total(F) = Total(s) + Total(in) - r[d].expired
       /\ Total(in) \in Nat /\ r[d].expired \in Nat
       /\ r[d].shortage = Greatest(0, demand[d] - Total(F))
       /\ Total(r[d].stock) = Greatest(0, Total(F) - demand[d])
  BY <1>4 DEF DaySound
<1>13. /\ Total(G) \in Nat /\ Total(z) \in Nat /\ w[d].expired = Total(outw)
       /\ Total(G) = Total(z) + Total(inw) - w[d].expired
       /\ Total(inw) \in Nat /\ w[d].expired \in Nat
       /\ w[d].shortage = Greatest(0, demand[d] - Total(G))
       /\ Total(w[d].stock) = Greatest(0, Total(G) - demand[d])
  BY <1>5 DEF DaySound
<1>14. w[d].expired = r[d].expired
  BY <1>9, <1>12, <1>13
<1>15. Total(z) = Total(s) + ahead /\ late \in Nat /\ demand[d] \in Nat
  BY DEF s, z
<1> HIDE DEF F, G, in, inw, out, outw, late
<1>16. Total(G) = Total(F) + (ahead + late)
  BY <1>10, <1>12, <1>13, <1>14, <1>15
<1> DEFINE x == Total(F)
           y == Total(G)
           e == ahead + late
<1>17. x \in Nat /\ y \in Nat /\ e \in Nat /\ y = x + e /\ demand[d] \in Nat
  BY <1>12, <1>13, <1>15, <1>16
<1>18. /\ r[d].shortage = Greatest(0, demand[d] - x) /\ Total(r[d].stock) = Greatest(0, x - demand[d])
       /\ w[d].shortage = Greatest(0, demand[d] - y) /\ Total(w[d].stock) = Greatest(0, y - demand[d])
  BY <1>12, <1>13
<1> HIDE DEF x, y, e
<1>19. /\ w[d].shortage = Greatest(0, r[d].shortage - e)
       /\ Total(w[d].stock) = Total(r[d].stock) + Greatest(0, e - r[d].shortage)
  BY <1>17, <1>18 DEF Greatest
<1>20. QED
  BY <1>11, <1>14, <1>19 DEF e, late, P, DayAdded

\* What an order that brings a quantity on a day does to the rows of a projection.
Helped(r, w, quantity, arrival) ==
  /\ \A d \in Days : w[d].expired = r[d].expired /\ w[d].shortage <= r[d].shortage
  /\ Shortage(r) <= quantity => \A d \in Days : arrival <= d => w[d].shortage = 0
  /\ arrival <= LastDay => Ending(r) + quantity - Shortage(r) <= Ending(w)
  /\ Ending(r) \in Nat /\ Ending(w) \in Nat /\ Shortage(r) \in Nat

\* An order only helps.  Whatever it brings and whenever it arrives, no day
\* expires anything else or is short by more; when it covers what is short
\* without it, no day is short once it has arrived, and the horizon ends with
\* what it brings beyond that.
THEOREM OrderAdds ==
  ASSUME NEW lots \in Seq(LotSet), NEW more, NEW quantity \in Nat, NEW arrival \in Nat \ {0},
         Added(lots, more, quantity, arrival), NEW demand \in [Days -> Nat],
         NEW r, r = Simulate(lots, demand), NEW w, w = Simulate(more, demand)
  PROVE  Helped(r, w, quantity, arrival)
<1> DEFINE o == Len(lots) + 1
           S == DOMAIN lots
           P == Perishable(lots)
           surplus(d) == Total(w[d].stock) - Total(r[d].stock)
           Sound(d) == /\ \A l \in P : w[d].stock[l] = r[d].stock[l]
                       /\ surplus(d) \in Nat
                       /\ arrival <= d => quantity - ShortageThrough(r, d) <= surplus(d)
           Good == {d \in 0 .. LastDay : Sound(d)}
<1>1. LastDay \in Nat \ {0} /\ Days = 1 .. LastDay
  BY LastDayOK DEF Days
<1>2. DOMAIN more = S \cup {o} /\ o \notin S /\ more \in Seq(LotSet)
  BY AddedLots
<1>3. ProjectionSound(Fefo(lots), lots, demand, r)
  BY FefoRanks, Projected DEF Simulate
<1>4. ProjectionSound(Fefo(more), more, demand, w)
  BY <1>2, FefoRanks, Projected DEF Simulate
<1>5. ASSUME NEW d \in 0 .. LastDay
      PROVE  /\ r[d].stock \in [S -> Nat] /\ w[d].stock \in [DOMAIN more -> Nat]
             /\ Total(r[d].stock) \in Nat /\ Total(w[d].stock) \in Nat
             /\ r[d].ending = Total(r[d].stock) /\ w[d].ending = Total(w[d].stock)
  <2>1. /\ r[d].stock \in [S -> Nat] /\ w[d].stock \in [DOMAIN more -> Nat]
        /\ r[d].ending = Total(r[d].stock) /\ w[d].ending = Total(w[d].stock)
    BY <1>3, <1>4 DEF ProjectionSound
  <2>2. QED
    BY <1>2, <2>1, TotalNat
<1>6. ASSUME NEW d \in Days
      PROVE  r[d].shortage \in Nat /\ r[d].expired \in Nat
  <2>1. r = Consumed(Fefo(lots), lots, demand) /\ Ranked(Fefo(lots), S)
    BY FefoRanks DEF Simulate
  <2>2. DaySound(Fefo(lots), lots, demand, r, d, r[d - 1].stock, FreshOf(lots, r[d - 1].stock, d))
    BY <2>1, ProjectedDay
  <2>3. QED
    BY <2>2 DEF DaySound
<1>7. /\ ShortageThrough(r, 0) = 0
      /\ \A d \in 0 .. LastDay : ShortageThrough(r, d) \in Nat /\ ShortageThrough(r, d) <= Shortage(r)
      /\ \A d \in Days : ShortageThrough(r, d) = ShortageThrough(r, d - 1) + r[d].shortage
      /\ Shortage(r) = ShortageThrough(r, LastDay)
  BY <1>6, TotalsOfRows
<1>8. Sound(0)
  <2>1. r[0] = Opening(lots) /\ w[0] = Opening(more)
    BY <1>3, <1>4 DEF ProjectionSound
  <2>2. \A l \in S : w[0].stock[l] = r[0].stock[l]
    <3>1. \A l \in S : more[l] = lots[l] /\ l \in DOMAIN more
      BY <1>2 DEF Added
    <3>2. QED
      BY <1>2, <2>1, <3>1, OpeningStock
  <2>3. w[0].stock[o] = 0
    <3>1. more[o].arrives = arrival /\ o \in DOMAIN more
      BY <1>2 DEF Added
    <3>2. QED
      BY <1>2, <2>1, <3>1, OpeningStock
  <2>4. r[0].stock \in [S -> Nat] /\ w[0].stock \in [DOMAIN more -> Nat] /\ Total(r[0].stock) \in Nat
    BY <1>1, <1>5
  <2>5. Total(w[0].stock) = Total(r[0].stock) + w[0].stock[o]
    BY <2>2, <2>4, TotalAdded
  <2>6. surplus(0) = 0
    BY <2>3, <2>4, <2>5
  <2>7. ~ arrival <= 0
    OBVIOUS
  <2>8. \A l \in P : w[0].stock[l] = r[0].stock[l]
    BY <2>2 DEF Perishable
  <2>9. QED
    BY <2>6, <2>7, <2>8
<1>9. ASSUME NEW d \in Days, Sound(d - 1)
      PROVE  /\ Sound(d)
             /\ w[d].expired = r[d].expired /\ w[d].shortage <= r[d].shortage
             /\ arrival <= d /\ Shortage(r) <= quantity => w[d].shortage = 0
  <2> DEFINE ahead == surplus(d - 1)
             extra == ahead + (IF arrival = d THEN quantity ELSE 0)
             short == r[d].shortage
             before == ShortageThrough(r, d - 1)
             upto == ShortageThrough(r, d)
  <2>1. d \in 0 .. LastDay /\ d - 1 \in 0 .. LastDay /\ d \in Nat
    BY <1>1
  <2>2. \A l \in P : w[d - 1].stock[l] = r[d - 1].stock[l]
    BY <1>9
  <2>3. ahead \in Nat /\ Total(w[d - 1].stock) = Total(r[d - 1].stock) + ahead
    BY <1>5, <1>9, <2>1
  <2>4. arrival <= d - 1 => quantity - before <= ahead
    BY <1>9
  <2>5. /\ Total(r[d].stock) \in Nat /\ Total(w[d].stock) \in Nat
        /\ short \in Nat /\ before \in Nat /\ upto \in Nat /\ upto = before + short
        /\ upto <= Shortage(r) /\ Shortage(r) \in Nat
    <3>1. Total(r[d].stock) \in Nat /\ Total(w[d].stock) \in Nat
      BY <1>5, <2>1
    <3>2. short \in Nat
      BY <1>6
    <3>3. before \in Nat /\ upto \in Nat /\ upto <= Shortage(r)
      BY <1>7, <2>1
    <3>4. upto = before + short
      BY <1>7
    <3>5. Shortage(r) \in Nat
      BY <1>1, <1>7
    <3>6. QED
      BY <3>1, <3>2, <3>3, <3>4, <3>5
  <2> HIDE DEF ahead, P
  <2>6. /\ \A l \in Perishable(lots) : w[d].stock[l] = r[d].stock[l]
        /\ w[d].expired = r[d].expired
        /\ w[d].shortage = Greatest(0, r[d].shortage - extra)
        /\ Total(w[d].stock) = Total(r[d].stock) + Greatest(0, extra - r[d].shortage)
    <3>1. DayAdded(lots, r, w, d, extra)
      BY <2>2, <2>3, DayWithOrder DEF P
    <3> HIDE DEF extra
    <3>2. QED
      BY <3>1 DEF DayAdded
  <2>7. extra \in Nat /\ (arrival <= d => quantity - before <= extra)
    BY <2>1, <2>3, <2>4, <2>5
  <2> HIDE DEF extra, short, before, upto
  <2>8. surplus(d) = Greatest(0, extra - short) /\ w[d].shortage = Greatest(0, short - extra)
    <3>1. w[d].shortage = Greatest(0, short - extra)
      BY <2>6 DEF short
    <3>2. Total(w[d].stock) = Total(r[d].stock) + Greatest(0, extra - short)
      BY <2>6 DEF short
    <3>3. Greatest(0, extra - short) \in Nat
      BY <2>5, <2>7 DEF Greatest
    <3>4. QED
      BY <2>5, <3>1, <3>2, <3>3
  <2> HIDE DEF surplus
  <2>9. surplus(d) \in Nat /\ (arrival <= d => quantity - upto <= surplus(d))
    BY <2>5, <2>7, <2>8 DEF Greatest
  <2>10. w[d].shortage <= short /\ (arrival <= d /\ Shortage(r) <= quantity => w[d].shortage = 0)
    BY <2>5, <2>7, <2>8 DEF Greatest
  <2>11. QED
    BY <2>6, <2>9, <2>10 DEF P, short, upto
<1>10. \A d \in 0 .. LastDay : Sound(d)
  <2> HIDE DEF Sound
  <2>1. 0 \in Good /\ \A d \in Days : d - 1 \in Good => d \in Good
    BY <1>1, <1>8, <1>9
  <2> HIDE DEF Good
  <2>2. \A d \in 0 .. LastDay : d \in Good
    BY <2>1, DayInduction
  <2>3. QED
    BY <2>2 DEF Good
<1>11. ASSUME NEW d \in Days
       PROVE  /\ w[d].expired = r[d].expired /\ w[d].shortage <= r[d].shortage
              /\ arrival <= d /\ Shortage(r) <= quantity => w[d].shortage = 0
  <2> HIDE DEF Sound
  <2>1. Sound(d - 1)
    BY <1>1, <1>10
  <2>2. QED
    BY <1>9, <2>1
<1>12. /\ Ending(r) \in Nat /\ Ending(w) \in Nat /\ Shortage(r) \in Nat
       /\ arrival <= LastDay => Ending(r) + quantity - Shortage(r) <= Ending(w)
  <2>1. LastDay \in 0 .. LastDay
    BY <1>1
  <2>2. /\ Ending(r) = Total(r[LastDay].stock) /\ Ending(w) = Total(w[LastDay].stock)
        /\ Ending(r) \in Nat /\ Ending(w) \in Nat /\ Shortage(r) \in Nat
    BY <1>5, <1>7, <2>1 DEF Ending
  <2>3. arrival <= LastDay => quantity - Shortage(r) <= surplus(LastDay)
    BY <1>7, <1>10, <2>1
  <2>4. QED
    BY <2>2, <2>3
<1>13. QED
  BY <1>11, <1>12 DEF Helped

-----------------------------------------------------------------------------
\* The ingredient's lots are tracked, or none is.
OneTracking(lots) == \A k, l \in DOMAIN lots : lots[k].tracked = lots[l].tracked

\* The last day a lot may be used, and the lots that last until a day.
Lasts(lot) == IF lot.tracked THEN lot.expiry ELSE Never
Lasting(lots, day) == {l \in DOMAIN lots : Lasts(lots[l]) >= day}

\* A lot spoils on the days it does not last until.
LEMMA LastsOfLot ==
  ASSUME NEW lot \in LotSet
  PROVE  /\ Lasts(lot) \in Int
         /\ lot.tracked => Lasts(lot) = Shelf(lot)
         /\ ~ lot.tracked => Lasts(lot) = Never
         /\ \A d \in Days : Spoils(lot, d) <=> Lasts(lot) < d
<1>1. lot.expiry \in Int /\ Never \in Int /\ \A d \in Days : d \in Int /\ ~ Never < d
  BY LastDayOK DEF LotSet, Never, Days
<1>2. CASE lot.tracked
  <2>1. Lasts(lot) = lot.expiry /\ Shelf(lot) = lot.expiry
    BY <1>2 DEF Lasts, Shelf
  <2>2. \A d \in Days : Spoils(lot, d) <=> lot.expiry < d
    BY <1>2 DEF Spoils
  <2>3. QED
    BY <1>1, <1>2, <2>1, <2>2
<1>3. CASE ~ lot.tracked
  <2>1. Lasts(lot) = Never
    BY <1>3 DEF Lasts
  <2>2. \A d \in Days : ~ Spoils(lot, d)
    BY <1>3 DEF Spoils
  <2>3. QED
    BY <1>1, <1>3, <2>1, <2>2
<1>4. QED
  BY <1>2, <1>3

\* FEFO draws on what lasts until a day only after everything else.
LEMMA FefoSavesWhatLasts ==
  ASSUME NEW lots \in Seq(LotSet), OneTracking(lots), NEW x \in Int
  PROVE  Downward(Fefo(lots), DOMAIN lots, DOMAIN lots \ Lasting(lots, x))
<1> SUFFICES ASSUME NEW l \in DOMAIN lots \ Lasting(lots, x), NEW k \in DOMAIN lots,
                    <<k, l>> \in Fefo(lots)
             PROVE  k \notin Lasting(lots, x)
  BY DEF Downward
<1>1. lots[k] \in LotSet /\ lots[l] \in LotSet /\ l \in DOMAIN lots
  BY LotsFinite
<1>2. Shelf(lots[k]) <= Shelf(lots[l])
  BY <1>1, FefoRanks
<1>3. Lasts(lots[k]) \in Int /\ Lasts(lots[l]) \in Int
  BY <1>1, LastsOfLot
<1>4. Lasts(lots[k]) <= Lasts(lots[l])
  <2>1. CASE lots[k].tracked /\ lots[l].tracked
    BY <1>1, <1>2, <2>1, LastsOfLot
  <2>2. CASE ~ lots[k].tracked /\ ~ lots[l].tracked
    <3>1. Lasts(lots[k]) = Never /\ Lasts(lots[l]) = Never
      BY <1>1, <2>2, LastsOfLot
    <3>2. QED
      BY <1>3, <3>1
  <2>3. lots[k].tracked = lots[l].tracked
    BY <1>1 DEF OneTracking
  <2>4. QED
    BY <2>1, <2>2, <2>3
<1>5. ~ Lasts(lots[l]) >= x
  BY <1>1 DEF Lasting
<1>6. QED
  BY <1>3, <1>4, <1>5 DEF Lasting

\* What is fresh on a day, among what lasts until that day or longer: the stock
\* and what arrives; and nothing else is fresh.
LEMMA FreshLasting ==
  ASSUME NEW lots \in Seq(LotSet), NEW d \in Days, NEW stock \in [DOMAIN lots -> Nat],
         \A l \in DOMAIN lots : lots[l].arrives = d => stock[l] = 0,
         NEW f, f = FreshOf(lots, stock, d)
  PROVE  /\ \A x \in Int : d <= x =>
              SumOver(Lasting(lots, x), f) = SumOver(Lasting(lots, x), stock)
                                               + SumOver(Lasting(lots, x), Coming(lots, d))
         /\ Total(f) = SumOver(Lasting(lots, d), f)
<1> DEFINE S == DOMAIN lots
           in == Coming(lots, d)
<1>1. /\ f \in [S -> Nat] /\ in \in [S -> Nat] /\ IsFiniteSet(S) /\ d \in Int
      /\ \A l \in S : lots[l] \in LotSet
  BY FreshStock, LotsFinite DEF Days
<1>2. \A l \in S : Lasts(lots[l]) \in Int /\ (Spoils(lots[l], d) <=> Lasts(lots[l]) < d)
  BY <1>1, LastsOfLot
<1>3. ASSUME NEW x \in Int, d <= x
      PROVE  SumOver(Lasting(lots, x), f)
               = SumOver(Lasting(lots, x), stock) + SumOver(Lasting(lots, x), in)
  <2>1. Lasting(lots, x) \in SUBSET S /\ IsFiniteSet(Lasting(lots, x))
    BY <1>1, FS_Subset DEF Lasting
  <2>2. ASSUME NEW l \in Lasting(lots, x)
        PROVE  stock[l] \in Nat /\ in[l] \in Nat /\ f[l] = stock[l] + in[l]
    <3>1. l \in S /\ Lasts(lots[l]) >= x
      BY DEF Lasting
    <3>2. ~ Spoils(lots[l], d)
      BY <1>1, <1>2, <1>3, <3>1
    <3>3. stock[l] \in Nat /\ in[l] \in Nat
      BY <1>1, <3>1
    <3>4. f[l] = IF lots[l].arrives = d THEN lots[l].quantity ELSE stock[l]
      BY <3>1, <3>2 DEF FreshOf, Fresh, Arrived
    <3>5. in[l] = IF lots[l].arrives = d THEN lots[l].quantity ELSE 0
      BY <3>1 DEF Coming
    <3> HIDE DEF in
    <3>6. CASE lots[l].arrives = d
      <4>1. f[l] = in[l] /\ stock[l] = 0
        BY <3>1, <3>4, <3>5, <3>6
      <4>2. QED
        BY <3>3, <4>1
    <3>7. CASE lots[l].arrives # d
      <4>1. f[l] = stock[l] /\ in[l] = 0
        BY <3>4, <3>5, <3>7
      <4>2. QED
        BY <3>3, <4>1
    <3>8. QED
      BY <3>6, <3>7
  <2> HIDE DEF in
  <2>3. QED
    BY <2>1, <2>2, SumPlus
<1>4. Total(f) = SumOver(Lasting(lots, d), f)
  <2> DEFINE U == Lasting(lots, d)
  <2>1. U \in SUBSET S
    BY DEF Lasting
  <2>2. SumOver(S, f) = SumOver(U, f) + SumOver(S \ U, f)
    BY <1>1, <2>1, SumTwoParts
  <2>3. \A l \in S \ U : f[l] = 0
    <3> SUFFICES ASSUME NEW l \in S \ U PROVE f[l] = 0
      OBVIOUS
    <3>1. Spoils(lots[l], d)
      BY <1>1, <1>2 DEF Lasting
    <3>2. QED
      BY <3>1 DEF FreshOf, Fresh
  <2>4. SumOver(S \ U, f) = 0
    BY <2>3, SumZero
  <2>5. SumOver(U, f) \in Nat /\ Total(f) = SumOver(S, f)
    BY <1>1, <2>1, TotalNat
  <2>6. QED
    BY <2>2, <2>4, <2>5
<1>5. QED
  BY <1>3, <1>4

\* What lasts until a day is left, in any order, at most as it was and at most
\* as much as all that is left; first expiring first out leaves just that.
LEMMA LastingLeft ==
  ASSUME NEW lots \in Seq(LotSet), NEW first, Ranked(first, DOMAIN lots),
         NEW demand \in [Days -> Nat], NEW r, r = Consumed(first, lots, demand),
         NEW d \in Days, NEW f, f = FreshOf(lots, r[d - 1].stock, d), NEW x \in Int
  PROVE  LET U == Lasting(lots, x)
             most == Least(SumOver(U, f), Greatest(0, Total(f) - demand[d]))
         IN /\ SumOver(U, r[d].stock) <= most
            /\ OneTracking(lots) /\ first = Fefo(lots) => SumOver(U, r[d].stock) = most
<1> DEFINE U == Lasting(lots, x)
           S == DOMAIN lots
           left == r[d].stock
           most == Least(SumOver(U, f), Greatest(0, Total(f) - demand[d]))
           C == S \ U
<1>1. DaySound(first, lots, demand, r, d, r[d - 1].stock, f)
  BY ProjectedDay
<1>2. /\ f \in [S -> Nat] /\ left \in [S -> Nat] /\ Total(f) \in Nat /\ demand[d] \in Nat
      /\ Total(left) = Greatest(0, Total(f) - demand[d])
      /\ \A l \in S : left[l] <= f[l]
      /\ \A E \in SUBSET S : Downward(first, S, E) =>
           SumOver(E, left) = Greatest(0, SumOver(E, f) - demand[d])
  BY <1>1 DEF DaySound, RowSound
<1>3. U \in SUBSET S /\ C \in SUBSET S /\ IsFiniteSet(S) /\ IsFiniteSet(U)
  <2>1. U \in SUBSET S /\ C \in SUBSET S
    BY DEF Lasting
  <2>2. QED
    BY <2>1, LotsFinite, FS_Subset
<1> HIDE DEF U, left, C
<1>4. /\ SumOver(U, f) \in Nat /\ SumOver(U, left) \in Nat /\ SumOver(C, f) \in Nat /\ SumOver(C, left) \in Nat
      /\ Total(f) = SumOver(S, f) /\ Total(left) = SumOver(S, left)
  BY <1>2, <1>3, TotalNat
<1>5. SumOver(U, left) <= SumOver(U, f)
  <2>1. \A l \in U : left[l] \in Nat /\ f[l] \in Nat /\ left[l] <= f[l]
    BY <1>2, <1>3
  <2>2. QED
    BY <1>3, <2>1, SumGrows
<1>6. SumOver(U, left) <= Total(left)
  BY <1>2, <1>3, <1>4, SumPart
<1>7. SumOver(U, left) <= most
  BY <1>2, <1>4, <1>5, <1>6 DEF Least, Greatest
<1>8. ASSUME OneTracking(lots), first = Fefo(lots)
      PROVE  SumOver(U, left) = most
  <2>1. Downward(first, S, C)
    BY <1>8, FefoSavesWhatLasts DEF C, U
  <2>2. SumOver(C, left) = Greatest(0, SumOver(C, f) - demand[d])
    BY <1>2, <1>3, <2>1
  <2>3. Total(left) = SumOver(U, left) + SumOver(C, left)
    <3>1. \A l \in S : left[l] \in Nat
      BY <1>2
    <3>2. SumOver(S, left) = SumOver(U, left) + SumOver(S \ U, left)
      BY <1>3, <3>1, SumTwoParts
    <3>3. QED
      BY <1>4, <3>2 DEF C
  <2>4. Total(f) = SumOver(U, f) + SumOver(C, f)
    <3>1. \A l \in S : f[l] \in Nat
      BY <1>2
    <3>2. SumOver(S, f) = SumOver(U, f) + SumOver(S \ U, f)
      BY <1>3, <3>1, SumTwoParts
    <3>3. QED
      BY <1>4, <3>2 DEF C
  <2>5. QED
    BY <1>2, <1>4, <2>2, <2>3, <2>4 DEF Least, Greatest
<1>9. QED
  BY <1>7, <1>8 DEF U, left

\* The arithmetic of a day of two projections: what they throw away and leave, less
\* what they are short by, stays the same when the day brings and asks the same of both.
LEMMA BalanceKept ==
  ASSUME NEW a \in Int, NEW b \in Int, NEW g \in Int, NEW h \in Int, NEW x \in Int, NEW y \in Int,
         NEW er \in Int, NEW hr \in Int, NEW tr \in Int, NEW eq \in Int, NEW hq \in Int,
         NEW tq \in Int, NEW m \in Int,
         a - b + x = g - h + y, er - hr + tr = x + m, eq - hq + tq = y + m
  PROVE  (a + er) - (b + hr) + tr = (g + eq) - (h + hq) + tq
OBVIOUS

\* First expiring first out is the best order: no other leaves less unserved on
\* any day, or throws away less over the horizon.
THEOREM FefoBest ==
  ASSUME NEW lots \in Seq(LotSet), OneTracking(lots), NEW demand \in [Days -> Nat],
         NEW first, Ranked(first, DOMAIN lots),
         NEW r, r = Simulate(lots, demand), NEW q, q = Consumed(first, lots, demand)
  PROVE  /\ Expired(r) <= Expired(q)
         /\ Shortage(r) <= Shortage(q)
<1> DEFINE S == DOMAIN lots
           sum(x, stock) == SumOver(Lasting(lots, x), stock)
           Saves(d) == \A x \in Int : d <= x => sum(x, q[d].stock) <= sum(x, r[d].stock)
           balance(t, d) == ExpiredThrough(t, d) - ShortageThrough(t, d) + Total(t[d].stock)
           Sound(d) == Saves(d) /\ balance(r, d) = balance(q, d)
                                /\ Total(q[d].stock) <= Total(r[d].stock)
           Good == {d \in 0 .. LastDay : Sound(d)}
<1>1. LastDay \in Nat \ {0} /\ Days = 1 .. LastDay
  BY LastDayOK DEF Days
<1>2. Ranked(Fefo(lots), S) /\ r = Consumed(Fefo(lots), lots, demand)
  BY FefoRanks DEF Simulate
<1>3. ProjectionSound(Fefo(lots), lots, demand, r)
  BY <1>2, Projected
<1>4. ProjectionSound(first, lots, demand, q)
  BY Projected
<1>5. ASSUME NEW d \in Days
      PROVE  DaySound(Fefo(lots), lots, demand, r, d, r[d - 1].stock, FreshOf(lots, r[d - 1].stock, d))
  BY <1>2, ProjectedDay
<1>6. ASSUME NEW d \in Days
      PROVE  DaySound(first, lots, demand, q, d, q[d - 1].stock, FreshOf(lots, q[d - 1].stock, d))
  BY ProjectedDay
<1>7. \A d \in Days : /\ r[d].shortage \in Nat /\ r[d].expired \in Nat
                      /\ q[d].shortage \in Nat /\ q[d].expired \in Nat
  BY <1>5, <1>6 DEF DaySound
<1>8. ASSUME NEW d \in 0 .. LastDay
      PROVE  /\ r[d].stock \in [S -> Nat] /\ q[d].stock \in [S -> Nat]
             /\ Total(r[d].stock) \in Nat /\ Total(q[d].stock) \in Nat
             /\ \A x \in Int : sum(x, r[d].stock) \in Nat /\ sum(x, q[d].stock) \in Nat
  <2>1. r[d].stock \in [S -> Nat] /\ q[d].stock \in [S -> Nat]
    BY <1>3, <1>4 DEF ProjectionSound
  <2>2. \A x \in Int : Lasting(lots, x) \in SUBSET S
    BY DEF Lasting
  <2>3. QED
    BY <2>1, <2>2, TotalNat
<1>9. /\ ShortageThrough(r, 0) = 0 /\ ExpiredThrough(r, 0) = 0
      /\ \A d \in 0 .. LastDay : ShortageThrough(r, d) \in Nat /\ ExpiredThrough(r, d) \in Nat
      /\ \A d \in Days : /\ ShortageThrough(r, d) = ShortageThrough(r, d - 1) + r[d].shortage
                         /\ ExpiredThrough(r, d) = ExpiredThrough(r, d - 1) + r[d].expired
      /\ Shortage(r) = ShortageThrough(r, LastDay) /\ Expired(r) = ExpiredThrough(r, LastDay)
  BY <1>7, TotalsOfRows
<1>10. /\ ShortageThrough(q, 0) = 0 /\ ExpiredThrough(q, 0) = 0
       /\ \A d \in 0 .. LastDay : ShortageThrough(q, d) \in Nat /\ ExpiredThrough(q, d) \in Nat
       /\ \A d \in Days : /\ ShortageThrough(q, d) = ShortageThrough(q, d - 1) + q[d].shortage
                          /\ ExpiredThrough(q, d) = ExpiredThrough(q, d - 1) + q[d].expired
       /\ Shortage(q) = ShortageThrough(q, LastDay) /\ Expired(q) = ExpiredThrough(q, LastDay)
  BY <1>7, TotalsOfRows
<1>11. Sound(0)
  <2>1. r[0].stock = Opening(lots).stock /\ q[0].stock = Opening(lots).stock
    BY <1>3, <1>4 DEF ProjectionSound
  <2>2. 0 \in 0 .. LastDay
    BY <1>1
  <2>3. Saves(0) /\ Total(q[0].stock) <= Total(r[0].stock)
    <3>1. q[0].stock = r[0].stock /\ Total(r[0].stock) \in Nat
            /\ \A x \in Int : sum(x, r[0].stock) \in Nat
      BY <1>8, <2>1, <2>2
    <3> HIDE DEF sum
    <3>2. QED
      BY <3>1
  <2>4. balance(r, 0) = balance(q, 0)
    BY <1>9, <1>10, <2>1
  <2>5. QED
    BY <2>3, <2>4
<1>12. ASSUME NEW d \in Days, Sound(d - 1)
       PROVE  Sound(d) /\ r[d].shortage <= q[d].shortage
  <2> DEFINE s == r[d - 1].stock
             z == q[d - 1].stock
             F == FreshOf(lots, s, d)
             G == FreshOf(lots, z, d)
             in == Coming(lots, d)
  <2>1. d \in 0 .. LastDay /\ d - 1 \in 0 .. LastDay /\ d \in Int /\ demand[d] \in Nat
    BY <1>1
  <2>2. DaySound(Fefo(lots), lots, demand, r, d, s, F)
    BY <1>5
  <2>3. DaySound(first, lots, demand, q, d, z, G)
    BY <1>6
  <2>4. \A l \in S : lots[l].arrives = d => s[l] = 0 /\ z[l] = 0
    <3>1. \A l \in S : lots[l].arrives \in Nat
      BY LotsFinite DEF LotSet
    <3>2. \A l \in S : lots[l].arrives > d - 1 => s[l] = 0 /\ z[l] = 0
      BY <1>3, <1>4, <2>1 DEF ProjectionSound
    <3>3. QED
      BY <2>1, <3>1, <3>2
  <2>5. /\ s \in [S -> Nat] /\ z \in [S -> Nat] /\ F \in [S -> Nat] /\ G \in [S -> Nat]
        /\ in \in [S -> Nat]
    <3>1. /\ s \in [S -> Nat] /\ z \in [S -> Nat] /\ F \in [S -> Nat] /\ G \in [S -> Nat]
      BY <2>2, <2>3 DEF DaySound
    <3>2. QED
      BY <3>1, FreshStock
  <2>6. /\ \A x \in Int : d <= x => sum(x, F) = sum(x, s) + sum(x, in)
        /\ Total(F) = sum(d, F)
    <3> HIDE DEF s
    <3>1. QED
      BY <2>4, <2>5, FreshLasting
  <2>7. /\ \A x \in Int : d <= x => sum(x, G) = sum(x, z) + sum(x, in)
        /\ Total(G) = sum(d, G)
    <3> HIDE DEF z
    <3>1. QED
      BY <2>4, <2>5, FreshLasting
  <2>8. ASSUME NEW x \in Int
        PROVE  sum(x, F) \in Nat /\ sum(x, G) \in Nat /\ sum(x, in) \in Nat
                /\ sum(x, s) \in Nat /\ sum(x, z) \in Nat
    <3>1. Lasting(lots, x) \in SUBSET S
      BY DEF Lasting
    <3> HIDE DEF F, G, in, s, z
    <3>2. QED
      BY <2>5, <3>1, TotalNat
  <2>9. \A x \in Int : d <= x => sum(x, z) <= sum(x, s)
    <3>1. \A x \in Int : d - 1 <= x => sum(x, z) <= sum(x, s)
      BY <1>12
    <3> HIDE DEF sum, s, z
    <3>2. QED
      BY <2>1, <3>1
  <2>10. ASSUME NEW x \in Int
         PROVE  sum(x, r[d].stock) = Least(sum(x, F), Greatest(0, Total(F) - demand[d]))
    BY <1>2, LastingLeft
  <2>11. ASSUME NEW x \in Int
         PROVE  sum(x, q[d].stock) <= Least(sum(x, G), Greatest(0, Total(G) - demand[d]))
    BY LastingLeft
  <2>12. /\ Total(F) \in Nat /\ Total(s) \in Nat /\ Total(r[d].stock) \in Nat
         /\ Total(F) = Total(s) + Total(in) - r[d].expired /\ Total(in) \in Nat
         /\ r[d].expired \in Nat
         /\ r[d].shortage = Greatest(0, demand[d] - Total(F))
         /\ Total(r[d].stock) = Greatest(0, Total(F) - demand[d])
    BY <2>2 DEF DaySound
  <2>13. /\ Total(G) \in Nat /\ Total(z) \in Nat /\ Total(q[d].stock) \in Nat
         /\ Total(G) = Total(z) + Total(in) - q[d].expired
         /\ q[d].expired \in Nat
         /\ q[d].shortage = Greatest(0, demand[d] - Total(G))
         /\ Total(q[d].stock) = Greatest(0, Total(G) - demand[d])
    BY <2>3 DEF DaySound
  <2>14. balance(r, d - 1) = balance(q, d - 1)
    BY <1>12
  <2>15. \A x \in Int : sum(x, q[d].stock) \in Nat /\ sum(x, r[d].stock) \in Nat
    BY <1>8, <2>1
  <2> HIDE DEF F, G, in, sum
  <2>16. \A x \in Int : d <= x => sum(x, G) <= sum(x, F)
    BY <2>6, <2>7, <2>8, <2>9
  <2>17. Total(G) <= Total(F)
    BY <2>1, <2>6, <2>7, <2>16
  <2>18. r[d].shortage <= q[d].shortage /\ Total(q[d].stock) <= Total(r[d].stock)
    BY <2>1, <2>12, <2>13, <2>17 DEF Greatest
  <2>19. Saves(d)
    <3> SUFFICES ASSUME NEW x \in Int, d <= x
                 PROVE  sum(x, q[d].stock) <= sum(x, r[d].stock)
      OBVIOUS
    <3> DEFINE g == sum(x, G)
               f == sum(x, F)
               a == sum(x, q[d].stock)
               b == sum(x, r[d].stock)
    <3>1. f \in Nat /\ g \in Nat /\ g <= f /\ a \in Nat /\ b \in Nat
      BY <2>8, <2>15, <2>16
    <3>2. b = Least(f, Greatest(0, Total(F) - demand[d]))
      BY <2>10
    <3>3. a <= Least(g, Greatest(0, Total(G) - demand[d]))
      BY <2>11
    <3> HIDE DEF f, g, a, b
    <3>4. a <= b
      BY <2>1, <2>12, <2>13, <2>17, <3>1, <3>2, <3>3 DEF Least, Greatest
    <3>5. QED
      BY <3>4 DEF a, b
  <2>20. balance(r, d) = balance(q, d)
    <3>1. /\ ExpiredThrough(r, d - 1) \in Nat /\ ShortageThrough(r, d - 1) \in Nat
          /\ ExpiredThrough(q, d - 1) \in Nat /\ ShortageThrough(q, d - 1) \in Nat
      BY <1>9, <1>10, <2>1
    <3>2. /\ ShortageThrough(r, d) = ShortageThrough(r, d - 1) + r[d].shortage
          /\ ExpiredThrough(r, d) = ExpiredThrough(r, d - 1) + r[d].expired
          /\ ShortageThrough(q, d) = ShortageThrough(q, d - 1) + q[d].shortage
          /\ ExpiredThrough(q, d) = ExpiredThrough(q, d - 1) + q[d].expired
      BY <1>9, <1>10
    <3>3. ExpiredThrough(r, d - 1) - ShortageThrough(r, d - 1) + Total(s)
            = ExpiredThrough(q, d - 1) - ShortageThrough(q, d - 1) + Total(z)
      BY <2>14
    <3> DEFINE er == r[d].expired
               hr == r[d].shortage
               tr == Total(r[d].stock)
               eq == q[d].expired
               hq == q[d].shortage
               tq == Total(q[d].stock)
               fr == Total(F)
               fq == Total(G)
               ts == Total(s)
               tz == Total(z)
               ti == Total(in)
               n == demand[d]
    <3>4. /\ er \in Nat /\ hr \in Nat /\ tr \in Nat /\ fr \in Nat /\ ts \in Nat /\ ti \in Nat
          /\ n \in Nat /\ fr = ts + ti - er /\ hr = Greatest(0, n - fr) /\ tr = Greatest(0, fr - n)
      BY <1>7, <2>1, <2>12
    <3>5. /\ eq \in Nat /\ hq \in Nat /\ tq \in Nat /\ fq \in Nat /\ tz \in Nat
          /\ fq = tz + ti - eq /\ hq = Greatest(0, n - fq) /\ tq = Greatest(0, fq - n)
      BY <1>7, <2>1, <2>13
    <3> HIDE DEF er, hr, tr, eq, hq, tq, fr, fq, ts, tz, ti, n
    <3>6. er - hr + tr = ts + (ti - n)
      BY <3>4 DEF Greatest
    <3>7. eq - hq + tq = tz + (ti - n)
      BY <3>4, <3>5 DEF Greatest
    <3>8. /\ ShortageThrough(r, d) = ShortageThrough(r, d - 1) + hr
          /\ ExpiredThrough(r, d) = ExpiredThrough(r, d - 1) + er
          /\ ShortageThrough(q, d) = ShortageThrough(q, d - 1) + hq
          /\ ExpiredThrough(q, d) = ExpiredThrough(q, d - 1) + eq
      BY <3>2 DEF er, hr, eq, hq
    <3>9. ExpiredThrough(r, d - 1) - ShortageThrough(r, d - 1) + ts
            = ExpiredThrough(q, d - 1) - ShortageThrough(q, d - 1) + tz
      BY <3>3 DEF ts, tz
    <3>10. ExpiredThrough(r, d) - ShortageThrough(r, d) + tr
             = ExpiredThrough(q, d) - ShortageThrough(q, d) + tq
      <4> DEFINE a == ExpiredThrough(r, d - 1)
                 b == ShortageThrough(r, d - 1)
                 g == ExpiredThrough(q, d - 1)
                 h == ShortageThrough(q, d - 1)
      <4>1. /\ a \in Nat /\ b \in Nat /\ g \in Nat /\ h \in Nat
            /\ a - b + ts = g - h + tz
        BY <3>1, <3>9
      <4>2. /\ ExpiredThrough(r, d) = a + er /\ ShortageThrough(r, d) = b + hr
            /\ ExpiredThrough(q, d) = g + eq /\ ShortageThrough(q, d) = h + hq
        BY <3>8
      <4> HIDE DEF a, b, g, h
      <4>3. (a + er) - (b + hr) + tr = (g + eq) - (h + hq) + tq
        <5>1. ti - n \in Int /\ ts \in Int /\ tz \in Int
          BY <3>4, <3>5
        <5> DEFINE m == ti - n
        <5>2. m \in Int /\ er - hr + tr = ts + m /\ eq - hq + tq = tz + m
          BY <3>6, <3>7, <5>1
        <5> HIDE DEF m
        <5>3. /\ a \in Int /\ b \in Int /\ g \in Int /\ h \in Int /\ er \in Int /\ hr \in Int
              /\ tr \in Int /\ eq \in Int /\ hq \in Int /\ tq \in Int
          BY <3>4, <3>5, <4>1
        <5>4. QED
          BY <4>1, <5>1, <5>2, <5>3, BalanceKept
      <4>4. QED
        BY <4>2, <4>3
    <3>11. QED
      BY <3>10 DEF tr, tq
  <2>21. QED
    BY <2>18, <2>19, <2>20
<1>13. \A d \in 0 .. LastDay : Sound(d)
  <2> HIDE DEF Sound
  <2>1. 0 \in Good /\ \A d \in Days : d - 1 \in Good => d \in Good
    BY <1>1, <1>11, <1>12
  <2> HIDE DEF Good
  <2>2. \A d \in 0 .. LastDay : d \in Good
    BY <2>1, DayInduction
  <2>3. QED
    BY <2>2 DEF Good
<1>14. \A d \in Days : r[d].shortage <= q[d].shortage
  <2> HIDE DEF Sound
  <2>1. \A d \in Days : d - 1 \in 0 .. LastDay
    BY <1>1
  <2>2. QED
    BY <1>12, <1>13, <2>1
<1>15. Shortage(r) <= Shortage(q)
  BY <1>7, <1>14, ShortageGrows
<1>16. Expired(r) <= Expired(q)
  <2>1. LastDay \in 0 .. LastDay
    BY <1>1
  <2>2. /\ Total(r[LastDay].stock) \in Nat /\ Total(q[LastDay].stock) \in Nat
    BY <1>8, <2>1
  <2>3. /\ balance(r, LastDay) = balance(q, LastDay)
        /\ Total(q[LastDay].stock) <= Total(r[LastDay].stock)
    BY <1>13, <2>1
  <2>4. /\ Expired(r) - Shortage(r) + Total(r[LastDay].stock)
             = Expired(q) - Shortage(q) + Total(q[LastDay].stock)
    BY <1>9, <1>10, <2>3
  <2>5. Expired(r) \in Nat /\ Shortage(r) \in Nat /\ Expired(q) \in Nat /\ Shortage(q) \in Nat
    BY <1>9, <1>10, <2>1
  <2>6. QED
    BY <1>15, <2>2, <2>3, <2>4, <2>5
<1>17. QED
  BY <1>15, <1>16

-----------------------------------------------------------------------------
\* The fields of a case, of the shapes the constants give them.
CaseOK == case \in [lots : Stocks, demand : Demands, terms : Offers, rule : Rules]

\* A strategy that was asked for.
Asked(strategy) == \E i \in 1 .. Len(Strategies) : strategy = Strategies[i]

\* What the constants say of a case.
LEMMA CaseFields ==
  ASSUME CaseOK
  PROVE  /\ case.lots \in Seq(LotSet) /\ OneTracking(case.lots)
         /\ case.terms \subseteq TermSet
         /\ \A strategy : Asked(strategy) => case.demand[strategy] \in [Days -> Nat]
         /\ Configured(case.rule.safety, 0) \in Nat /\ Configured(case.rule.minimum, 0) \in Nat
         /\ case.rule.maximum # None => case.rule.maximum \in Nat
         /\ Target \in Nat
<1>1. case.lots \in Stocks /\ case.demand \in Demands /\ case.terms \in Offers /\ case.rule \in Rules
  BY DEF CaseOK
<1>2. case.lots \in Seq(LotSet) /\ OneTracking(case.lots)
  BY <1>1, ProcurementConstantsOK DEF OneTracking
<1>3. case.terms \subseteq TermSet
  BY <1>1, ProcurementConstantsOK
<1>4. \A strategy : Asked(strategy) => case.demand[strategy] \in [Days -> Nat]
  BY <1>1, ProcurementConstantsOK DEF Asked
<1>5. {case.rule.safety, case.rule.minimum, case.rule.maximum} \subseteq Nat \cup {None}
  BY <1>1, ProcurementConstantsOK
<1>6. Configured(case.rule.safety, 0) \in Nat /\ Configured(case.rule.minimum, 0) \in Nat
  BY <1>5 DEF Configured
<1>7. Target \in Nat
  BY <1>6 DEF Target, Greatest
<1>8. case.rule.maximum # None => case.rule.maximum \in Nat
  BY <1>5
<1>9. QED
  BY <1>2, <1>3, <1>4, <1>6, <1>7, <1>8

\* Packs: the least number that holds a quantity.
LEMMA PacksHold ==
  ASSUME NEW term \in TermSet, NEW quantity \in Nat
  PROVE  /\ PacksFor(quantity, term) \in Nat /\ term.pack \in Nat \ {0} /\ term.moq \in Nat
         /\ quantity <= PacksFor(quantity, term) * term.pack
         /\ \A k \in Nat : quantity <= k * term.pack => PacksFor(quantity, term) <= k
<1> DEFINE b == term.pack
           a == quantity + b - 1
           p == a \div b
<1>1. b \in Nat \ {0} /\ term.moq \in Nat
  BY DEF TermSet
<1>2. a \in Nat /\ p = PacksFor(quantity, term)
  BY <1>1 DEF PacksFor
<1> HIDE DEF a, b
<1>3. p \in Nat /\ p * b <= a /\ a < p * b + b
  BY <1>1, <1>2
<1>4. quantity = a - b + 1
  BY <1>1 DEF a, b
<1>5. quantity <= p * b
  <2>1. p * b \in Nat
    BY <1>1, <1>3
  <2>2. QED
    BY <1>1, <1>2, <1>3, <1>4, <2>1
<1>6. ASSUME NEW k \in Nat, quantity <= k * b
      PROVE  p <= k
  <2>1. k * b \in Nat /\ p * b \in Nat
    BY <1>1, <1>3
  <2> DEFINE x == p * b
             y == k * b
  <2>2. x \in Nat /\ y \in Nat /\ x <= a /\ quantity = a - b + 1 /\ quantity <= y
    BY <1>3, <1>4, <1>6, <2>1
  <2> HIDE DEF x, y
  <2>3. x < y + b
    BY <1>1, <1>2, <2>2
  <2>4. p * b < k * b + b
    BY <2>3 DEF x, y
  <2> HIDE DEF p
  <2>5. QED
    BY <1>1, <1>3, <2>4
<1>7. QED
  BY <1>1, <1>2, <1>3, <1>5, <1>6 DEF b

\* The line holds what is required, and grows with it.
LEMMA RoundedHolds ==
  ASSUME NEW term \in TermSet, NEW required \in Nat
  PROVE  /\ Rounded(required, term) \in Nat
         /\ required <= Rounded(required, term) * term.pack
         /\ \A more \in Nat : required <= more => Rounded(required, term) <= Rounded(more, term)
<1> DEFINE b == term.pack
           p(q) == PacksFor(q, term)
           m == term.moq
           z(q) == Rounded(q, term)
<1>1. b \in Nat \ {0} /\ m \in Nat
  BY PacksHold
<1>2. ASSUME NEW q \in Nat
      PROVE  /\ p(q) \in Nat /\ q <= p(q) * b
             /\ \A k \in Nat : q <= k * b => p(q) <= k
             /\ p(q) * b \in Nat
  <2>1. /\ p(q) \in Nat /\ q <= p(q) * b
        /\ \A k \in Nat : q <= k * b => p(q) <= k
    BY PacksHold
  <2> HIDE DEF b, p
  <2>2. p(q) * b \in Nat
    BY <1>1, <2>1
  <2>3. QED
    BY <2>1, <2>2
<1>3. \A q : z(q) = IF q = 0 THEN 0 ELSE IF p(q) * b < m THEN p(m) ELSE p(q)
  BY DEF Rounded
<1> HIDE DEF b, p, m, z
<1>4. ASSUME NEW q \in Nat
      PROVE  z(q) \in Nat /\ q <= z(q) * b
  <2>1. CASE q = 0
    BY <1>1, <1>3, <2>1
  <2>2. CASE q # 0 /\ p(q) * b < m
    <3>1. z(q) = p(m) /\ m <= p(m) * b /\ p(m) \in Nat /\ p(m) * b \in Nat
      BY <1>1, <1>2, <1>3, <2>2
    <3>2. q <= p(q) * b /\ p(q) * b \in Nat
      BY <1>2
    <3>3. QED
      BY <1>1, <2>2, <3>1, <3>2
  <2>3. CASE q # 0 /\ ~ p(q) * b < m
    BY <1>2, <1>3, <2>3
  <2>4. QED
    BY <2>1, <2>2, <2>3
<1>5. ASSUME NEW q \in Nat, NEW r \in Nat, q <= r
      PROVE  z(q) <= z(r)
  <2>1. p(q) <= p(r)
    <3>1. q <= p(r) * b
      BY <1>2, <1>5
    <3>2. QED
      BY <1>2, <3>1
  <2>2. p(q) * b \in Nat /\ p(r) * b \in Nat /\ p(q) \in Nat /\ p(r) \in Nat /\ p(m) \in Nat
    BY <1>1, <1>2
  <2>3. CASE q = 0
    BY <1>3, <1>4, <2>3
  <2>4. CASE q # 0 /\ p(r) * b < m
    <3>1. z(r) = p(m)
      BY <1>3, <1>5, <2>4
    <3>2. ~ m <= p(r) * b
      BY <1>1, <2>2, <2>4
    <3>3. p(r) <= p(m)
      <4>1. r <= p(m) * b
        <5>1. r <= p(r) * b /\ m <= p(m) * b /\ p(m) * b \in Nat
          BY <1>1, <1>2
        <5>2. QED
          BY <1>1, <2>2, <2>4, <5>1
      <4>2. QED
        BY <1>2, <2>2, <4>1
    <3>4. z(q) = p(m) \/ z(q) = p(q)
      BY <1>3, <2>4
    <3>5. QED
      BY <2>1, <2>2, <3>1, <3>3, <3>4
  <2>5. CASE q # 0 /\ ~ p(r) * b < m
    <3>1. z(r) = p(r)
      BY <1>3, <1>5, <2>5
    <3>2. p(m) <= p(r)
      BY <1>1, <1>2, <2>2, <2>5
    <3>3. z(q) = p(m) \/ z(q) = p(q)
      BY <1>3, <2>5
    <3>4. QED
      BY <2>1, <2>2, <3>1, <3>2, <3>3
  <2>6. QED
    BY <2>3, <2>4, <2>5
<1>6. z(required) \in Nat /\ required <= z(required) * b
  BY <1>4
<1>7. \A more \in Nat : required <= more => z(required) <= z(more)
  BY <1>5
<1>8. QED
  BY <1>6, <1>7 DEF z, b

\* A delivery comes after the order, or never.
LEMMA ArrivalDay ==
  ASSUME NEW term \in TermSet
  PROVE  Arrival(term) \in Nat \ {0}
<1> DEFINE open == {d \in (1 + term.lead) .. (14 + term.lead) : d % 7 \in term.weekdays}
<1>1. term.lead \in Nat
  BY DEF TermSet
<1>2. open \subseteq Nat \ {0}
  BY <1>1
<1>3. CASE open = {}
  <2>1. Never \in Nat \ {0}
    BY LastDayOK DEF Never
  <2>2. QED
    BY <1>3, <2>1 DEF Arrival
<1>4. CASE open # {}
  <2>1. \E d \in open : \A e \in open : d <= e
    BY <1>2, <1>4, LeastNatural
  <2>2. Arrival(term) = CHOOSE d \in open : \A e \in open : d <= e
    BY <1>4 DEF Arrival
  <2> HIDE DEF open
  <2>3. Arrival(term) \in open
    BY <2>1, <2>2
  <2>4. QED
    BY <1>2, <2>3
<1>5. QED
  BY <1>3, <1>4

\* The shelf life leaves a number of packs.
LEMMA ShrunkPacks ==
  ASSUME NEW term \in TermSet, NEW packs \in Nat
  PROVE  Shrunk(packs, term) \in Nat
<1> DEFINE good == {fewer \in PacksFor(term.moq, term) .. (packs - 1) : Keeps(fewer, packs, term)}
<1>1. PacksFor(term.moq, term) \in Nat
  BY PacksHold DEF TermSet
<1>2. \A p \in good : p \in Nat /\ packs - p \in Nat
  BY <1>1
<1>3. Shrunk(packs, term) = IF good = {} THEN packs ELSE CHOOSE p \in good : \A q \in good : p <= q
  BY Zenon DEF Shrunk
<1> HIDE DEF good
<1>4. CASE good = {}
  BY <1>3, <1>4
<1>5. CASE good # {}
  <2>1. good \subseteq Nat
    BY <1>2
  <2>2. \E p \in good : \A q \in good : p <= q
    BY <1>5, <2>1, LeastNatural
  <2>3. Shrunk(packs, term) \in good
    BY <1>3, <1>5, <2>2
  <2>4. QED
    BY <2>1, <2>3
<1>6. QED
  BY <1>4, <1>5

\* What the projection of the current strategy reports.
LEMMA BaseRows ==
  ASSUME CaseOK, NEW strategy, Asked(strategy),
         NEW rows, rows = Simulate(case.lots, case.demand[strategy])
  PROVE  /\ Shortage(rows) \in Nat /\ Ending(rows) \in Nat
         /\ Required(rows) \in Nat
         /\ \A d \in Days : /\ rows[d].opening \in Int /\ rows[d].inbound \in Int
                            /\ rows[d].expired \in Int
<1> DEFINE lots == case.lots
           demand == case.demand[strategy]
           first == Fefo(lots)
<1>1. /\ lots \in Seq(LotSet) /\ demand \in [Days -> Nat] /\ Target \in Nat
      /\ case.rule.maximum # None => case.rule.maximum \in Nat
  BY CaseFields
<1>2. Ranked(first, DOMAIN lots) /\ rows = Consumed(first, lots, demand)
  BY <1>1, FefoRanks DEF Simulate
<1> HIDE DEF lots, demand, first
<1>3. ProjectionSound(first, lots, demand, rows)
  BY <1>1, <1>2, Projected
<1>4. ASSUME NEW d \in Days
      PROVE  /\ rows[d].opening \in Int /\ rows[d].inbound \in Int /\ rows[d].expired \in Int
             /\ rows[d].expired \in Nat /\ rows[d].shortage \in Nat
  <2> DEFINE s == rows[d - 1].stock
             f == FreshOf(lots, s, d)
             a == Arrived(lots, s, d)
  <2>1. DaySound(first, lots, demand, rows, d, s, f)
    BY <1>1, <1>2, ProjectedDay
  <2>2. /\ rows[d].expired \in Nat /\ rows[d].shortage \in Nat /\ s \in [DOMAIN lots -> Nat]
    BY <2>1 DEF DaySound
  <2>3. rows[d] = Row(first, lots, s, d, demand[d])
    BY <1>3 DEF ProjectionSound
  <2> HIDE DEF s
  <2>4. a \in [DOMAIN lots -> Nat]
    BY <1>1, <2>2, FreshStock
  <2>5. Total(s) \in Nat /\ Total(a) \in Nat
    BY <1>1, <2>2, <2>4, TotalNat
  <2>6. rows[d].opening = Total(s) /\ rows[d].inbound = Total(a) - Total(s)
    BY <2>3 DEF Row, Arrived
  <2>7. QED
    BY <2>2, <2>5, <2>6
<1>5. LastDay \in 0 .. LastDay
  BY LastDayOK
<1>6. Ending(rows) \in Nat
  <2>1. rows[LastDay].stock \in [DOMAIN lots -> Nat] /\ rows[LastDay].ending = Total(rows[LastDay].stock)
    BY <1>3, <1>5 DEF ProjectionSound
  <2>2. QED
    BY <1>1, <2>1, TotalNat DEF Ending
<1>7. Shortage(rows) \in Nat
  <2>1. \A e \in Days : rows[e].shortage \in Nat /\ rows[e].expired \in Nat
    BY <1>4
  <2>2. QED
    BY <1>5, <2>1, TotalsOfRows
<1>8. Required(rows) \in Nat
  <2> DEFINE wanted == Shortage(rows) + Greatest(0, Target - Ending(rows))
  <2>1. wanted \in Nat
    BY <1>1, <1>6, <1>7 DEF Greatest
  <2>2. CASE case.rule.maximum = None
    BY <2>1, <2>2 DEF Required
  <2>3. CASE case.rule.maximum # None
    <3>1. Required(rows) = Least(wanted, Greatest(0, case.rule.maximum - Ending(rows)))
      BY <2>3 DEF Required
    <3> HIDE DEF wanted
    <3>2. QED
      BY <1>1, <1>6, <2>1, <2>3, <3>1 DEF Least, Greatest
  <2>4. QED
    BY <2>2, <2>3
<1>9. QED
  BY <1>4, <1>6, <1>7, <1>8

\* Of any ranks there is one that no other precedes.
LEMMA LowestRank ==
  ASSUME NEW n \in Nat, NEW terms, terms # {}, NEW rank,
         \A t \in terms : rank[t] \in [1 .. n -> Nat] /\ Len(rank[t]) = n
  PROVE  \E t \in terms : \A u \in terms : ~ Precedes(rank[u], rank[t])
<1> DEFINE T == {rank[t] : t \in terms}
           R == LexProductOrdering(OpToRel(<, Nat), Nat, n)
<1>1. IsWellFoundedOn(R, [1 .. n -> Nat])
  BY NatLessThanWellFounded, WFLexProductOrdering
<1>2. T \subseteq [1 .. n -> Nat] /\ T # {}
  OBVIOUS
<1> HIDE DEF R
<1>3. PICK x \in T : \A y \in T : ~ (<<y, x>> \in R)
  BY <1>1, <1>2, WFMin
<1>4. PICK t \in terms : x = rank[t]
  OBVIOUS
<1>5. ASSUME NEW u \in terms, Precedes(rank[u], rank[t])
      PROVE  FALSE
  <2> DEFINE y == rank[u]
  <2>1. y \in T /\ y \in [1 .. n -> Nat] /\ Len(y) = n /\ x \in [1 .. n -> Nat]
    BY <1>2
  <2>2. PICK i \in 1 .. Len(y) : y[i] < x[i] /\ \A j \in 1 .. (i - 1) : y[j] = x[j]
    BY <1>4, <1>5 DEF Precedes
  <2> HIDE DEF y
  <2>3. <<y[i], x[i]>> \in OpToRel(<, Nat)
    BY <2>1, <2>2 DEF OpToRel
  <2>4. <<y, x>> \in [1 .. n -> Nat] \X [1 .. n -> Nat] /\ i \in 1 .. n
    BY <2>1, <2>2
  <2>5. <<y, x>> \in R
    BY <2>2, <2>3, <2>4 DEF R, LexProductOrdering
  <2>6. QED
    BY <1>3, <2>1, <2>5
<1>6. QED
  BY <1>5

\* The ranks of a term are tuples of natural numbers.
LEMMA FlagIsBit ==
  ASSUME NEW fact
  PROVE  Flag(fact) \in Nat
BY DEF Flag

\* The rank by delivery, delay and cost.
LEMMA RankOfTerm ==
  ASSUME NEW term \in TermSet, NEW rows
  PROVE  Rank(term, rows) \in [1 .. 5 -> Nat] /\ Len(Rank(term, rows)) = 5
<1>1. term.cost \in Nat /\ term.lead \in Nat /\ term.id \in Nat
  BY DEF TermSet
<1>2. Flag(Arrival(term) = Never) \in Nat /\ Flag(Late(term, rows)) \in Nat
  BY FlagIsBit
<1>3. QED
  BY <1>1, <1>2 DEF Rank

\* The quantity at risk of a term.
LEMMA RiskOfTerm ==
  ASSUME CaseOK, Asked(StrategyNow), NEW rows, rows = Simulate(case.lots, Demand),
         NEW term \in TermSet
  PROVE  AtRisk(Rounded(Required(rows), term), term, rows) \in Nat
<1> DEFINE packs == Rounded(Required(rows), term)
           arrival == Arrival(term)
           window == {d \in Days : arrival <= d /\ d <= arrival + case.rule.shelf - 1}
           there == IF arrival > LastDay THEN Ending(rows)
                    ELSE rows[arrival].opening + rows[arrival].inbound - rows[arrival].expired
           wanted == SumOver(window, Demand)
           left == Shrunk(packs, term)
<1>1. Demand \in [Days -> Nat] /\ Target \in Nat
  BY CaseFields DEF Demand
<1>2. /\ Ending(rows) \in Nat /\ Required(rows) \in Nat
      /\ \A d \in Days : /\ rows[d].opening \in Int /\ rows[d].inbound \in Int
                         /\ rows[d].expired \in Int
  BY BaseRows DEF Demand
<1>3. packs \in Nat
  BY <1>2, RoundedHolds
<1>4. left \in Nat /\ term.pack \in Nat
  BY <1>3, ShrunkPacks DEF TermSet
<1>5. wanted \in Nat
  <2>1. window \subseteq Days /\ IsFiniteSet(Days)
    BY LastDayOK, FS_Interval DEF Days
  <2>2. IsFiniteSet(window)
    BY <2>1, FS_Subset
  <2>3. Demand \in [Days -> Nat] /\ \A d \in window : Demand[d] \in Nat
    BY <1>1, <2>1
  <2> HIDE DEF window
  <2>4. QED
    BY <2>2, <2>3, SumNat
<1>6. there \in Int
  <2>1. arrival \in Nat \ {0}
    BY ArrivalDay
  <2> HIDE DEF arrival
  <2>2. CASE arrival > LastDay
    BY <1>2, <2>2
  <2>3. CASE ~ arrival > LastDay
    <3>1. arrival \in Days
      BY <2>1, <2>3, LastDayOK DEF Days
    <3>2. QED
      BY <1>2, <2>3, <3>1
  <2>4. QED
    BY <2>2, <2>3
<1>7. Usable(rows, arrival) = Greatest(0, wanted + Target - there)
  BY DEF Usable
<1>8. AtRisk(packs, term, rows) = Greatest(0, left * term.pack - Usable(rows, arrival))
  BY DEF AtRisk
<1> HIDE DEF packs, arrival, wanted, left, there
<1>9. Usable(rows, arrival) \in Int
  BY <1>1, <1>5, <1>6, <1>7 DEF Greatest
<1>10. left * term.pack \in Nat
  BY <1>4
<1>11. AtRisk(packs, term, rows) \in Nat
  BY <1>8, <1>9, <1>10 DEF Greatest
<1>12. QED
  BY <1>11 DEF packs

\* The rank by what is at risk.
LEMMA KeepingRankOfTerm ==
  ASSUME CaseOK, Asked(StrategyNow), NEW rows, rows = Simulate(case.lots, Demand),
         NEW term \in TermSet
  PROVE  KeepingRank(term, rows) \in [1 .. 6 -> Nat] /\ Len(KeepingRank(term, rows)) = 6
<1>1. term.cost \in Nat /\ term.lead \in Nat /\ term.id \in Nat
  BY DEF TermSet
<1>2. Flag(Late(term, rows)) \in Nat
  BY FlagIsBit
<1>3. AtRisk(Rounded(Required(rows), term), term, rows) \in Nat
  BY RiskOfTerm
<1>4. QED
  BY <1>1, <1>2, <1>3 DEF KeepingRank

\* There is a term that no other precedes, by either rank.
LEMMA SomeTermFirst ==
  ASSUME CaseOK, Asked(StrategyNow), NEW rows, rows = Simulate(case.lots, Demand),
         case.terms # {}, NEW shelf \in BOOLEAN
  PROVE  \E t \in case.terms : \A u \in case.terms :
           ~ Precedes(IF shelf THEN KeepingRank(u, rows) ELSE Rank(u, rows),
                      IF shelf THEN KeepingRank(t, rows) ELSE Rank(t, rows))
<1> DEFINE Key(t) == IF shelf THEN KeepingRank(t, rows) ELSE Rank(t, rows)
           rank == [t \in case.terms |-> Key(t)]
           n == IF shelf THEN 6 ELSE 5
<1>1. case.terms \subseteq TermSet
  BY CaseFields
<1>2. \A t \in case.terms : Key(t) \in [1 .. n -> Nat] /\ Len(Key(t)) = n
  BY <1>1, RankOfTerm, KeepingRankOfTerm
<1> HIDE DEF Key
<1>3. \A t \in case.terms : rank[t] \in [1 .. n -> Nat] /\ Len(rank[t]) = n
  BY <1>2
<1>4. n \in Nat
  OBVIOUS
<1> HIDE DEF n
<1>5. \A t \in case.terms : rank[t] = Key(t)
  OBVIOUS
<1> HIDE DEF rank
<1>6. \E t \in case.terms : \A u \in case.terms : ~ Precedes(rank[u], rank[t])
  BY <1>3, <1>4, LowestRank
<1>7. \E t \in case.terms : \A u \in case.terms : ~ Precedes(Key(u), Key(t))
  BY <1>5, <1>6
<1>8. QED
  BY <1>7 DEF Key

\* What a plan, or one being worked out, stands on.
BaseOK(line, strategy) == line.base = Simulate(case.lots, case.demand[strategy])

TermOK(line) ==
  /\ line.required = Required(line.base)
  /\ line.term = None \/ line.term \in case.terms

PacksOK(line) ==
  /\ line.rounded = IF line.term = None THEN 0 ELSE Rounded(line.required, line.term)
  /\ line.packs \in Nat
  /\ case.rule.shelf = None => line.packs = line.rounded

OrderOK(plan, strategy) ==
  /\ plan.order = IF plan.term = None THEN 0 ELSE plan.packs * plan.term.pack
  /\ plan.rows = IF plan.order > 0 /\ Arrival(plan.term) # Never
                 THEN Simulate(WithOrder(plan.order, Arrival(plan.term)), case.demand[strategy])
                 ELSE plan.base

PlanOK(plan, strategy) ==
  BaseOK(plan, strategy) /\ TermOK(plan) /\ PacksOK(plan) /\ OrderOK(plan, strategy)

\* A plan for each strategy so far, in their order.
PlansOK ==
  /\ Len(plans) \in Nat /\ plans = [i \in 1 .. Len(plans) |-> plans[i]]
  /\ Len(plans) <= Len(Strategies)
  /\ \A i \in Worked : PlanOK(plans[i], Strategies[i])

\* The draft of the strategy being planned.
DraftOK ==
  /\ step \in {"choose", "size", "judge"} =>
       Len(plans) < Len(Strategies) /\ BaseOK(draft, StrategyNow)
  /\ step \in {"size", "judge"} => TermOK(draft)
  /\ step = "judge" => PacksOK(draft)

IInv == CaseOK /\ PlansOK /\ DraftOK

-----------------------------------------------------------------------------
\* The strategy being planned is one that was asked for.
LEMMA NowAsked ==
  ASSUME PlansOK, Len(plans) < Len(Strategies)
  PROVE  Asked(StrategyNow) /\ Len(plans) + 1 \in 1 .. Len(Strategies)
<1>1. Len(Strategies) \in Nat
  BY ProcurementConstantsOK
<1>2. Len(plans) + 1 \in 1 .. Len(Strategies)
  BY <1>1 DEF PlansOK
<1>3. QED
  BY <1>2 DEF Asked, StrategyNow

\* No plan yet, and no draft.
LEMMA Initially == Init => IInv
<1> SUFFICES ASSUME Init PROVE IInv
  OBVIOUS
<1>1. CaseOK
  BY DEF Init, CaseOK
<1>2. Len(plans) = 0 /\ Len(Strategies) \in Nat /\ plans = << >>
  BY ProcurementConstantsOK DEF Init
<1>3. PlansOK
  <2>1. plans = [i \in 1 .. Len(plans) |-> plans[i]]
    BY <1>2
  <2>2. Worked = {}
    BY <1>2 DEF Worked
  <2>3. QED
    BY <1>2, <2>1, <2>2 DEF PlansOK
<1>4. DraftOK
  BY DEF Init, DraftOK
<1>5. QED
  BY <1>1, <1>3, <1>4 DEF IInv

\* What is read of the case alone does not change with it.
LEMMA CaseKept ==
  ASSUME UNCHANGED case, CaseOK
  PROVE  CaseOK'
BY DEF CaseOK

\* Nor do the plans worked out so far.
LEMMA PlansKept ==
  ASSUME PlansOK, UNCHANGED <<case, plans>>
  PROVE  PlansOK'
BY DEF PlansOK, PlanOK, BaseOK, TermOK, PacksOK, OrderOK, Worked, Required, Target, Configured,
       WithOrder

\* The draft is then of the strategy after those that have a plan.
LEMMA ProjectKeeps ==
  ASSUME IInv, Project
  PROVE  IInv'
<1>1. Len(plans) < Len(Strategies) /\ draft'.base = Simulate(case.lots, Demand) /\ step' = "choose"
  BY DEF Project
<1>2. BaseOK(draft', StrategyNow)
  BY <1>1 DEF BaseOK, Demand
<1>3. case' = case /\ plans' = plans
  BY DEF Project
<1>4. DraftOK'
  BY <1>1, <1>2, <1>3 DEF DraftOK, BaseOK, StrategyNow
<1>5. QED
  BY <1>3, <1>4, CaseKept, PlansKept DEF IInv

\* The chosen term is an offered one, since one that no other precedes exists.
LEMMA ChooseKeeps ==
  ASSUME IInv, Choose
  PROVE  IInv'
<1> DEFINE base == draft.base
           shelf == case.rule.shelf # None /\ Required(base) > 0
           Key(t) == IF shelf THEN KeepingRank(t, base) ELSE Rank(t, base)
<1>1. step = "choose" /\ step' = "size" /\ case' = case /\ plans' = plans
  BY DEF Choose
<1>2. Len(plans) < Len(Strategies) /\ base = Simulate(case.lots, case.demand[StrategyNow])
  BY <1>1 DEF IInv, DraftOK, BaseOK
<1>3. Asked(StrategyNow) /\ CaseOK
  BY <1>2, NowAsked DEF IInv
<1>4. /\ draft'.base = base /\ draft'.required = Required(base)
      /\ draft'.term = IF case.terms = {} THEN None
                       ELSE CHOOSE t \in case.terms : \A u \in case.terms : ~ Precedes(Key(u), Key(t))
  BY Zenon DEF Choose, Lowest
<1>5. ASSUME case.terms # {}
      PROVE  \E t \in case.terms : \A u \in case.terms : ~ Precedes(Key(u), Key(t))
  <2>1. base = Simulate(case.lots, Demand) /\ shelf \in BOOLEAN
    BY <1>2 DEF Demand
  <2> HIDE DEF base, shelf
  <2>2. QED
    BY <1>3, <1>5, <2>1, SomeTermFirst
<1> HIDE DEF base, Key
<1>6. draft'.term = None \/ draft'.term \in case.terms
  BY <1>4, <1>5
<1>7. BaseOK(draft', StrategyNow) /\ TermOK(draft')
  BY <1>2, <1>4, <1>6 DEF BaseOK, TermOK
<1>8. DraftOK'
  BY <1>1, <1>2, <1>7 DEF DraftOK, BaseOK, TermOK, StrategyNow, Required, Target, Configured
<1>9. QED
  BY <1>1, <1>3, <1>8, CaseKept, PlansKept DEF IInv

\* The line is the rounded requirement, unless the shelf life shrinks it.
LEMMA SizeKeeps ==
  ASSUME IInv, Size
  PROVE  IInv'
<1> DEFINE term == draft.term
           packs == IF term = None THEN 0 ELSE Rounded(draft.required, term)
           shrinks == case.rule.shelf # None /\ packs > 0 /\ Arrival(term) # Never
<1>1. step = "size" /\ step' = "judge" /\ case' = case /\ plans' = plans
  BY DEF Size
<1>2. /\ draft'.base = draft.base /\ draft'.required = draft.required /\ draft'.term = term
      /\ draft'.rounded = packs /\ draft'.packs = IF shrinks THEN Shrunk(packs, term) ELSE packs
  BY DEF Size
<1>3. /\ Len(plans) < Len(Strategies) /\ BaseOK(draft, StrategyNow) /\ TermOK(draft)
      /\ PlansOK /\ CaseOK
  BY <1>1 DEF IInv, DraftOK
<1>4. draft.required \in Nat
  <2>1. Asked(StrategyNow)
    BY <1>3, NowAsked
  <2>2. draft.required = Required(draft.base) /\ draft.base = Simulate(case.lots, case.demand[StrategyNow])
    BY <1>3 DEF BaseOK, TermOK
  <2>3. QED
    BY <1>3, <2>1, <2>2, BaseRows
<1>5. term = None \/ term \in TermSet
  BY <1>3, CaseFields DEF TermOK
<1>6. packs \in Nat
  BY <1>4, <1>5, RoundedHolds
<1>7. draft'.packs \in Nat
  <2> HIDE DEF packs
  <2>1. CASE shrinks
    <3>1. term \in TermSet
      BY <1>5, <2>1 DEF packs
    <3>2. QED
      BY <1>2, <1>6, <2>1, <3>1, ShrunkPacks
  <2>2. CASE ~ shrinks
    BY <1>2, <1>6, <2>2
  <2>3. QED
    BY <2>1, <2>2
<1>8. BaseOK(draft', StrategyNow) /\ TermOK(draft')
  BY <1>2, <1>3 DEF BaseOK, TermOK
<1>9. PacksOK(draft')
  BY <1>2, <1>7 DEF PacksOK
<1>10. DraftOK'
  BY <1>1, <1>3, <1>8, <1>9
  DEF DraftOK, BaseOK, TermOK, PacksOK, StrategyNow, Required, Target, Configured
<1>11. QED
  BY <1>1, <1>3, <1>10, CaseKept, PlansKept DEF IInv

\* The plan takes over the draft, with its order and its rows.
LEMMA JudgeKeeps ==
  ASSUME IInv, Judge
  PROVE  IInv'
<1> DEFINE term == draft.term
           order == IF term = None THEN 0 ELSE draft.packs * term.pack
           arrives == order > 0 /\ Arrival(term) # Never
           rows == IF arrives THEN ProjectWith(order, Arrival(term)) ELSE draft.base
           cost == IF term = None THEN 0 ELSE order * term.cost
           plan == [base |-> draft.base, rows |-> rows, required |-> draft.required, term |-> term,
                    rounded |-> draft.rounded, packs |-> draft.packs, order |-> order, cost |-> cost,
                    violations |-> Violations(draft, rows, cost), recommended |-> FALSE]
           n == Len(plans)
<1>1. step = "judge" /\ step' = "project" /\ case' = case /\ plans' = Append(plans, plan)
  BY DEF Judge
<1>2. /\ n < Len(Strategies) /\ BaseOK(draft, StrategyNow) /\ TermOK(draft) /\ PacksOK(draft)
      /\ PlansOK /\ CaseOK
  BY <1>1 DEF IInv, DraftOK
<1>3. PlanOK(plan, Strategies[n + 1])
  <2>1. /\ plan.base = draft.base /\ plan.required = draft.required /\ plan.term = term
        /\ plan.rounded = draft.rounded /\ plan.packs = draft.packs
        /\ plan.order = order /\ plan.rows = rows
    OBVIOUS
  <2> HIDE DEF plan
  <2>2. BaseOK(plan, Strategies[n + 1]) /\ TermOK(plan)
    BY <1>2, <2>1 DEF BaseOK, TermOK, StrategyNow
  <2>3. PacksOK(plan)
    BY <1>2, <2>1 DEF PacksOK
  <2>4. OrderOK(plan, Strategies[n + 1])
    BY <2>1 DEF OrderOK, ProjectWith, Demand, StrategyNow
  <2>5. QED
    BY <2>2, <2>3, <2>4 DEF PlanOK
<1> HIDE DEF plan
<1> DEFINE R == {plans[i] : i \in 1 .. n} \cup {plan}
<1>4. n \in Nat /\ plans \in Seq(R)
  BY <1>2 DEF PlansOK
<1> HIDE DEF R
<1>5. /\ Len(plans') = n + 1 /\ plans' \in Seq(R) /\ plans'[n + 1] = plan
      /\ \A i \in 1 .. n : plans'[i] = plans[i]
  <2>1. plan \in R
    BY DEF R
  <2>2. QED
    BY <1>1, <1>4, <2>1
<1>6. plans' = [i \in 1 .. Len(plans') |-> plans'[i]]
  BY <1>5
<1>7. n + 1 <= Len(Strategies)
  BY <1>2, <1>4, ProcurementConstantsOK
<1>8. \A i \in 1 .. (n + 1) : PlanOK(plans'[i], Strategies[i])
  <2> SUFFICES ASSUME NEW i \in 1 .. (n + 1) PROVE PlanOK(plans'[i], Strategies[i])
    OBVIOUS
  <2>1. CASE i = n + 1
    BY <1>3, <1>5, <2>1
  <2>2. CASE i # n + 1
    <3>1. i \in 1 .. n
      BY <1>4, <2>2
    <3>2. QED
      BY <1>2, <1>5, <3>1 DEF PlansOK, Worked
  <2>3. QED
    BY <2>1, <2>2
<1>9. PlansOK'
  <2>1. \A i \in 1 .. (n + 1) : PlanOK(plans[i], Strategies[i])'
    BY <1>1, <1>5, <1>8
    DEF PlanOK, BaseOK, TermOK, PacksOK, OrderOK, Required, Target, Configured, WithOrder
  <2>2. QED
    BY <1>4, <1>5, <1>6, <1>7, <2>1 DEF PlansOK, Worked
<1>10. DraftOK'
  BY <1>1 DEF DraftOK
<1>11. QED
  BY <1>1, <1>2, <1>9, <1>10, CaseKept DEF IInv

\* Recommending a plan changes nothing else of it.
LEMMA RecommendKeeps ==
  ASSUME IInv, Recommend
  PROVE  IInv'
<1> DEFINE feasible == {i \in 1 .. Len(plans) : plans[i].violations = {}}
           balanced == {i \in feasible : Strategies[i] = "balanced"}
           from == IF balanced = {} THEN feasible ELSE balanced
           R(i) == [plans[i] EXCEPT !.recommended = i \in from /\ \A j \in from : i <= j]
           n == Len(plans)
<1>1. /\ n = Len(Strategies) /\ plans' = [i \in 1 .. n |-> R(i)]
      /\ step' = "done" /\ case' = case
  BY DEF Recommend
<1>2. n \in Nat /\ PlansOK /\ CaseOK
  BY DEF IInv, PlansOK
<1>3. ASSUME NEW i \in 1 .. n
      PROVE  PlanOK(R(i), Strategies[i])
  <2>1. PlanOK(plans[i], Strategies[i])
    BY <1>2 DEF PlansOK, Worked
  <2>2. /\ R(i).base = plans[i].base /\ R(i).rows = plans[i].rows
        /\ R(i).required = plans[i].required /\ R(i).term = plans[i].term
        /\ R(i).rounded = plans[i].rounded /\ R(i).packs = plans[i].packs
        /\ R(i).order = plans[i].order
    OBVIOUS
  <2> HIDE DEF R
  <2>3. QED
    BY <2>1, <2>2 DEF PlanOK, BaseOK, TermOK, PacksOK, OrderOK
<1> HIDE DEF R, from
<1>4. /\ Len(plans') = n /\ plans' = [i \in 1 .. n |-> plans'[i]]
      /\ \A i \in 1 .. n : plans'[i] = R(i)
  BY <1>1, <1>2
<1>5. PlansOK'
  <2>1. \A i \in 1 .. n : PlanOK(plans'[i], Strategies[i])
    BY <1>3, <1>4
  <2>2. \A i \in 1 .. n : PlanOK(plans[i], Strategies[i])'
    BY <1>1, <2>1
    DEF PlanOK, BaseOK, TermOK, PacksOK, OrderOK, Required, Target, Configured, WithOrder
  <2>3. QED
    BY <1>1, <1>2, <1>4, <2>2 DEF PlansOK, Worked
<1>6. DraftOK'
  BY <1>1 DEF DraftOK
<1>7. QED
  BY <1>1, <1>2, <1>5, <1>6, CaseKept DEF IInv

\* Every step keeps it.
LEMMA Inductive == IInv /\ [Next]_vars => IInv'
<1> SUFFICES ASSUME IInv, [Next]_vars PROVE IInv'
  OBVIOUS
<1>1. CASE UNCHANGED vars
  <2>1. UNCHANGED <<case, step, draft, plans>>
    BY <1>1 DEF vars
  <2>2. CaseOK' /\ PlansOK'
    BY <2>1, CaseKept, PlansKept DEF IInv
  <2>3. DraftOK'
    BY <2>1 DEF IInv, DraftOK, BaseOK, TermOK, PacksOK, StrategyNow, Required, Target, Configured
  <2>4. QED
    BY <2>2, <2>3 DEF IInv
<1>2. CASE Saved
  BY <1>1, <1>2 DEF Saved
<1>3. QED
  BY <1>1, <1>2, ProjectKeeps, ChooseKeeps, SizeKeeps, JudgeKeeps, RecommendKeeps DEF Next

\* Every state of the specification satisfies the inductive invariant.
THEOREM PlansFollow == Spec => []IInv
BY Initially, Inductive, PTL DEF Spec

\* The stock with an order is the stock with one more delivery.
LEMMA OrderAdded ==
  ASSUME NEW quantity \in Nat, NEW arrival \in Nat \ {0}, case.lots \in Seq(LotSet)
  PROVE  Added(case.lots, WithOrder(quantity, arrival), quantity, arrival)
<1> DEFINE lots == case.lots
           o == Len(lots) + 1
           new == [quantity |-> quantity, expiry |-> Never, tracked |-> TRUE,
                   arrives |-> arrival, received |-> arrival]
           more == [l \in 1 .. o |-> IF l <= Len(lots) THEN lots[l] ELSE new]
<1>1. new \in LotSet
  <2>1. Never \in Int
    BY LastDayOK DEF Never
  <2>2. QED
    BY <2>1 DEF LotSet
<1>2. WithOrder(quantity, arrival) = more
  BY DEF WithOrder
<1>3. lots \in Seq(LotSet) /\ Len(lots) \in Nat /\ DOMAIN lots = 1 .. Len(lots)
  OBVIOUS
<1> HIDE DEF lots, new
<1>4. more \in Seq(LotSet) /\ Len(more) = o
  BY <1>1, <1>3
<1>5. (\A l \in DOMAIN lots : more[l] = lots[l]) /\ more[o] = new
  BY <1>3
<1> HIDE DEF more
<1>6. QED
  BY <1>2, <1>4, <1>5 DEF Added, lots, new

\* A plan asked for, with the facts about its parts that the invariants need.
LEMMA PlanFacts ==
  ASSUME CaseOK, NEW strategy, Asked(strategy), NEW plan, PlanOK(plan, strategy)
  PROVE  /\ plan.required \in Nat /\ plan.order \in Nat
         /\ Shortage(plan.base) \in Nat /\ Ending(plan.base) \in Nat
         /\ plan.order > 0 => plan.term \in TermSet
<1>1. plan.base = Simulate(case.lots, case.demand[strategy]) /\ plan.required = Required(plan.base)
  BY DEF PlanOK, BaseOK, TermOK
<1>2. plan.required \in Nat /\ Shortage(plan.base) \in Nat /\ Ending(plan.base) \in Nat
  BY <1>1, BaseRows
<1>3. plan.term = None \/ plan.term \in TermSet
  BY CaseFields DEF PlanOK, TermOK
<1>4. plan.order = IF plan.term = None THEN 0 ELSE plan.packs * plan.term.pack
  BY DEF PlanOK, OrderOK
<1>5. plan.packs \in Nat
  BY DEF PlanOK, PacksOK
<1>6. plan.order \in Nat /\ (plan.order > 0 => plan.term \in TermSet)
  <2>1. CASE plan.term = None
    BY <1>4, <2>1
  <2>2. CASE plan.term # None
    <3>1. plan.term \in TermSet /\ plan.term.pack \in Nat
      BY <1>3, <2>2 DEF TermSet
    <3>2. QED
      BY <1>4, <1>5, <2>2, <3>1
  <2>3. QED
    BY <2>1, <2>2
<1>7. QED
  BY <1>2, <1>6

\* An order that nothing holds back covers what is required.
LEMMA OrderCovers ==
  ASSUME CaseOK, NEW strategy, Asked(strategy), NEW plan, PlanOK(plan, strategy),
         case.rule.shelf = None, plan.order > 0
  PROVE  plan.required <= plan.order
<1>1. plan.term \in TermSet /\ plan.required \in Nat /\ plan.order \in Nat
  BY PlanFacts
<1>2. plan.order = IF plan.term = None THEN 0 ELSE plan.packs * plan.term.pack
  BY DEF PlanOK, OrderOK
<1>3. plan.term # None
  BY <1>2
<1>4. plan.packs = Rounded(plan.required, plan.term)
  BY <1>3 DEF PlanOK, PacksOK
<1>5. QED
  BY <1>1, <1>2, <1>3, <1>4, RoundedHolds

\* The projection with the order, when it arrives, is that of one more delivery.
LEMMA PlanRows ==
  ASSUME CaseOK, NEW strategy, Asked(strategy), NEW plan, PlanOK(plan, strategy),
         plan.order > 0, Arrival(plan.term) # Never
  PROVE  /\ \A d \in Days : /\ plan.rows[d].expired = plan.base[d].expired
                            /\ plan.rows[d].shortage <= plan.base[d].shortage
         /\ Shortage(plan.base) <= plan.order =>
              \A d \in Days : Arrival(plan.term) <= d => plan.rows[d].shortage = 0
         /\ Arrival(plan.term) <= LastDay =>
              Ending(plan.base) + plan.order - Shortage(plan.base) <= Ending(plan.rows)
         /\ Ending(plan.rows) \in Nat
<1> DEFINE lots == case.lots
           arrival == Arrival(plan.term)
           more == WithOrder(plan.order, arrival)
           demand == case.demand[strategy]
<1>1. plan.order \in Nat /\ plan.term \in TermSet
  BY PlanFacts
<1>2. arrival \in Nat \ {0}
  BY <1>1, ArrivalDay
<1>3. lots \in Seq(LotSet) /\ demand \in [Days -> Nat]
  BY CaseFields
<1>4. Added(lots, more, plan.order, arrival)
  BY <1>1, <1>2, <1>3, OrderAdded
<1>5. plan.base = Simulate(lots, demand) /\ plan.rows = Simulate(more, demand)
  BY DEF PlanOK, BaseOK, OrderOK
<1> HIDE DEF lots, arrival, more, demand
<1>6. Helped(plan.base, plan.rows, plan.order, arrival)
  BY <1>1, <1>2, <1>3, <1>4, <1>5, OrderAdds
<1>7. QED
  BY <1>6 DEF arrival, Helped

\* An order that arrives in time does arrive.
LEMMA InTimeIsNotNever ==
  ASSUME NEW plan, Orders(plan)
  PROVE  plan.order > 0 /\ Arrival(plan.term) # Never
BY LastDayOK DEF Orders, Never

\* The plan of a strategy, on a day.
LEMMA PlanHelps ==
  ASSUME CaseOK, NEW strategy, Asked(strategy), NEW plan, PlanOK(plan, strategy), NEW d \in Days
  PROVE  /\ plan.rows[d].expired = plan.base[d].expired
         /\ plan.rows[d].shortage <= plan.base[d].shortage
         /\ (Orders(plan) /\ case.rule.maximum = None /\ case.rule.shelf = None
               /\ Arrival(plan.term) <= d) => plan.rows[d].shortage = 0
<1> DEFINE arrives == plan.order > 0 /\ Arrival(plan.term) # Never
<1>1. CASE arrives
  <2>1. plan.rows[d].expired = plan.base[d].expired /\ plan.rows[d].shortage <= plan.base[d].shortage
    BY <1>1, PlanRows
  <2>2. ASSUME case.rule.maximum = None, case.rule.shelf = None, Arrival(plan.term) <= d
        PROVE  plan.rows[d].shortage = 0
    <3>1. plan.required <= plan.order
      BY <1>1, <2>2, OrderCovers
    <3>2. plan.required = Shortage(plan.base) + Greatest(0, Target - Ending(plan.base))
      BY <2>2 DEF PlanOK, TermOK, Required
    <3>3. Shortage(plan.base) \in Nat /\ Ending(plan.base) \in Nat /\ plan.order \in Nat
      BY PlanFacts
    <3>4. Target \in Nat
      BY CaseFields
    <3>5. Shortage(plan.base) <= plan.order
      BY <3>1, <3>2, <3>3, <3>4 DEF Greatest
    <3>6. QED
      BY <1>1, <2>2, <3>5, PlanRows
  <2>3. QED
    BY <2>1, <2>2
<1>2. CASE ~ arrives
  <2>1. plan.rows = plan.base /\ plan.base = Simulate(case.lots, case.demand[strategy])
    BY <1>2 DEF PlanOK, BaseOK, OrderOK
  <2>2. ~ Orders(plan)
    BY <1>2, InTimeIsNotNever
  <2>3. plan.base[d].shortage \in Nat
    <3> DEFINE lots == case.lots
               demand == case.demand[strategy]
               first == Fefo(lots)
               s == plan.base[d - 1].stock
    <3>1. lots \in Seq(LotSet) /\ demand \in [Days -> Nat]
      BY CaseFields
    <3>2. Ranked(first, DOMAIN lots) /\ plan.base = Consumed(first, lots, demand)
      BY <2>1, <3>1, FefoRanks DEF Simulate
    <3> HIDE DEF lots, demand, first, s
    <3>3. DaySound(first, lots, demand, plan.base, d, plan.base[d - 1].stock,
                   FreshOf(lots, plan.base[d - 1].stock, d))
      BY <3>1, <3>2, ProjectedDay
    <3>4. QED
      BY <3>3 DEF DaySound
  <2>4. QED
    BY <2>1, <2>2, <2>3
<1>3. QED
  BY <1>1, <1>2

\* The plan of a strategy, at the end.
LEMMA PlanReaches ==
  ASSUME CaseOK, NEW strategy, Asked(strategy), NEW plan, PlanOK(plan, strategy),
         case.rule.maximum = None, case.rule.shelf = None, Orders(plan)
  PROVE  Target <= Ending(plan.rows)
<1>1. plan.order > 0 /\ Arrival(plan.term) # Never /\ Arrival(plan.term) <= LastDay
  BY InTimeIsNotNever DEF Orders
<1>2. plan.required <= plan.order
  BY <1>1, OrderCovers
<1>3. plan.required = Shortage(plan.base) + Greatest(0, Target - Ending(plan.base))
  BY DEF PlanOK, TermOK, Required
<1>4. Shortage(plan.base) \in Nat /\ Ending(plan.base) \in Nat /\ plan.order \in Nat /\ Target \in Nat
  BY PlanFacts, CaseFields
<1>5. /\ Ending(plan.base) + plan.order - Shortage(plan.base) <= Ending(plan.rows)
      /\ Ending(plan.rows) \in Nat
  BY <1>1, PlanRows
<1>6. QED
  BY <1>2, <1>3, <1>4, <1>5 DEF Greatest

\* What is required grows with the demand, capped by the maximum or not.
LEMMA MoreDemandRequiresMore ==
  ASSUME CaseOK, NEW s, Asked(s), NEW t, Asked(t),
         \A d \in Days : case.demand[s][d] <= case.demand[t][d],
         NEW r, r = Simulate(case.lots, case.demand[s]),
         NEW q, q = Simulate(case.lots, case.demand[t])
  PROVE  Required(r) <= Required(q)
<1> DEFINE lots == case.lots
           less == case.demand[s]
           more == case.demand[t]
           first == Fefo(lots)
           x == Shortage(r)
           y == Shortage(q)
           e == Ending(r)
           f == Ending(q)
           m == case.rule.maximum
           a == x + Greatest(0, Target - e)
           b == y + Greatest(0, Target - f)
<1>1. lots \in Seq(LotSet) /\ less \in [Days -> Nat] /\ more \in [Days -> Nat] /\ Target \in Nat
  BY CaseFields
<1>2. m # None => m \in Nat
  BY CaseFields
<1>3. x \in Nat /\ y \in Nat /\ e \in Nat /\ f \in Nat
  BY BaseRows
<1>4. Ranked(first, DOMAIN lots) /\ r = Consumed(first, lots, less) /\ q = Consumed(first, lots, more)
  BY <1>1, FefoRanks DEF Simulate
<1>5. Required(r) = IF m = None THEN a ELSE Least(a, Greatest(0, m - e))
  BY DEF Required
<1>6. Required(q) = IF m = None THEN b ELSE Least(b, Greatest(0, m - f))
  BY DEF Required
<1>7. \A d \in Days : less[d] <= more[d]
  OBVIOUS
<1> HIDE DEF lots, less, more, first
<1>8. Shortage(r) <= Shortage(q) /\ Ending(q) <= Ending(r)
  BY <1>1, <1>4, <1>7, MoreDemandLeavesLess
<1> HIDE DEF x, y, e, f, m
<1>9. x <= y /\ f <= e
  BY <1>8 DEF x, y, e, f
<1>10. a \in Nat /\ b \in Nat /\ a <= b
  BY <1>1, <1>3, <1>9 DEF Greatest
<1> HIDE DEF a, b
<1>11. CASE m = None
  BY <1>5, <1>6, <1>10, <1>11
<1>12. CASE m # None
  <2>1. Greatest(0, m - e) <= Greatest(0, m - f) /\ Greatest(0, m - e) \in Nat /\ Greatest(0, m - f) \in Nat
    BY <1>2, <1>3, <1>9, <1>12 DEF Greatest
  <2>2. QED
    BY <1>5, <1>6, <1>10, <1>12, <2>1 DEF Least
<1>13. QED
  BY <1>11, <1>12

-----------------------------------------------------------------------------
\* What the inductive invariant says of the plan of a strategy.
LEMMA WorkedPlan ==
  ASSUME IInv, NEW i \in Worked
  PROVE  CaseOK /\ Asked(Strategies[i]) /\ PlanOK(plans[i], Strategies[i])
<1>1. Len(Strategies) \in Nat
  BY ProcurementConstantsOK
<1>2. i \in 1 .. Len(Strategies)
  BY <1>1 DEF IInv, PlansOK, Worked
<1>3. QED
  BY <1>2 DEF IInv, PlansOK, Asked

\* A fixed preference orders the lots.
LEMMA PreferencesRank ==
  ASSUME NEW lots \in Seq(LotSet), NEW first \in Preferences(lots)
  PROVE  Ranked(first, DOMAIN lots)
<1> DEFINE S == DOMAIN lots
<1>1. PICK place \in [S -> S] :
        /\ \A k, l \in S : place[k] = place[l] => k = l
        /\ first = {p \in S \X S : place[p[1]] < place[p[2]]}
  BY DEF Preferences
<1>2. S \subseteq Nat
  OBVIOUS
<1>3. \A k, l \in S : <<k, l>> \in first <=> place[k] < place[l]
  BY <1>1
<1>4. \A k \in S : place[k] \in Nat
  BY <1>2
<1> HIDE DEF S
<1>5. QED
  BY <1>1, <1>3, <1>4 DEF Ranked, S

\* First expiring first out is never beaten: over any horizon, any stock and
\* deliveries and any demand, a run's projections waste no more and leave no
\* more unserved than any fixed order of the lots would (simulate's FEFO sorts).
THEOREM FefoIsBest == Spec => []FefoWastesLeast
<1>1. ASSUME IInv PROVE FefoWastesLeast
  <2> SUFFICES ASSUME NEW i \in Worked, NEW first \in Preferences(case.lots)
               PROVE  LET rows == Consumed(first, case.lots, case.demand[Strategies[i]])
                      IN /\ Expired(plans[i].base) <= Expired(rows)
                         /\ Shortage(plans[i].base) <= Shortage(rows)
    BY DEF FefoWastesLeast
  <2>1. CaseOK /\ Asked(Strategies[i]) /\ PlanOK(plans[i], Strategies[i])
    BY <1>1, WorkedPlan
  <2>2. /\ case.lots \in Seq(LotSet) /\ OneTracking(case.lots)
        /\ case.demand[Strategies[i]] \in [Days -> Nat]
    BY <2>1, CaseFields
  <2>3. Ranked(first, DOMAIN case.lots)
    BY <2>2, PreferencesRank
  <2>4. plans[i].base = Simulate(case.lots, case.demand[Strategies[i]])
    BY <2>1 DEF PlanOK, BaseOK
  <2>5. QED
    BY <2>2, <2>3, <2>4, FefoBest
<1>2. QED
  BY <1>1, PlansFollow, PTL

\* An order never makes a projection worse: nothing more expires, no day is
\* short by more, and once an order that no policy held back has arrived no day
\* is short at all, whatever the packs, the MOQ and the delivery day.
THEOREM OrdersHelp == Spec => []OrdersOnlyHelp
<1>1. ASSUME IInv PROVE OrdersOnlyHelp
  <2>1. ASSUME NEW i \in Worked, NEW d \in Days
        PROVE  /\ plans[i].rows[d].expired = plans[i].base[d].expired
               /\ plans[i].rows[d].shortage <= plans[i].base[d].shortage
               /\ (Orders(plans[i]) /\ case.rule.maximum = None /\ case.rule.shelf = None
                     /\ Arrival(plans[i].term) <= d) => plans[i].rows[d].shortage = 0
    BY <1>1, WorkedPlan, PlanHelps
  <2>2. QED
    BY <2>1 DEF OrdersOnlyHelp
<1>2. QED
  BY <1>1, PlansFollow, PTL

\* An order nothing holds back leaves both the safety and the minimum stock at
\* the end of the horizon (build's requirement, packs and MOQ together).
THEOREM TargetReached == Spec => []OrderReachesTarget
<1>1. ASSUME IInv PROVE OrderReachesTarget
  <2> SUFFICES ASSUME NEW i \in Worked, case.rule.maximum = None, case.rule.shelf = None,
                      Orders(plans[i])
               PROVE  /\ Ending(plans[i].rows) >= Configured(case.rule.safety, 0)
                      /\ Ending(plans[i].rows) >= Configured(case.rule.minimum, 0)
    BY DEF OrderReachesTarget
  <2>1. CaseOK /\ Asked(Strategies[i]) /\ PlanOK(plans[i], Strategies[i])
    BY <1>1, WorkedPlan
  <2>2. Target <= Ending(plans[i].rows)
    BY <2>1, PlanReaches
  <2>3. Ending(plans[i].rows) \in Nat
    BY <2>1, InTimeIsNotNever, PlanRows
  <2>4. Configured(case.rule.safety, 0) \in Nat /\ Configured(case.rule.minimum, 0) \in Nat
    BY <2>1, CaseFields
  <2>5. QED
    BY <2>2, <2>3, <2>4 DEF Target, Greatest
<1>2. QED
  BY <1>1, PlansFollow, PTL

\* Of two strategies that chose one supplier, the one that plans for no less
\* demand on any day rounds to no fewer packs.
THEOREM MoreDemandMorePacks == Spec => []MoreDemandOrdersMore
<1>1. ASSUME IInv PROVE MoreDemandOrdersMore
  <2> SUFFICES ASSUME NEW i \in Worked, NEW j \in Worked, plans[i].term = plans[j].term,
                      \A d \in Days : case.demand[Strategies[i]][d] <= case.demand[Strategies[j]][d]
               PROVE  plans[i].rounded <= plans[j].rounded
    BY DEF MoreDemandOrdersMore
  <2> DEFINE s == Strategies[i]
             t == Strategies[j]
             term == plans[i].term
  <2>1. /\ CaseOK /\ Asked(s) /\ PlanOK(plans[i], s)
        /\ Asked(t) /\ PlanOK(plans[j], t)
    BY <1>1, WorkedPlan
  <2>2. /\ plans[i].required = Required(plans[i].base)
        /\ plans[j].required = Required(plans[j].base)
        /\ plans[i].base = Simulate(case.lots, case.demand[s])
        /\ plans[j].base = Simulate(case.lots, case.demand[t])
    BY <2>1 DEF PlanOK, BaseOK, TermOK
  <2>3. Required(plans[i].base) <= Required(plans[j].base)
    BY <2>1, <2>2, MoreDemandRequiresMore
  <2>4. plans[i].required \in Nat /\ plans[j].required \in Nat
    BY <2>1, PlanFacts
  <2>5. /\ plans[i].rounded = IF term = None THEN 0 ELSE Rounded(plans[i].required, term)
        /\ plans[j].rounded = IF term = None THEN 0 ELSE Rounded(plans[j].required, term)
    BY <2>1 DEF PlanOK, PacksOK
  <2>6. term = None \/ term \in TermSet
    BY <2>1, CaseFields DEF PlanOK, TermOK
  <2> HIDE DEF s, t, term
  <2>7. QED
    BY <2>2, <2>3, <2>4, <2>5, <2>6, RoundedHolds
<1>2. QED
  BY <1>1, PlansFollow, PTL
==============================================================================
