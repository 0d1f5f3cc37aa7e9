------------------------------ MODULE SumLemmas ------------------------------
(***************************************************************************)
(* What the purchasing proofs need of SumOver: it is a natural number, it  *)
(* depends only on the values on its set, and it can be split at one       *)
(* element.                                                                *)
(***************************************************************************)
EXTENDS Sums, FiniteSetTheorems, TLAPS

AllCoins(S, f) == UNION {Coins(f, x) : x \in S}

LEMMA CoinsFinite ==
  ASSUME NEW f, NEW x, f[x] \in Nat
  PROVE  IsFiniteSet(Coins(f, x)) /\ Cardinality(Coins(f, x)) = f[x]
<1>1. IsFiniteSet({x}) /\ Cardinality({x}) = 1
  BY FS_Singleton
<1>2. IsFiniteSet(1 .. f[x]) /\ Cardinality(1 .. f[x]) = f[x]
  BY FS_Interval
<1>3. /\ IsFiniteSet({x} \X (1 .. f[x]))
      /\ Cardinality({x} \X (1 .. f[x])) = Cardinality({x}) * Cardinality(1 .. f[x])
  BY <1>1, <1>2, FS_Product, Zenon
<1>4. Cardinality({x} \X (1 .. f[x])) = 1 * f[x]
  BY <1>1, <1>2, <1>3, Zenon
<1>5. QED
  BY <1>3, <1>4 DEF Coins

\* The coins of a finite set: a finite union of finite sets.
LEMMA AllCoinsFinite ==
  ASSUME NEW S, IsFiniteSet(S), NEW f, \A x \in S : f[x] \in Nat
  PROVE  IsFiniteSet(AllCoins(S, f))
<1> DEFINE T == {Coins(f, x) : x \in S}
           g == [x \in S |-> Coins(f, x)]
<1>1. g \in Surjection(S, T)
  BY DEF Surjection
<1>2. IsFiniteSet(T)
  BY <1>1, FS_Surjection
<1>3. \A t \in T : IsFiniteSet(t)
  BY CoinsFinite
<1>4. QED
  BY <1>2, <1>3, FS_UNION DEF AllCoins

\* A sum of natural numbers is a natural number.
LEMMA SumNat ==
  ASSUME NEW S, IsFiniteSet(S), NEW f, \A x \in S : f[x] \in Nat
  PROVE  SumOver(S, f) \in Nat
BY AllCoinsFinite, FS_CardinalityType DEF SumOver, AllCoins

\* Only the values on the set count.
LEMMA SumSame ==
  ASSUME NEW S, NEW f, NEW g, \A x \in S : f[x] = g[x]
  PROVE  SumOver(S, f) = SumOver(S, g)
BY DEF SumOver, Coins

LEMMA SumEmpty == ASSUME NEW f PROVE SumOver({}, f) = 0
<1>1. UNION {Coins(f, x) : x \in {}} = {}
  OBVIOUS
<1>2. QED
  BY <1>1, FS_EmptySet DEF SumOver

LEMMA SumZero ==
  ASSUME NEW S, NEW f, \A x \in S : f[x] = 0
  PROVE  SumOver(S, f) = 0
<1>1. \A x \in S : Coins(f, x) = {}
  BY DEF Coins
<1>2. UNION {Coins(f, x) : x \in S} = {}
  BY <1>1
<1>3. QED
  BY <1>2, FS_EmptySet DEF SumOver

\* The sum over S is the sum over the rest of S plus the value at a.
LEMMA SumSplit ==
  ASSUME NEW S, IsFiniteSet(S), NEW f, \A x \in S : f[x] \in Nat, NEW a \in S
  PROVE  /\ IsFiniteSet(S \ {a})
         /\ SumOver(S \ {a}, f) \in Nat
         /\ SumOver(S, f) = SumOver(S \ {a}, f) + f[a]
<1>1. IsFiniteSet(S \ {a})
  BY FS_RemoveElement
<1>2. IsFiniteSet(AllCoins(S \ {a}, f)) /\ IsFiniteSet(Coins(f, a))
  BY <1>1, AllCoinsFinite, CoinsFinite
<1>3. AllCoins(S, f) = AllCoins(S \ {a}, f) \cup Coins(f, a)
  BY DEF AllCoins
<1>4. AllCoins(S \ {a}, f) \cap Coins(f, a) = {}
  BY DEF AllCoins, Coins
<1>5. Cardinality(AllCoins(S \ {a}, f)) \in Nat
  BY <1>2, FS_CardinalityType
<1>6. Cardinality(AllCoins(S, f))
        = Cardinality(AllCoins(S \ {a}, f)) + Cardinality(Coins(f, a)) - Cardinality({})
  BY <1>2, <1>3, <1>4, FS_Union, Zenon
<1>7. Cardinality({}) = 0
  BY FS_EmptySet
<1>8. Cardinality(Coins(f, a)) = f[a]
  BY CoinsFinite
<1>9. QED
  BY <1>1, <1>5, <1>6, <1>7, <1>8 DEF SumOver, AllCoins

\* Changing the value at one element changes the sum by the difference.
LEMMA SumChange ==
  ASSUME NEW S, IsFiniteSet(S), NEW f, NEW g, NEW a \in S,
         \A x \in S : f[x] \in Nat /\ g[x] \in Nat,
         \A x \in S \ {a} : f[x] = g[x]
  PROVE  SumOver(S, g) - g[a] = SumOver(S, f) - f[a]
<1>1. SumOver(S \ {a}, f) = SumOver(S \ {a}, g)
  BY SumSame
<1>2. SumOver(S \ {a}, f) \in Nat /\ SumOver(S, f) = SumOver(S \ {a}, f) + f[a]
  BY SumSplit
<1>3. SumOver(S, g) = SumOver(S \ {a}, g) + g[a]
  BY SumSplit
<1>4. QED
  BY <1>1, <1>2, <1>3

\* A new element adds its value.
LEMMA SumAdd ==
  ASSUME NEW S, IsFiniteSet(S), NEW f, NEW g, NEW a, a \notin S,
         \A x \in S : f[x] \in Nat /\ f[x] = g[x], g[a] \in Nat
  PROVE  SumOver(S \cup {a}, g) = SumOver(S, f) + g[a]
<1> DEFINE T == S \cup {a}
<1>1. IsFiniteSet(T) /\ T \ {a} = S
  BY FS_AddElement
<1>2. \A x \in T : g[x] \in Nat
  OBVIOUS
<1>3. SumOver(T, g) = SumOver(T \ {a}, g) + g[a]
  BY <1>1, <1>2, SumSplit
<1>4. SumOver(S, g) = SumOver(S, f)
  BY SumSame
<1>5. QED
  BY <1>1, <1>3, <1>4

\* A sum grows with its values.
LEMMA SumGrows ==
  ASSUME NEW S, IsFiniteSet(S), NEW f, NEW g,
         \A x \in S : f[x] \in Nat /\ g[x] \in Nat /\ f[x] <= g[x]
  PROVE  SumOver(S, f) <= SumOver(S, g)
<1>1. \A x \in S : Coins(f, x) \subseteq Coins(g, x)
  BY DEF Coins
<1>2. AllCoins(S, f) \in SUBSET AllCoins(S, g)
  BY <1>1 DEF AllCoins
<1>3. IsFiniteSet(AllCoins(S, g))
  BY AllCoinsFinite
<1>4. QED
  BY <1>2, <1>3, FS_Subset DEF SumOver, AllCoins

\* A coin of x, put on top of the coins x has for f.
Stacked(c, f) == <<c[1], f[c[1]] + c[2]>>

\* The sum of the sums is the sum of the values added: x's coins for g are put
\* on top of its coins for f.
LEMMA SumPlus ==
  ASSUME NEW S, IsFiniteSet(S), NEW f, NEW g, NEW h,
         \A x \in S : f[x] \in Nat /\ g[x] \in Nat /\ h[x] = f[x] + g[x]
  PROVE  SumOver(S, h) = SumOver(S, f) + SumOver(S, g)
<1> DEFINE F == AllCoins(S, f)
           G == AllCoins(S, g)
           H == AllCoins(S, h)
           T == {Stacked(c, f) : c \in G}
           m == [c \in G |-> Stacked(c, f)]
<1>1. \A c : c \in F <=> \E x \in S : \E i \in 1 .. f[x] : c = <<x, i>>
  BY DEF AllCoins, Coins
<1>2. \A c : c \in G <=> \E x \in S : \E i \in 1 .. g[x] : c = <<x, i>>
  BY DEF AllCoins, Coins
<1>3. \A c : c \in H <=> \E x \in S : \E i \in 1 .. h[x] : c = <<x, i>>
  BY DEF AllCoins, Coins
<1>4. \A c : c \in T <=> \E x \in S : \E i \in 1 .. g[x] : c = <<x, f[x] + i>>
  <2>1. \A x, i : Stacked(<<x, i>>, f) = <<x, f[x] + i>>
    BY DEF Stacked
  <2>2. ASSUME NEW c \in T
        PROVE  \E x \in S : \E i \in 1 .. g[x] : c = <<x, f[x] + i>>
    <3>1. PICK d \in G : c = Stacked(d, f)
      OBVIOUS
    <3>2. PICK x \in S : \E i \in 1 .. g[x] : d = <<x, i>>
      BY <1>2
    <3>3. QED
      BY <2>1, <3>1, <3>2
  <2>3. ASSUME NEW x \in S, NEW i \in 1 .. g[x]
        PROVE  <<x, f[x] + i>> \in T
    <3>1. <<x, i>> \in G
      BY <1>2
    <3>2. Stacked(<<x, i>>, f) \in T
      BY <3>1
    <3>3. QED
      BY <2>1, <3>2
  <2>4. QED
    BY <2>2, <2>3
<1>5. H = F \cup T
  <2>1. ASSUME NEW x \in S, NEW i \in 1 .. h[x]
        PROVE  <<x, i>> \in F \/ <<x, i>> \in T
    <3>1. CASE i <= f[x]
      BY <1>1, <3>1
    <3>2. CASE ~ i <= f[x]
      <4>1. i - f[x] \in 1 .. g[x] /\ i = f[x] + (i - f[x])
        BY <3>2
      <4>2. QED
        BY <1>4, <4>1
    <3>3. QED
      BY <3>1, <3>2
  <2>2. \A c \in F : c \in H
    BY <1>1, <1>3
  <2>3. \A c \in T : c \in H
    BY <1>3, <1>4
  <2>4. \A c \in H : c \in F \cup T
    BY <1>3, <2>1
  <2>5. QED
    BY <2>2, <2>3, <2>4
<1>6. F \cap T = {}
  <2> SUFFICES ASSUME NEW c, c \in F, c \in T PROVE FALSE
    OBVIOUS
  <2>1. PICK x \in S : \E i \in 1 .. f[x] : c = <<x, i>>
    BY <1>1
  <2>2. PICK y \in S : \E i \in 1 .. g[y] : c = <<y, f[y] + i>>
    BY <1>4
  <2>3. QED
    BY <2>1, <2>2
<1>7. m \in Bijection(G, T)
  <2>1. ASSUME NEW c \in G, NEW d \in G, Stacked(c, f) = Stacked(d, f)
        PROVE  c = d
    <3>1. PICK x \in S : \E i \in 1 .. g[x] : c = <<x, i>>
      BY <1>2
    <3>2. PICK y \in S : \E i \in 1 .. g[y] : d = <<y, i>>
      BY <1>2
    <3>3. QED
      BY <2>1, <3>1, <3>2 DEF Stacked
  <2>2. QED
    BY <2>1 DEF Bijection, Injection, Surjection, IsInjective
<1>8. IsFiniteSet(F) /\ IsFiniteSet(G)
  BY AllCoinsFinite
<1> HIDE DEF F, G, H, T, m
<1>9. IsFiniteSet(T) /\ Cardinality(T) = Cardinality(G)
  BY <1>7, <1>8, FS_Bijection DEF ExistsBijection
<1>10. Cardinality(H) = Cardinality(F) + Cardinality(T) - Cardinality({})
  <2>1. Cardinality(F \cup T) = Cardinality(F) + Cardinality(T) - Cardinality(F \cap T)
    BY <1>8, <1>9, FS_Union
  <2>2. QED
    BY <1>5, <1>6, <2>1
<1>11. Cardinality({}) = 0 /\ Cardinality(F) \in Nat /\ Cardinality(G) \in Nat
  BY <1>8, FS_EmptySet, FS_CardinalityType
<1>12. Cardinality(H) = Cardinality(F) + Cardinality(G)
  BY <1>9, <1>10, <1>11
<1>13. QED
  BY <1>12 DEF F, G, H, SumOver, AllCoins

\* k coins of g for every coin of f: k times the sum of f is at most the sum of g.
LEMMA SumScaled ==
  ASSUME NEW S, IsFiniteSet(S), NEW f, NEW g, NEW k \in Nat \ {0},
         \A x \in S : f[x] \in Nat /\ g[x] \in Nat /\ f[x] * k <= g[x]
  PROVE  SumOver(S, f) * k <= SumOver(S, g)
<1> DEFINE F == AllCoins(S, f)
           G == AllCoins(S, g)
           P == F \X (1 .. k)
           Number(i, j) == (i - 1) * k + j
           m == [c \in P |-> <<c[1][1], Number(c[1][2], c[2])>>]
<1>1. \A c : c \in F <=> \E x \in S : \E i \in 1 .. f[x] : c = <<x, i>>
  BY DEF AllCoins, Coins
<1>2. \A c : c \in G <=> \E x \in S : \E i \in 1 .. g[x] : c = <<x, i>>
  BY DEF AllCoins, Coins
<1>3. \A c : c \in P <=> \E x \in S : \E i \in 1 .. f[x], j \in 1 .. k : c = <<<<x, i>>, j>>
  BY <1>1
<1>4. \A x \in S : \A i \in 1 .. f[x], j \in 1 .. k : Number(i, j) \in 1 .. g[x]
  <2> SUFFICES ASSUME NEW x \in S, NEW i \in 1 .. f[x], NEW j \in 1 .. k
               PROVE  Number(i, j) \in 1 .. g[x]
    OBVIOUS
  <2>1. (i - 1) * k \in Nat /\ i * k = (i - 1) * k + k
    OBVIOUS
  <2>2. i * k <= f[x] * k
    OBVIOUS
  <2>3. QED
    BY <2>1, <2>2
<1>5. \A i, u \in Nat \ {0} : \A j, v \in 1 .. k : Number(i, j) = Number(u, v) => i = u /\ j = v
  <2>1. ASSUME NEW i \in Nat \ {0}, NEW u \in Nat \ {0}, i < u
        PROVE  (i - 1) * k + k <= (u - 1) * k
    <3>1. (i - 1) * k + k = i * k
      OBVIOUS
    <3>2. i <= u - 1 /\ i \in Nat /\ u - 1 \in Nat
      BY <2>1
    <3>3. i * k <= (u - 1) * k
      BY <3>2
    <3>4. QED
      BY <3>1, <3>3
  <2>2. ASSUME NEW i \in Nat \ {0}, NEW u \in Nat \ {0}, NEW j \in 1 .. k, NEW v \in 1 .. k,
               i < u
        PROVE  (i - 1) * k + j < (u - 1) * k + v
    <3>1. (i - 1) * k \in Nat /\ (u - 1) * k \in Nat
      OBVIOUS
    <3>2. QED
      BY <2>1, <2>2, <3>1
  <2>3. SUFFICES ASSUME NEW i \in Nat \ {0}, NEW u \in Nat \ {0}, NEW j \in 1 .. k, NEW v \in 1 .. k,
                        (i - 1) * k + j = (u - 1) * k + v
                 PROVE  i = u /\ j = v
    OBVIOUS
  <2>4. (i - 1) * k \in Nat /\ (u - 1) * k \in Nat
    OBVIOUS
  <2>5. ~ i < u /\ ~ u < i
    BY <2>2, <2>3, <2>4
  <2>6. QED
    BY <2>3, <2>4, <2>5
<1> HIDE DEF Number
<1>6. m \in Injection(P, G)
  <2>1. ASSUME NEW c \in P PROVE m[c] \in G
    <3>1. PICK x \in S : \E i \in 1 .. f[x], j \in 1 .. k : c = <<<<x, i>>, j>>
      BY <1>3
    <3>2. PICK i \in 1 .. f[x], j \in 1 .. k : c = <<<<x, i>>, j>>
      BY <3>1
    <3>3. m[c] = <<x, Number(i, j)>>
      BY <3>2
    <3>4. QED
      BY <1>2, <1>4, <3>3
  <2>2. ASSUME NEW c \in P, NEW d \in P, m[c] = m[d]
        PROVE  c = d
    <3>1. PICK x \in S : \E i \in 1 .. f[x], j \in 1 .. k : c = <<<<x, i>>, j>>
      BY <1>3
    <3>2. PICK i \in 1 .. f[x], j \in 1 .. k : c = <<<<x, i>>, j>>
      BY <3>1
    <3>3. PICK y \in S : \E u \in 1 .. f[y], v \in 1 .. k : d = <<<<y, u>>, v>>
      BY <1>3
    <3>4. PICK u \in 1 .. f[y], v \in 1 .. k : d = <<<<y, u>>, v>>
      BY <3>3
    <3>5. m[c] = <<x, Number(i, j)>> /\ m[d] = <<y, Number(u, v)>>
      BY <3>2, <3>4
    <3>6. x = y /\ Number(i, j) = Number(u, v)
      BY <2>2, <3>5
    <3>7. i = u /\ j = v
      BY <1>5, <3>6
    <3>8. QED
      BY <3>2, <3>4, <3>6, <3>7
  <2>3. QED
    BY <2>1, <2>2 DEF Injection, IsInjective
<1>7. IsFiniteSet(F) /\ IsFiniteSet(G) /\ IsFiniteSet(1 .. k) /\ Cardinality(1 .. k) = k
  BY AllCoinsFinite, FS_Interval
<1> HIDE DEF F, G, P, m
<1>8. IsFiniteSet(P) /\ Cardinality(P) = Cardinality(F) * Cardinality(1 .. k)
  BY <1>7, FS_Product, Zenon DEF P
<1>9. Cardinality(P) <= Cardinality(G)
  BY <1>6, <1>7, FS_Injection
<1>10. Cardinality(F) * k <= Cardinality(G)
  BY <1>7, <1>8, <1>9
<1>11. QED
  BY <1>10 DEF F, G, SumOver, AllCoins
=============================================================================
