-------------------------------- MODULE Sums --------------------------------
(***************************************************************************)
(* Sums of a natural-valued function over a finite set: Python's           *)
(* sum(... for x in ...), which the purchasing code uses for order totals. *)
(*                                                                         *)
(* The sum is the number of "coins" when x owns f[x] of them.  A fold      *)
(* would say the same, but a statement about a fold needs induction over   *)
(* its set; about a cardinality it needs only the finite-set theorems.     *)
(***************************************************************************)
EXTENDS Integers, FiniteSets

\* The coins of x: f[x] distinct pairs tagged with x.
Coins(f, x) == {x} \X (1 .. f[x])

\* Sum of f[x] for x \in S, for f natural on S.
SumOver(S, f) == Cardinality(UNION {Coins(f, x) : x \in S})
=============================================================================
