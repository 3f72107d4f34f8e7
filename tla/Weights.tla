------------------------------ MODULE Weights ------------------------------
(***************************************************************************)
(* Sums over finite sets, as cardinalities.                                *)
(*                                                                         *)
(* The store adds token counts with SQL SUM(...) over rows.  Weight(S, f)  *)
(* is that sum of f[x] over the rows x of S, written as the number of      *)
(* pairs <<x, u>> with u in 1..f[x]: one pair per token.  The cardinality  *)
(* form needs no recursion, so the facts about it follow from the library  *)
(* theorems on finite sets.                                                *)
(***************************************************************************)
EXTENDS Integers, FiniteSets

\* The tokens of row x under the token count f.
UnitsOf(x, f) == {x} \X (1..f[x])

\* The tokens of all rows of S.
Units(S, f) == UNION {UnitsOf(x, f) : x \in S}

\* The sum of f[x] for x in S.
Weight(S, f) == Cardinality(Units(S, f))

Least(a, b) == IF a < b THEN a ELSE b
Greatest(a, b) == IF a < b THEN b ELSE a

=============================================================================
