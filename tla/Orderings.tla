------------------------------ MODULE Orderings ------------------------------
(***************************************************************************)
(* ORDER BY: the rows of a result, put into the order of a strict total    *)
(* order, which is given as the set of the pairs <<earlier, later>>.       *)
(***************************************************************************)
EXTENDS Naturals, FiniteSets

Earlier(S, R, x) == {y \in S : <<y, x>> \in R}

(* The i-th row is the one with i - 1 rows before it.                      *)
OrderedBy(S, R) ==
  [i \in 1 .. Cardinality(S) |->
     CHOOSE x \in S : Cardinality(Earlier(S, R, x)) = i - 1]

(* What SQL's ORDER BY needs to have one result.                           *)
OrdersRows(S, R) ==
  /\ \A x \in S : <<x, x>> \notin R
  /\ \A x, y \in S : x # y => <<x, y>> \in R \/ <<y, x>> \in R
  /\ \A x, y, z \in S : <<x, y>> \in R /\ <<y, z>> \in R => <<x, z>> \in R
=============================================================================
