----------------------------- MODULE Quantities -----------------------------
(***************************************************************************)
(* Sums of quantities over a set of rows, as the SQL of the repository      *)
(* layer computes them (SUM(i.quantity) ... GROUP BY i.product_id).         *)
(*                                                                         *)
(* A row x says how many pieces of every product it is for: qty[x][p].      *)
(* The sum over the rows S is counted rather than folded: every piece is    *)
(* the pair of its row and its number in the row, and the sum is the number *)
(* of pieces.  Counting makes the facts about sums (QuantitiesProofs)       *)
(* instances of facts about cardinality.                                    *)
(***************************************************************************)
EXTENDS Integers, FiniteSets

CONSTANT MaxQty        \* bound on the quantity of one row

ASSUME MaxQtyAssumption == MaxQty \in Nat \ {0}

\* What one row may say: at most MaxQty pieces of every product of P.
Baskets(P) == [P -> 0..MaxQty]

EmptyBasket(P) == [p \in P |-> 0]

\* The pieces of p in the rows S.
Pieces(S, qty, p) == {u \in S \X (1..MaxQty) : u[2] <= qty[u[1]][p]}

\* SUM(quantity) of product p over the rows S.
Total(S, qty, p) == Cardinality(Pieces(S, qty, p))
=============================================================================
