----------------------------- MODULE MCCheckout -----------------------------
(* Small instances of Checkout. *)
EXTENDS Checkout, TLC

Symmetry == Permutations(Holds) \cup Permutations(Orders)
=============================================================================
