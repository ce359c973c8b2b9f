-------------------------- MODULE MCOrderLifecycle --------------------------
(* Small instances of OrderLifecycle. *)
EXTENDS OrderLifecycle, TLC

Symmetry == Permutations(Sessions) \cup Permutations(Orders)
=============================================================================
