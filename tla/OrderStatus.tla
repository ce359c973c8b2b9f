---------------------------- MODULE OrderStatus -----------------------------
(***************************************************************************)
(* The statuses of an order and the moves a seller may make between them.   *)
(***************************************************************************)

Statuses == {"pending", "confirmed", "shipped", "delivered", "returned", "cancelled"}

\* validTransitions, the reverse edges (undo) included.
validTransitions(from) ==
  CASE from = "pending"   -> {"confirmed", "cancelled"}
    [] from = "confirmed" -> {"shipped", "cancelled", "pending"}
    [] from = "shipped"   -> {"delivered", "returned", "confirmed"}
    [] from = "delivered" -> {"shipped"}
    [] from = "returned"  -> {"shipped"}
    [] from = "cancelled" -> {"pending"}
=============================================================================
