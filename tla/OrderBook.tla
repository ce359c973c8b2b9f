----------------------------- MODULE OrderBook ------------------------------
(***************************************************************************)
(* What the order pipeline promises of every order that is handled by one   *)
(* request at a time: its status follows validTransitions, and its pieces   *)
(* are off the shelf exactly while it is not cancelled.                     *)
(*                                                                         *)
(* An order may be spoiled: from then on nothing is promised of it.         *)
(* OrderLifecycle implements this module and says which orders those are.   *)
(***************************************************************************)
EXTENDS OrderStatus

CONSTANT Orders

VARIABLES
  state,    \* the status of an order, "none" before it is placed, or "spoiled"
  offShelf  \* whether the pieces of an order are off the shelf

vars == <<state, offShelf>>

Init ==
  /\ state = [o \in Orders |-> "none"]
  /\ offShelf = [o \in Orders |-> FALSE]

Place(o) ==
  /\ state[o] = "none"
  /\ state' = [state EXCEPT ![o] = "pending"]
  /\ offShelf' = [offShelf EXCEPT ![o] = TRUE]

\* One step along validTransitions: a cancellation gives the pieces back, and
\* undoing it takes them again.
Move(o, to) ==
  /\ state[o] \in Statuses
  /\ to \in validTransitions(state[o])
  /\ state' = [state EXCEPT ![o] = to]
  /\ offShelf' = [offShelf EXCEPT ![o] = to # "cancelled"]

Spoil(o) ==
  /\ state' = [state EXCEPT ![o] = "spoiled"]
  /\ offShelf' = [offShelf EXCEPT ![o] = FALSE]

Next == \E o \in Orders :
  \/ Place(o)
  \/ \E to \in Statuses : Move(o, to)
  \/ Spoil(o)

Spec == Init /\ [][Next]_vars
=============================================================================
