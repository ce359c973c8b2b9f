----------------------------- MODULE OrderDesk ------------------------------
(***************************************************************************)
(* One order with an advance payment, on the seller's order page in        *)
(* several tabs and on the buyer's order-lookup page.  Each page acts on   *)
(* the copy of the order it loaded, which may be outdated, and a seller    *)
(* may click again before the first request is answered.                   *)
(*                                                                         *)
(* A request is one step at the server: OrderLifecycle has its steps.      *)
(***************************************************************************)
EXTENDS Naturals, FiniteSets, OrderStatus

CONSTANTS
  Sessions,  \* tabs of the seller
  MaxCalls   \* bound on the requests of the seller on their way

ASSUME DeskAssumption == MaxCalls \in Nat

VARIABLES
  desk,      \* the order at the server
  seen,      \* the copy each tab of the seller shows
  shipOpen,  \* tabs with the shipment dialog open
  shown,     \* the copy the buyer's page shows
  calls,     \* requests of the seller on their way
  verified   \* ghost: has the advance payment ever been marked as received

deskVars == <<desk, seen, shipOpen, shown, calls, verified>>

\* The parts of an order the buttons depend on.
Copies == [status : Statuses, proof : BOOLEAN, received : BOOLEAN, courier : BOOLEAN]

Requests == [op : {"status"}, to : Statuses]
              \cup [op : {"ship", "book"}, to : {"shipped"}]
              \cup [op : {"received"}, to : BOOLEAN]

\* The checkout of an earlier version sent an order without a proof.
DeskInit ==
  /\ desk \in {c \in Copies : c.status = "pending" /\ ~c.received /\ ~c.courier}
  /\ seen = [s \in Sessions |-> desk]
  /\ shipOpen = {}
  /\ shown = desk
  /\ calls = {}
  /\ verified = FALSE
-----------------------------------------------------------------------------
(* What the seller's page offers on the copy it shows.                     *)

\* Bug for OffersAccepted: the transitions of docs/API.md, which lets a shipped
\* order be cancelled.
nextStatusOfDocs(from) ==
  CASE from = "pending"   -> {"confirmed", "cancelled"}
    [] from = "confirmed" -> {"shipped", "cancelled"}
    [] from = "shipped"   -> {"delivered", "cancelled"}
    [] OTHER              -> {}

nextStatus(from) ==
  CASE from = "pending"   -> {"confirmed", "cancelled"}
    [] from = "confirmed" -> {"shipped", "cancelled"}
    [] from = "shipped"   -> {"delivered", "returned"}
    [] OTHER              -> {}

\* Where "Undo" leads; a pending order has none.
prevStatus(from) ==
  CASE from = "confirmed" -> {"pending"}
    [] from = "shipped"   -> {"confirmed"}
    [] from = "delivered" -> {"shipped"}
    [] from = "returned"  -> {"shipped"}
    [] from = "cancelled" -> {"pending"}
    [] OTHER              -> {}

AdvancePending(c) == ~c.received

\* Bug for PaidBeforeConfirmed: "Confirm order" does not look at the payment.
ForwardAnyway(c) == {to \in nextStatus(c.status) : to \notin {"cancelled", "returned", "shipped"}}

\* Bug for CourierAlwaysKnown: shipping has a plain button too.
ForwardAlsoShips(c) ==
  {to \in nextStatus(c.status) :
     to \notin {"cancelled", "returned"} /\ (to = "confirmed" => ~AdvancePending(c))}

\* The plain buttons: confirm, unless the advance payment is pending, and
\* deliver.
Forward(c) ==
  {to \in nextStatus(c.status) :
     /\ to \notin {"cancelled", "returned", "shipped"}
     /\ to = "confirmed" => ~AdvancePending(c)}

\* The buttons that ask for a reason.
WithReason(c) == nextStatus(c.status) \cap {"cancelled", "returned"}

\* "Hand to courier", which opens the shipment dialog, with "Book Steadfast".
BookOffered(c) == "shipped" \in nextStatus(c.status)

\* "Edit" of a shipment opens the same dialog.
EditShipmentOffered(c) == c.courier /\ c.status = "shipped"

\* The payment card has its buttons only when there is a proof.
VerifyOffered(c) == c.proof /\ AdvancePending(c)
UnverifyOffered(c) == c.proof /\ ~AdvancePending(c)

Offers(c) ==
  {r \in Requests :
     \/ r.op = "status" /\ r.to \in Forward(c) \cup WithReason(c) \cup prevStatus(c.status)
     \/ r.op = "ship" /\ (BookOffered(c) \/ EditShipmentOffered(c))
     \/ r.op = "book" /\ BookOffered(c)
     \/ r.op = "received" /\ r.to = TRUE /\ VerifyOffered(c)
     \/ r.op = "received" /\ r.to = FALSE /\ UnverifyOffered(c)}
-----------------------------------------------------------------------------
(* The seller.                                                             *)

\* The page is opened, the network comes back, or an answer says that
\* the copy is outdated.
Look(s) ==
  /\ seen' = [seen EXCEPT ![s] = desk]
  /\ UNCHANGED <<desk, shipOpen, shown, calls, verified>>

\* updateStatus, book and markPayment: the request goes out.
Click(s) ==
  /\ Cardinality(calls) < MaxCalls
  /\ \E r \in Offers(seen[s]) : r.op # "ship" /\ calls' = calls \cup {r}
  /\ UNCHANGED <<desk, seen, shipOpen, shown, verified>>

\* The shipment dialog covers the page: the copy under it may change.
OpenShip(s) ==
  /\ [op |-> "ship", to |-> "shipped"] \in Offers(seen[s])
  /\ shipOpen' = shipOpen \cup {s}
  /\ UNCHANGED <<desk, seen, shown, calls, verified>>

\* Its button needs a courier to be chosen.
SubmitShip(s) ==
  /\ s \in shipOpen
  /\ Cardinality(calls) < MaxCalls
  /\ calls' = calls \cup {[op |-> "ship", to |-> "shipped"]}
  /\ UNCHANGED <<desk, seen, shipOpen, shown, verified>>

\* "Cancel", or the request was accepted.
CloseShip(s) ==
  /\ s \in shipOpen
  /\ shipOpen' = shipOpen \ {s}
  /\ UNCHANGED <<desk, seen, shown, calls, verified>>

\* What the server checks of a request.
Accepts(c, r) ==
  CASE r.op = "status"   -> r.to \in validTransitions(c.status)
    [] r.op = "ship"     -> c.status \in {"confirmed", "shipped"}
    [] r.op = "book"     -> c.status = "confirmed"
    [] r.op = "received" -> TRUE

After(c, r) ==
  CASE r.op = "status"            -> [c EXCEPT !.status = r.to]
    [] r.op \in {"ship", "book"}  -> [c EXCEPT !.status = "shipped", !.courier = TRUE]
    [] r.op = "received"          -> [c EXCEPT !.received = r.to]

\* The request is served, or is lost or refused: by the checks, or for another
\* reason, as when an undone cancellation finds the pieces sold.
Serve ==
  \E r \in calls :
    /\ calls' = calls \ {r}
    /\ \/ UNCHANGED <<desk, verified>>
       \/ /\ Accepts(desk, r)
          /\ desk' = After(desk, r)
          /\ verified' = (verified \/ desk'.received)
    /\ UNCHANGED <<seen, shipOpen, shown>>
-----------------------------------------------------------------------------
(* The buyer.                                                              *)

LookUp ==
  /\ shown' = desk
  /\ UNCHANGED <<desk, seen, shipOpen, calls, verified>>

\* The editable sections are there until the seller confirms the order or the
\* payment; the button to cancel is there a little longer than the server
\* allows.
EditOffered(c) == c.status = "pending" /\ ~c.received
CancelOffered(c) == c.status \in {"pending", "confirmed"}

\* The server checks again, and the answer replaces the copy that is shown; an
\* answer may be lost.
BuyerChanges(c) ==
  /\ desk' = c
  /\ shown' \in {shown, c}
  /\ UNCHANGED <<seen, shipOpen, calls, verified>>

SubmitProof ==
  /\ EditOffered(shown)
  /\ desk.status = "pending" /\ ~desk.received
  /\ BuyerChanges([desk EXCEPT !.proof = TRUE])

EditDelivery ==
  /\ EditOffered(shown)
  /\ desk.status = "pending" /\ ~desk.received
  /\ BuyerChanges(desk)

BuyerCancels ==
  /\ CancelOffered(shown)
  /\ desk.status = "pending"
  /\ BuyerChanges([desk EXCEPT !.status = "cancelled"])
-----------------------------------------------------------------------------
DeskNext ==
  \/ \E s \in Sessions : Look(s) \/ Click(s)
  \/ \E s \in Sessions : OpenShip(s) \/ SubmitShip(s) \/ CloseShip(s)
  \/ Serve
  \/ LookUp \/ SubmitProof \/ EditDelivery \/ BuyerCancels

DeskSpec == DeskInit /\ [][DeskNext]_deskVars
-----------------------------------------------------------------------------
(* Properties.                                                             *)

DeskTypeOK ==
  /\ desk \in Copies
  /\ seen \in [Sessions -> Copies]
  /\ shipOpen \subseteq Sessions
  /\ shown \in Copies
  /\ calls \subseteq Requests
  /\ verified \in BOOLEAN

\* "nextStatus mirrors the seller-facing actions allowed from each state": what
\* an up-to-date page offers, the server accepts.
OffersAccepted ==
  \A s \in Sessions : seen[s] = desk => \A r \in Offers(seen[s]) : Accepts(desk, r)

\* The server does not ask for the advance payment before it confirms an order:
\* the pages see to it.  However outdated their copies are, an order gets past
\* "pending" only after its payment was verified.
PaidBeforeConfirmed ==
  desk.status \in {"confirmed", "shipped", "delivered", "returned"} => verified

\* A payment that is marked as received has a proof of it.
VerifiedHasProof == desk.received => desk.proof

\* "A courier name is required so the buyer-facing tracking view always has
\* something to show": an order that is with the courier, or was, has one,
\* although "shipped" is also a status the server sets without a shipment.
CourierAlwaysKnown ==
  desk.status \in {"shipped", "delivered", "returned"} => desk.courier
=============================================================================
