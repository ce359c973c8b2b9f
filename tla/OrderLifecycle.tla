--------------------------- MODULE OrderLifecycle ---------------------------
(***************************************************************************)
(* The life of placed orders of one shop: the seller moves them along the   *)
(* pipeline, ships them by hand or books a courier, buyers cancel and edit  *)
(* them while they are pending.                                             *)
(*                                                                         *)
(* A seller request reads the order, decides on what it has read, and then  *)
(* writes with an UPDATE that does not look at the status again: between    *)
(* the two anything may happen to the order.  Sessions are the browser tabs *)
(* of the seller (or the same button clicked twice), each with one request  *)
(* at a time.  What a buyer does is one statement or one transaction whose  *)
(* first statement re-checks the status under the row lock, so it is one    *)
(* action.                                                                  *)
(*                                                                         *)
(* Every order here took its pieces off the shelf when it was placed,       *)
(* itself or through the hold it consumed (Checkout).                       *)
(***************************************************************************)
EXTENDS Quantities, Sequences, OrderStatus

CONSTANTS
  Orders, Products, Sessions,
  Lines,        \* numbers of the lines of an order
  Addresses,    \* delivery details
  Proofs,       \* advance-payment proofs
  NoProof,
  MaxStock,     \* bound on the stock at the start
  MaxShelf,     \* bound on the stock ever: it grows when pieces return twice
  MaxParcels    \* bound on the consignments the courier accepts

ASSUME OrderLifecycleAssumption ==
  /\ IsFiniteSet(Lines)
  /\ NoProof \notin Proofs
  /\ MaxStock \in Nat
  /\ MaxShelf \in Nat
  /\ MaxParcels \in Nat

VARIABLES
  stock,        \* products.stock
  status,       \* orders.status, "none" before the row exists
  item,         \* order_items: a line is a basket of one product, or empty
  details,      \* delivery address and note
  advance,      \* orders.advance_payment_received
  proof,        \* advance_payment_method_id, _txn_ref and _receipt
  tracking,     \* orders.tracking_id: a parcel, Manual or NoTracking
  parcels,      \* consignments at the courier, in the order it accepted them
  request,      \* what the request of a session has read and decided
  taken,        \* ghost: pieces off the shelf on behalf of an order
  overtaken,    \* ghost: sessions whose order changed status since they read it
  raced,        \* ghost: orders changed by a write that was decided on a status
                \*   the order no longer had
  recorded      \* ghost: parcels whose tracking code was written to their order

pieceVars == <<stock, item, taken>>
buyerVars == <<details, advance, proof>>
courierVars == <<tracking, parcels>>
ghostVars == <<overtaken, raced, recorded>>
vars == <<status, pieceVars, buyerVars, courierVars, request, ghostVars>>

NoTracking == 0
Manual     == -1

Idle == [op |-> "none"]
Requests ==
  {Idle}
  \cup [op : {"status"}, order : Orders, seen : Statuses, target : Statuses]
  \cup [op : {"ship"}, order : Orders, seen : {"confirmed", "shipped"}]
  \cup [op : {"book"}, order : Orders, seen : {"confirmed"}, to : Addresses]
  \cup [op : {"booked"}, order : Orders, seen : {"confirmed"}, parcel : 1..MaxParcels]
-----------------------------------------------------------------------------
(* Lines and pieces.                                                       *)

\* A line is for some pieces of one product; the empty basket: no such line.
OneProduct == {q \in Baskets(Products) :
                 \A p1, p2 \in Products : q[p1] > 0 /\ q[p2] > 0 => p1 = p2}

\* The pieces of o, all lines added up.
Ordered(o) == [p \in Products |-> Total(Lines, item[o], p)]

\* Two lines of o are for the same product: nothing in the API or the schema
\* forbids it.
Repeats(o) == \E j, k \in Lines, p \in Products :
                j # k /\ item[o][j][p] > 0 /\ item[o][k][p] > 0

\* What UPDATE products ... FROM order_items may apply for o: of several lines
\* that join to one product row, PostgreSQL uses one.
Joined(o) ==
  {d \in Baskets(Products) : \A p \in Products :
     IF \E k \in Lines : item[o][k][p] > 0
     THEN \E k \in Lines : item[o][k][p] > 0 /\ d[p] = item[o][k][p]
     ELSE d[p] = 0}

\* Take d off the shelf on behalf of o, CHECK (stock >= 0) permitting.
TakeFor(o, d) ==
  /\ \A p \in Products : d[p] <= stock[p]
  /\ stock' = [p \in Products |-> stock[p] - d[p]]
  /\ taken' = [taken EXCEPT ![o] = [p \in Products |-> @[p] + d[p]]]

\* Put d back.
ReturnFor(o, d) ==
  /\ \A p \in Products : stock[p] + d[p] <= MaxShelf    \* bound
  /\ stock' = [p \in Products |-> stock[p] + d[p]]
  /\ taken' = [taken EXCEPT ![o] = [p \in Products |-> @[p] - d[p]]]
-----------------------------------------------------------------------------
Init ==
  /\ stock \in [Products -> 0..MaxStock]
  /\ status = [o \in Orders |-> "none"]
  /\ item = [o \in Orders |-> [k \in Lines |-> EmptyBasket(Products)]]
  /\ details \in [Orders -> Addresses]
  /\ advance = [o \in Orders |-> FALSE]
  /\ proof = [o \in Orders |-> NoProof]
  /\ tracking = [o \in Orders |-> NoTracking]
  /\ parcels = <<>>
  /\ request = [s \in Sessions |-> Idle]
  /\ taken = [o \in Orders |-> EmptyBasket(Products)]
  /\ overtaken = {}
  /\ raced = {}
  /\ recorded = {}

\* PlaceOrder: the header and, line by line, its pieces.
Place(o) ==
  /\ status[o] = "none"
  /\ \E lines \in [Lines -> OneProduct] :
       /\ \E k \in Lines, p \in Products : lines[k][p] > 0
       /\ item' = [item EXCEPT ![o] = lines]
       /\ TakeFor(o, [p \in Products |-> Total(Lines, lines, p)])
  /\ status' = [status EXCEPT ![o] = "pending"]
  /\ UNCHANGED <<buyerVars, courierVars, request, ghostVars>>
-----------------------------------------------------------------------------
(* Ghosts.                                                                 *)

\* The status of o changes under the requests about it, but for the one of by.
Overtake(o, by) ==
  overtaken' = (overtaken \ by) \cup
    {s \in Sessions \ by : /\ request[s] # Idle
                          /\ request[s].order = o
                          /\ status'[o] # status[o]}

\* The request of s has written its order and ends.
Done(s) ==
  LET o == request[s].order IN
  /\ request' = [request EXCEPT ![s] = Idle]
  /\ Overtake(o, {s})
  /\ raced' = IF /\ status[o] # request[s].seen
                /\ <<status'[o], taken'[o]>> # <<status[o], taken[o]>>
              THEN raced \cup {o}
              ELSE raced
-----------------------------------------------------------------------------
(* The seller.                                                             *)

\* UpdateOrderStatus reads the order and validates the transition.
ReadForStatus(s, o, target) ==
  /\ request[s] = Idle
  /\ status[o] # "none"
  /\ target \in validTransitions(status[o])
  /\ request' = [request EXCEPT ![s] =
       [op |-> "status", order |-> o, seen |-> status[o], target |-> target]]
  /\ UNCHANGED <<status, pieceVars, buyerVars, courierVars, ghostVars>>

\* Bug for ImplementsBook: a cancellation is undone like any other status.
WriteStatusEvenRestore(s) ==
  LET r == request[s] IN
  /\ r.op = "status"
  /\ r.target # "cancelled"
  /\ status' = [status EXCEPT ![r.order] = r.target]
  /\ UNCHANGED <<pieceVars, buyerVars, courierVars, recorded>>
  /\ Done(s)

\* UpdateOrderStatusForShopOwner, any target but cancelled.
WriteStatus(s) ==
  LET r == request[s] IN
  /\ r.op = "status"
  /\ r.target # "cancelled"
  /\ r.seen # "cancelled"
  /\ status' = [status EXCEPT ![r.order] = r.target]
  /\ UNCHANGED <<pieceVars, buyerVars, courierVars, recorded>>
  /\ Done(s)

\* cancelWithStockRestore.
WriteCancel(s) ==
  LET r == request[s] IN
  /\ r.op = "status"
  /\ r.target = "cancelled"
  /\ status' = [status EXCEPT ![r.order] = "cancelled"]
  /\ \E d \in Joined(r.order) : ReturnFor(r.order, d)
  /\ UNCHANGED <<item, buyerVars, courierVars, recorded>>
  /\ Done(s)

\* RestoreCancelledOrder: the only write of the seller that checks the status.
WriteRestore(s) ==
  LET r == request[s] IN
  /\ r.op = "status"
  /\ r.seen = "cancelled"
  /\ status[r.order] = "cancelled"
  /\ status' = [status EXCEPT ![r.order] = "pending"]
  /\ \E d \in Joined(r.order) : TakeFor(r.order, d)
  /\ UNCHANGED <<item, buyerVars, courierVars, recorded>>
  /\ Done(s)

\* ShipOrder reads the order.
ReadForShip(s, o) ==
  /\ request[s] = Idle
  /\ status[o] \in {"confirmed", "shipped"}
  /\ request' = [request EXCEPT ![s] =
       [op |-> "ship", order |-> o, seen |-> status[o]]]
  /\ UNCHANGED <<status, pieceVars, buyerVars, courierVars, ghostVars>>

\* SetShipment with the code the seller typed in, if any; the status only if it
\* was read as confirmed.
WriteShip(s) ==
  LET r == request[s] IN
  /\ r.op = "ship"
  /\ \E typed \in {Manual, NoTracking} :
       tracking' = [tracking EXCEPT ![r.order] = typed]
  /\ status' = [status EXCEPT ![r.order] =
                  IF r.seen = "confirmed" THEN "shipped" ELSE @]
  /\ UNCHANGED <<pieceVars, buyerVars, parcels, recorded>>
  /\ Done(s)

\* BookCourier reads the order, its address included.
ReadForBooking(s, o) ==
  /\ request[s] = Idle
  /\ status[o] = "confirmed"
  /\ request' = [request EXCEPT ![s] =
       [op |-> "book", order |-> o, seen |-> status[o], to |-> details[o]]]
  /\ UNCHANGED <<status, pieceVars, buyerVars, courierVars, ghostVars>>

\* CreateConsignment: the courier has accepted the parcel.
Consign(s) ==
  LET r == request[s] IN
  /\ r.op = "book"
  /\ Len(parcels) < MaxParcels
  /\ parcels' = Append(parcels, [order |-> r.order, to |-> r.to])
  /\ request' = [request EXCEPT ![s] =
       [op |-> "booked", order |-> r.order, seen |-> r.seen,
        parcel |-> Len(parcels) + 1]]
  /\ UNCHANGED <<status, pieceVars, buyerVars, tracking, ghostVars>>

\* Bug for TrackingIsOwn: the code of the parcel the courier accepted last.
WriteLatestBooking(s) ==
  LET r == request[s] IN
  /\ r.op = "booked"
  /\ tracking' = [tracking EXCEPT ![r.order] = Len(parcels)]
  /\ status' = [status EXCEPT ![r.order] = "shipped"]
  /\ recorded' = recorded \cup {Len(parcels)}
  /\ UNCHANGED <<pieceVars, buyerVars, parcels>>
  /\ Done(s)

\* SetShipment with the tracking code, marking the order shipped.
WriteBooking(s) ==
  LET r == request[s] IN
  /\ r.op = "booked"
  /\ tracking' = [tracking EXCEPT ![r.order] = r.parcel]
  /\ status' = [status EXCEPT ![r.order] = "shipped"]
  /\ recorded' = recorded \cup {r.parcel}
  /\ UNCHANGED <<pieceVars, buyerVars, parcels>>
  /\ Done(s)

\* A request ends without a write: an error of the database or the courier, a
\* restore that finds the order not cancelled or its pieces sold, or a crash.
Fail(s) ==
  /\ request[s] # Idle
  /\ request' = [request EXCEPT ![s] = Idle]
  /\ overtaken' = overtaken \ {s}
  /\ UNCHANGED <<status, pieceVars, buyerVars, courierVars, raced,
                 recorded>>

\* MarkAdvanceReceived: one unconditional UPDATE.
MarkAdvanceReceived(o, received) ==
  /\ status[o] # "none"
  /\ advance' = [advance EXCEPT ![o] = received]
  /\ UNCHANGED <<status, pieceVars, details, proof, courierVars, request,
                 ghostVars>>
-----------------------------------------------------------------------------
(* Buyers.                                                                 *)

\* CancelOrderByBuyer.
BuyerCancel(o) ==
  /\ status[o] = "pending"
  /\ status' = [status EXCEPT ![o] = "cancelled"]
  /\ \E d \in Joined(o) : ReturnFor(o, d)
  /\ Overtake(o, {})
  /\ UNCHANGED <<item, buyerVars, courierVars, request, raced, recorded>>

\* Bug for BookedAddressCurrent: no "AND status = 'pending'".
EditableUntilPaid(o) == status[o] # "none" /\ ~advance[o]

\* The buyer may still change the order.
Editable(o) == status[o] = "pending" /\ ~advance[o]

\* SubmitAdvanceProof.
SubmitAdvanceProof(o, r) ==
  /\ Editable(o)
  /\ proof' = [proof EXCEPT ![o] = r]
  /\ UNCHANGED <<status, pieceVars, details, advance, courierVars, request,
                 ghostVars>>

\* UpdateBuyerEditableFields.
BuyerEdit(o, a) ==
  /\ Editable(o)
  /\ details' = [details EXCEPT ![o] = a]
  /\ UNCHANGED <<status, pieceVars, advance, proof, courierVars, request,
                 ghostVars>>
-----------------------------------------------------------------------------
SellerNext ==
  \/ \E s \in Sessions :
       \/ \E o \in Orders, target \in Statuses : ReadForStatus(s, o, target)
       \/ WriteStatus(s)
       \/ WriteCancel(s)
       \/ WriteRestore(s)
       \/ \E o \in Orders : ReadForShip(s, o)
       \/ WriteShip(s)
       \/ \E o \in Orders : ReadForBooking(s, o)
       \/ Consign(s)
       \/ WriteBooking(s)
       \/ Fail(s)
  \/ \E o \in Orders, received \in BOOLEAN : MarkAdvanceReceived(o, received)

BuyerNext == \E o \in Orders :
  \/ Place(o)
  \/ BuyerCancel(o)
  \/ \E r \in Proofs : SubmitAdvanceProof(o, r)
  \/ \E a \in Addresses : BuyerEdit(o, a)

Next == SellerNext \/ BuyerNext

Spec == Init /\ [][Next]_vars
-----------------------------------------------------------------------------
(* Properties.                                                             *)

TypeOK ==
  /\ stock \in [Products -> Nat]
  /\ status \in [Orders -> Statuses \cup {"none"}]
  /\ item \in [Orders -> [Lines -> OneProduct]]
  /\ details \in [Orders -> Addresses]
  /\ advance \in [Orders -> BOOLEAN]
  /\ proof \in [Orders -> Proofs \cup {NoProof}]
  /\ tracking \in [Orders -> {Manual, NoTracking} \cup 1..MaxParcels]
  /\ parcels \in Seq([order : Orders, to : Addresses])
  /\ Len(parcels) <= MaxParcels
  /\ request \in [Sessions -> Requests]
  /\ taken \in [Orders -> [Products -> Int]]
  /\ overtaken \subseteq Sessions
  /\ raced \subseteq Orders
  /\ recorded \subseteq 1..MaxParcels

\* Orders of which OrderBook promises nothing: a write decided on a status the
\* order no longer had has changed them, or two of their lines are for one
\* product.
Spoiled(o) == o \in raced \/ Repeats(o)

Book == INSTANCE OrderBook WITH
  state <- [o \in Orders |-> IF Spoiled(o) THEN "spoiled" ELSE status[o]],
  offShelf <- [o \in Orders |->
                 IF Spoiled(o) \/ taken[o] = EmptyBasket(Products) THEN FALSE
                 ELSE IF taken[o] = Ordered(o) THEN TRUE
                 ELSE "in part"]

\* The pipeline implements the order book: with requests, cancellations by
\* buyers, restores and bookings interleaved, an order that no outdated write
\* has touched moves along validTransitions only, and all of its pieces are
\* off the shelf or none.
ImplementsBook == Book!Spec

\* A parcel the courier has accepted is on its way to the address its order
\* has, until the request that booked it is overtaken: the buyer cannot move
\* while the order stays confirmed.
BookedAddressCurrent ==
  \A s \in Sessions \ overtaken : request[s].op = "booked" =>
    LET parcel == parcels[request[s].parcel] IN
    /\ parcel.order = request[s].order
    /\ parcel.to = details[parcel.order]
    /\ status[parcel.order] = "confirmed"

\* The tracking code on an order is that of a parcel booked for it by a request
\* that is done: two bookings of one order at the same time never write the
\* parcel of each other, though only the last code stays.
TrackingIsOwn ==
  \A o \in Orders : tracking[o] \in 1..MaxParcels =>
    /\ parcels[tracking[o]].order = o
    /\ \A s \in Sessions : request[s].op = "booked" =>
         request[s].parcel # tracking[o]

\* "validTransitions defines which status transitions a seller can perform":
\* a status changes along them only.
TransitionsAllowed ==
  [][\A o \in Orders : status'[o] # status[o] /\ status[o] # "none" =>
       status'[o] \in validTransitions(status[o])]_vars

\* "When cancelling, stock is restored in the same transaction": a cancelled
\* order has no piece off the shelf.
CancelReturnsAll ==
  \A o \in Orders \ raced : status[o] = "cancelled" =>
    taken[o] = EmptyBasket(Products)

\* Booking "creates the consignment and writes the tracking code back onto the
\* order": a parcel the courier accepted is recorded unless its booking is still
\* at work.
ParcelsAreRecorded ==
  \A i \in 1..Len(parcels) :
    \/ i \in recorded
    \/ \E s \in Sessions : request[s].op = "booked" /\ request[s].parcel = i
=============================================================================
