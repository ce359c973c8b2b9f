------------------------ MODULE OrderLifecycleProofs ------------------------
(***************************************************************************)
(* The order pipeline for any number of orders, lines, sessions, addresses *)
(* and parcels: it implements OrderBook, parcels go where their orders     *)
(* are, and tracking codes are not mixed up.                               *)
(***************************************************************************)
EXTENDS OrderLifecycle, QuantitiesProofs

-----------------------------------------------------------------------------
(* Types.                                                                  *)

StatusRequests == [op : {"status"}, order : Orders, seen : Statuses, target : Statuses]
ShipRequests == [op : {"ship"}, order : Orders, seen : {"confirmed", "shipped"}]
BookRequests == [op : {"book"}, order : Orders, seen : {"confirmed"}, to : Addresses]
BookedRequests == [op : {"booked"}, order : Orders, seen : {"confirmed"}, parcel : 1..MaxParcels]

LEMMA RequestsAre ==
  Requests = {Idle} \cup StatusRequests \cup ShipRequests \cup BookRequests \cup BookedRequests
BY DEF Requests, StatusRequests, ShipRequests, BookRequests, BookedRequests

\* A request that has an operation is about an order, and its operation says
\* what it carries.
LEMMA RequestKinds ==
  ASSUME NEW r \in Requests
  PROVE  /\ r # Idle => r.order \in Orders
         /\ r.op = "status" => r \in StatusRequests
         /\ r.op = "ship" => r \in ShipRequests
         /\ r.op = "book" => r \in BookRequests
         /\ r.op = "booked" => r \in BookedRequests
         /\ r.op # "none" => r # Idle
BY RequestsAre DEF Idle, StatusRequests, ShipRequests, BookRequests, BookedRequests

\* What a request that ends leaves of itself.
LEMMA DoneTypes ==
  ASSUME TypeOK, NEW s \in Sessions, request[s] # Idle, Done(s)
  PROVE  /\ request' \in [Sessions -> Requests]
         /\ overtaken' \subseteq Sessions
         /\ raced' \subseteq Orders
<1>1. request[s].order \in Orders  BY RequestKinds DEF TypeOK
<1>2. request' = [request EXCEPT ![s] = Idle] /\ Idle \in Requests
  BY RequestsAre DEF Done
<1>3. request' \in [Sessions -> Requests]  BY <1>2 DEF TypeOK
<1>4. overtaken' \subseteq Sessions  BY Zenon DEF Done, Overtake, TypeOK
<1>5. raced' \in {raced, raced \cup {request[s].order}}  BY DEF Done
<1>6. QED  BY <1>1, <1>3, <1>4, <1>5 DEF TypeOK

LEMMA LineTypes ==
  ASSUME TypeOK, NEW o \in Orders, NEW k \in Lines, NEW p \in Products
  PROVE  item[o][k][p] \in 0..MaxQty
BY DEF TypeOK, OneProduct, Baskets

\* The totals of lines are natural numbers.
LEMMA OrderedType ==
  ASSUME NEW lines
  PROVE  [p \in Products |-> Total(Lines, lines, p)] \in [Products -> Nat]
BY TotalType, OrderLifecycleAssumption

LEMMA TakeTypes ==
  ASSUME TypeOK, NEW o \in Orders, NEW d \in [Products -> Nat], TakeFor(o, d)
  PROVE  /\ stock' \in [Products -> Nat]
         /\ taken' \in [Orders -> [Products -> Int]]
<1>1. stock' \in [Products -> Nat]  BY DEF TypeOK, TakeFor
<1>2. taken' = [taken EXCEPT ![o] = [p \in Products |-> taken[o][p] + d[p]]]
  BY DEF TakeFor, TypeOK
<1>3. [p \in Products |-> taken[o][p] + d[p]] \in [Products -> Int]
  BY DEF TypeOK
<1>4. QED  BY <1>1, <1>2, <1>3 DEF TypeOK

LEMMA ReturnTypes ==
  ASSUME TypeOK, NEW o \in Orders, NEW d \in [Products -> Nat], ReturnFor(o, d)
  PROVE  /\ stock' \in [Products -> Nat]
         /\ taken' \in [Orders -> [Products -> Int]]
<1>1. stock' \in [Products -> Nat]  BY DEF TypeOK, ReturnFor
<1>2. taken' = [taken EXCEPT ![o] = [p \in Products |-> taken[o][p] - d[p]]]
  BY DEF ReturnFor, TypeOK
<1>3. [p \in Products |-> taken[o][p] - d[p]] \in [Products -> Int]
  BY DEF TypeOK
<1>4. QED  BY <1>1, <1>2, <1>3 DEF TypeOK

LEMMA JoinedType ==
  ASSUME NEW o, NEW d \in Joined(o)
  PROVE  d \in [Products -> Nat]
<1>1. d \in [Products -> 0..MaxQty]  BY DEF Joined, Baskets
<1>2. 0..MaxQty \subseteq Nat  BY MaxQtyAssumption
<1>3. QED  BY <1>1, <1>2

LEMMA InitTypes == Init => TypeOK
<1> SUFFICES ASSUME Init PROVE TypeOK
  OBVIOUS
<1>1. [k \in Lines |-> EmptyBasket(Products)] \in [Lines -> OneProduct]
  BY MaxQtyAssumption DEF EmptyBasket, OneProduct, Baskets
<1>2. EmptyBasket(Products) \in [Products -> Int]  BY DEF EmptyBasket
<1>3. Idle \in Requests  BY RequestsAre
<1>4. stock \in [Products -> Nat]  BY OrderLifecycleAssumption DEF Init
<1>5. parcels \in Seq([order : Orders, to : Addresses]) /\ Len(parcels) = 0
  BY DEF Init
<1>6. Len(parcels) <= MaxParcels  BY <1>5, OrderLifecycleAssumption
<1>7. QED  BY <1>1, <1>2, <1>3, <1>4, <1>5, <1>6 DEF Init, TypeOK, Statuses

LEMMA PlaceTypes ==
  ASSUME TypeOK, NEW o \in Orders, Place(o)
  PROVE  TypeOK'
<1>1. PICK lines \in [Lines -> OneProduct] :
        /\ item' = [item EXCEPT ![o] = lines]
        /\ TakeFor(o, [p \in Products |-> Total(Lines, lines, p)])
  BY DEF Place
<1>2. stock' \in [Products -> Nat] /\ taken' \in [Orders -> [Products -> Int]]
  BY <1>1, OrderedType, TakeTypes
<1>3. item' \in [Orders -> [Lines -> OneProduct]]  BY <1>1 DEF TypeOK
<1>4. status' \in [Orders -> Statuses \cup {"none"}]  BY DEF Place, TypeOK, Statuses
<1>5. QED
  BY <1>2, <1>3, <1>4 DEF Place, buyerVars, courierVars, ghostVars, TypeOK

LEMMA ReadForStatusTypes ==
  ASSUME TypeOK, NEW s \in Sessions, NEW o \in Orders, NEW target \in Statuses,
         ReadForStatus(s, o, target)
  PROVE  TypeOK'
<1> DEFINE r == [op |-> "status", order |-> o, seen |-> status[o], target |-> target]
<1>1. status[o] \in Statuses  BY DEF ReadForStatus, TypeOK
<1>2. r \in Requests  BY <1>1 DEF Requests
<1>3. request' = [request EXCEPT ![s] = r]  BY DEF ReadForStatus
<1> HIDE DEF r
<1>4. request' \in [Sessions -> Requests]  BY <1>2, <1>3 DEF TypeOK
<1>5. QED
  BY <1>4 DEF ReadForStatus, pieceVars, buyerVars, courierVars, ghostVars, TypeOK

LEMMA ReadForShipTypes ==
  ASSUME TypeOK, NEW s \in Sessions, NEW o \in Orders, ReadForShip(s, o)
  PROVE  TypeOK'
<1> DEFINE r == [op |-> "ship", order |-> o, seen |-> status[o]]
<1>2. r \in Requests  BY DEF ReadForShip, Requests
<1>3. request' = [request EXCEPT ![s] = r]  BY DEF ReadForShip
<1> HIDE DEF r
<1>4. request' \in [Sessions -> Requests]  BY <1>2, <1>3 DEF TypeOK
<1>5. QED
  BY <1>4 DEF ReadForShip, pieceVars, buyerVars, courierVars, ghostVars, TypeOK

LEMMA ReadForBookingTypes ==
  ASSUME TypeOK, NEW s \in Sessions, NEW o \in Orders, ReadForBooking(s, o)
  PROVE  TypeOK'
<1> DEFINE r == [op |-> "book", order |-> o, seen |-> status[o], to |-> details[o]]
<1>1. details[o] \in Addresses  BY DEF TypeOK
<1>2. r \in Requests  BY <1>1 DEF ReadForBooking, Requests
<1>3. request' = [request EXCEPT ![s] = r]  BY DEF ReadForBooking
<1> HIDE DEF r
<1>4. request' \in [Sessions -> Requests]  BY <1>2, <1>3 DEF TypeOK
<1>5. QED
  BY <1>4 DEF ReadForBooking, pieceVars, buyerVars, courierVars, ghostVars, TypeOK

LEMMA WriteStatusTypes ==
  ASSUME TypeOK, NEW s \in Sessions, WriteStatus(s)
  PROVE  TypeOK'
<1>1. request[s] \in StatusRequests /\ request[s] # Idle
  BY RequestKinds DEF WriteStatus, TypeOK, Idle
<1>2. /\ request' \in [Sessions -> Requests]
      /\ overtaken' \subseteq Sessions
      /\ raced' \subseteq Orders
  BY <1>1, DoneTypes DEF WriteStatus
<1>3. status' \in [Orders -> Statuses \cup {"none"}]
  BY <1>1 DEF WriteStatus, TypeOK, StatusRequests
<1>4. QED
  BY <1>2, <1>3 DEF WriteStatus, pieceVars, buyerVars, courierVars, TypeOK

LEMMA WriteCancelTypes ==
  ASSUME TypeOK, NEW s \in Sessions, WriteCancel(s)
  PROVE  TypeOK'
<1>1. request[s] \in StatusRequests /\ request[s] # Idle
  BY RequestKinds DEF WriteCancel, TypeOK, Idle
<1>o. request[s].order \in Orders  BY <1>1 DEF StatusRequests
<1>2. /\ request' \in [Sessions -> Requests]
      /\ overtaken' \subseteq Sessions
      /\ raced' \subseteq Orders
  BY <1>1, DoneTypes DEF WriteCancel
<1>3. status' \in [Orders -> Statuses \cup {"none"}]
  BY <1>o DEF WriteCancel, TypeOK, Statuses
<1>4. PICK d \in Joined(request[s].order) : ReturnFor(request[s].order, d)
  BY DEF WriteCancel
<1>5. stock' \in [Products -> Nat] /\ taken' \in [Orders -> [Products -> Int]]
  BY <1>o, <1>4, JoinedType, ReturnTypes
<1>6. QED
  BY <1>2, <1>3, <1>5 DEF WriteCancel, buyerVars, courierVars, TypeOK

LEMMA WriteRestoreTypes ==
  ASSUME TypeOK, NEW s \in Sessions, WriteRestore(s)
  PROVE  TypeOK'
<1>1. request[s] \in StatusRequests /\ request[s] # Idle
  BY RequestKinds DEF WriteRestore, TypeOK, Idle
<1>o. request[s].order \in Orders  BY <1>1 DEF StatusRequests
<1>2. /\ request' \in [Sessions -> Requests]
      /\ overtaken' \subseteq Sessions
      /\ raced' \subseteq Orders
  BY <1>1, DoneTypes DEF WriteRestore
<1>3. status' \in [Orders -> Statuses \cup {"none"}]
  BY <1>o DEF WriteRestore, TypeOK, Statuses
<1>4. PICK d \in Joined(request[s].order) : TakeFor(request[s].order, d)
  BY DEF WriteRestore
<1>5. stock' \in [Products -> Nat] /\ taken' \in [Orders -> [Products -> Int]]
  BY <1>o, <1>4, JoinedType, TakeTypes
<1>6. QED
  BY <1>2, <1>3, <1>5 DEF WriteRestore, buyerVars, courierVars, TypeOK

LEMMA WriteShipTypes ==
  ASSUME TypeOK, NEW s \in Sessions, WriteShip(s)
  PROVE  TypeOK'
<1>1. request[s] \in ShipRequests /\ request[s] # Idle
  BY RequestKinds DEF WriteShip, TypeOK, Idle
<1>o. request[s].order \in Orders  BY <1>1 DEF ShipRequests
<1>2. /\ request' \in [Sessions -> Requests]
      /\ overtaken' \subseteq Sessions
      /\ raced' \subseteq Orders
  BY <1>1, DoneTypes DEF WriteShip
<1>3. status' \in [Orders -> Statuses \cup {"none"}]
  BY <1>o DEF WriteShip, TypeOK, Statuses
<1>4. tracking' \in [Orders -> {Manual, NoTracking} \cup 1..MaxParcels]
  BY <1>o DEF WriteShip, TypeOK
<1>5. QED
  BY <1>2, <1>3, <1>4 DEF WriteShip, pieceVars, buyerVars, TypeOK

LEMMA ConsignTypes ==
  ASSUME TypeOK, NEW s \in Sessions, Consign(s)
  PROVE  TypeOK'
<1> DEFINE old == request[s]
           new == [op |-> "booked", order |-> old.order, seen |-> old.seen,
                   parcel |-> Len(parcels) + 1]
           sent == [order |-> old.order, to |-> old.to]
           Consignments == [order : Orders, to : Addresses]
<1>1. old \in BookRequests  BY RequestKinds DEF Consign, TypeOK
<1>2. Len(parcels) + 1 \in 1..MaxParcels
  <2>1. Len(parcels) \in Nat /\ Len(parcels) < MaxParcels  BY DEF Consign, TypeOK
  <2>2. QED  BY <2>1, OrderLifecycleAssumption
<1>3. new \in Requests  BY <1>1, <1>2 DEF Requests, BookRequests
<1>4. sent \in Consignments  BY <1>1 DEF BookRequests
<1>5. request' = [request EXCEPT ![s] = new] /\ parcels' = Append(parcels, sent)
  BY DEF Consign
<1>6. parcels \in Seq(Consignments)  BY DEF TypeOK
<1>7. Len(parcels') = Len(parcels) + 1 /\ parcels' \in Seq(Consignments)
  <2> HIDE DEF sent, Consignments
  <2>1. QED  BY <1>4, <1>5, <1>6
<1>8. Len(parcels') <= MaxParcels  BY <1>2, <1>7
<1>9. request' \in [Sessions -> Requests]
  <2> HIDE DEF new
  <2>1. QED  BY <1>3, <1>5 DEF TypeOK
<1> HIDE DEF new, sent
<1>10. QED
  BY <1>7, <1>8, <1>9 DEF Consign, pieceVars, buyerVars, ghostVars, TypeOK

LEMMA WriteBookingTypes ==
  ASSUME TypeOK, NEW s \in Sessions, WriteBooking(s)
  PROVE  TypeOK'
<1>1. request[s] \in BookedRequests /\ request[s] # Idle
  BY RequestKinds DEF WriteBooking, TypeOK, Idle
<1>o. request[s].order \in Orders /\ request[s].parcel \in 1..MaxParcels
  BY <1>1 DEF BookedRequests
<1>2. /\ request' \in [Sessions -> Requests]
      /\ overtaken' \subseteq Sessions
      /\ raced' \subseteq Orders
  BY <1>1, DoneTypes DEF WriteBooking
<1>3. status' \in [Orders -> Statuses \cup {"none"}]
  BY <1>o DEF WriteBooking, TypeOK, Statuses
<1>4. /\ tracking' \in [Orders -> {Manual, NoTracking} \cup 1..MaxParcels]
      /\ recorded' \subseteq 1..MaxParcels
  BY <1>o DEF WriteBooking, TypeOK
<1>5. QED
  BY <1>2, <1>3, <1>4 DEF WriteBooking, pieceVars, buyerVars, TypeOK

LEMMA FailTypes ==
  ASSUME TypeOK, NEW s \in Sessions, Fail(s)
  PROVE  TypeOK'
<1>1. request' \in [Sessions -> Requests]  BY RequestsAre DEF Fail, TypeOK
<1>2. overtaken' \subseteq Sessions  BY DEF Fail, TypeOK
<1>3. QED
  BY <1>1, <1>2 DEF Fail, pieceVars, buyerVars, courierVars, TypeOK

LEMMA BuyerCancelTypes ==
  ASSUME TypeOK, NEW o \in Orders, BuyerCancel(o)
  PROVE  TypeOK'
<1>1. overtaken' \subseteq Sessions  BY Zenon DEF BuyerCancel, Overtake, TypeOK
<1>2. status' \in [Orders -> Statuses \cup {"none"}]
  BY DEF BuyerCancel, TypeOK, Statuses
<1>3. PICK d \in Joined(o) : ReturnFor(o, d)  BY DEF BuyerCancel
<1>4. stock' \in [Products -> Nat] /\ taken' \in [Orders -> [Products -> Int]]
  BY <1>3, JoinedType, ReturnTypes
<1>5. QED
  BY <1>1, <1>2, <1>4 DEF BuyerCancel, buyerVars, courierVars, TypeOK

\* What touches neither status, pieces nor requests.
LEMMA FieldTypes ==
  ASSUME TypeOK, NEW o \in Orders,
         \/ \E received \in BOOLEAN : MarkAdvanceReceived(o, received)
         \/ \E r \in Proofs : SubmitAdvanceProof(o, r)
         \/ \E a \in Addresses : BuyerEdit(o, a)
  PROVE  TypeOK'
<1>1. CASE \E received \in BOOLEAN : MarkAdvanceReceived(o, received)
  BY <1>1 DEF MarkAdvanceReceived, pieceVars, courierVars, ghostVars, TypeOK
<1>2. CASE \E r \in Proofs : SubmitAdvanceProof(o, r)
  BY <1>2 DEF SubmitAdvanceProof, pieceVars, courierVars, ghostVars, TypeOK
<1>3. CASE \E a \in Addresses : BuyerEdit(o, a)
  BY <1>3 DEF BuyerEdit, pieceVars, courierVars, ghostVars, TypeOK
<1>4. QED  BY <1>1, <1>2, <1>3

LEMMA StepTypes ==
  ASSUME TypeOK, [Next]_vars
  PROVE  TypeOK'
<1>1. CASE SellerNext
  BY <1>1, ReadForStatusTypes, WriteStatusTypes, WriteCancelTypes, WriteRestoreTypes,
     ReadForShipTypes, WriteShipTypes, ReadForBookingTypes, ConsignTypes,
     WriteBookingTypes, FailTypes, FieldTypes DEF SellerNext
<1>2. CASE BuyerNext  BY <1>2, PlaceTypes, BuyerCancelTypes, FieldTypes DEF BuyerNext
<1>3. CASE UNCHANGED vars
  BY <1>3 DEF vars, pieceVars, buyerVars, courierVars, ghostVars, TypeOK
<1>4. QED  BY <1>1, <1>2, <1>3 DEF Next

\* Every column and every request keeps its type, whatever the sessions of the
\* seller, the buyers and the courier do.
THEOREM OrderTypes == Spec => []TypeOK
<1>1. TypeOK /\ [Next]_vars => TypeOK'  BY StepTypes
<1>2. QED  BY InitTypes, <1>1, PTL DEF Spec
-----------------------------------------------------------------------------
(* Parcels and tracking codes.                                             *)

\* The parcel of a request that has consigned one is of the order it is about.
Own(s) ==
  request[s].op = "booked" =>
    /\ request[s].parcel \in 1..Len(parcels)
    /\ parcels[request[s].parcel].order = request[s].order

\* A booking that was not overtaken knows the address, before and after the
\* courier has accepted the parcel, and its order has not moved.
Current(s) ==
  s \notin overtaken =>
    /\ request[s].op = "book" =>
         /\ request[s].to = details[request[s].order]
         /\ status[request[s].order] = "confirmed"
    /\ request[s].op = "booked" =>
         /\ parcels[request[s].parcel].to = details[request[s].order]
         /\ status[request[s].order] = "confirmed"

\* No two requests have the same parcel.
Apart(s, t) ==
  s # t /\ request[s].op = "booked" /\ request[t].op = "booked" =>
    request[s].parcel # request[t].parcel

\* The code on an order is of a parcel of this order, and the request that wrote
\* it is done.
CodeKnown(o) ==
  tracking[o] \in 1..MaxParcels =>
    /\ tracking[o] \in 1..Len(parcels)
    /\ parcels[tracking[o]].order = o
    /\ \A s \in Sessions : request[s].op = "booked" => request[s].parcel # tracking[o]

ParcelInv ==
  /\ TypeOK
  /\ \A s \in Sessions : Own(s) /\ Current(s)
  /\ \A s, t \in Sessions : Apart(s, t)
  /\ \A o \in Orders : CodeKnown(o)

LEMMA InitParcels == Init => ParcelInv
<1> SUFFICES ASSUME Init PROVE ParcelInv
  OBVIOUS
<1>1. TypeOK  BY InitTypes
<1>2. \A s \in Sessions : request[s].op = "none"  BY DEF Init, Idle
<1>3. \A o \in Orders : tracking[o] = 0  BY DEF Init, NoTracking
<1>4. 0 \notin 1..MaxParcels  BY OrderLifecycleAssumption
<1>5. QED  BY <1>1, <1>2, <1>3, <1>4 DEF ParcelInv, Own, Current, Apart, CodeKnown

LEMMA IdleHasNoParcel == Idle.op = "none"
BY DEF Idle

\* A session reads an order and starts a request: it has no parcel yet, and if
\* it is to book one, it is for the address the order has.
LEMMA ReadKeepsParcels ==
  ASSUME ParcelInv, TypeOK', NEW s \in Sessions, NEW r,
         request' = [request EXCEPT ![s] = r], r.op # "booked",
         r.op = "book" => r.to = details[r.order] /\ status[r.order] = "confirmed",
         UNCHANGED <<status, details, tracking, parcels, overtaken>>
  PROVE  ParcelInv'
<1>1. \A t \in Sessions : request'[t] = IF t = s THEN r ELSE request[t]
  BY DEF ParcelInv, TypeOK
<1>2. \A t \in Sessions : Own(t)'  BY <1>1 DEF ParcelInv, Own
<1>3. \A t \in Sessions : Current(t)'  BY <1>1 DEF ParcelInv, Current
<1>4. \A t, u \in Sessions : Apart(t, u)'  BY <1>1 DEF ParcelInv, Apart
<1>5. \A o \in Orders : CodeKnown(o)'  BY <1>1 DEF ParcelInv, CodeKnown
<1>6. QED  BY <1>2, <1>3, <1>4, <1>5 DEF ParcelInv

LEMMA ReadParcels ==
  ASSUME ParcelInv, TypeOK', NEW s \in Sessions, NEW o \in Orders,
         \/ \E target \in Statuses : ReadForStatus(s, o, target)
         \/ ReadForShip(s, o)
         \/ ReadForBooking(s, o)
  PROVE  ParcelInv'
<1>1. ASSUME NEW target \in Statuses, ReadForStatus(s, o, target) PROVE ParcelInv'
  <2> DEFINE r == [op |-> "status", order |-> o, seen |-> status[o], target |-> target]
  <2>1. r.op = "status" /\ request' = [request EXCEPT ![s] = r]
    BY <1>1 DEF ReadForStatus
  <2>2. UNCHANGED <<status, details, tracking, parcels, overtaken>>
    BY <1>1 DEF ReadForStatus, buyerVars, courierVars, ghostVars
  <2> HIDE DEF r
  <2>3. QED  BY <2>1, <2>2, ReadKeepsParcels
<1>2. ASSUME ReadForShip(s, o) PROVE ParcelInv'
  <2> DEFINE r == [op |-> "ship", order |-> o, seen |-> status[o]]
  <2>1. r.op = "ship" /\ request' = [request EXCEPT ![s] = r]
    BY <1>2 DEF ReadForShip
  <2>2. UNCHANGED <<status, details, tracking, parcels, overtaken>>
    BY <1>2 DEF ReadForShip, buyerVars, courierVars, ghostVars
  <2> HIDE DEF r
  <2>3. QED  BY <2>1, <2>2, ReadKeepsParcels
<1>3. ASSUME ReadForBooking(s, o) PROVE ParcelInv'
  <2> DEFINE r == [op |-> "book", order |-> o, seen |-> status[o], to |-> details[o]]
  <2>1. /\ r.op = "book" /\ r.to = details[r.order] /\ status[r.order] = "confirmed"
        /\ request' = [request EXCEPT ![s] = r]
    BY <1>3 DEF ReadForBooking
  <2>2. UNCHANGED <<status, details, tracking, parcels, overtaken>>
    BY <1>3 DEF ReadForBooking, buyerVars, courierVars, ghostVars
  <2> HIDE DEF r
  <2>3. QED  BY <2>1, <2>2, ReadKeepsParcels
<1>4. QED  BY <1>1, <1>2, <1>3

\* The request of s writes and ends: it overtakes every other request about its
\* order, if it moves it, and leaves no code on it but that of its own parcel.
LEMMA DoneKeepsParcels ==
  ASSUME ParcelInv, TypeOK', NEW s \in Sessions, request[s] # Idle, Done(s),
         NEW o \in Orders, o = request[s].order,
         \A q \in Orders \ {o} : status'[q] = status[q] /\ tracking'[q] = tracking[q],
         \/ tracking'[o] = tracking[o]
         \/ tracking'[o] \notin 1..MaxParcels
         \/ request[s].op = "booked" /\ tracking'[o] = request[s].parcel,
         UNCHANGED <<details, parcels>>
  PROVE  ParcelInv'
<1>1. \A t \in Sessions : request'[t] = IF t = s THEN Idle ELSE request[t]
  BY DEF ParcelInv, TypeOK, Done
<1>2. overtaken' = (overtaken \ {s}) \cup
        {t \in Sessions \ {s} : /\ request[t] # Idle
                                /\ request[t].order = o
                                /\ status'[o] # status[o]}
  BY Zenon DEF Done, Overtake
<1>3. ASSUME NEW t \in Sessions \ {s}, t \notin overtaken', request[t] # Idle
      PROVE  /\ t \notin overtaken
             /\ request[t].order = o => status'[o] = status[o]
  BY <1>2, <1>3
<1>4. ASSUME NEW t \in Sessions PROVE Own(t)'
  BY <1>1, IdleHasNoParcel DEF ParcelInv, Own
<1>5. ASSUME NEW t \in Sessions PROVE Current(t)'
  <2>1. CASE t = s  BY <2>1, <1>1, IdleHasNoParcel DEF Current
  <2>2. CASE t # s /\ t \notin overtaken' /\ request[t].op \in {"book", "booked"}
    <3>1. request[t] \in Requests  BY DEF ParcelInv, TypeOK
    <3>2. request[t] # Idle /\ request[t].order \in Orders
      BY <2>2, <3>1, RequestKinds
    <3>3. t \notin overtaken /\ status'[request[t].order] = status[request[t].order]
      BY <1>3, <2>2, <3>2
    <3>4. request'[t] = request[t]  BY <1>1, <2>2
    <3>5. QED  BY <3>3, <3>4 DEF ParcelInv, Current
  <2>3. CASE t # s /\ ~(t \notin overtaken' /\ request[t].op \in {"book", "booked"})
    BY <2>3, <1>1 DEF Current
  <2>4. QED  BY <2>1, <2>2, <2>3
<1>6. \A t, u \in Sessions : Apart(t, u)'
  BY <1>1, IdleHasNoParcel DEF ParcelInv, Apart
<1>7. ASSUME NEW q \in Orders PROVE CodeKnown(q)'
  <2>1. CASE tracking'[q] = tracking[q]
    BY <2>1, <1>1, IdleHasNoParcel DEF ParcelInv, CodeKnown
  <2>2. CASE tracking'[q] \notin 1..MaxParcels  BY <2>2 DEF CodeKnown
  <2>3. CASE q = o /\ request[s].op = "booked" /\ tracking'[q] = request[s].parcel
    <3>1. /\ tracking'[q] \in 1..Len(parcels)
          /\ parcels[tracking'[q]].order = q
      BY <2>3 DEF ParcelInv, Own
    <3>2. ASSUME NEW t \in Sessions, request'[t].op = "booked"
          PROVE  request'[t].parcel # tracking'[q]
      BY <3>2, <2>3, <1>1, IdleHasNoParcel DEF ParcelInv, Apart
    <3>3. QED  BY <3>1, <3>2 DEF CodeKnown
  <2>4. QED  BY <2>1, <2>2, <2>3
<1>8. QED  BY <1>4, <1>5, <1>6, <1>7 DEF ParcelInv

LEMMA WriteParcels ==
  ASSUME ParcelInv, TypeOK', NEW s \in Sessions,
         WriteStatus(s) \/ WriteCancel(s) \/ WriteRestore(s) \/ WriteShip(s) \/ WriteBooking(s)
  PROVE  ParcelInv'
<1> DEFINE o == request[s].order
<1>1. request[s].op \in {"status", "ship", "booked"} /\ Done(s)
  BY DEF WriteStatus, WriteCancel, WriteRestore, WriteShip, WriteBooking
<1>2. request[s] \in Requests  BY DEF ParcelInv, TypeOK
<1>3. request[s] # Idle /\ o \in Orders  BY <1>1, <1>2, RequestKinds
<1>4. UNCHANGED <<details, parcels>>
  BY DEF WriteStatus, WriteCancel, WriteRestore, WriteShip, WriteBooking, buyerVars, courierVars
<1>5. \A q \in Orders \ {o} : status'[q] = status[q]
  BY <1>3 DEF WriteStatus, WriteCancel, WriteRestore, WriteShip, WriteBooking, ParcelInv, TypeOK
<1>6. /\ \A q \in Orders \ {o} : tracking'[q] = tracking[q]
      /\ \/ tracking'[o] = tracking[o]
         \/ tracking'[o] \notin 1..MaxParcels
         \/ request[s].op = "booked" /\ tracking'[o] = request[s].parcel
  <2>1. CASE WriteStatus(s) \/ WriteCancel(s) \/ WriteRestore(s)
    BY <2>1 DEF WriteStatus, WriteCancel, WriteRestore, courierVars
  <2>2. CASE WriteShip(s)
    <3>1. tracking \in [Orders -> {Manual, NoTracking} \cup 1..MaxParcels]
      BY DEF ParcelInv, TypeOK
    <3>2. PICK typed \in {Manual, NoTracking} : tracking' = [tracking EXCEPT ![o] = typed]
      BY <2>2 DEF WriteShip
    <3>3. Manual \notin 1..MaxParcels /\ NoTracking \notin 1..MaxParcels
      BY OrderLifecycleAssumption DEF Manual, NoTracking
    <3>4. QED  BY <1>3, <3>1, <3>2, <3>3
  <2>3. CASE WriteBooking(s)
    <3>1. /\ tracking \in [Orders -> {Manual, NoTracking} \cup 1..MaxParcels]
          /\ tracking' = [tracking EXCEPT ![o] = request[s].parcel]
          /\ request[s].op = "booked"
      BY <2>3 DEF WriteBooking, ParcelInv, TypeOK
    <3>2. QED  BY <1>3, <3>1
  <2>4. QED  BY <2>1, <2>2, <2>3
<1> HIDE DEF o
<1>7. o = request[s].order  BY DEF o
<1>8. QED  BY <1>1, <1>3, <1>4, <1>5, <1>6, <1>7, DoneKeepsParcels

\* The courier accepts the parcel of a request that read the address earlier.
LEMMA ConsignParcels ==
  ASSUME ParcelInv, TypeOK', NEW s \in Sessions, Consign(s)
  PROVE  ParcelInv'
<1> DEFINE old == request[s]
           n == Len(parcels) + 1
           new == [op |-> "booked", order |-> old.order, seen |-> old.seen, parcel |-> n]
           sent == [order |-> old.order, to |-> old.to]
           Consignments == [order : Orders, to : Addresses]
<1>1. /\ new.op = "booked" /\ new.order = old.order /\ new.parcel = n
      /\ sent.order = old.order /\ sent.to = old.to
  OBVIOUS
<1>2. /\ old.op = "book"
      /\ request' = [request EXCEPT ![s] = new] /\ parcels' = Append(parcels, sent)
      /\ UNCHANGED <<status, details, tracking, overtaken>>
  BY DEF Consign, buyerVars, ghostVars
<1>3. old \in BookRequests  BY <1>2, RequestKinds DEF ParcelInv, TypeOK
<1>4. sent \in Consignments  BY <1>3 DEF BookRequests
<1>5. parcels \in Seq(Consignments) /\ Len(parcels) \in Nat
  BY DEF ParcelInv, TypeOK
<1>6. /\ Len(parcels') = n
      /\ parcels'[n] = sent
      /\ \A i \in 1..Len(parcels) : parcels'[i] = parcels[i]
  <2> HIDE DEF sent, Consignments
  <2>1. QED  BY <1>2, <1>4, <1>5
<1>7. n \in 1..n /\ n \notin 1..Len(parcels) /\ 1..Len(parcels) \subseteq 1..n
  BY <1>5
<1>o. old = request[s]  OBVIOUS
<1> HIDE DEF old, n, new, sent, Consignments
<1>8. \A t \in Sessions : request'[t] = IF t = s THEN new ELSE request[t]
  BY <1>2 DEF ParcelInv, TypeOK
<1>9. ASSUME NEW t \in Sessions PROVE Own(t)'
  <2>1. CASE t = s  BY <2>1, <1>1, <1>6, <1>7, <1>8 DEF Own
  <2>2. CASE t # s
    <3>1. Own(t) /\ request'[t] = request[t]  BY <2>2, <1>8 DEF ParcelInv
    <3>2. QED  BY <3>1, <1>6, <1>7 DEF Own
  <2>3. QED  BY <2>1, <2>2
<1>10. ASSUME NEW t \in Sessions PROVE Current(t)'
  <2>1. CASE t = s
    <3>1. s \notin overtaken =>
            old.to = details[old.order] /\ status[old.order] = "confirmed"
      BY <1>2, <1>o DEF ParcelInv, Current
    <3>2. QED  BY <2>1, <3>1, <1>1, <1>2, <1>6, <1>8 DEF Current
  <2>2. CASE t # s
    <3>1. Own(t) /\ Current(t) /\ request'[t] = request[t]
      BY <2>2, <1>8 DEF ParcelInv
    <3>2. QED  BY <3>1, <1>2, <1>6 DEF Own, Current
  <2>3. QED  BY <2>1, <2>2
<1>11. ASSUME NEW t \in Sessions, NEW u \in Sessions PROVE Apart(t, u)'
  <2>1. ASSUME NEW v \in Sessions \ {s}, request'[v].op = "booked"
        PROVE  request'[v].parcel # n
    BY <2>1, <1>7, <1>8 DEF ParcelInv, Own
  <2>2. CASE t = s \/ u = s  BY <2>1, <2>2, <1>1, <1>8 DEF Apart
  <2>3. CASE t # s /\ u # s  BY <2>3, <1>8 DEF ParcelInv, Apart
  <2>4. QED  BY <2>2, <2>3
<1>12. ASSUME NEW q \in Orders, tracking'[q] \in 1..MaxParcels PROVE CodeKnown(q)'
  <2>1. CodeKnown(q) /\ tracking'[q] = tracking[q]  BY <1>2 DEF ParcelInv
  <2>2. tracking[q] \in 1..Len(parcels) /\ parcels[tracking[q]].order = q
    BY <1>12, <2>1 DEF CodeKnown
  <2>3. tracking'[q] \in 1..Len(parcels') /\ parcels'[tracking'[q]].order = q
    BY <2>1, <2>2, <1>6, <1>7
  <2>4. ASSUME NEW t \in Sessions, request'[t].op = "booked"
        PROVE  request'[t].parcel # tracking'[q]
    BY <2>1, <2>2, <2>4, <1>1, <1>7, <1>8, <1>12 DEF CodeKnown
  <2>5. QED  BY <2>3, <2>4 DEF CodeKnown
<1>13. \A q \in Orders : CodeKnown(q)'  BY <1>12 DEF CodeKnown
<1>14. QED  BY <1>9, <1>10, <1>11, <1>13 DEF ParcelInv

LEMMA FailParcels ==
  ASSUME ParcelInv, TypeOK', NEW s \in Sessions, Fail(s)
  PROVE  ParcelInv'
<1>1. /\ \A t \in Sessions : request'[t] = IF t = s THEN Idle ELSE request[t]
      /\ UNCHANGED <<status, details, tracking, parcels>>
      /\ overtaken' = overtaken \ {s}
  BY DEF Fail, ParcelInv, TypeOK, buyerVars, courierVars
<1>2. \A t \in Sessions : Own(t)' /\ Current(t)'
  BY <1>1, IdleHasNoParcel DEF ParcelInv, Own, Current
<1>3. \A t, u \in Sessions : Apart(t, u)'
  BY <1>1, IdleHasNoParcel DEF ParcelInv, Apart
<1>4. \A o \in Orders : CodeKnown(o)'
  BY <1>1, IdleHasNoParcel DEF ParcelInv, CodeKnown
<1>5. QED  BY <1>2, <1>3, <1>4 DEF ParcelInv

\* An order that is not confirmed changes under no booking that is current.
LEMMA QuietParcels ==
  ASSUME ParcelInv, TypeOK', NEW o \in Orders, status[o] # "confirmed",
         \A q \in Orders \ {o} : status'[q] = status[q] /\ details'[q] = details[q],
         UNCHANGED <<tracking, parcels, request>>,
         overtaken \subseteq overtaken'
  PROVE  ParcelInv'
<1>1. \A t \in Sessions : Own(t)'  BY DEF ParcelInv, Own
<1>2. ASSUME NEW t \in Sessions, t \notin overtaken', request[t].op \in {"book", "booked"}
      PROVE  /\ status'[request[t].order] = status[request[t].order]
             /\ details'[request[t].order] = details[request[t].order]
  <2>1. status[request[t].order] = "confirmed"  BY <1>2 DEF ParcelInv, Current
  <2>2. request[t] \in Requests  BY DEF ParcelInv, TypeOK
  <2>3. request[t].order \in Orders  BY <1>2, <2>2, RequestKinds
  <2>4. QED  BY <2>1, <2>3
<1>3. \A t \in Sessions : Current(t)'  BY <1>2 DEF ParcelInv, Current
<1>4. \A t, u \in Sessions : Apart(t, u)'  BY DEF ParcelInv, Apart
<1>5. \A q \in Orders : CodeKnown(q)'  BY DEF ParcelInv, CodeKnown
<1>6. QED  BY <1>1, <1>3, <1>4, <1>5 DEF ParcelInv

LEMMA BuyerParcels ==
  ASSUME ParcelInv, TypeOK', NEW o \in Orders,
         Place(o) \/ BuyerCancel(o) \/ \E a \in Addresses : BuyerEdit(o, a)
  PROVE  ParcelInv'
<1>1. status[o] # "confirmed"  BY DEF Place, BuyerCancel, BuyerEdit, Editable
<1>2. \A q \in Orders \ {o} : status'[q] = status[q] /\ details'[q] = details[q]
  BY DEF Place, BuyerCancel, BuyerEdit, buyerVars, ParcelInv, TypeOK
<1>3. UNCHANGED <<tracking, parcels, request>>
  BY DEF Place, BuyerCancel, BuyerEdit, courierVars
<1>4. overtaken \subseteq overtaken'
  BY Zenon DEF Place, BuyerCancel, BuyerEdit, Overtake, ghostVars
<1>5. QED  BY <1>1, <1>2, <1>3, <1>4, QuietParcels

LEMMA StillParcels ==
  ASSUME ParcelInv, TypeOK',
         UNCHANGED <<status, details, tracking, parcels, request, overtaken>>
  PROVE  ParcelInv'
BY DEF ParcelInv, Own, Current, Apart, CodeKnown

LEMMA ParcelInvariance == Spec => []ParcelInv
<1>1. ParcelInv /\ [Next]_vars => ParcelInv'
  <2> SUFFICES ASSUME ParcelInv, [Next]_vars PROVE ParcelInv'
    OBVIOUS
  <2>0. TypeOK'  BY StepTypes DEF ParcelInv
  <2>1. ASSUME NEW s \in Sessions,
               \/ \E o \in Orders, target \in Statuses : ReadForStatus(s, o, target)
               \/ \E o \in Orders : ReadForShip(s, o) \/ ReadForBooking(s, o)
               \/ WriteStatus(s) \/ WriteCancel(s) \/ WriteRestore(s)
               \/ WriteShip(s) \/ Consign(s) \/ WriteBooking(s) \/ Fail(s)
        PROVE  ParcelInv'
    BY <2>0, <2>1, ReadParcels, WriteParcels, ConsignParcels, FailParcels
  <2>2. ASSUME NEW o \in Orders,
               \/ \E received \in BOOLEAN : MarkAdvanceReceived(o, received)
               \/ \E r \in Proofs : SubmitAdvanceProof(o, r)
        PROVE  ParcelInv'
    <3>1. UNCHANGED <<status, details, tracking, parcels, request, overtaken>>
      BY <2>2 DEF MarkAdvanceReceived, SubmitAdvanceProof, courierVars, ghostVars
    <3>2. QED  BY <2>0, <3>1, StillParcels
  <2>3. CASE SellerNext  BY <2>1, <2>2, <2>3 DEF SellerNext
  <2>4. CASE BuyerNext  BY <2>0, <2>2, <2>4, BuyerParcels DEF BuyerNext
  <2>5. CASE UNCHANGED vars
    BY <2>0, <2>5, StillParcels DEF vars, buyerVars, courierVars, ghostVars
  <2>6. QED  BY <2>3, <2>4, <2>5 DEF Next
<1>2. QED  BY InitParcels, <1>1, PTL DEF Spec

\* A parcel goes to the address its order has, unless the booking was overtaken
\* (BookCourier reads, calls the courier and writes without a lock).
THEOREM ParcelsGoHome == Spec => []BookedAddressCurrent
<1>1. ParcelInv => BookedAddressCurrent
  <2> SUFFICES ASSUME ParcelInv, NEW s \in Sessions \ overtaken, request[s].op = "booked"
               PROVE  LET parcel == parcels[request[s].parcel] IN
                      /\ parcel.order = request[s].order
                      /\ parcel.to = details[parcel.order]
                      /\ status[parcel.order] = "confirmed"
    BY DEF BookedAddressCurrent
  <2>1. QED  BY DEF ParcelInv, Own, Current
<1>2. QED  BY <1>1, ParcelInvariance, PTL

\* The code on an order is of a parcel booked for this order, by a request that
\* is done (SetShipment with the code of an own consignment).
THEOREM CodesAreOwn == Spec => []TrackingIsOwn
<1>1. ParcelInv => TrackingIsOwn  BY DEF ParcelInv, CodeKnown, TrackingIsOwn
<1>2. QED  BY <1>1, ParcelInvariance, PTL
-----------------------------------------------------------------------------
(* The order book.                                                         *)

\* The refinement mapping of Book.
State == [o \in Orders |-> IF Spoiled(o) THEN "spoiled" ELSE status[o]]
OffShelf == [o \in Orders |->
               IF Spoiled(o) \/ taken[o] = EmptyBasket(Products) THEN FALSE
               ELSE IF taken[o] = Ordered(o) THEN TRUE
               ELSE "in part"]

\* All pieces of an order are off the shelf, or none: none before it is placed
\* and while it is cancelled.
Accounted(o) ==
  /\ status[o] = "none" => taken[o] = EmptyBasket(Products) /\ ~Repeats(o)
  /\ status[o] = "cancelled" => taken[o] = EmptyBasket(Products)
  /\ status[o] \notin {"none", "cancelled"} => taken[o] = Ordered(o)
  /\ status[o] # "none" => Ordered(o) # EmptyBasket(Products)

\* A request for a status has validated it on the status it has seen.
Validated(s) ==
  request[s].op = "status" => request[s].target \in validTransitions(request[s].seen)

BookInv ==
  /\ TypeOK
  /\ \A o \in Orders : ~Spoiled(o) => Accounted(o)
  /\ \A o \in Orders : status[o] = "none" => ~Repeats(o)
  /\ \A s \in Sessions : Validated(s)

\* No line, no piece.
LEMMA TotalZero ==
  ASSUME NEW S, NEW qty, NEW p, \A x \in S : qty[x][p] = 0
  PROVE  Total(S, qty, p) = 0
<1>1. Pieces(S, qty, p) = {}
  <2>1. ASSUME NEW u \in S \X (1..MaxQty), u[2] <= qty[u[1]][p]
        PROVE  FALSE
    <3>1. u[1] \in S /\ u[2] \in 1..MaxQty  BY <2>1
    <3>2. u[2] \in Nat /\ u[2] >= 1  BY <3>1, MaxQtyAssumption
    <3>3. QED  BY <2>1, <3>1, <3>2
  <2>2. QED  BY <2>1 DEF Pieces
<1>2. QED  BY <1>1, FS_EmptySet DEF Total

\* When no product is in two lines of o, what its lines join to is all of it.
LEMMA JoinedIsOrdered ==
  ASSUME TypeOK, NEW o \in Orders, ~Repeats(o), NEW d \in Joined(o)
  PROVE  d = Ordered(o)
<1>1. d \in [Products -> 0..MaxQty]  BY DEF Joined, Baskets
<1>2. ASSUME NEW p \in Products PROVE d[p] = Total(Lines, item[o], p)
  <2>1. CASE \E k \in Lines : item[o][k][p] > 0
    <3>1. PICK k \in Lines : item[o][k][p] > 0 /\ d[p] = item[o][k][p]
      BY <2>1 DEF Joined
    <3>2. ASSUME NEW j \in Lines \ {k} PROVE item[o][j][p] = 0
      <4>1. ~(item[o][j][p] > 0)  BY <3>1 DEF Repeats
      <4>2. item[o][j][p] \in Nat  BY LineTypes, MaxQtyAssumption
      <4>3. QED  BY <4>1, <4>2
    <3>3. Total(Lines \ {k}, item[o], p) = 0  BY <3>2, TotalZero
    <3>4. IsFiniteSet(Lines \ {k}) /\ Lines = (Lines \ {k}) \cup {k}
      BY FS_Subset, OrderLifecycleAssumption
    <3>5. item[o][k][p] \in 0..MaxQty  BY LineTypes
    <3>6. Total(Lines, item[o], p) = Total(Lines \ {k}, item[o], p) + item[o][k][p]
      BY <3>4, <3>5, TotalAdd
    <3>7. QED  BY <3>1, <3>3, <3>5, <3>6, MaxQtyAssumption
  <2>2. CASE ~\E k \in Lines : item[o][k][p] > 0
    <3>1. d[p] = 0  BY <2>2 DEF Joined
    <3>2. ASSUME NEW k \in Lines PROVE item[o][k][p] = 0
      <4>1. item[o][k][p] \in Nat /\ ~(item[o][k][p] > 0)
        BY <2>2, LineTypes, MaxQtyAssumption
      <4>2. QED  BY <4>1
    <3>3. QED  BY <3>1, <3>2, TotalZero
  <2>3. QED  BY <2>1, <2>2
<1>3. QED  BY <1>1, <1>2 DEF Ordered

\* An order with a line has a piece.
LEMMA LinesAreOrdered ==
  ASSUME NEW lines \in [Lines -> OneProduct], NEW k \in Lines, NEW p \in Products,
         lines[k][p] > 0
  PROVE  [q \in Products |-> Total(Lines, lines, q)] # EmptyBasket(Products)
<1>1. lines[k][p] \in 0..MaxQty  BY DEF OneProduct, Baskets
<1>2. IsFiniteSet(Lines \ {k}) /\ Lines = (Lines \ {k}) \cup {k}
  BY FS_Subset, OrderLifecycleAssumption
<1>3. Total(Lines, lines, p) = Total(Lines \ {k}, lines, p) + lines[k][p]
  BY <1>1, <1>2, TotalAdd
<1>4. Total(Lines \ {k}, lines, p) \in Nat  BY <1>2, TotalType
<1>5. Total(Lines, lines, p) # 0  BY <1>1, <1>3, <1>4, MaxQtyAssumption
<1>6. QED  BY <1>5 DEF EmptyBasket

\* validTransitions, row by row.
LEMMA Transitions ==
  /\ validTransitions("pending") = {"confirmed", "cancelled"}
  /\ validTransitions("confirmed") = {"shipped", "cancelled", "pending"}
  /\ validTransitions("shipped") = {"delivered", "returned", "confirmed"}
  /\ validTransitions("delivered") = {"shipped"}
  /\ validTransitions("returned") = {"shipped"}
  /\ validTransitions("cancelled") = {"pending"}
BY DEF validTransitions

\* The book has the same edges.
LEMMA SameTransitions ==
  /\ Book!Statuses = Statuses
  /\ \A from \in Statuses : Book!validTransitions(from) = validTransitions(from)
BY DEF Book!Statuses, Statuses, Book!validTransitions, validTransitions

LEMMA InitBook == Init => BookInv /\ Book!Init
<1> SUFFICES ASSUME Init PROVE BookInv /\ Book!Init
  OBVIOUS
<1>1. TypeOK  BY InitTypes
<1>2. \A o \in Orders : status[o] = "none" /\ taken[o] = EmptyBasket(Products)
  BY DEF Init
<1>3. ASSUME NEW o \in Orders PROVE ~Repeats(o)
  BY DEF Init, Repeats, EmptyBasket
<1>4. \A o \in Orders : ~Spoiled(o)  BY <1>3 DEF Spoiled, Init
<1>5. \A o \in Orders : Accounted(o)  BY <1>2, <1>3 DEF Accounted
<1>6. \A s \in Sessions : Validated(s)  BY DEF Init, Validated, Idle
<1>7. State = [o \in Orders |-> "none"]  BY <1>2, <1>4 DEF State
<1>8. OffShelf = [o \in Orders |-> FALSE]  BY <1>2 DEF OffShelf
<1>9. Book!Init  BY <1>7, <1>8 DEF Book!Init, State, OffShelf
<1>10. QED  BY <1>1, <1>3, <1>5, <1>6, <1>9 DEF BookInv

\* A step changes nothing the book knows of any order but o.
Frame(o) ==
  \A q \in Orders \ {o} :
    /\ status'[q] = status[q] /\ item'[q] = item[q] /\ taken'[q] = taken[q]
    /\ q \in raced' <=> q \in raced

\* What a step is in the book.
BookStep == Book!Next \/ UNCHANGED <<State, OffShelf>>

LEMMA Framed ==
  ASSUME NEW o \in Orders, Frame(o)
  PROVE  /\ \A q \in Orders \ {o} :
              /\ Spoiled(q)' <=> Spoiled(q)
              /\ Repeats(q)' <=> Repeats(q)
              /\ Accounted(q)' <=> Accounted(q)
              /\ State'[q] = State[q] /\ OffShelf'[q] = OffShelf[q]
         /\ State' = [State EXCEPT ![o] = State'[o]]
         /\ OffShelf' = [OffShelf EXCEPT ![o] = OffShelf'[o]]
<1>1. ASSUME NEW q \in Orders \ {o}
      PROVE  /\ Spoiled(q)' <=> Spoiled(q)
             /\ Repeats(q)' <=> Repeats(q)
             /\ Ordered(q)' = Ordered(q)
             /\ status'[q] = status[q] /\ taken'[q] = taken[q]
  <2>1. /\ status'[q] = status[q] /\ item'[q] = item[q] /\ taken'[q] = taken[q]
        /\ q \in raced' <=> q \in raced
    BY DEF Frame
  <2>2. Repeats(q)' <=> Repeats(q)  BY <2>1 DEF Repeats
  <2>3. Ordered(q)' = Ordered(q)  BY <2>1 DEF Ordered, Total, Pieces
  <2>4. QED  BY <2>1, <2>2, <2>3 DEF Spoiled
<1>2. \A q \in Orders \ {o} : Accounted(q)' <=> Accounted(q)  BY <1>1 DEF Accounted
<1>3. \A q \in Orders \ {o} : State'[q] = State[q] /\ OffShelf'[q] = OffShelf[q]
  BY <1>1 DEF State, OffShelf
<1>4. State' = [State EXCEPT ![o] = State'[o]]  BY <1>3 DEF State
<1>5. OffShelf' = [OffShelf EXCEPT ![o] = OffShelf'[o]]  BY <1>3 DEF OffShelf
<1>6. QED  BY <1>1, <1>2, <1>3, <1>4, <1>5

LEMMA SpoilStep ==
  ASSUME NEW o \in Orders, Frame(o), Spoiled(o)'
  PROVE  Book!Next
<1>1. State'[o] = "spoiled" /\ OffShelf'[o] = FALSE  BY DEF State, OffShelf
<1>2. /\ State' = [State EXCEPT ![o] = "spoiled"]
      /\ OffShelf' = [OffShelf EXCEPT ![o] = FALSE]
  BY <1>1, Framed
<1>3. Book!Spoil(o)  BY <1>2 DEF Book!Spoil, State, OffShelf
<1>4. QED  BY <1>3 DEF Book!Next

LEMMA MoveStep ==
  ASSUME TypeOK, NEW o \in Orders, Frame(o), ~Spoiled(o), ~Spoiled(o)', Accounted(o)',
         status[o] \in Statuses, status'[o] \in validTransitions(status[o])
  PROVE  Book!Next
<1>1. status'[o] \in Statuses  BY Transitions DEF Statuses
<1>2. State[o] = status[o] /\ State'[o] = status'[o]  BY DEF State
<1>3. OffShelf'[o] = (status'[o] # "cancelled")
  BY <1>1 DEF OffShelf, Accounted, Statuses
<1>4. /\ State' = [State EXCEPT ![o] = status'[o]]
      /\ OffShelf' = [OffShelf EXCEPT ![o] = status'[o] # "cancelled"]
  BY <1>2, <1>3, Framed
<1>5. State[o] \in Book!Statuses /\ status'[o] \in Book!validTransitions(State[o])
  BY <1>2, SameTransitions
<1>6. PICK to \in Book!Statuses : to = status'[o]  BY <1>1, SameTransitions
<1>7. Book!Move(o, to)  BY <1>4, <1>5, <1>6 DEF Book!Move, State, OffShelf
<1>8. QED  BY <1>7 DEF Book!Next

LEMMA StillStep ==
  ASSUME NEW o \in Orders, Frame(o), Spoiled(o)' <=> Spoiled(o),
         status'[o] = status[o], item'[o] = item[o], taken'[o] = taken[o]
  PROVE  UNCHANGED <<State, OffShelf>>
<1>1. Ordered(o)' = Ordered(o)  BY DEF Ordered, Total, Pieces
<1>2. State'[o] = State[o] /\ OffShelf'[o] = OffShelf[o]  BY <1>1 DEF State, OffShelf
<1>3. \A q \in Orders : State'[q] = State[q] /\ OffShelf'[q] = OffShelf[q]
  BY <1>2, Framed
<1>4. QED  BY <1>3 DEF State, OffShelf

\* The write that ends a request.  If it was decided on the status the order
\* has, it is a move of the book; if not, it changes nothing or spoils the order.
LEMMA DoneStep ==
  ASSUME BookInv, TypeOK', NEW s \in Sessions, request[s] # Idle, Done(s),
         NEW o \in Orders, o = request[s].order, Frame(o), item' = item,
         status'[o] = status[o] \/ status'[o] \in Statuses,
         status[o] = request[s].seen /\ ~Spoiled(o) =>
           /\ Accounted(o)'
           /\ \/ status'[o] = status[o] /\ taken'[o] = taken[o]
              \/ status[o] \in Statuses /\ status'[o] \in validTransitions(status[o])
  PROVE  BookInv' /\ BookStep
<1>1. raced \subseteq raced'  BY DEF Done
<1>2. Repeats(o)' <=> Repeats(o)  BY DEF Repeats
<1>3. Spoiled(o) => Spoiled(o)'  BY <1>1, <1>2 DEF Spoiled
<1>4. ~Spoiled(o)' =>
        \/ status[o] = request[s].seen
        \/ status'[o] = status[o] /\ taken'[o] = taken[o]
  BY DEF Done, Spoiled
<1>5. Ordered(o)' = Ordered(o)  BY DEF Ordered, Total, Pieces
<1>6. ~Spoiled(o)' => Accounted(o)'
  <2>1. CASE status[o] = request[s].seen  BY <2>1, <1>3
  <2>2. CASE status'[o] = status[o] /\ taken'[o] = taken[o]
    BY <2>2, <1>2, <1>3, <1>5 DEF BookInv, Accounted
  <2>3. QED  BY <1>4, <2>1, <2>2
<1>7. BookInv'
  <2>1. \A q \in Orders : ~Spoiled(q)' => Accounted(q)'
    BY <1>6, Framed DEF BookInv
  <2>2. \A q \in Orders : status'[q] = "none" => ~Repeats(q)'
    BY <1>2, Framed DEF BookInv, Frame, Statuses
  <2>3. \A t \in Sessions : request'[t] = IF t = s THEN Idle ELSE request[t]
    BY DEF Done, BookInv, TypeOK
  <2>4. \A t \in Sessions : Validated(t)'
    BY <2>3 DEF BookInv, Validated, Idle
  <2>5. QED  BY <2>1, <2>2, <2>4 DEF BookInv
<1>8. BookStep
  <2>1. CASE Spoiled(o)'  BY <2>1, SpoilStep DEF BookStep
  <2>2. CASE ~Spoiled(o)' /\ status'[o] = status[o] /\ taken'[o] = taken[o]
    BY <2>2, <1>3, StillStep DEF BookStep
  <2>3. CASE /\ ~Spoiled(o)' /\ status[o] = request[s].seen
             /\ status[o] \in Statuses /\ status'[o] \in validTransitions(status[o])
    BY <2>3, <1>3, <1>6, MoveStep DEF BookStep, BookInv
  <2>4. QED  BY <1>3, <1>4, <2>1, <2>2, <2>3
<1>9. QED  BY <1>7, <1>8

LEMMA DoneFrame ==
  ASSUME NEW s, Done(s), NEW o, o = request[s].order,
         \A q \in Orders \ {o} :
           status'[q] = status[q] /\ item'[q] = item[q] /\ taken'[q] = taken[q]
  PROVE  Frame(o)
BY DEF Done, Frame

LEMMA TakeAll ==
  ASSUME TypeOK, NEW o \in Orders, ~Repeats(o), NEW d \in Joined(o), TakeFor(o, d)
  PROVE  /\ \A q \in Orders \ {o} : taken'[q] = taken[q]
         /\ taken[o] = EmptyBasket(Products) => taken'[o] = Ordered(o)
<1>1. d = Ordered(o)  BY JoinedIsOrdered
<1>2. taken' = [taken EXCEPT ![o] = [p \in Products |-> taken[o][p] + d[p]]]
  BY DEF TakeFor, TypeOK
<1>3. taken'[o] = [p \in Products |-> taken[o][p] + d[p]]  BY <1>2 DEF TypeOK
<1>4. d \in [Products -> Nat]  BY JoinedType
<1>5. ASSUME taken[o] = EmptyBasket(Products)
      PROVE  [p \in Products |-> taken[o][p] + d[p]] = d
  <2>1. \A p \in Products : taken[o][p] + d[p] = d[p]
    BY <1>4, <1>5 DEF EmptyBasket
  <2>2. QED  BY <1>4, <2>1
<1>6. QED  BY <1>1, <1>2, <1>3, <1>5 DEF TypeOK

LEMMA ReturnAll ==
  ASSUME TypeOK, NEW o \in Orders, ~Repeats(o), NEW d \in Joined(o), ReturnFor(o, d)
  PROVE  /\ \A q \in Orders \ {o} : taken'[q] = taken[q]
         /\ taken[o] = Ordered(o) => taken'[o] = EmptyBasket(Products)
<1>1. d = Ordered(o)  BY JoinedIsOrdered
<1>2. taken' = [taken EXCEPT ![o] = [p \in Products |-> taken[o][p] - d[p]]]
  BY DEF ReturnFor, TypeOK
<1>3. taken'[o] = [p \in Products |-> taken[o][p] - d[p]]  BY <1>2 DEF TypeOK
<1>4. d \in [Products -> Nat]  BY JoinedType
<1>5. ASSUME taken[o] = d
      PROVE  [p \in Products |-> taken[o][p] - d[p]] = EmptyBasket(Products)
  <2>1. \A p \in Products : taken[o][p] - d[p] = 0  BY <1>4, <1>5
  <2>2. QED  BY <2>1 DEF EmptyBasket
<1>6. QED  BY <1>1, <1>2, <1>3, <1>5 DEF TypeOK

\* Other orders keep their pieces, whatever o gives back or takes.
LEMMA PiecesOfOthers ==
  ASSUME TypeOK, NEW o \in Orders, NEW d, TakeFor(o, d) \/ ReturnFor(o, d)
  PROVE  \A q \in Orders \ {o} : taken'[q] = taken[q]
BY DEF TakeFor, ReturnFor, TypeOK

LEMMA WriteStatusBook ==
  ASSUME BookInv, TypeOK', NEW s \in Sessions, WriteStatus(s)
  PROVE  BookInv' /\ BookStep
<1>1. request[s] \in StatusRequests /\ request[s] # Idle
  BY RequestKinds DEF WriteStatus, BookInv, TypeOK, Idle
<1>2. PICK o \in Orders : /\ o = request[s].order
                          /\ request[s].seen \in Statuses /\ request[s].target \in Statuses
  BY <1>1 DEF StatusRequests
<1>3. status' = [status EXCEPT ![o] = request[s].target] /\ item' = item /\ taken' = taken
  BY <1>2 DEF WriteStatus, pieceVars
<1>4. status'[o] = request[s].target /\ \A q \in Orders \ {o} : status'[q] = status[q]
  BY <1>2, <1>3 DEF BookInv, TypeOK
<1>5. Done(s)  BY DEF WriteStatus
<1>6. Frame(o)  BY <1>2, <1>3, <1>4, <1>5, DoneFrame
<1>7. ASSUME status[o] = request[s].seen, ~Spoiled(o)
      PROVE  Accounted(o)' /\ status'[o] \in validTransitions(status[o])
  <2>1. request[s].target \in validTransitions(request[s].seen)
    BY DEF WriteStatus, BookInv, Validated
  <2>2. status[o] \notin {"none", "cancelled"} /\ status'[o] \notin {"none", "cancelled"}
    BY <1>2, <1>4, <1>7 DEF WriteStatus, Statuses
  <2>3. taken[o] = Ordered(o) /\ Ordered(o) # EmptyBasket(Products)
    BY <1>2, <1>7, <2>2 DEF BookInv, Accounted
  <2>4. Ordered(o)' = Ordered(o)  BY <1>3 DEF Ordered, Total, Pieces
  <2>5. Accounted(o)'  BY <1>3, <2>2, <2>3, <2>4 DEF Accounted
  <2>6. QED  BY <1>4, <1>7, <2>1, <2>5
<1>8. QED  BY <1>1, <1>2, <1>3, <1>4, <1>5, <1>6, <1>7, DoneStep

LEMMA WriteCancelBook ==
  ASSUME BookInv, TypeOK', NEW s \in Sessions, WriteCancel(s)
  PROVE  BookInv' /\ BookStep
<1>1. request[s] \in StatusRequests /\ request[s] # Idle
  BY RequestKinds DEF WriteCancel, BookInv, TypeOK, Idle
<1>2. PICK o \in Orders : o = request[s].order /\ request[s].seen \in Statuses
  BY <1>1 DEF StatusRequests
<1>3. status' = [status EXCEPT ![o] = "cancelled"] /\ item' = item /\ Done(s)
  BY <1>2 DEF WriteCancel
<1>4. status'[o] = "cancelled" /\ \A q \in Orders \ {o} : status'[q] = status[q]
  BY <1>2, <1>3 DEF BookInv, TypeOK
<1>5. PICK d \in Joined(o) : ReturnFor(o, d)  BY <1>2 DEF WriteCancel
<1>6. Frame(o)
  BY <1>2, <1>3, <1>4, <1>5, PiecesOfOthers, DoneFrame DEF BookInv
<1>7. ASSUME status[o] = request[s].seen, ~Spoiled(o)
      PROVE  /\ Accounted(o)' /\ status[o] \in Statuses
             /\ status'[o] \in validTransitions(status[o])
  <2>1. request[s].target = "cancelled" /\ "cancelled" \in validTransitions(request[s].seen)
    BY DEF WriteCancel, BookInv, Validated
  <2>2. status[o] \in {"pending", "confirmed"}
    BY <1>2, <1>7, <2>1, Transitions DEF Statuses
  <2>3. taken[o] = Ordered(o) /\ Ordered(o) # EmptyBasket(Products) /\ ~Repeats(o)
    BY <1>2, <1>7, <2>2 DEF BookInv, Accounted, Spoiled
  <2>4. taken'[o] = EmptyBasket(Products)  BY <1>2, <1>5, <2>3, ReturnAll DEF BookInv
  <2>5. Ordered(o)' = Ordered(o)  BY <1>3 DEF Ordered, Total, Pieces
  <2>6. Accounted(o)'  BY <1>4, <2>3, <2>4, <2>5 DEF Accounted
  <2>7. QED  BY <1>2, <1>4, <1>7, <2>1, <2>6
<1>8. "cancelled" \in Statuses  BY DEF Statuses
<1>9. QED  BY <1>1, <1>2, <1>3, <1>4, <1>6, <1>7, <1>8, DoneStep

LEMMA WriteRestoreBook ==
  ASSUME BookInv, TypeOK', NEW s \in Sessions, WriteRestore(s)
  PROVE  BookInv' /\ BookStep
<1>1. request[s] \in StatusRequests /\ request[s] # Idle
  BY RequestKinds DEF WriteRestore, BookInv, TypeOK, Idle
<1>2. PICK o \in Orders : o = request[s].order  BY <1>1 DEF StatusRequests
<1>3. status' = [status EXCEPT ![o] = "pending"] /\ item' = item /\ Done(s)
  BY <1>2 DEF WriteRestore
<1>4. /\ status[o] = "cancelled" /\ status'[o] = "pending"
      /\ \A q \in Orders \ {o} : status'[q] = status[q]
  BY <1>2, <1>3 DEF WriteRestore, BookInv, TypeOK
<1>5. PICK d \in Joined(o) : TakeFor(o, d)  BY <1>2 DEF WriteRestore
<1>6. Frame(o)
  BY <1>2, <1>3, <1>4, <1>5, PiecesOfOthers, DoneFrame DEF BookInv
<1>7. ASSUME ~Spoiled(o)
      PROVE  /\ Accounted(o)' /\ status[o] \in Statuses
             /\ status'[o] \in validTransitions(status[o])
  <2>1. taken[o] = EmptyBasket(Products) /\ Ordered(o) # EmptyBasket(Products) /\ ~Repeats(o)
    BY <1>2, <1>4, <1>7 DEF BookInv, Accounted, Spoiled
  <2>2. taken'[o] = Ordered(o)  BY <1>2, <1>5, <2>1, TakeAll DEF BookInv
  <2>3. Ordered(o)' = Ordered(o)  BY <1>3 DEF Ordered, Total, Pieces
  <2>4. Accounted(o)'  BY <1>4, <2>1, <2>2, <2>3 DEF Accounted
  <2>5. QED  BY <1>4, <2>4, Transitions DEF Statuses
<1>8. "pending" \in Statuses  BY DEF Statuses
<1>9. QED  BY <1>1, <1>2, <1>3, <1>4, <1>6, <1>7, <1>8, DoneStep

LEMMA WriteShipBook ==
  ASSUME BookInv, TypeOK', NEW s \in Sessions, WriteShip(s)
  PROVE  BookInv' /\ BookStep
<1>1. request[s] \in ShipRequests /\ request[s] # Idle
  BY RequestKinds DEF WriteShip, BookInv, TypeOK, Idle
<1>2. PICK o \in Orders : o = request[s].order /\ request[s].seen \in {"confirmed", "shipped"}
  BY <1>1 DEF ShipRequests
<1>3. /\ status' = [status EXCEPT ![o] =
                      IF request[s].seen = "confirmed" THEN "shipped" ELSE status[o]]
      /\ item' = item /\ taken' = taken /\ Done(s)
  BY <1>2 DEF WriteShip, pieceVars, BookInv, TypeOK
<1>4. /\ status'[o] = IF request[s].seen = "confirmed" THEN "shipped" ELSE status[o]
      /\ \A q \in Orders \ {o} : status'[q] = status[q]
  BY <1>2, <1>3 DEF BookInv, TypeOK
<1>5. Frame(o)  BY <1>2, <1>3, <1>4, DoneFrame
<1>6. ASSUME status[o] = request[s].seen, ~Spoiled(o)
      PROVE  /\ Accounted(o)'
             /\ \/ status'[o] = status[o]
                \/ status[o] \in Statuses /\ status'[o] \in validTransitions(status[o])
  <2>1. taken[o] = Ordered(o) /\ Ordered(o) # EmptyBasket(Products)
    BY <1>2, <1>6 DEF BookInv, Accounted
  <2>2. Ordered(o)' = Ordered(o)  BY <1>3 DEF Ordered, Total, Pieces
  <2>3. status'[o] = "shipped"  BY <1>2, <1>4, <1>6
  <2>4. Accounted(o)'  BY <1>3, <2>1, <2>2, <2>3 DEF Accounted
  <2>5. QED  BY <1>2, <1>6, <2>3, <2>4, Transitions DEF Statuses
<1>7. "shipped" \in Statuses  BY DEF Statuses
<1>8. QED  BY <1>1, <1>2, <1>3, <1>4, <1>5, <1>6, <1>7, DoneStep

LEMMA WriteBookingBook ==
  ASSUME BookInv, TypeOK', NEW s \in Sessions, WriteBooking(s)
  PROVE  BookInv' /\ BookStep
<1>1. request[s] \in BookedRequests /\ request[s] # Idle
  BY RequestKinds DEF WriteBooking, BookInv, TypeOK, Idle
<1>2. PICK o \in Orders : o = request[s].order /\ request[s].seen = "confirmed"  BY <1>1 DEF BookedRequests
<1>3. /\ status' = [status EXCEPT ![o] = "shipped"]
      /\ item' = item /\ taken' = taken /\ Done(s)
  BY <1>2 DEF WriteBooking, pieceVars
<1>4. status'[o] = "shipped" /\ \A q \in Orders \ {o} : status'[q] = status[q]
  BY <1>2, <1>3 DEF BookInv, TypeOK
<1>5. Frame(o)  BY <1>2, <1>3, <1>4, DoneFrame
<1>6. ASSUME status[o] = request[s].seen, ~Spoiled(o)
      PROVE  /\ Accounted(o)'
             /\ status[o] \in Statuses /\ status'[o] \in validTransitions(status[o])
  <2>1. taken[o] = Ordered(o) /\ Ordered(o) # EmptyBasket(Products)
    BY <1>2, <1>6 DEF BookInv, Accounted
  <2>2. Ordered(o)' = Ordered(o)  BY <1>3 DEF Ordered, Total, Pieces
  <2>3. Accounted(o)'  BY <1>3, <1>4, <2>1, <2>2 DEF Accounted
  <2>4. QED  BY <1>2, <1>4, <1>6, <2>3, Transitions DEF Statuses
<1>7. "shipped" \in Statuses  BY DEF Statuses
<1>8. QED  BY <1>1, <1>2, <1>3, <1>4, <1>5, <1>6, <1>7, DoneStep

\* Requests, buyers and the courier that change neither status nor pieces.
LEMMA StillBook ==
  ASSUME BookInv, TypeOK', UNCHANGED <<status, item, taken, raced>>,
         \A s \in Sessions : Validated(s)'
  PROVE  BookInv' /\ BookStep
<1>1. \A o \in Orders : Repeats(o)' <=> Repeats(o)  BY DEF Repeats
<1>2. \A o \in Orders : Ordered(o)' = Ordered(o)  BY DEF Ordered, Total, Pieces
<1>3. \A o \in Orders : Spoiled(o)' <=> Spoiled(o)  BY <1>1 DEF Spoiled
<1>4. \A o \in Orders : Accounted(o)' <=> Accounted(o)  BY <1>1, <1>2 DEF Accounted
<1>5. UNCHANGED <<State, OffShelf>>  BY <1>2, <1>3 DEF State, OffShelf
<1>6. QED  BY <1>1, <1>3, <1>4, <1>5 DEF BookInv, BookStep

LEMMA ReadForStatusBook ==
  ASSUME BookInv, TypeOK', NEW s \in Sessions, NEW o \in Orders, NEW target \in Statuses,
         ReadForStatus(s, o, target)
  PROVE  BookInv' /\ BookStep
<1> DEFINE r == [op |-> "status", order |-> o, seen |-> status[o], target |-> target]
<1>1. r.target \in validTransitions(r.seen)  BY DEF ReadForStatus
<1>2. request' = [request EXCEPT ![s] = r]  BY DEF ReadForStatus
<1> HIDE DEF r
<1>3. \A t \in Sessions : request'[t] = IF t = s THEN r ELSE request[t]
  BY <1>2 DEF BookInv, TypeOK
<1>4. \A t \in Sessions : Validated(t)'  BY <1>1, <1>3 DEF BookInv, Validated
<1>5. UNCHANGED <<status, item, taken, raced>>
  BY DEF ReadForStatus, pieceVars, ghostVars
<1>6. QED  BY <1>4, <1>5, StillBook

LEMMA OtherRequestsBook ==
  ASSUME BookInv, TypeOK', NEW s \in Sessions,
         \/ \E o \in Orders : ReadForShip(s, o) \/ ReadForBooking(s, o)
         \/ Consign(s) \/ Fail(s)
  PROVE  BookInv' /\ BookStep
<1>1. PICK r : r.op # "status" /\ request' = [request EXCEPT ![s] = r]
  <2>1. ASSUME NEW o \in Orders, ReadForShip(s, o) \/ ReadForBooking(s, o)
        PROVE  \E r : r.op # "status" /\ request' = [request EXCEPT ![s] = r]
    <3> DEFINE ship == [op |-> "ship", order |-> o, seen |-> status[o]]
               book == [op |-> "book", order |-> o, seen |-> status[o], to |-> details[o]]
    <3>1. ship.op # "status" /\ book.op # "status"  OBVIOUS
    <3>2. request' = [request EXCEPT ![s] = ship] \/ request' = [request EXCEPT ![s] = book]
      BY <2>1 DEF ReadForShip, ReadForBooking
    <3> HIDE DEF ship, book
    <3>3. QED  BY <3>1, <3>2
  <2>2. ASSUME Consign(s)
        PROVE  \E r : r.op # "status" /\ request' = [request EXCEPT ![s] = r]
    <3> DEFINE booked == [op |-> "booked", order |-> request[s].order, seen |-> request[s].seen,
                          parcel |-> Len(parcels) + 1]
    <3>1. booked.op # "status"  OBVIOUS
    <3>2. request' = [request EXCEPT ![s] = booked]  BY <2>2 DEF Consign
    <3> HIDE DEF booked
    <3>3. QED  BY <3>1, <3>2
  <2>3. ASSUME Fail(s)
        PROVE  \E r : r.op # "status" /\ request' = [request EXCEPT ![s] = r]
    BY <2>3, IdleHasNoParcel DEF Fail
  <2>4. QED  BY <2>1, <2>2, <2>3
<1>2. \A t \in Sessions : request'[t] = IF t = s THEN r ELSE request[t]
  BY <1>1 DEF BookInv, TypeOK
<1>3. \A t \in Sessions : Validated(t)'  BY <1>1, <1>2 DEF BookInv, Validated
<1>4. UNCHANGED <<status, item, taken, raced>>
  BY DEF ReadForShip, ReadForBooking, Consign, Fail, pieceVars, ghostVars
<1>5. QED  BY <1>3, <1>4, StillBook

LEMMA FieldBook ==
  ASSUME BookInv, TypeOK', NEW o \in Orders,
         \/ \E received \in BOOLEAN : MarkAdvanceReceived(o, received)
         \/ \E r \in Proofs : SubmitAdvanceProof(o, r)
         \/ \E a \in Addresses : BuyerEdit(o, a)
  PROVE  BookInv' /\ BookStep
<1>1. UNCHANGED <<status, item, taken, raced, request>>
  BY DEF MarkAdvanceReceived, SubmitAdvanceProof, BuyerEdit, pieceVars, ghostVars
<1>2. \A t \in Sessions : Validated(t)'  BY <1>1 DEF BookInv, Validated
<1>3. QED  BY <1>1, <1>2, StillBook

\* An order is written into the book, or spoiled from the start if two of its
\* lines are for one product.
LEMMA PlaceBook ==
  ASSUME BookInv, TypeOK', NEW o \in Orders, Place(o)
  PROVE  BookInv' /\ BookStep
<1>1. PICK lines \in [Lines -> OneProduct] :
        /\ \E k \in Lines, p \in Products : lines[k][p] > 0
        /\ item' = [item EXCEPT ![o] = lines]
        /\ TakeFor(o, [p \in Products |-> Total(Lines, lines, p)])
  BY DEF Place
<1> DEFINE d == [p \in Products |-> Total(Lines, lines, p)]
<1>2. /\ status[o] = "none" /\ status'[o] = "pending" /\ item'[o] = lines
      /\ \A q \in Orders \ {o} : status'[q] = status[q] /\ item'[q] = item[q]
      /\ raced' = raced /\ request' = request
  BY <1>1 DEF Place, BookInv, TypeOK, ghostVars
<1>3. Ordered(o)' = d  BY <1>2 DEF Ordered
<1>4. d # EmptyBasket(Products)  BY <1>1, LinesAreOrdered
<1>5. d \in [Products -> Nat]  BY OrderedType
<1> HIDE DEF d
<1>6. TakeFor(o, d)  BY <1>1 DEF d
<1>7. Frame(o)  BY <1>2, <1>6, PiecesOfOthers DEF Frame, BookInv
<1>8. taken[o] = EmptyBasket(Products) => taken'[o] = d
  <2>1. taken' = [taken EXCEPT ![o] = [p \in Products |-> taken[o][p] + d[p]]]
    BY <1>6 DEF TakeFor, BookInv, TypeOK
  <2>2. taken'[o] = [p \in Products |-> taken[o][p] + d[p]]
    BY <2>1 DEF BookInv, TypeOK
  <2>3. ASSUME taken[o] = EmptyBasket(Products) PROVE \A p \in Products : taken[o][p] + d[p] = d[p]
    BY <1>5, <2>3 DEF EmptyBasket
  <2>4. QED  BY <1>5, <2>2, <2>3
<1>9. ~Repeats(o)  BY <1>2 DEF BookInv
<1>10. ~Spoiled(o)' => /\ ~Spoiled(o) /\ taken[o] = EmptyBasket(Products)
                      /\ Accounted(o)'
  <2>1. ASSUME ~Spoiled(o)' PROVE ~Spoiled(o)  BY <1>2, <1>9, <2>1 DEF Spoiled
  <2>2. ASSUME ~Spoiled(o) PROVE taken[o] = EmptyBasket(Products)
    BY <1>2, <2>2 DEF BookInv, Accounted
  <2>3. ASSUME taken[o] = EmptyBasket(Products) PROVE Accounted(o)'
    BY <1>2, <1>3, <1>4, <1>8, <2>3 DEF Accounted
  <2>4. QED  BY <2>1, <2>2, <2>3
<1>11. BookInv'
  <2>1. \A q \in Orders : ~Spoiled(q)' => Accounted(q)'
    BY <1>7, <1>10, Framed DEF BookInv
  <2>2. \A q \in Orders : status'[q] = "none" => ~Repeats(q)'
    BY <1>2, <1>7, Framed DEF BookInv
  <2>3. \A t \in Sessions : Validated(t)'  BY <1>2 DEF BookInv, Validated
  <2>4. QED  BY <2>1, <2>2, <2>3 DEF BookInv
<1>12. BookStep
  <2>1. CASE Spoiled(o)'  BY <1>7, <2>1, SpoilStep DEF BookStep
  <2>2. CASE ~Spoiled(o)'
    <3>1. State[o] = "none" /\ State'[o] = "pending"  BY <1>2, <1>10, <2>2 DEF State
    <3>2. OffShelf'[o] = TRUE
      BY <1>3, <1>4, <1>8, <1>10, <2>2 DEF OffShelf
    <3>3. /\ State' = [State EXCEPT ![o] = "pending"]
          /\ OffShelf' = [OffShelf EXCEPT ![o] = TRUE]
      BY <1>7, <3>1, <3>2, Framed
    <3>4. Book!Place(o)  BY <3>1, <3>3 DEF Book!Place, State, OffShelf
    <3>5. QED  BY <3>4 DEF Book!Next, BookStep
  <2>3. QED  BY <2>1, <2>2
<1>13. QED  BY <1>11, <1>12

\* A buyer's cancellation re-checks the status in its statement: it is a move.
LEMMA BuyerCancelBook ==
  ASSUME BookInv, TypeOK', NEW o \in Orders, BuyerCancel(o)
  PROVE  BookInv' /\ BookStep
<1>1. /\ status[o] = "pending" /\ status'[o] = "cancelled"
      /\ \A q \in Orders \ {o} : status'[q] = status[q]
      /\ item' = item /\ raced' = raced /\ request' = request
  BY DEF BuyerCancel, BookInv, TypeOK
<1>2. PICK d \in Joined(o) : ReturnFor(o, d)  BY DEF BuyerCancel
<1>3. Frame(o)  BY <1>1, <1>2, PiecesOfOthers DEF Frame, BookInv
<1>4. (Repeats(o)' <=> Repeats(o)) /\ (Spoiled(o)' <=> Spoiled(o)) /\ Ordered(o)' = Ordered(o)
  BY <1>1 DEF Repeats, Spoiled, Ordered, Total, Pieces
<1>5. ASSUME ~Spoiled(o) PROVE Accounted(o)'
  <2>1. taken[o] = Ordered(o) /\ Ordered(o) # EmptyBasket(Products) /\ ~Repeats(o)
    BY <1>1, <1>5 DEF BookInv, Accounted, Spoiled
  <2>2. taken'[o] = EmptyBasket(Products)  BY <1>2, <2>1, ReturnAll DEF BookInv
  <2>3. QED  BY <1>1, <1>4, <2>1, <2>2 DEF Accounted
<1>6. BookInv'
  <2>1. \A q \in Orders : ~Spoiled(q)' => Accounted(q)'
    BY <1>3, <1>4, <1>5, Framed DEF BookInv
  <2>2. \A q \in Orders : status'[q] = "none" => ~Repeats(q)'
    BY <1>1, <1>3, Framed DEF BookInv
  <2>3. \A t \in Sessions : Validated(t)'  BY <1>1 DEF BookInv, Validated
  <2>4. QED  BY <2>1, <2>2, <2>3 DEF BookInv
<1>7. BookStep
  <2>1. CASE Spoiled(o)'  BY <1>3, <2>1, SpoilStep DEF BookStep
  <2>2. CASE ~Spoiled(o)'
    BY <1>1, <1>3, <1>4, <1>5, <2>2, MoveStep, Transitions DEF BookStep, BookInv, Statuses
  <2>3. QED  BY <2>1, <2>2
<1>8. QED  BY <1>6, <1>7

LEMMA StepBook ==
  ASSUME BookInv, [Next]_vars
  PROVE  BookInv' /\ BookStep
<1>0. TypeOK'  BY StepTypes DEF BookInv
<1>1. CASE SellerNext
  BY <1>0, <1>1, ReadForStatusBook, WriteStatusBook, WriteCancelBook, WriteRestoreBook,
     WriteShipBook, WriteBookingBook, OtherRequestsBook, FieldBook DEF SellerNext
<1>2. CASE BuyerNext
  BY <1>0, <1>2, PlaceBook, BuyerCancelBook, FieldBook DEF BuyerNext
<1>3. CASE UNCHANGED vars
  <2>1. UNCHANGED <<status, item, taken, raced, request>>
    BY <1>3 DEF vars, pieceVars, ghostVars
  <2>2. \A t \in Sessions : Validated(t)'  BY <2>1 DEF BookInv, Validated
  <2>3. QED  BY <1>0, <2>1, <2>2, StillBook
<1>4. QED  BY <1>1, <1>2, <1>3 DEF Next

\* The pipeline implements the order book: an order that no outdated write has
\* touched moves along validTransitions only, and all of its pieces are off the
\* shelf or none (UpdateOrderStatus, ShipOrder, BookCourier, CancelOrderByBuyer).
THEOREM BookImplemented == Spec => ImplementsBook
<1>1. Init => BookInv /\ Book!Init  BY InitBook
<1>2. BookInv /\ [Next]_vars => BookInv'  BY StepBook
<1>3. BookInv /\ [Next]_vars => [Book!Next]_(Book!vars)
  <2> SUFFICES ASSUME BookInv, [Next]_vars PROVE [Book!Next]_(Book!vars)
    OBVIOUS
  <2>1. BookStep  BY StepBook
  <2>2. QED  BY <2>1 DEF BookStep, Book!vars, State, OffShelf
<1>4. QED  BY <1>1, <1>2, <1>3, PTL DEF Spec, ImplementsBook, Book!Spec
=============================================================================
