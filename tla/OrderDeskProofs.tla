-------------------------- MODULE OrderDeskProofs --------------------------
(***************************************************************************)
(* Proofs about OrderDesk, for any number of tabs and of requests on their *)
(* way.  The strengthening says what an outdated copy, and a request that  *)
(* was sent from one, still tells of the order at the server: that it had  *)
(* a proof or a courier, which it keeps, or that it was paid at some time. *)
(***************************************************************************)
EXTENDS OrderDesk, TLAPS

Confirmed == {"confirmed", "shipped", "delivered", "returned"}
Sent == {"shipped", "delivered", "returned"}

\* What a copy of the order, outdated or not, tells of it.
Tells(c) ==
  /\ c.status \in Confirmed => verified
  /\ c.status \in Sent => c.courier
  /\ c.received => c.proof /\ verified
  /\ c.proof => desk.proof
  /\ c.courier => desk.courier

\* What a request on its way tells.
Implies(r) ==
  /\ r.op = "status" /\ r.to = "confirmed" => verified
  /\ r.op = "status" /\ r.to = "shipped" => desk.courier
  /\ r.op = "received" /\ r.to = TRUE => desk.proof

DeskInductive ==
  /\ DeskTypeOK
  /\ Tells(desk)
  /\ \A s \in Sessions : Tells(seen[s])
  /\ \A r \in calls : Implies(r)

-----------------------------------------------------------------------------
\* Every request a page offers on a copy is one the server accepts of an order
\* that is as the copy says.
LEMMA OffersAreAccepted ==
  ASSUME NEW c \in Copies, NEW r \in Offers(c)
  PROVE  Accepts(c, r)
<1>1. r \in Requests BY DEF Offers
<1>2. c.status \in Statuses BY DEF Copies
<1>3. CASE r.op = "status"
  <2>1. r.to \in nextStatus(c.status) \cup prevStatus(c.status)
    BY <1>3 DEF Offers, Forward, WithReason
  <2>2. r.to \in validTransitions(c.status)
    BY <2>1, <1>2 DEF nextStatus, prevStatus, validTransitions, Statuses
  <2> QED BY <1>3, <2>2 DEF Accepts
<1>4. CASE r.op = "ship"
  <2>1. c.status \in {"confirmed", "shipped"}
    BY <1>4, <1>2 DEF Offers, BookOffered, EditShipmentOffered, nextStatus, Statuses
  <2> QED BY <1>4, <2>1 DEF Accepts
<1>5. CASE r.op = "book"
  <2>1. c.status = "confirmed"
    BY <1>5, <1>2 DEF Offers, BookOffered, nextStatus, Statuses
  <2> QED BY <1>5, <2>1 DEF Accepts
<1>6. CASE r.op = "received" BY <1>6 DEF Accepts
<1> QED BY <1>1, <1>3, <1>4, <1>5, <1>6 DEF Requests

\* What a page may ask for is backed by what its copy tells.
LEMMA OffersAreBacked ==
  ASSUME NEW c \in Copies, Tells(c), NEW r \in Offers(c)
  PROVE  r \in Requests /\ Implies(r)
<1>1. r \in Requests BY DEF Offers
<1>2. c.status \in Statuses BY DEF Copies
<1>3. ASSUME r.op = "status", r.to = "confirmed" PROVE verified
  <2>1. CASE "confirmed" \in Forward(c)
    BY <2>1 DEF Forward, AdvancePending, Tells
  <2>2. CASE "confirmed" \in prevStatus(c.status)
    <3>1. c.status = "shipped" BY <2>2, <1>2 DEF prevStatus, Statuses
    <3> QED BY <3>1 DEF Tells, Confirmed
  <2> QED BY <1>3, <2>1, <2>2 DEF Offers, WithReason
<1>4. ASSUME r.op = "status", r.to = "shipped" PROVE desk.courier
  <2>1. "shipped" \in prevStatus(c.status)
    BY <1>4 DEF Offers, Forward, WithReason
  <2>2. c.status \in {"delivered", "returned"}
    BY <2>1, <1>2 DEF prevStatus, Statuses
  <2> QED BY <2>2 DEF Tells, Sent
<1>5. ASSUME r.op = "received", r.to = TRUE PROVE desk.proof
  BY <1>5 DEF Offers, VerifyOffered, Tells
<1> QED BY <1>1, <1>3, <1>4, <1>5 DEF Implies

\* What is known of copies and requests stays known as long as the order keeps
\* its proof and its courier.
LEMMA KnownStays ==
  ASSUME DeskInductive,
         verified => verified', desk.proof => desk'.proof, desk.courier => desk'.courier
  PROVE  /\ \A s \in Sessions : seen'[s] = seen[s] => Tells(seen[s])'
         /\ \A r \in calls : Implies(r)'
BY DEF DeskInductive, Tells, Implies

LEMMA DeskStarts == DeskInit => DeskInductive
<1> SUFFICES ASSUME DeskInit PROVE DeskInductive OBVIOUS
<1>1. DeskTypeOK BY DEF DeskInit, DeskTypeOK
<1>2. Tells(desk) BY DEF DeskInit, Tells, Confirmed, Sent
<1> QED BY <1>1, <1>2 DEF DeskInit, DeskInductive

-----------------------------------------------------------------------------
LEMMA LookKeeps ==
  ASSUME DeskInductive, NEW s \in Sessions, Look(s)
  PROVE  DeskInductive'
<1>1. DeskTypeOK' BY DEF DeskInductive, DeskTypeOK, Look
<1>2. Tells(desk)' BY DEF DeskInductive, Tells, Look
<1>3. \A t \in Sessions : Tells(seen[t])'
  <2> TAKE t \in Sessions
  <2>1. CASE t = s BY <2>1 DEF DeskInductive, DeskTypeOK, Tells, Look
  <2>2. CASE t # s
    <3>1. seen'[t] = seen[t] BY <2>2 DEF DeskInductive, DeskTypeOK, Look
    <3> QED BY <3>1, KnownStays DEF Look
  <2> QED BY <2>1, <2>2
<1>4. \A r \in calls' : Implies(r)' BY DEF DeskInductive, Implies, Look
<1> QED BY <1>1, <1>2, <1>3, <1>4 DEF DeskInductive

LEMMA ClickKeeps ==
  ASSUME DeskInductive, NEW s \in Sessions, Click(s)
  PROVE  DeskInductive'
<1>1. PICK r \in Offers(seen[s]) : calls' = calls \cup {r} BY DEF Click
<1>2. seen[s] \in Copies /\ Tells(seen[s]) BY DEF DeskInductive, DeskTypeOK
<1>3. r \in Requests /\ Implies(r) BY <1>2, OffersAreBacked
<1>4. DeskTypeOK' BY <1>1, <1>3 DEF DeskInductive, DeskTypeOK, Click
<1>5. Tells(desk)' BY DEF DeskInductive, Tells, Click
<1>6. \A t \in Sessions : Tells(seen[t])' BY KnownStays DEF Click
<1>7. \A q \in calls' : Implies(q)'
  BY <1>1, <1>3 DEF DeskInductive, Implies, Click
<1> QED BY <1>4, <1>5, <1>6, <1>7 DEF DeskInductive

\* The shipment dialog says nothing of the order, and its request asks for the
\* server's checks only.
LEMMA DialogKeeps ==
  ASSUME DeskInductive, NEW s \in Sessions,
         OpenShip(s) \/ SubmitShip(s) \/ CloseShip(s)
  PROVE  DeskInductive'
<1>1. calls' \subseteq calls \cup {[op |-> "ship", to |-> "shipped"]}
  BY DEF OpenShip, SubmitShip, CloseShip
<1>2. UNCHANGED <<desk, seen, shown, verified>> /\ shipOpen' \subseteq Sessions
  BY DEF DeskInductive, DeskTypeOK, OpenShip, SubmitShip, CloseShip
<1>3. DeskTypeOK'
  BY <1>1, <1>2 DEF DeskInductive, DeskTypeOK, Requests
<1>4. Tells(desk)' BY <1>2 DEF DeskInductive, Tells
<1>5. \A t \in Sessions : Tells(seen[t])' BY <1>2, KnownStays
<1>6. \A q \in calls' : Implies(q)'
  BY <1>1, <1>2 DEF DeskInductive, Implies
<1> QED BY <1>3, <1>4, <1>5, <1>6 DEF DeskInductive

\* The request of a page changes the order.
LEMMA ServeKeeps ==
  ASSUME DeskInductive, Serve
  PROVE  DeskInductive'
<1>1. PICK r \in calls :
        /\ calls' = calls \ {r}
        /\ \/ UNCHANGED <<desk, verified>>
           \/ /\ Accepts(desk, r)
              /\ desk' = After(desk, r)
              /\ verified' = (verified \/ desk'.received)
  BY DEF Serve
<1>2. UNCHANGED <<seen, shipOpen, shown>> BY DEF Serve
<1>3. desk \in Copies /\ r \in Requests /\ Implies(r) /\ Tells(desk)
  BY DEF DeskInductive, DeskTypeOK
<1>4. CASE UNCHANGED <<desk, verified>>
  <2>1. DeskTypeOK' BY <1>1, <1>2, <1>4 DEF DeskInductive, DeskTypeOK
  <2>2. Tells(desk)' BY <1>3, <1>4 DEF Tells
  <2>3. \A s \in Sessions : Tells(seen[s])' BY <1>2, <1>4, KnownStays
  <2>4. \A q \in calls' : Implies(q)' BY <1>1, <1>4, KnownStays
  <2> QED BY <2>1, <2>2, <2>3, <2>4 DEF DeskInductive
<1>5. CASE /\ Accepts(desk, r)
           /\ desk' = After(desk, r)
           /\ verified' = (verified \/ desk'.received)
  <2>1. desk' \in Copies /\ verified' \in BOOLEAN /\ Tells(desk)'
    <3>1. verified \in BOOLEAN BY DEF DeskInductive, DeskTypeOK
    <3>2. CASE r.op = "status"
      <4>1. r.to \in Statuses BY <1>3, <3>2 DEF Requests
      <4>2. desk' = [desk EXCEPT !.status = r.to] BY <1>5, <3>2 DEF After
      <4>3. desk' \in Copies BY <1>3, <4>1, <4>2 DEF Copies
      <4>4. /\ desk'.status = r.to /\ desk'.proof = desk.proof
            /\ desk'.received = desk.received /\ desk'.courier = desk.courier
        BY <1>3, <4>2 DEF Copies
      <4>5. r.to \in validTransitions(desk.status) BY <1>5, <3>2 DEF Accepts
      <4>6. desk.status \in Statuses BY <1>3 DEF Copies
      <4>7. r.to \in Confirmed => r.to = "confirmed" \/ desk.status \in Confirmed
        BY <4>5, <4>6 DEF Confirmed, validTransitions, Statuses
      <4>8. r.to \in Sent => r.to = "shipped" \/ desk.status \in Sent
        BY <4>5, <4>6 DEF Sent, validTransitions, Statuses
      <4>9. verified => verified' BY <1>5
      <4>10. r.to \in Confirmed => verified
        BY <1>3, <3>2, <4>7 DEF Tells, Implies
      <4>11. r.to \in Sent => desk.courier
        BY <1>3, <3>2, <4>8 DEF Tells, Implies
      <4>12. Tells(desk)' BY <1>3, <4>4, <4>9, <4>10, <4>11 DEF Tells
      <4> QED BY <1>5, <3>1, <4>3, <4>4, <4>12 DEF Copies
    <3>3. CASE r.op \in {"ship", "book"}
      <4>1. desk' = [desk EXCEPT !.status = "shipped", !.courier = TRUE]
        BY <1>5, <3>3 DEF After
      <4>2. desk' \in Copies BY <1>3, <4>1 DEF Copies, Statuses
      <4>3. /\ desk'.status = "shipped" /\ desk'.proof = desk.proof
            /\ desk'.received = desk.received /\ desk'.courier = TRUE
        BY <1>3, <4>1 DEF Copies
      <4>4. desk.status \in Confirmed BY <1>5, <3>3 DEF Accepts, Confirmed
      <4>5. verified BY <1>3, <4>4 DEF Tells
      <4> QED BY <1>3, <1>5, <3>1, <4>2, <4>3, <4>5 DEF Tells
    <3>4. CASE r.op = "received"
      <4>1. r.to \in BOOLEAN BY <1>3, <3>4 DEF Requests
      <4>2. desk' = [desk EXCEPT !.received = r.to] BY <1>5, <3>4 DEF After
      <4>3. desk' \in Copies BY <1>3, <4>1, <4>2 DEF Copies
      <4>4. /\ desk'.status = desk.status /\ desk'.proof = desk.proof
            /\ desk'.received = r.to /\ desk'.courier = desk.courier
        BY <1>3, <4>2 DEF Copies
      <4>5. r.to => desk.proof BY <1>3, <3>4, <4>1 DEF Implies
      <4> QED BY <1>3, <1>5, <3>1, <4>1, <4>3, <4>4, <4>5 DEF Tells
    <3> QED BY <1>3, <3>2, <3>3, <3>4 DEF Requests
  <2>2. /\ verified => verified'
        /\ desk.proof => desk'.proof
        /\ desk.courier => desk'.courier
    BY <1>3, <1>5 DEF After, Requests, Copies
  <2>3. DeskTypeOK' BY <1>1, <1>2, <2>1 DEF DeskInductive, DeskTypeOK
  <2>4. \A s \in Sessions : Tells(seen[s])' BY <1>2, <2>2, KnownStays
  <2>5. \A q \in calls' : Implies(q)' BY <1>1, <2>2, KnownStays
  <2> QED BY <2>1, <2>3, <2>4, <2>5 DEF DeskInductive
<1> QED BY <1>1, <1>4, <1>5

\* A change by the buyer: to an order that is pending before it, and pending or
\* cancelled after it.
LEMMA BuyerKeeps ==
  ASSUME DeskInductive, NEW c \in Copies, BuyerChanges(c),
         c.status \in {"pending", "cancelled"},
         desk.proof => c.proof, c.courier = desk.courier, c.received = desk.received
  PROVE  DeskInductive'
<1>1. DeskTypeOK' BY DEF DeskInductive, DeskTypeOK, BuyerChanges
<1>2. Tells(desk)'
  BY DEF DeskInductive, Tells, BuyerChanges, Confirmed, Sent
<1>3. \A s \in Sessions : Tells(seen[s])' BY KnownStays DEF BuyerChanges
<1>4. \A q \in calls' : Implies(q)' BY KnownStays DEF BuyerChanges
<1> QED BY <1>1, <1>2, <1>3, <1>4 DEF DeskInductive

LEMMA DeskKeeps == DeskInductive /\ [DeskNext]_deskVars => DeskInductive'
<1> SUFFICES ASSUME DeskInductive, [DeskNext]_deskVars PROVE DeskInductive'
  OBVIOUS
<1>0. desk \in Copies BY DEF DeskInductive, DeskTypeOK
<1>1. CASE \E s \in Sessions : Look(s) BY <1>1, LookKeeps
<1>2. CASE \E s \in Sessions : Click(s) BY <1>2, ClickKeeps
<1>3. CASE Serve BY <1>3, ServeKeeps
<1>9. CASE \E s \in Sessions : OpenShip(s) \/ SubmitShip(s) \/ CloseShip(s)
  BY <1>9, DialogKeeps
<1>4. CASE LookUp
  BY <1>0, <1>4 DEF DeskInductive, DeskTypeOK, Tells, Implies, LookUp
<1>5. CASE SubmitProof
  <2> DEFINE c == [desk EXCEPT !.proof = TRUE]
  <2>1. c \in Copies /\ c.status = "pending" /\ c.proof
          /\ c.courier = desk.courier /\ c.received = desk.received
    BY <1>0, <1>5 DEF SubmitProof, Copies
  <2>2. BuyerChanges(c) BY <1>5 DEF SubmitProof
  <2> HIDE DEF c
  <2> QED BY <2>1, <2>2, BuyerKeeps
<1>6. CASE EditDelivery BY <1>0, <1>6, BuyerKeeps DEF EditDelivery
<1>7. CASE BuyerCancels
  <2> DEFINE c == [desk EXCEPT !.status = "cancelled"]
  <2>1. c \in Copies /\ c.status = "cancelled" /\ c.proof = desk.proof
          /\ c.courier = desk.courier /\ c.received = desk.received
    BY <1>0 DEF Copies, Statuses
  <2>2. BuyerChanges(c) BY <1>7 DEF BuyerCancels
  <2> HIDE DEF c
  <2> QED BY <2>1, <2>2, BuyerKeeps
<1>8. CASE UNCHANGED deskVars
  BY <1>8 DEF deskVars, DeskInductive, DeskTypeOK, Tells, Implies
<1> QED BY <1>1, <1>2, <1>3, <1>4, <1>5, <1>6, <1>7, <1>8, <1>9 DEF DeskNext

\* The inductive invariant: what copies and requests tell of the order is true.
THEOREM DeskInvariance == DeskSpec => []DeskInductive
<1>1. DeskInit => DeskInductive BY DeskStarts
<1>2. DeskInductive /\ [DeskNext]_deskVars => DeskInductive' BY DeskKeeps
<1> QED BY <1>1, <1>2, PTL DEF DeskSpec

\* The order, its copies and the requests on their way are well formed.
THEOREM DeskTypes == DeskSpec => []DeskTypeOK
<1>1. DeskInductive => DeskTypeOK BY DEF DeskInductive
<1> QED BY <1>1, DeskInvariance, PTL

\* An order gets past "pending" only after its advance payment was verified,
\* although only the pages, on copies of any age, ask for that.
THEOREM ConfirmedOrdersWerePaid == DeskSpec => []PaidBeforeConfirmed
<1>1. DeskInductive => PaidBeforeConfirmed
  BY DEF DeskInductive, Tells, PaidBeforeConfirmed, Confirmed
<1> QED BY <1>1, DeskInvariance, PTL

\* A payment that is marked as received has a proof.
THEOREM ReceivedHasProof == DeskSpec => []VerifiedHasProof
<1>1. DeskInductive => VerifiedHasProof
  BY DEF DeskInductive, Tells, VerifiedHasProof
<1> QED BY <1>1, DeskInvariance, PTL

\* An order that is or was with a courier has the name of one.
THEOREM ShippedHasCourier == DeskSpec => []CourierAlwaysKnown
<1>1. DeskInductive => CourierAlwaysKnown
  BY DEF DeskInductive, Tells, CourierAlwaysKnown, Sent
<1> QED BY <1>1, DeskInvariance, PTL

\* What an up-to-date page of the seller offers is never refused.
THEOREM FreshOffersAccepted == DeskSpec => []OffersAccepted
<1>1. DeskInductive => OffersAccepted
  BY OffersAreAccepted DEF DeskInductive, DeskTypeOK, OffersAccepted
<1> QED BY <1>1, DeskInvariance, PTL
=============================================================================
