------------------------------ MODULE Checkout ------------------------------
(***************************************************************************)
(* Checkout of one shop: products with their stock, cart reservations       *)
(* ("holds"), placing orders with or without a hold, coupons, the sweeper   *)
(* of expired holds and the seller's product edits.                         *)
(*                                                                         *)
(* One database transaction is one action: the code runs them at READ       *)
(* COMMITTED and every statement that decides something either locks the    *)
(* row or is an UPDATE that re-evaluates its WHERE on the locked row.  What *)
(* the service layer reads before the transaction is a step of its own, so  *)
(* anything may happen between the quote of an order and its commit, or     *)
(* between the two halves of a product edit.  A request that is dropped, or *)
(* a server that crashes, loses only what the request had in memory         *)
(* (GiveUp, AbandonEdit): the transaction it was in is rolled back.         *)
(***************************************************************************)
EXTENDS Quantities

CONSTANTS
  Products,     \* products of the shop
  Holds,        \* ids of cart reservations
  Orders,       \* requests to place an order, each with the order it may create
  Coupons,      \* coupons of the shop
  Edited,       \* products that are edited while the shop is open
  NoHold,       \* "no reservation_id"
  NoCoupon,     \* "no coupon_code"
  NoOne,        \* customer_phone IS NULL
  MaxStock,     \* bound on the stock a seller types in
  HoldTime,     \* domain.ReservationDuration in ticks of the clock
  CouponLife,   \* expires_at of every coupon
  MaxTime       \* bound on the clock

ASSUME CheckoutAssumption ==
  /\ IsFiniteSet(Holds)
  /\ IsFiniteSet(Orders)
  /\ NoHold \notin Holds
  /\ NoCoupon \notin Coupons
  /\ NoOne \notin Orders
  /\ MaxStock \in Nat
  /\ HoldTime \in Nat \ {0}
  /\ MaxTime \in Nat
  /\ CouponLife \in Nat
  /\ Edited \subseteq Products

VARIABLES
  now,          \* the clock, the database's and the server's
  stock,        \* products.stock
  active,       \* products with is_active
  archived,     \* products with is_archived
  deleted,      \* products whose row is gone
  holdStatus,   \* cart_reservations.status, "none" before the row exists
  held,         \* cart_reservation_items: quantity per product
  expires,      \* cart_reservations.expires_at
  phone,        \* cart_reservations.customer_phone: the order it was stamped for
  phase,        \* progress of a request to place an order; "placed": committed
  basket,       \* the lines of the quoted order: quantity per product
  via,          \* the reservation the request names, or NoHold
  code,         \* the coupon the request names, or NoCoupon
  quotedAt,     \* when the order was quoted
  disabled,     \* coupons with is_active = false
  redeemed,     \* coupons with redeemed_at set
  draft,        \* stock that an unfinished product edit has read, or NoDraft
  owned,        \* ghost: pieces the seller has declared, ever
  drift         \* ghost: pieces that finished edits made appear (+) or vanish

productVars == <<stock, active, archived, deleted, draft, owned, drift>>
holdVars    == <<holdStatus, held, expires, phone>>
requestVars == <<phase, basket, via, code, quotedAt>>
couponVars  == <<disabled, redeemed>>
vars == <<now, productVars, holdVars, requestVars, couponVars>>

HoldStatuses == {"none", "active", "consumed", "expired", "cancelled"}
Settled      == {"consumed", "expired", "cancelled"}
Phases       == {"new", "quoted", "sent", "placed"}
NoDraft      == -1

-----------------------------------------------------------------------------
(* Rows and sums.                                                          *)

ActiveHolds  == {h \in Holds : holdStatus[h] = "active"}
PlacedOrders == {o \in Orders : phase[o] = "placed"}

\* The row is there, is_active = true AND is_archived = false.
Listed == active \ (archived \cup deleted)

Mentioned(q) == {p \in Products : q[p] > 0}

\* UPDATE products SET stock = stock - q for every line: fails if a product is
\* hidden (no row) or if CHECK (stock >= 0) rejects it.
CanTake(q) == /\ Mentioned(q) \subseteq Listed
              /\ \A p \in Products : q[p] <= stock[p]

Take(q)  == stock' = [p \in Products |-> stock[p] - q[p]]
Return(q) == stock' = [p \in Products |-> stock[p] + q[p]]

\* Coupon.Discount accepts c now.
CouponOK(c) == \/ c = NoCoupon
               \/ /\ c \in Coupons
                  /\ c \notin disabled \cup redeemed
                  /\ CouponLife > now
-----------------------------------------------------------------------------
(* Initial states: a catalogue with any stock, nothing reserved or ordered. *)

Init ==
  /\ now = 0
  /\ stock \in [Products -> 0..MaxStock]
  /\ active = Products
  /\ archived = {}
  /\ deleted = {}
  /\ holdStatus = [h \in Holds |-> "none"]
  /\ held = [h \in Holds |-> EmptyBasket(Products)]
  /\ expires = [h \in Holds |-> 0]
  /\ phone = [h \in Holds |-> NoOne]
  /\ phase = [o \in Orders |-> "new"]
  /\ basket = [o \in Orders |-> EmptyBasket(Products)]
  /\ via = [o \in Orders |-> NoHold]
  /\ code = [o \in Orders |-> NoCoupon]
  /\ quotedAt = [o \in Orders |-> 0]
  /\ disabled = {}
  /\ redeemed = {}
  /\ draft = [p \in Products |-> NoDraft]
  /\ owned = stock
  /\ drift = [p \in Products |-> 0]
-----------------------------------------------------------------------------
(* Cart reservations.                                                      *)

\* POST cart-reservations: insert the row and its lines and take the stock.
\* The lines name different products (UNIQUE (reservation_id, product_id)).
CreateHold(h, q) ==
  /\ holdStatus[h] = "none"
  /\ now + HoldTime < MaxTime        \* bound: the clock gets past expires_at
  /\ Mentioned(q) # {}
  /\ CanTake(q)
  /\ Take(q)
  /\ holdStatus' = [holdStatus EXCEPT ![h] = "active"]
  /\ held' = [held EXCEPT ![h] = q]
  /\ expires' = [expires EXCEPT ![h] = now + HoldTime]
  /\ UNCHANGED <<now, active, archived, deleted, phone, requestVars,
                 couponVars, draft, owned, drift>>

\* DELETE cart-reservations/{id}: under FOR UPDATE; a settled hold is left as
\* it is.
CancelHold(h) ==
  /\ holdStatus[h] = "active"
  /\ holdStatus' = [holdStatus EXCEPT ![h] = "cancelled"]
  /\ Return(held[h])
  /\ UNCHANGED <<now, active, archived, deleted, held, expires, phone,
                 requestVars, couponVars, draft, owned, drift>>

\* Bug for HoldsSettle: the comparison is the wrong way round.
OverdueSwapped == {h \in ActiveHolds : expires[h] > now}

\* The active holds past their expires_at.
Overdue == {h \in ActiveHolds : expires[h] < now}

\* Bug for StockBalances: UPDATE ... FROM joins the lines to the products, and
\* of several lines of one product only one is applied.
SweepJoin ==
  /\ Overdue # {}
  /\ holdStatus' = [h \in Holds |-> IF h \in Overdue THEN "expired"
                                                     ELSE holdStatus[h]]
  /\ \E pick \in [Products -> Overdue] :
       stock' = [p \in Products |-> stock[p] + held[pick[p]][p]]
  /\ UNCHANGED <<now, active, archived, deleted, held, expires, phone,
                 requestVars, couponVars, draft, owned, drift>>

\* One sweep: expire all of them and give back the SUM per product.
Sweep ==
  /\ Overdue # {}
  /\ holdStatus' = [h \in Holds |-> IF h \in Overdue THEN "expired"
                                                     ELSE holdStatus[h]]
  /\ stock' = [p \in Products |-> stock[p] + Total(Overdue, held, p)]
  /\ UNCHANGED <<now, active, archived, deleted, held, expires, phone,
                 requestVars, couponVars, draft, owned, drift>>
-----------------------------------------------------------------------------
(* Placing an order.                                                       *)

\* Quote without a hold: the lines come from the request, the stock is looked
\* at but not taken, line by line: a product in several lines passes if it has a
\* piece for each of them, though not for all.  The products are read one by
\* one; nothing that is read is kept but the lines, so one look stands for it.
QuoteDirect(o, q, c) ==
  /\ phase[o] = "new"
  /\ Mentioned(q) # {}
  /\ Mentioned(q) \subseteq {p \in Listed : stock[p] > 0}
  /\ CouponOK(c)
  /\ phase' = [phase EXCEPT ![o] = "sent"]
  /\ basket' = [basket EXCEPT ![o] = q]
  /\ code' = [code EXCEPT ![o] = c]
  /\ quotedAt' = [quotedAt EXCEPT ![o] = now]
  /\ UNCHANGED <<now, productVars, holdVars, via, couponVars>>

\* Quote against a hold: it is active and not past expires_at, the lines are
\* those of the hold, and the products are still on sale.
QuoteHold(o, h, c) ==
  /\ phase[o] = "new"
  /\ holdStatus[h] = "active"
  /\ now <= expires[h]
  /\ Mentioned(held[h]) \subseteq Listed
  /\ CouponOK(c)
  /\ phase' = [phase EXCEPT ![o] = "quoted"]
  /\ basket' = [basket EXCEPT ![o] = held[h]]
  /\ via' = [via EXCEPT ![o] = h]
  /\ code' = [code EXCEPT ![o] = c]
  /\ quotedAt' = [quotedAt EXCEPT ![o] = now]
  /\ UNCHANGED <<now, productVars, holdVars, couponVars>>

\* Bug for SettledIsFinal: no "AND status = 'active'".
AttachPhoneAlways(o) ==
  /\ phase[o] = "quoted"
  /\ phase' = [phase EXCEPT ![o] = "sent"]
  /\ phone' = [phone EXCEPT ![via[o]] = o]
  /\ UNCHANGED <<now, productVars, holdStatus, held, expires, basket, via,
                 code, quotedAt, couponVars>>

\* AttachPhone: stamp the buyer on the hold while it is still active.
\* Best effort, an error is ignored.
AttachPhone(o) ==
  /\ phase[o] = "quoted"
  /\ phase' = [phase EXCEPT ![o] = "sent"]
  /\ \/ /\ holdStatus[via[o]] = "active"
        /\ phone' = [phone EXCEPT ![via[o]] = o]
     \/ UNCHANGED phone
  /\ UNCHANGED <<now, productVars, holdStatus, held, expires, basket, via,
                 code, quotedAt, couponVars>>

\* Bug for CouponsMatchOrders: the quote's check of the coupon is trusted.
RedeemCouponUnchecked(c) ==
  /\ redeemed' = redeemed \cup ({c} \cap Coupons)
  /\ UNCHANGED disabled

\* Lock and re-check the coupon, then mark it redeemed.
RedeemCoupon(c) ==
  /\ CouponOK(c)
  /\ redeemed' = redeemed \cup ({c} \cap Coupons)
  /\ UNCHANGED disabled

\* Bug for OversoldOnlyByEdits: the quote's check of the stock is trusted.
PlaceDirectUnchecked(o) ==
  /\ phase[o] = "sent"
  /\ via[o] = NoHold
  /\ RedeemCoupon(code[o])
  /\ Take(basket[o])
  /\ phase' = [phase EXCEPT ![o] = "placed"]
  /\ UNCHANGED <<now, active, archived, deleted, holdVars, basket, via,
                 code, quotedAt, draft, owned, drift>>

\* PlaceOrder transaction, no hold: take the stock line by line.
PlaceDirect(o) ==
  /\ phase[o] = "sent"
  /\ via[o] = NoHold
  /\ RedeemCoupon(code[o])
  /\ CanTake(basket[o])
  /\ Take(basket[o])
  /\ phase' = [phase EXCEPT ![o] = "placed"]
  /\ UNCHANGED <<now, active, archived, deleted, holdVars, basket, via,
                 code, quotedAt, draft, owned, drift>>

\* Bug for OrdersMatchHolds: no "AND status = 'active'".
PlaceFromHoldAnyStatus(o) ==
  /\ phase[o] = "sent"
  /\ via[o] # NoHold
  /\ RedeemCoupon(code[o])
  /\ \E begun \in quotedAt[o]..now : expires[via[o]] > begun
  /\ holdStatus' = [holdStatus EXCEPT ![via[o]] = "consumed"]
  /\ phase' = [phase EXCEPT ![o] = "placed"]
  /\ UNCHANGED <<now, productVars, held, expires, phone, basket, via, code,
                 quotedAt, disabled>>

\* PlaceOrder transaction against a hold: consume it and leave the stock alone.
\* now() is the time the transaction began, which may be any time since the
\* quote: it waits for the locks on the coupon and the hold.
PlaceFromHold(o) ==
  /\ phase[o] = "sent"
  /\ via[o] # NoHold
  /\ RedeemCoupon(code[o])
  /\ holdStatus[via[o]] = "active"
  /\ \E begun \in quotedAt[o]..now : expires[via[o]] > begun
  /\ holdStatus' = [holdStatus EXCEPT ![via[o]] = "consumed"]
  /\ phase' = [phase EXCEPT ![o] = "placed"]
  /\ UNCHANGED <<now, productVars, held, expires, phone, basket, via, code,
                 quotedAt, disabled>>

\* The request ends without an order: a check fails (a suspended shop, cash on
\* delivery off, no advance-payment proof, no stock, a used hold or coupon), a
\* statement fails and everything is rolled back, or the server dies.  What it
\* had in memory is gone; the buyer may try again.
GiveUp(o) ==
  /\ phase[o] \in {"quoted", "sent"}
  /\ phase' = [phase EXCEPT ![o] = "new"]
  /\ basket' = [basket EXCEPT ![o] = EmptyBasket(Products)]
  /\ via' = [via EXCEPT ![o] = NoHold]
  /\ code' = [code EXCEPT ![o] = NoCoupon]
  /\ quotedAt' = [quotedAt EXCEPT ![o] = 0]
  /\ UNCHANGED <<now, productVars, holdVars, couponVars>>
-----------------------------------------------------------------------------
(* The seller, and the admin who moderates products.                       *)

\* UpdateProduct, first half: read the whole row.
BeginEdit(p) ==
  /\ p \notin deleted
  /\ draft[p] = NoDraft
  /\ draft' = [draft EXCEPT ![p] = stock[p]]
  /\ UNCHANGED <<now, stock, active, archived, deleted, owned, drift,
                 holdVars, requestVars, couponVars>>

\* UpdateProduct writes is_active along with the other columns.
SetActive(p, onSale) ==
  active' = IF onSale THEN active \cup {p} ELSE active \ {p}

\* UpdateProduct, second half, stock not in the request: the row is written
\* back with the stock that was read.
SaveEdit(p, onSale) ==
  /\ p \notin deleted
  /\ draft[p] # NoDraft
  /\ stock' = [stock EXCEPT ![p] = draft[p]]
  /\ SetActive(p, onSale)
  /\ draft' = [draft EXCEPT ![p] = NoDraft]
  /\ drift' = [drift EXCEPT ![p] = @ + (draft[p] - stock[p])]
  /\ UNCHANGED <<now, archived, deleted, owned, holdVars, requestVars,
                 couponVars>>

\* UpdateProduct, second half, stock in the request: what is on the shelf is n
\* from now on.
SaveStock(p, n, onSale) ==
  /\ p \notin deleted
  /\ draft[p] # NoDraft
  /\ stock' = [stock EXCEPT ![p] = n]
  /\ SetActive(p, onSale)
  /\ draft' = [draft EXCEPT ![p] = NoDraft]
  /\ owned' = [owned EXCEPT ![p] = @ + (n - stock[p])]
  /\ UNCHANGED <<now, archived, deleted, drift, holdVars, requestVars,
                 couponVars>>

\* UpdateProduct ends between its halves.
AbandonEdit(p) ==
  /\ draft[p] # NoDraft
  /\ draft' = [draft EXCEPT ![p] = NoDraft]
  /\ UNCHANGED <<now, stock, active, archived, deleted, owned, drift,
                 holdVars, requestVars, couponVars>>

\* ArchiveProduct: there is no way back.
Archive(p) ==
  /\ p \notin deleted
  /\ archived' = archived \cup {p}
  /\ UNCHANGED <<now, stock, active, deleted, draft, owned, drift, holdVars,
                 requestVars, couponVars>>

\* DeleteProduct: the foreign keys of the lines of holds (settled ones too) and
\* of orders keep the product.
DeleteProduct(p) ==
  /\ p \notin deleted
  /\ \A h \in Holds : held[h][p] = 0
  /\ \A o \in PlacedOrders : basket[o][p] = 0
  /\ deleted' = deleted \cup {p}
  /\ stock' = [stock EXCEPT ![p] = 0]
  /\ owned' = [owned EXCEPT ![p] = @ - stock[p]]
  /\ UNCHANGED <<now, active, archived, draft, drift, holdVars, requestVars,
                 couponVars>>

\* SetProductActive of the admin area.
ModerateProduct(p, onSale) ==
  /\ p \notin archived \cup deleted
  /\ SetActive(p, onSale)
  /\ UNCHANGED <<now, stock, archived, deleted, draft, owned, drift,
                 holdVars, requestVars, couponVars>>

\* CouponService.Disable.
DisableCoupon(c) ==
  /\ disabled' = disabled \cup {c}
  /\ UNCHANGED <<now, productVars, holdVars, requestVars, redeemed>>

Tick ==
  /\ now < MaxTime
  /\ now' = now + 1
  /\ UNCHANGED <<productVars, holdVars, requestVars, couponVars>>
-----------------------------------------------------------------------------
HoldNext ==
  \/ \E h \in Holds, q \in Baskets(Products) : CreateHold(h, q)
  \/ \E h \in Holds : CancelHold(h)
  \/ Sweep

PlaceNext ==
  \E o \in Orders :
    \/ \E q \in Baskets(Products), c \in Coupons \cup {NoCoupon} :
         QuoteDirect(o, q, c)
    \/ \E h \in Holds, c \in Coupons \cup {NoCoupon} : QuoteHold(o, h, c)
    \/ AttachPhone(o)
    \/ PlaceDirect(o)
    \/ PlaceFromHold(o)
    \/ GiveUp(o)

SellerNext ==
  \/ \E p \in Edited :
       \/ BeginEdit(p)
       \/ \E onSale \in BOOLEAN : SaveEdit(p, onSale)
       \/ \E n \in 0..MaxStock, onSale \in BOOLEAN : SaveStock(p, n, onSale)
       \/ AbandonEdit(p)
       \/ Archive(p)
       \/ DeleteProduct(p)
       \/ \E onSale \in BOOLEAN : ModerateProduct(p, onSale)
  \/ \E c \in Coupons : DisableCoupon(c)

Next == HoldNext \/ PlaceNext \/ SellerNext \/ Tick

Spec == Init /\ [][Next]_vars

\* Time passes, and the sweeper's ticker keeps firing: it is started with the
\* server, sweeps at once, and a failed sweep is tried again a minute later.
FairSpec == Spec /\ WF_vars(Tick) /\ WF_vars(Sweep)
-----------------------------------------------------------------------------
(* Properties.                                                             *)

TypeOK ==
  /\ now \in 0..MaxTime
  /\ stock \in [Products -> Nat]
  /\ active \subseteq Products
  /\ archived \subseteq Products
  /\ deleted \subseteq Products
  /\ holdStatus \in [Holds -> HoldStatuses]
  /\ held \in [Holds -> Baskets(Products)]
  /\ expires \in [Holds -> Nat]
  /\ phone \in [Holds -> Orders \cup {NoOne}]
  /\ phase \in [Orders -> Phases]
  /\ basket \in [Orders -> Baskets(Products)]
  /\ via \in [Orders -> Holds \cup {NoHold}]
  /\ code \in [Orders -> Coupons \cup {NoCoupon}]
  /\ quotedAt \in [Orders -> Nat]
  /\ disabled \subseteq Coupons
  /\ redeemed \subseteq Coupons
  /\ draft \in [Products -> Nat \cup {NoDraft}]
  /\ owned \in [Products -> Int]
  /\ drift \in [Products -> Int]

Held(p) == Total(ActiveHolds, held, p)
Sold(p) == Total(PlacedOrders, basket, p)

\* No piece is lost and none is made: what is on the shelf, what active holds
\* keep and what orders took is what the seller declared, but for the pieces
\* that product edits wrote over.  It fails if a hold is released twice, if a
\* consumed hold also takes stock, if a refused order keeps what it took, or if
\* a sweep of two holds of one product gives back only one of them.
StockBalances ==
  \A p \in Products : stock[p] + Held(p) + Sold(p) = owned[p] + drift[p]

\* A hold is consumed by exactly one order, which has exactly the lines that
\* were held, and an order that names a hold exists only if it consumed it,
\* however often the buyer retries and whatever the sweeper does meanwhile.
OrdersMatchHolds ==
  /\ \A o \in PlacedOrders : via[o] # NoHold =>
       holdStatus[via[o]] = "consumed" /\ basket[o] = held[via[o]]
  /\ \A h \in Holds : holdStatus[h] = "consumed" =>
       \E o \in PlacedOrders : via[o] = h
  /\ \A o1, o2 \in PlacedOrders :
       via[o1] = via[o2] /\ via[o1] # NoHold => o1 = o2

\* A request that has been quoted against a hold carries the lines of that hold
\* until it ends, though the hold may be settled meanwhile; a request that
\* starts again carries no hold over from the last attempt.
RequestsMatchHolds ==
  /\ \A o \in Orders : via[o] # NoHold =>
       holdStatus[via[o]] # "none" /\ basket[o] = held[via[o]]
  /\ \A o \in Orders : phase[o] = "new" => via[o] = NoHold

\* A coupon is redeemed if and only if an order was placed with it, and by one
\* order only: a checkout that fails later in the transaction does not use it
\* up.
CouponsMatchOrders ==
  /\ redeemed = {code[o] : o \in PlacedOrders} \ {NoCoupon}
  /\ \A o1, o2 \in PlacedOrders :
       code[o1] = code[o2] /\ code[o1] # NoCoupon => o1 = o2

\* Without an edit that wrote back a stale stock, the shop never promises more
\* pieces than the seller declared.
OversoldOnlyByEdits ==
  \A p \in Products : drift[p] <= 0 => Held(p) + Sold(p) <= owned[p]

\* A hold that was consumed, expired or cancelled is never touched again: its
\* lines, its status and the buyer stamped on it are history.
SettledIsFinal ==
  [][\A h \in Holds : holdStatus[h] \in Settled =>
       /\ holdStatus'[h] = holdStatus[h]
       /\ held'[h] = held[h]
       /\ phone'[h] = phone[h]]_vars

\* The inductive invariant of CheckoutProofs.
Inductive ==
  /\ TypeOK
  /\ StockBalances
  /\ RequestsMatchHolds
  /\ OrdersMatchHolds
  /\ CouponsMatchOrders

\* No hold keeps stock for ever: it ends in an order, a cancellation or a sweep.
HoldsSettle ==
  \A h \in Holds : holdStatus[h] = "active" ~> holdStatus[h] \in Settled

\* "so no over-sell can occur": holds and orders never exceed what the seller
\* declared.
NoOversell == \A p \in Products : Held(p) + Sold(p) <= owned[p]
=============================================================================
