----------------------------- MODULE Storefront -----------------------------
(***************************************************************************)
(* The buyer's side of a checkout: the cart and the hold a browser keeps   *)
(* in localStorage, the shell around the storefront pages, the checkout    *)
(* page, and the queue of reservation calls of cartReservationApi.ts.  The *)
(* server is what these pages see of it: holds with a status, and orders.  *)
(*                                                                         *)
(* A call stays in its slot of the tab until its answer is applied.  The   *)
(* server does its work in the step that applies the answer, except for    *)
(* placeOrder, where anything may happen between the two.  Requests of a   *)
(* page that is left are served before it is left, or never.               *)
(***************************************************************************)
EXTENDS Naturals, Sequences, FiniteSets

CONSTANTS
  Tabs,       \* tabs of one browser, all on the pages of one shop
  Products,   \* products of the shop
  MaxQty,     \* pieces of a product in a cart: the stock the page has seen
  MaxHolds,   \* bound on the reservations made
  MaxOrders,  \* bound on the orders placed
  MaxJobs,    \* bound on the reservation calls waiting in a tab
  MaxBacks,   \* bound on the holds a tab is giving back at one time
  MaxMoves    \* bound on the pages opened and cart changes made in a tab

ASSUME StorefrontAssumption ==
  /\ IsFiniteSet(Products)
  /\ {MaxQty, MaxHolds, MaxOrders, MaxJobs, MaxBacks, MaxMoves} \subseteq Nat

\* Reservations are numbered in the order the server makes them.
Holds == 1..MaxHolds
NoHold == 0

VARIABLES
  advance,     \* does the quote a page shows ask for an advance payment
  holdStatus,  \* each reservation: "free" before it is made
  held,        \* lines of each reservation
  overdue,     \* reservations whose expires_at has passed
  orders,      \* orders placed, with the cart their page showed
  savedCart,   \* localStorage: the cart
  savedHold,   \* localStorage: the reservation
  tab          \* each tab's page, and what it has in memory

serverVars == <<advance, holdStatus, held, overdue, orders>>
storageVars == <<savedCart, savedHold>>
vars == <<advance, holdStatus, held, overdue, orders, savedCart, savedHold, tab>>

Carts == [Products -> 0..MaxQty]
Empty == [p \in Products |-> 0]
NoOrder == [sent |-> FALSE, answer |-> "none", hold |-> NoHold, cart |-> Empty,
            settled |-> TRUE, live |-> FALSE]

\* A tab before it has loaded anything: its page, cart, phase and hold; the jobs
\* of the reservation queue and the call the first one waits for; the hold the
\* shell asks about; the holds "Edit cart" and "Restart" give back, one for each
\* click, and whether the page of that click is still there; the order that was
\* sent.
Blank ==
  [moves |-> 0, page |-> "closed", cart |-> Empty,
   phase |-> "form", hold |-> NoHold,
   jobs |-> << >>, call |-> "none", asked |-> NoHold,
   shell |-> NoHold, back |-> {}, order |-> NoOrder]

\* The browser may still have the cart of an earlier visit.
Init ==
  /\ advance \in BOOLEAN
  /\ holdStatus = [h \in Holds |-> "free"]
  /\ held = [h \in Holds |-> Empty]
  /\ overdue = {}
  /\ orders = {}
  /\ savedCart \in Carts
  /\ savedHold = NoHold
  /\ tab = [t \in Tabs |-> Blank]
-----------------------------------------------------------------------------
(* What the checkout page derives from its state.                          *)

Job(kind, q) == [kind |-> kind, lines |-> q, live |-> TRUE]

\* Bug for PaymentMatchesCart: the effect does not depend on the quantities.
OnCartMissed(r, q) ==
  IF r.page = "checkout" /\ q = Empty
    THEN [r EXCEPT !.cart = q, !.hold = NoHold, !.phase = "form"]
    ELSE [r EXCEPT !.cart = q]

\* A cart that changes on the checkout page cancels the pick-ups asked for the
\* old one and asks for another; an empty cart only leaves the payment phase.
OnCart(r, q) ==
  LET dropped == [i \in DOMAIN r.jobs |->
                    IF r.jobs[i].kind = "pickUp"
                      THEN [r.jobs[i] EXCEPT !.live = FALSE] ELSE r.jobs[i]]
      shown == [r EXCEPT !.cart = q, !.jobs = dropped]
  IN  IF r.page # "checkout" \/ q = r.cart THEN [r EXCEPT !.cart = q]
      ELSE IF q = Empty THEN [shown EXCEPT !.hold = NoHold, !.phase = "form"]
      ELSE [shown EXCEPT !.jobs = Append(dropped, Job("pickUp", q))]

Expired(r) == r.hold \in overdue

\* The expired banner, with its Restart button, takes the place of the timer.
RestartShown(r) == r.page = "checkout" /\ r.cart # Empty /\ Expired(r)

Starting(r) ==
  \E i \in DOMAIN r.jobs : r.jobs[i].kind = "ensure" /\ r.jobs[i].live

\* With an advance payment the button below the summary is "Pay delivery fee" in
\* the form phase, and "Place order", with "Edit cart", in the payment phase.
PayShown(r) ==
  /\ r.page = "checkout" /\ r.cart # Empty /\ advance
  /\ r.phase = "form" /\ ~Starting(r)
EditCartShown(r) ==
  r.page = "checkout" /\ r.cart # Empty /\ advance /\ r.phase = "payment"

\* What the Place order button and submit check of the cart and the hold; the
\* fields, the quote and the proof of payment are in CheckoutForm.
CanSubmit(r) ==
  /\ r.page = "checkout" /\ r.cart # Empty
  /\ ~r.order.sent
  /\ advance => r.phase = "payment" /\ r.hold # NoHold /\ ~Expired(r)

\* backToForm and a refused order drop the hold and the proof of payment.
Reset(r) ==
  [r EXCEPT !.hold = NoHold, !.phase = "form"]

-----------------------------------------------------------------------------
(* Loading and leaving pages.                                              *)

\* Leaving the checkout page inside the shop unmounts it; the queue and the
\* calls go on, but what they set on the page is lost.
Unmounted(r) ==
  [r EXCEPT !.phase = "form", !.hold = NoHold,
            !.back = {[b EXCEPT !.live = FALSE] : b \in @},
            !.order.live = FALSE,
            !.jobs = [i \in DOMAIN r.jobs |-> [r.jobs[i] EXCEPT !.live = FALSE]]]

\* Mounting the checkout page picks up the stored hold for the cart.
Mounted(r) ==
  [Unmounted(r) EXCEPT
     !.page = "checkout",
     !.jobs = IF r.cart = Empty THEN @ ELSE Append(@, Job("pickUp", r.cart))]

\* A page of the shop is loaded.  The shell drops a hold whose time has run out,
\* with the cart, and asks the server about any other one.
Load(t, page) ==
  LET dead == savedHold \in overdue
      q == IF dead THEN Empty ELSE savedCart
      fresh == [Blank EXCEPT !.moves = tab[t].moves + 1, !.page = "shop", !.cart = q,
                             !.shell = IF dead THEN NoHold ELSE savedHold]
  IN  /\ tab[t].moves < MaxMoves
      /\ savedCart' = q
      /\ savedHold' = IF dead THEN NoHold ELSE savedHold
      /\ tab' = [tab EXCEPT ![t] = IF page = "checkout" THEN Mounted(fresh)
                                                        ELSE fresh]
      /\ UNCHANGED serverVars

\* A link inside the shop: the shell and the cart stay.
GoToCheckout(t) ==
  /\ tab[t].page = "shop"
  /\ Len(tab[t].jobs) < MaxJobs
  /\ tab[t].moves < MaxMoves
  /\ tab' = [tab EXCEPT ![t] = [Mounted(tab[t]) EXCEPT !.moves = @ + 1]]
  /\ UNCHANGED <<serverVars, storageVars>>

GoToShop(t) ==
  /\ tab[t].page = "checkout"
  /\ tab' = [tab EXCEPT ![t] = [Unmounted(tab[t]) EXCEPT !.page = "shop"]]
  /\ UNCHANGED <<serverVars, storageVars>>

\* GET of a hold: active, or not any more; an unknown id and a call that fails
\* are treated like the latter, and the sweeper may come at any time.
Reads(h) ==
  IF holdStatus[h] = "active" THEN {"active", "gone"} ELSE {"gone"}

\* The shell's answer: a hold that is not active any more, or that could not be
\* read, goes with the cart, whatever is stored by now.
ShellAnswered(t) ==
  LET r == [tab[t] EXCEPT !.shell = NoHold]
  IN  /\ tab[t].shell # NoHold
      /\ \E a \in Reads(tab[t].shell) :
           IF a = "active"
             THEN /\ tab' = [tab EXCEPT ![t] = r]
                  /\ UNCHANGED storageVars
             ELSE /\ savedHold' = NoHold
                  /\ savedCart' = Empty
                  /\ tab' = [tab EXCEPT ![t] = OnCart(r, Empty)]
      /\ UNCHANGED serverVars
-----------------------------------------------------------------------------
(* The cart: useCart.ts reads localStorage, changes it, shows the result.  *)

ChangeCart(t, q) ==
  /\ Len(tab[t].jobs) < MaxJobs
  /\ tab[t].moves < MaxMoves
  /\ savedCart' = q
  /\ tab' = [tab EXCEPT ![t] = [OnCart(tab[t], q) EXCEPT !.moves = @ + 1]]
  /\ UNCHANGED <<serverVars, savedHold>>

\* Add to cart, on the shop's and the product's page.
AddItem(t, p, n) ==
  /\ tab[t].page = "shop"
  /\ ChangeCart(t, [savedCart EXCEPT ![p] = IF @ + n > MaxQty THEN MaxQty
                                                             ELSE @ + n])

\* - and + in the cart drawer, which is there on every page: one less or one
\* more than the drawer shows.  A product another tab took out stays out.
UpdateQuantity(t, p, n) ==
  /\ tab[t].page # "closed"
  /\ tab[t].cart[p] > 0
  /\ savedCart[p] > 0
  /\ n \in {tab[t].cart[p] - 1, tab[t].cart[p] + 1} \cap 0..MaxQty
  /\ ChangeCart(t, [savedCart EXCEPT ![p] = n])

RemoveItem(t, p) ==
  /\ tab[t].page # "closed"
  /\ tab[t].cart[p] > 0
  /\ ChangeCart(t, [savedCart EXCEPT ![p] = 0])
-----------------------------------------------------------------------------
(* The server.                                                             *)

\* DELETE: an active hold is cancelled.  The pages ignore the answer, so a call
\* that fails is one that leaves the hold as it was.
Cancel(h) ==
  \/ UNCHANGED holdStatus
  \/ /\ holdStatus[h] = "active"
     /\ holdStatus' = [holdStatus EXCEPT ![h] = "cancelled"]

\* placeOrder.  With a hold the lines are those of the hold, whatever the
\* request says, and the hold is consumed; a hold that is used, cancelled or
\* past its time is refused.  Without one the lines are those of the request.
\* The answer may be lost.
PlaceOrder(t) ==
  LET o == tab[t].order
      byHold == o.hold # NoHold
      refused == byHold /\ (holdStatus[o.hold] # "active" \/ o.hold \in overdue)
      Answer(a) == tab' = [tab EXCEPT ![t].order.answer = a]
  IN  /\ o.sent /\ o.answer = "none"
      /\ \/ /\ refused /\ Answer("gone")
            /\ UNCHANGED <<holdStatus, orders>>
         \/ /\ ~refused /\ Cardinality(orders) < MaxOrders
            /\ orders' = orders \cup
                 {[id |-> Cardinality(orders), shown |-> o.cart,
                   lines |-> IF byHold THEN held[o.hold] ELSE o.cart,
                   settled |-> o.settled]}
            /\ holdStatus' = [h \in Holds |-> IF h = o.hold THEN "consumed"
                                                           ELSE holdStatus[h]]
            /\ Answer("placed") \/ Answer("failed")
         \/ /\ Answer("failed")
            /\ UNCHANGED <<holdStatus, orders>>
      /\ UNCHANGED <<advance, held, overdue, storageVars>>

\* Fifteen minutes pass.  Whether the sweeper has been there by the time the hold
\* is read only matters to Reads, which allows both.
TimeUp(h) ==
  /\ holdStatus[h] = "active" /\ h \notin overdue
  /\ overdue' = overdue \cup {h}
  /\ UNCHANGED <<advance, holdStatus, held, orders, storageVars, tab>>

-----------------------------------------------------------------------------
(* The queue of reservation calls: pickUpReservation and ensureReservation *)
(* wait for the one before them, whether it succeeded or failed.           *)

Ask(r, op, h) == [r EXCEPT !.call = op, !.asked = h]

\* Bug for StartsSettle: a call that fails leaves its job at the head.
DoneUnlessFailed(r, h, failed) ==
  LET shown == [r EXCEPT !.jobs = Tail(@), !.call = "none", !.asked = NoHold]
  IN  IF failed THEN [r EXCEPT !.call = "failed"]
      ELSE IF ~Head(r.jobs).live THEN shown
      ELSE [shown EXCEPT !.hold = h,
                         !.phase = IF h = NoHold THEN "form" ELSE "payment"]

\* The first job is done, with hold h (NoHold: a pick-up found none) or with an
\* error; what it found is shown if its page still waits for it.
Done(r, h, failed) ==
  LET job == Head(r.jobs)
      rest == [r EXCEPT !.jobs = Tail(@), !.call = "none", !.asked = NoHold]
  IN  IF ~job.live \/ failed THEN rest
      ELSE [rest EXCEPT !.hold = h,
                        !.phase = IF h = NoHold THEN "form" ELSE "payment"]

\* Bug for OrderIsTheCart: the lines are not compared.
StoredFitsAny(q) == savedHold # NoHold /\ savedHold \notin overdue

\* The stored hold is worth asking about: reservationItemsMatch, and time left.
StoredFits(q) ==
  /\ savedHold # NoHold
  /\ savedHold \notin overdue
  /\ held[savedHold] = q

\* The first job starts: read the stored hold, ask about it if it fits, and
\* otherwise cancel it, or, with none stored, make one (ensure) or stop.
BeginJob(t) ==
  LET r == tab[t]
      job == Head(r.jobs)
  IN  /\ r.jobs # << >>
      /\ r.call = "none"
      /\ tab' = [tab EXCEPT ![t] =
           IF StoredFits(job.lines) THEN Ask(r, "get", savedHold)
           ELSE IF savedHold # NoHold THEN Ask(r, "delete", savedHold)
           ELSE IF job.kind = "ensure" THEN Ask(r, "post", NoHold)
           ELSE Done(r, NoHold, FALSE)]
      /\ UNCHANGED <<serverVars, storageVars>>

\* The stored hold answers: it is there, and the page gets it.  A pick-up whose
\* hold is not forgets it; an ensure cancels it, to be sure.
HoldRead(t) ==
  LET r == tab[t]
  IN  /\ r.call = "get"
      /\ \E a \in Reads(r.asked) :
           IF a = "active" /\ r.asked \notin overdue
             THEN /\ savedHold' = r.asked
                  /\ tab' = [tab EXCEPT ![t] = Done(r, r.asked, FALSE)]
           ELSE IF Head(r.jobs).kind = "pickUp"
             THEN /\ savedHold' = NoHold
                  /\ tab' = [tab EXCEPT ![t] = Done(r, NoHold, FALSE)]
             ELSE /\ tab' = [tab EXCEPT ![t] = Ask(r, "delete", r.asked)]
                  /\ UNCHANGED savedHold
      /\ UNCHANGED <<serverVars, savedCart>>

\* The stored hold is cancelled and forgotten; an ensure goes on to make one.
HoldDropped(t) ==
  LET r == tab[t]
  IN  /\ r.call = "delete"
      /\ Cancel(r.asked)
      /\ savedHold' = NoHold
      /\ tab' = [tab EXCEPT ![t] = IF Head(r.jobs).kind = "pickUp"
                                     THEN Done(r, NoHold, FALSE)
                                     ELSE Ask(r, "post", NoHold)]
      /\ UNCHANGED <<advance, held, overdue, orders, savedCart>>

\* The reservation is made, and stored, or not: for want of stock, or because
\* the call fails, on its way there or on its way back.
HoldMade(t) ==
  LET r == tab[t]
      h == Cardinality({g \in Holds : holdStatus[g] # "free"}) + 1
      made == /\ h \in Holds
              /\ holdStatus' = [holdStatus EXCEPT ![h] = "active"]
              /\ held' = [held EXCEPT ![h] = Head(r.jobs).lines]
  IN  /\ r.call = "post"
      /\ \/ /\ made
            /\ savedHold' = h
            /\ tab' = [tab EXCEPT ![t] = Done(r, h, FALSE)]
         \/ /\ made \/ UNCHANGED <<holdStatus, held>>
            /\ tab' = [tab EXCEPT ![t] = Done(r, NoHold, TRUE)]
            /\ UNCHANGED savedHold
      /\ UNCHANGED <<advance, overdue, orders, savedCart>>
-----------------------------------------------------------------------------
(* The checkout page.                                                      *)

Page(t, r) == tab' = [tab EXCEPT ![t] = r] /\ UNCHANGED serverVars

\* startPayment: make sure there is a hold for the cart.
StartPayment(t) ==
  /\ PayShown(tab[t])
  /\ Len(tab[t].jobs) < MaxJobs
  /\ Page(t, [tab[t] EXCEPT !.jobs = Append(@, Job("ensure", tab[t].cart))])
  /\ UNCHANGED storageVars

\* Another quote may say otherwise; tabs read it, each at its own time.
QuoteChanges ==
  /\ advance' = ~advance
  /\ UNCHANGED <<holdStatus, held, overdue, orders, storageVars, tab>>

\* backToForm, from "Edit cart" or "Restart": give the hold back, then reset.  The
\* buttons stay, and may be pressed again before the answer.
BackToForm(t) ==
  LET r == tab[t]
      taken == {b.no : b \in r.back}
  IN  /\ EditCartShown(r) \/ RestartShown(r)
      /\ \E n \in (1..MaxBacks) \ taken :
           /\ 1..(n - 1) \subseteq taken
           /\ Page(t, [r EXCEPT !.back =
                        @ \cup {[no |-> n, hold |-> r.hold, live |-> TRUE]}])
      /\ UNCHANGED storageVars

BackAnswered(t) ==
  \E b \in tab[t].back :
    LET r == [tab[t] EXCEPT !.back = @ \ {b}]
    IN  /\ Cancel(b.hold)
        /\ savedHold' = NoHold
        /\ tab' = [tab EXCEPT ![t] = IF b.live THEN Reset(r) ELSE r]
        /\ UNCHANGED <<advance, held, overdue, orders, savedCart>>

\* submit: the cart the page shows, and the hold it believes in.
Submit(t) ==
  LET r == tab[t]
  IN  /\ CanSubmit(r)
      /\ Page(t, [r EXCEPT !.order =
                    [sent |-> TRUE, answer |-> "none", hold |-> r.hold,
                     cart |-> r.cart, settled |-> r.jobs = << >>, live |-> TRUE]])
      /\ UNCHANGED storageVars

\* The answer to placeOrder.  Placed: forget hold and cart, go to the
\* confirmation page.  The hold is gone: forget it and start again.  Anything
\* else is shown, and the buyer may press the button again.
OrderAnswered(t) ==
  LET r == [tab[t] EXCEPT !.order = NoOrder]
      o == tab[t].order
  IN  \/ /\ o.answer = "placed"
         /\ savedHold' = NoHold
         /\ savedCart' = Empty
         /\ Page(t, [Unmounted(r) EXCEPT !.page = "shop", !.cart = Empty])
      \/ /\ o.answer = "gone"
         /\ savedHold' = NoHold
         /\ Page(t, IF o.live THEN Reset(r) ELSE r)
         /\ UNCHANGED savedCart
      \/ /\ o.answer = "failed"
         /\ Page(t, r)
         /\ UNCHANGED storageVars
-----------------------------------------------------------------------------
BrowserNext ==
  \E t \in Tabs :
    \/ \E page \in {"shop", "checkout"} : Load(t, page)
    \/ GoToCheckout(t) \/ GoToShop(t) \/ ShellAnswered(t)
    \/ \E p \in Products :
         \/ \E n \in 1..MaxQty : AddItem(t, p, n)
         \/ \E n \in 0..MaxQty : UpdateQuantity(t, p, n)
         \/ RemoveItem(t, p)

QueueNext ==
  \E t \in Tabs : BeginJob(t) \/ HoldRead(t) \/ HoldDropped(t) \/ HoldMade(t)

CheckoutNext ==
  \E t \in Tabs :
    \/ StartPayment(t) \/ BackToForm(t) \/ BackAnswered(t)
    \/ Submit(t) \/ OrderAnswered(t)

ServerNext ==
  \/ \E t \in Tabs : PlaceOrder(t)
  \/ \E h \in Holds : TimeUp(h)

Next == BrowserNext \/ QueueNext \/ CheckoutNext \/ QuoteChanges \/ ServerNext

\* A call is answered or fails, and the queue goes on when it is.
QueueGoesOn(t) ==
  BeginJob(t) \/ HoldRead(t) \/ HoldDropped(t) \/ HoldMade(t)

Spec == Init /\ [][Next]_vars /\ \A t \in Tabs : WF_vars(QueueGoesOn(t))
-----------------------------------------------------------------------------
(* Properties.                                                             *)

TypeOK ==
  /\ advance \in BOOLEAN
  /\ holdStatus \in [Holds -> {"free", "active", "consumed", "cancelled"}]
  /\ held \in [Holds -> Carts]
  /\ overdue \subseteq Holds
  /\ savedCart \in Carts
  /\ savedHold \in Holds \cup {NoHold}
  /\ \A t \in Tabs :
       /\ tab[t].page \in {"closed", "shop", "checkout"}
       /\ tab[t].cart \in Carts
       /\ tab[t].hold \in Holds \cup {NoHold}
       /\ tab[t].phase \in {"form", "payment"}
       /\ Len(tab[t].jobs) <= MaxJobs + 1

\* While a payment is shown and no reservation call is waiting, the hold the
\* page counts down is for the cart the page shows, however carts, pick-ups,
\* slow answers, other tabs and reloads overlapped.
PaymentMatchesCart ==
  \A t \in Tabs :
    LET r == tab[t]
    IN  (r.page = "checkout" /\ r.cart # Empty /\ r.phase = "payment"
          /\ r.jobs = << >>)
        => r.hold # NoHold /\ held[r.hold] = r.cart

\* The server takes the lines of an order from its hold.  An order that was
\* sent with no reservation call waiting is nevertheless for exactly the lines
\* the buyer was shown.
OrderIsTheCart == \A o \in orders : o.settled => o.lines = o.shown

\* A buyer who tapped "Pay delivery fee" gets a hold or an error: the queue
\* never stops, whatever failed before.
StartsSettle == \A t \in Tabs : Starting(tab[t]) ~> ~Starting(tab[t])
=============================================================================
