# amaar-shop: specifications, model checks and proofs

amaar-shop lets small sellers in Bangladesh run an online shop: a storefront with
carts that reserve stock, cash on delivery and advance payment, an order
pipeline with courier booking, marketing events, and fees owed to the platform.
The backend is a Go server over PostgreSQL (`src/backend`, about 26 000 lines),
the frontend a Next.js application (`src/frontend`, about 22 000 lines).

This directory holds TLA+ modules that model the parts of both where state is
shared between requests, tabs or background jobs, the TLC configurations that
check them, and proofs for TLAPS. Paths below are relative to `src/`;
`internal/` is `src/backend/internal/`, `app/`, `lib/`, `hooks/` and
`components/` are in `src/frontend/src/`.

## Inventory

One Go process serves HTTP, with one goroutine per request and a few background
loops; all lasting state is in PostgreSQL. Transactions run at READ COMMITTED,
so what protects a decision is a row lock, a condition in the `UPDATE`'s own
`WHERE`, or a constraint. Much of the code reads in the service layer and writes
in the repository layer, without a transaction around the two. The pages of the
frontend act on copies they have loaded, in any number of tabs, and decide some
things the server does not check. These two gaps are where most of the hazards
are.

| Component | State | Hard behaviour | Correct if | Module |
|---|---|---|---|---|
| Checkout (`order_service`, `order_repo`, `cart_reservation_*`, `reservation_sweeper`, `coupon_*`) | stock, holds, coupons, orders | buyers, sweeper and seller race for the same pieces; a quote is old when it is committed; crashes | no piece is lost or made; one order per hold and coupon; settled holds stay; every hold is settled | `Checkout` |
| Order lifecycle (`order_service`, `order_repo`, `courier_service`) | status, shipment, payment and delivery columns | status is validated on an earlier read; the courier is called between read and write | status follows the pipeline; pieces are off the shelf exactly while an order is not cancelled; parcels go to the address of their order | `OrderBook`, `OrderLifecycle` |
| Order pages (`orders/[id]`, `order-lookup`, `order-confirmed`) | copies of an order | outdated copies decide what is offered; payment and courier are asked for only here | what is offered is accepted; confirmed orders were paid; shipped ones have a courier | `OrderDesk` |
| Storefront (`useCart`, `cartReservationApi`, `StorefrontShell`, checkout page) | cart and hold in the browser, the queue of calls, form, quote | late and lost answers, reloads, expiry | what is paid and ordered is the cart that is shown; a page without a quote waits for one that counts; a parcel goes where its delivery was quoted | `Storefront`, `CheckoutForm` |
| Pricing (`page.tsx` of shop and product, `lib/format.ts`, `delivery_settings.go`) | copies of products and terms | shown and charged prices are worked out in two places | what is shown is charged; a line of the cart can be ordered | `Shelf` |
| Meta conversions outbox (`meta_dispatcher`, `meta_repo`) | `meta_events` | crash between commit, send and mark; a batch full of events that cannot be sent | sent means received; settled rows stay; every row is settled | `MetaOutbox` |
| Ad spend (`ad_spend_filler`, `marketing_*`, marketing page) | figures, budgets | the filler meets the seller; downtime | a typed figure stays; estimates catch up | `AdSpend` |
| Visits (`visit/worker`, `visit/aggregator`) | map of recent visits, channel, batches | no lock; full buffer; draining while handlers still send | no repeat counts; nothing is left in the channel | `VisitPipeline` |
| Platform fees (`billing_*`, `platform_fee_service`, migration 25, billing pages) | rules, claims, payments, snapshots on orders | double claims, approval against rejection, rules that change | one claim under review; one payment per approved claim; an order keeps its charge | `FeeLedger` |
| Administration, reports (`admin_*`, `report_*`, admin pages) | admins, suspensions, reports | outdated lists; two calls for one click | an admin remains; a report closed with a suspension had one | `AdminDesk` |
| Accounts (`auth_service`, `password_reset*`, `useAuth`, `api.ts`) | cookie, reset code | late refusals; a mail that fails after a newer code | the newest code stands; who signed in stays so | `Accounts` |
| Reviews | reviews and replies | lost answers; lists that change while a reply is typed | one review per line, the one that is thanked for; replies stay with their review | `Reviews` |
| Delivery settings, payment methods | settings as a whole row, methods | forms filled from old copies, late answers | what was typed stays; removed methods stay removed | `ShopSettings` |
| Courier and tracking settings | secrets | blanks are merged with an earlier read | secrets are the ones last given | `Integrations` |
| Catalogue (`product_*`, `category_*`, product form) | products, categories | whole-row read and write | archived products stay archived | `Catalogue`, `Checkout` |
| Insights, analytics, customers, marketplace | read-only queries, a cache | none of their own | | |
| Middleware, handlers, PDF, e-mail, storage, configuration, deployment | none, or in memory | decode, format, I/O | | |

How they interact. The storefront reserves and places through **checkout**,
which reads the catalogue and the settings and redeems coupons. A committed
order enters the **order lifecycle**, which gives pieces back to the same
`products.stock`, and which the **order pages** drive. Both publish to the
**outbox** after their commit, and a trigger on `orders` snapshots the **fee** of
each order. The sweeper, the dispatcher, the ad-spend filler, the visit worker
and the aggregator are the background loops, started in `internal/app/app.go`
and stopped before the process ends.

`PROJECT.json` lists every component with its sources and what is modelled of
it, and every hazard with its line and the properties about it.

## Modules

| Module | Models | Uses |
|---|---|---|
| `Quantities` | quantities per product and their `SUM` over a set of rows | |
| `Checkout` | holds, quotes, placement, coupons, sweeper, product edits and moderation | `Quantities` |
| `OrderStatus` | the statuses and `validTransitions` | |
| `OrderBook` | abstract: what the pipeline promises of each order | `OrderStatus` |
| `OrderLifecycle` | requests of the seller in steps, buyers, courier | `Quantities`, `OrderStatus`; instantiates `OrderBook` |
| `OrderDesk` | the order pages of seller and buyer on copies of one order | `OrderStatus` |
| `Storefront` | cart, hold, queue of reservation calls, countdown, placement | |
| `CheckoutForm` | details, quotes, coupon, proof of payment, sending | |
| `Shelf` | shop page and product page, prices and charges, picking into the cart | |
| `MetaOutbox`, `AdSpend`, `VisitPipeline` | the background jobs with whoever they share their state with | |
| `FeeLedger`, `AdminDesk`, `Accounts`, `Reviews`, `ShopSettings`, `Catalogue`, `Integrations` | pages and the handlers they call | |
| `MCCheckout`, `MCOrderLifecycle`, `MCMetaOutbox` | instances of one module | |
| `MCStorefront`, `MCJobs`, `MCOffice` | instances of several modules that share no state: in a behaviour one of them moves | |
| `QuantitiesProofs`, `CheckoutProofs`, `OrderLifecycleProofs`, `OrderDeskProofs`, `JobsProofs` | theorems | the modules they are about |
| `StorefrontProofs` | theorems | `Storefront`, `CheckoutForm` |
| `PlatformProofs` | theorems | `FeeLedger`, `AdminDesk` |
| `ShopProofs` | theorems | `Integrations`, `ShopSettings`, `Catalogue`, `Reviews`, `Accounts`, `Shelf` |

### Checkout

One transaction is one action. That is what the code gives at READ COMMITTED:
the statements that decide anything lock the row (`FOR UPDATE` on the coupon and
in `Cancel`, `internal/repository/postgres/cart_reservation_repo.go:145`) or are
`UPDATE`s whose condition PostgreSQL evaluates again on the locked row
(consuming a hold, `order_repo.go:194`; the sweep; taking stock, where
`CHECK (stock >= 0)` of migration 5 refuses). What happens outside a transaction
is a step of its own, and anything may come between:

| Code | Actions |
|---|---|
| `CartReservationRepo.Create`, `Cancel`, `SweepExpired` | `CreateHold`, `CancelHold`, `Sweep` |
| `OrderService.Quote` and `resolveItemInputs` | `QuoteDirect`, `QuoteHold`: the order is now in the request's memory (`basket`, `via`, `code`) |
| `AttachPhone`, before the transaction and best effort | `AttachPhone` |
| `OrderRepo.PlaceOrder` | `PlaceDirect`, `PlaceFromHold`, both with `RedeemCoupon` |
| any failure or crash before the commit | `GiveUp`; the buyer may try again |
| `ProductService.UpdateProduct`: read the row, write all columns | `BeginEdit`, then `SaveEdit` (stock not mentioned) or `SaveStock`; `AbandonEdit` |
| `Archive`, `Delete`, the admin's `SetProductActive`, `CouponService.Disable` | `Archive`, `DeleteProduct`, `ModerateProduct`, `DisableCoupon` |

`now` is one clock for the server and the database. `PlaceFromHold` compares
`expires_at` with the time its transaction *began* (SQL `now()`), which is any
time since the quote, because the transaction waits for locks; so a hold can be
consumed after it is overdue, as long as the sweeper has not come by.

Two ghosts account for pieces: `owned` is what the seller declared, `drift` what
finished edits wrote over. A deleted product takes its pieces out of both sides.

### OrderLifecycle and OrderBook

A request of the seller is two steps (`ReadForStatus` then `WriteStatus`,
`WriteCancel` or `WriteRestore`; `ReadForShip` then `WriteShip`) or three
(`ReadForBooking`, `Consign`, `WriteBooking`): the service reads the order and
validates, and the repository's `UPDATE` does not look at the status again,
except for `RestoreCancelledOrder`. A buyer's operation re-checks the status
under the row's lock and is one step. `Fail` ends a request anywhere: an error
of the database or the courier, or a crash. The courier (Steadfast) is external:
`Consign` is the moment it accepts a parcel, which happens before anything is
written here. Giving pieces back is `UPDATE products ... FROM order_items`: when
two lines of an order join to one product, PostgreSQL applies one of them.
`Joined` is the set of results it may produce.

`OrderBook` is the abstract specification. Per order, a status that moves along
`validTransitions` and a flag that says whether its pieces are off the shelf,
which changes exactly with entering and leaving `cancelled`. The refinement maps
`status` and the pieces taken (`taken`, a ghost) to it. An order that was
changed by a write decided on a status it no longer had (`raced`), or that has
two lines for one product, is *spoiled*: the abstract specification promises
nothing of it any more. The run `book` and the theorem `BookImplemented` show
that these are the only two reasons for which an order leaves the book, and the
violation runs that both really occur.

### MetaOutbox

An event is one pair of an order and a kind: the key of `meta_events`. `Happen`
is the commit of a placement, or of the status `delivered`, which may happen
again. What follows in the request is not in that transaction, so it is two
steps: `ReadSettings` (`PublishOrderEvent`,
`internal/service/meta_service.go:93`) and `Enqueue` (the `INSERT` with
`ON CONFLICT DO NOTHING`); `PublishFails` is the error that is logged and
forgotten. The dispatcher (`internal/service/meta_dispatcher.go:96-159`) is one
goroutine; its statements are steps, because requests, the seller (`Toggle`) and
restarts come between them:

| Code | Actions |
|---|---|
| `ClaimPending`: the oldest pending rows, and a new cache of settings | `Claim` |
| `GetSettings`, once per shop and pass | `LookUp` |
| `buildEvent` and `Send` | `Deliver`: accepted, worth a retry, or refused |
| `MarkSent`, `MarkFailed`, also for a shop whose tracking is off | `Mark` |
| the `continue` after a failed lookup; a mark that fails; the end of the two minutes | `Skip` |
| the process dies and is started again | `Crash` |

Meta is external. A retry may or may not have reached it: the answer may be what
was lost. That an event reaches Meta twice is possible and meant to be: it
carries the same event id. `ClaimPending` is a plain `SELECT`, so the model, like
the deployment, has one dispatcher; two servers would send every event twice.
`created_at` is the order in which the rows were inserted.

### VisitPipeline

`Enqueue` (`internal/visit/worker.go:109-146`) is run by any number of requests
at once on a `sync.Map`. Its atomic operations are steps: `Enter` (the visit has
its time, the flag is read), `LoadOrStore`, `CompareAndSwap`, which goes round
again if it loses, and `Send`, the `select` with a default. `Look` and `Forget`
are the two halves of the janitor, whose `Delete` does not compare. A writer
takes visits (`Collect`), inserts its batch (`Flush`; a failed `INSERT` loses
it), and on `Stop` drains and goes (`SeeStop`, `FindEmpty`, `LastFlush`).

Three ghosts: `early` are the visits in the channel before `Stop`; `confused`
are the pairs for which the janitor deleted an entry that was newer than the one
it had looked at, or that a request under way was to find; `failed` are the
visits whose `INSERT` failed. `CountedApart` holds outside `confused`; see
*Where the code and its documentation differ* for why the ghost is needed.

### AdSpend

The figures and budgets of a shop as the tabs of the marketing page see them,
each request against the rows it named, and `FillEstimatedSpend`, the one
statement that fills every missing day of every active budget. It runs on start,
on the hour (`Fill`) and as part of setting a budget. A crash may come between
setting the budget and filling in.

### Storefront and CheckoutForm

`Storefront` is the checkout as the browser sees it. `savedCart` and `savedHold`
are `localStorage`; a tab has its page, the copy of the cart it shows, the hold
its checkout counts down, the phase (form or payment), and its queue of
reservation calls (`ensureQueues` of `lib/cartReservationApi.ts:122`). A job of
the queue is taken through its calls one answer at a time, and each answer may be
success, failure, or a success that is lost. `TimeUp`, reloads, closing and
reopening, the cleanup of `StorefrontShell` with its late answer, and the
placement in two steps are actions; the server is what these pages see of it.

`CheckoutForm` is the other half: the fields and what the device remembers of
them, the quote that is asked for 350 ms after the last change and thrown away
if something changed meanwhile (the `quoteKey`), the coupon, the parts of the
proof of an advance payment with an upload that may finish late, and the order
that is sent. A quote is identified by the key it answers. `LoadBuyerDetails` takes
over what the device remembers, but no district that is not in its division: the
lists of the two may have changed since.

Whether an advance payment is due is part of the quote. `Storefront` has it as
`advance`, which may change at any time (`QuoteChanges`). "Edit cart" and "Restart"
may be pressed again before the first press is answered, so a tab keeps the set of
cancellations that are on their way (`back`), and a late one may clear a newer hold.

The two halves meet in three facts, which each has as an action or a condition:
the cart changes under the form (`CartChanged`), the hold goes (`HoldGone`), and
an order is sent only from a form that can be submitted (`CanSubmit`).

### Shelf

The grid of the shop page, the product page with one cached copy per product,
and the delivery terms the layout loaded. `addItem` caps a quantity by the stock
the line was *created* with. `ChargedPrice` is `buildOrderItems`,
`DeliveryChargeFor` the function of that name, `DeliveryCard` what the delivery card
of the shop page says, `FromOnProductPage` the "from x" of the product page, and
`updateQuantity` the stepper of the cart: prices as numbers small enough to differ
in every case. Areas without a fee of their own are one, `NoArea`. The pictures of a
product are layout and left out.

### OrderDesk, FeeLedger, AdminDesk, Accounts, Reviews, ShopSettings, Catalogue, Integrations

These modules have one shape. The state of the server is a few variables; a tab
has the copy it loaded (`seen`, `drawer`, `team`, ...); a page action sends a
request that is built from the copy; and a request is served later, on whatever
the server has by then. Where a handler reads before it writes outside a
transaction (`ReadProduct`/`VerifyCategory`/`UpdateProduct`,
`MergeKeys`/`UpsertKeys`, the check of `CreateReview` and its `INSERT`), it is
several steps. Answers may fail or be lost after the work was done.

- `OrderDesk`: the offers of the pages are `Offers(copy)`, what the server takes
  is `Accepts(desk, request)`. Only the pages ask for a verified payment before
  confirming and for a courier before shipping.
- `FeeLedger`: `Create` holds the lock on the shop's row, `Approve` and `Reject`
  the lock on the claim; an order carries the rule that the trigger of migration 25
  saves with it, and `fee` is the row of the view `order_platform_fees`.
- `AdminDesk`: `LetIn` is `requireAdmin`, which is asked before the handler runs.
  The page offers "Remove access" for every admin but oneself and the oldest of
  the list; the server refuses only one's own.
- `Accounts`: the reset with codes, expiry, attempts and mails that fail late; the
  session with the refresh that starts a page, a login, a logout and calls that
  renew their token. The body of a refusal is read before anything is cleared
  (`lib/api.ts:63`), so `start = "refused"` is a state of its own, and `StartRefused`
  clears whatever is there by then.
- `Reviews`: the rows of the seller's page are those that pass the filter, in the
  place `RowOf` the sorting gives them; they are identified by `RowKey`, and the
  text being typed belongs to the row.
- `ShopSettings`: the form holds a copy of all settings once something is typed, and
  is off while it is saved; `Upsert` refuses two rates for one division; the methods below it are clicked
  in a list that may be outdated.
- `Catalogue`: the form and the row that `UpdateProduct` has read; what is in the
  row but not in the `UPDATE` (`is_archived`) stays.
- `Integrations`: blanks are merged with settings read before; the page may give
  up (`GiveUp`) while its save goes on. The courier's and Meta's sections work
  alike and are one model.

## Runs

| Run | Instance | Shows |
|---|---|---|
| `holds` | 1 product, 2 holds, 2 orders, 1 coupon, stock to 2, fair clock and sweeper | races for holds and the coupon keep the accounts, and every hold is settled |
| `edits` | 1 product, 1 hold, 2 orders, edits, archive, delete, moderation | a stale edit is the only way to oversell |
| `book` | 1 order, 2 sessions, 2 addresses, 2 parcels, a payment proof | the pipeline implements `OrderBook`; parcels, addresses and codes agree |
| `jobs` | outbox: 2 events, batches of 1, 3 attempts; ads: 1 platform, 3 days, 3 requests; visits: 3 visits of 2 pairs, 2 writers, a buffer of 1 | each job keeps what it promises, and the two that must finish do |
| `storefront` | the cart: 1 tab, 1 product, quantities to 2, 2 holds, 1 order, queue of 2, and either 2 moves and 1 cancellation at a time, or 1 move and 2 cancellations; the form: 1 buyer, 2 divisions, 1 coupon, 3 edits | what is paid and ordered is the cart that is shown; starting the payment ends in a hold or an error; a page without a quote waits for one that counts; the district is one of the division that was quoted |
| `office` | each module of pages: 1-3 tabs, 1-3 rows, a few requests | the properties of the pages, below; of `Shelf` (1 product, 1 area with a fee and the others, 3 fees, stock to 2, 2 saves): what is in the cart can be ordered, the delivery card says what orders pay |
| `oversell` | as `edits` | violation: a stale edit oversells |
| `race` | 1 order, 2 sessions | violation: an outdated write leaves the pipeline |
| `repeats` | 1 order with 2 lines of one product | violation: a cancellation loses a line |
| `parcels` | 1 order, 1 parcel | violation: a parcel nothing records |
| `lost` | the outbox as in `jobs` | violation: a restart loses a conversion |
| `discount` | `Shelf` as in `office`, 1 save | violation: a discount is shown and not charged |

`storefront`, `jobs` and `office` check several modules in one run: the modules share no
variable, an initial choice (`part`) says which of them moves, and every
property is about the variables of one. The state spaces add up instead of
multiplying. `MCJobs` checks the visits in two halves, which visits count and
what becomes of them: they share the handlers' steps up to `claimed`, and
neither half reads what only the other writes. `MCStorefront` has the tab twice:
with changes of the cart and reloads while one hold is given back at a time, and
with "Edit cart" pressed again before the answer to the first click, for the cart
the tab was opened with. `MCOffice` has the fees in two parts, orders with their
rules and claims with their reviews, which have no variable in common, and the
reviews in two, three forms of buyers alone and the seller with one form for each
line. The two parts of the tab together are beyond the time a run may take; the
theorems about the tab have no such limit.

Bounds, and why they suffice for what is asked:

- *Two of each actor*: every race in this code is between two requests for one
  row, or a request and a background loop. Where a third could matter (three
  admins, three review forms, three visits) there are three. One tab is enough
  for the storefront's questions, since a tab can reload, overlap its own calls
  and find its storage changed; a second tab is beyond the time a run may take.
  `Windows = {w1}` in `Integrations`: a window that gives up and saves again
  already has two saves under way. The proofs remove these bounds for
  every safety property of every module.
- *Quantities up to `MaxQty`*, *stock up to `MaxStock`*: with stock 1 two buyers
  compete for the last piece, with stock 2 both can have one. In `Storefront` a
  quantity of 2 makes a cart differ from its hold in number.
- *`MaxTime` = 3 and `HoldTime` = 1*: a hold can be created at 0 or 1, be good at
  its last moment and be overdue. `LastTime` = 2 and `Window` = 1 let a visit be
  a repeat, be just apart, and let the janitor find an old entry.
- *`MaxShelf`* bounds the shelf in `OrderLifecycle`, which would otherwise grow
  without end by double restores. *`MaxParcels`* = 2: overlapping bookings.
- *Batches of one row for two events* make the younger wait for the older; *three
  attempts* allow a retry after a retry. *A buffer of 1* is full at once.
- *Requests* (`MaxCalls`, `MaxRules`, `MaxRecorded`, `MaxAdCalls`, `MaxChanges`, `MaxClicks`, `MaxTyped`,
  `MaxSends`, `MaxEntered`, `MaxMoves`, `MaxStrokes`, `MaxSaves`, `MaxEdits`,
  `MaxBacks`): 2 to 4, enough for one request to overtake another after both were
  sent. `MaxSaves` is 1 in `discount`, where one save is enough. Of the other counts,
  `MaxWrong`, the guesses a code allows, is 1 and
  `MaxOrders` in `storefront` is 1: an order empties the cart.
  Each property has a mutant, a plausible slip in the code, that the same
  bounds expose.
- *Symmetry* of holds and orders in `edits`, of sessions and orders in `book`: no
  action treats one of them differently. It is used in no violation run and in no
  run that checks liveness; `ImplementsBook` in `book` is `Init` and steps only.

`CHECK_DEADLOCK FALSE` is set in every run whose system may stop: clocks and
requests are bounded, and when all is placed, sent and settled nothing has to
happen. No run relies on it to hide a wait: what must go on is stated as
liveness.

Fairness.

- `Checkout`: weak fairness of `Tick` and `Sweep`.
  `internal/service/reservation_sweeper.go:47-92` sweeps when the server starts
  and on every tick of its ticker, and a sweep that fails is tried again. The
  assumption joins the two, and there is no state in which the server is down: that a
  sweep comes is assumed, not shown. Nothing is assumed of buyers or sellers.
- `MetaOutbox`: weak fairness of `Claim`, the ticker
  (`internal/service/meta_dispatcher.go:80-93`). `LookUp`, `Deliver` and `Mark`
  have strong fairness per event: a restart or a failing statement may prevent
  each of them any number of times, but not every single time the dispatcher
  gets to the event. This is an assumption on the database and the server, not
  on Meta, which may fail for ever; nor on the seller or the requests.
- `AdSpend`: weak fairness of `Fill`, the start and the ticker of
  `internal/service/ad_spend_filler.go:67-83`.
- `Storefront` (`Spec`, for `StartsSettle`): weak fairness of `QueueGoesOn`: a `fetch` succeeds, fails or is
  cut off, but its promise settles.
- `CheckoutForm`: none. The 350 ms before a question are not a step of their own:
  changing a field asks.
## Proofs

The proofs hold for every value of the constants that the named assumptions
allow: any number of products, orders, tabs, requests, visits. Each run that is
listed as passing evaluates the assumptions of the modules it extends.

`QuantitiesProofs` proves the facts about sums: over no row, over one, over a
disjoint union, over all rows but one, and that rows which do not change do not
change it. Sums are counted (the number of pairs of a row and a piece) rather
than computed by recursion, so these facts are instances of the library's
theorems on cardinality.

`CheckoutProofs`: `TypeCorrect` (in particular, the stock never falls below
zero), `Invariance` of the conjunction of types, `StockBalances`,
`RequestsMatchHolds`, `OrdersMatchHolds` and `CouponsMatchOrders`, and from it
`StockAddsUp`, `HoldsAndOrdersAgree`, `CouponsAreSingleUse`, `OversellNeedsEdit`
and the action property `SettledHoldsStay`. That pieces add up is not inductive
alone. When an order consumes a hold, the hold leaves the sum of the held pieces
and the order enters the sum of the sold ones, and the two are equal only because
the request carries the hold's lines all the way from the quote
(`RequestsMatchHolds`). That an order owns its hold alone needs that consumed
holds already have their order (`OrdersMatchHolds`, where the condition
`status = 'active'` of the consuming `UPDATE` enters). There is one lemma per
conjunct and one step per action; the arithmetic is in lemmas on sums.

`OrderLifecycleProofs`: `OrderTypes`; `BookImplemented`, the refinement: the
initial states are those of a book, and each step is a step of the book of one
order or leaves it as it is. The invariant `BookInv` behind it says that an
order that is not spoiled has all its pieces off the shelf exactly while it is not
cancelled, and that the target of a request under way follows, in
`validTransitions`, the status the request has *seen*. A write that finds the
status it saw is therefore an edge of the book; one that does not spoils the order. `ParcelInv` gives
`ParcelsGoHome` and `CodesAreOwn`: it follows a parcel from the courier's answer to
the write that records it.

`OrderDeskProofs`: `ConfirmedOrdersWerePaid`, `ShippedHasCourier`,
`FreshOffersAccepted`, `ReceivedHasProof`. The invariant says what a copy or a
request of any age still tells of the order as it is now: an order keeps a proof
and a courier once it has them, and a payment that a copy shows as verified was
verified, although the buyer may have replaced the proof since.

`StorefrontProofs`: `PaymentForTheCart`, `OrderForTheCart`, `BrowserTypes`,
`NoQuoteInVain` and `DeliveredThere`. That the hold of a checkout page is for its cart says nothing
while reservation calls wait, and they may answer in an order that has nothing
to do with the carts they were made for. What survives is `Matching`: either the
hold is for the cart of the page, and so is every job whose result the page still
waits for, or there is a pick-up for that cart after which only such jobs come.
`OnCart` and `Mounted` put that pick-up last, and it never fails silently, because
only an ensure makes a hold and can be refused one (`CallInv`). `Known` keeps the
numbers of holds that are not made yet out of every tab, so a new hold changes the
lines of none that is shown. `TabInv` is about one record and two parameters, the
holds made and their lines; what `OnCart`, `Mounted`, `Unmounted`, `Done`, `Ask`
and `Reset` do to a record is proved once, and an action puts records together.
`NoQuoteInVain` counts the runs of the quote effect: every request on its way was
asked by a run that was the newest once (`AsksInv`), and the newest has the key of
the page as it is, since whatever changes the key runs the effect. So the answer that
is waited for is never the one that is thrown away. `DeliveredThere` follows the pair
of division and district from the device through the form (`DetailsInv`) to the order
that was sent under a quote with the same key (`SentInv`).

`PlatformProofs`: of the ledger, `ClaimsComeOneByOne`, `ApprovedIsPaidOnce`,
`ReviewsAreFinal` and `OrderChargesStay`. The admin's drawer
only shows claims that were made, with the amounts they were made with, so what an
approval names is what the seller claimed. The charge of an order stays because the
rule is in its row: a change of the rules does not touch the row, and a cancellation
and its undoing touch nothing the fee is computed from.

Of administration, `NoLockout` and `SuspendedBeforeResolved`. The server would let
the last admins remove each other; what prevents it is that the page offers no
removal of the oldest admin of its list. `TeamInv` says of every list and every
removal on its way, however outdated: each member of the list is now matched by an
admin who joined no later, and the user to be removed by one who joined earlier.

`ShopProofs` has the pages around a shop, each with an invariant of its own:

- `KeysKept`: as long as no two saves overlapped, what a save has merged is what is
  stored now, with the seller's own values in place of the blanks.
- `TypingStays`: `FormsInv` says that a save under way carries what its form shows,
  because the form is off until the answer; so the answer changes nothing that was
  typed, and settings that arrive late find the form changed. `RemovedForGood`: the requests that add a method have ids
  nobody has had, and no two have the same (`NewOnes`, `AddedOnce`).
- `NoWayBackFromTheArchive`: ids are never given twice (`ListingsInv`), so a request
  that names a product names the one it read, and no write of a row clears
  `is_archived`.
- `ThanksMeant`: a line has one review. `RepliesTyped`: the text of an editor, of a
  request and of a stored reply is that of the review it stands with (`SellerInv`),
  which holds because rows are keyed by their review (`RowKey`), not by place.
- `NewestCode` follows the row of the codes; `SignedInUntilLogout` rests on `Signed`:
  a first refresh that is under way either has the token or was sent with a
  cookie that is still there, and a refusal that is being read while somebody is signed
  in is of a cookie older than the password, unless a call was lost, somebody signed
  out, or the login was answered during the reading. These are the four cases that
  `StaysSignedIn` leaves.
- `CartWithinStock`: a line keeps the stock of the copy it was first added from, and
  adding to it and stepping it later cap its pieces by that stock, not by the new
  copy's. `CardsAreKept` has two halves: no order pays less than the least fee
  that is not zero (`FeesOf`, with `MinOfNaturals`) unless it pays nothing, and every
  fee is paid by an order of some area (`FeePaid`).

`JobsProofs` has the three background jobs. Outbox: the rows of a batch are still
pending, so `Mark`, which has no condition on the status, cannot touch a settled
row; pending rows have attempts left; no two rows have the same age, so the event
that was accepted is the one that is marked; a shop the pass knows to be on was on
during the pass. Ad spend: `SellersFiguresStand` needs little strengthening; it
is a fact of each step (the filler's `ON CONFLICT DO NOTHING`, and which request a
handler answers). Visits:
`RepeatsNeedTheJanitor` rests on `Apart`: the entry of a pair is the last of the visits that
counted, and where there is none, all that counted are `Window` apart from now
and from every visit under way, as long as the pair is not confused; `NothingLeftBehind` follows each
early visit through the channel, a writer's batch and the table, and uses that a
writer that goes has found the channel empty after `Stop`.

Every safety property that a passing run checks, invariant or action property,
is stated by a theorem. Only model-checked are the liveness properties
(`HoldsSettle`, `EventsSettle`, `FillerCatchesUp`, `StartsSettle`),
which are out of the prover's reach. The operators that would need induction over data are written so
that they need none: no module has a `RECURSIVE` operator.

## Where the code and its documentation differ

Each of the first six is a violation run; `PROJECT.json` quotes the lines.

1. `oversell`: a product edit that does not mention the stock writes back the
   stock it read (`product_repo.go:50`), so pieces sold meanwhile are for sale
   again, although an order "decrements product stock atomically so no over-sell
   can occur".
2. `race`: the status is validated on an earlier read and written without a
   condition (`order_repo.go:352`), so an order leaves the pipeline's edges.
3. `repeats`: cancelling an order that has two lines of one product restores one
   of them (`order_repo.go:400`).
4. `parcels`: a booking that fails after the courier accepted it leaves a parcel
   nothing records (`courier_service.go:115`).
5. `lost`: an order is committed before its conversion is written to the outbox,
   so a restart in between loses it (`order_service.go:175`), although "the
   checkout path only writes a row, so a slow or failing Meta API can never ...
   lose a conversion to a server restart".
6. `discount`: the product page shows the price after the product's discount, and
   an order is charged the price without it (`order_service.go:361`).

Others were met while modelling and are part of the models, without a run of
their own.

Backend:

- Two cancellations that were both validated both restore the stock
  (`order_repo.go:381`): `spoiled` in `OrderLifecycle`.
- `docs/API.md:1244` lets any non-delivered order be cancelled, and
  `validTransitions` (`order_service.go:71`) not a shipped or a returned one. The
  lookup page offers the buyer to cancel a confirmed order
  (`order-lookup/page.tsx:332`), which `CancelOrderByBuyer` refuses; `OffersAccepted`
  is about the seller's page.
- The removal of repeated visits is called "race-safe" (`visit/worker.go:106`),
  but the janitor deletes an entry without comparing it with what it looked at
  (line 159): `confused` in `VisitPipeline`.
- Blanks are merged with keys that were read before (`courier_service.go:47-50`,
  `meta_service.go:41-43`), so of two overlapping saves one may undo the other's
  key: `KeysAreAsGiven` holds where none overlap.
- `domain/admin.go:188` and the comment at `admin_reports_repo.go:417` call a shop
  that owes and has never paid overdue; the code below it (line 472) calls it due.
- `admin_access_service.go:44-45` refuses only the removal of oneself; that an
  admin remains is due to the page alone.
- At most 5 images of a product (`domain/product.go:9`) are checked before the
  `INSERT` (`product_service.go:348-362`), and the form allows 8
  (`ProductForm.tsx:216`).
- A shop and its delivery settings are created by two statements
  (`shop_service.go:32-62`); a failure between them leaves a shop without.
- Switching an ad budget off and on again fills the days it was off; an
  estimated day that the seller deletes comes back; `SetAdBudget` reports an error
  although the budget was saved, if only the filling failed.
- The aggregator sums up yesterday and today only (`visit/aggregator.go:61`).

Frontend:

- "Exactly one active reservation" (`lib/cartReservationApi.ts:192`) does not hold
  when the answer to a call is lost: the hold stays until it expires.
- A login that is answered while the body of the first refresh's refusal is read
  (`lib/api.ts:63`) is wiped by `tryRefresh` (`useAuth.tsx:39-40`): `disturbed` in
  `Accounts`.
- "From x / Varies by area" on the shop page leaves out areas that are free for
  themselves, and when every division has a fee of its own, x may be the charge of
  the shop, which nobody pays (`app/s/[slug]/page.tsx:118-130`).
- The product page shows the charge of the shop as "from x"
  (`p/[productId]/page.tsx:453-454`) and does not look at the zones, although "a
  matching per-division zone overrides the shop's default"
  (`domain/delivery_settings.go:37`): an area may pay less. `ChargeForeseen` says
  of this page only what it keeps, that areas without a zone pay x. The tab
  "Delivery & returns" of the same page shows the charge without a "from" (line
  787).
- A receipt whose upload ends after the payment step was left stays for the next
  payment (`checkout/page.tsx:455`).
- The shop page tells of an advance payment when cash on delivery is off
  (`app/s/[slug]/page.tsx:98-117`), where `Quote` refuses the order.
- A payment that an admin records with "Mark fee paid" after it was approved as a
  claim is deducted twice: nothing connects the two.
- The reviews page works out the positive share from the newest 100 reviews and
  shows it beside the total. Two tabs that edit one reply: the last one wins.
- `ProductForm` takes over the product when it is loaded again, also over what was
  typed; a form that is outdated makes a product active again that was hidden.
- A refusal for an old session that arrives after logging out leaves the pages as
  if signed in, until the next call.
- Payment methods: an edit omits `display_order`; a toggle writes the whole row
  from an outdated list. A delivery form that was loaded before a save may show
  the state before it. Settings: a logo upload loads the shop again over typed
  fields; a save of the Meta section without its test code empties it; what is
  typed while keys are being saved is cleared.

## Not modelled

- In `Checkout`: prices, discounts and charges (a coupon is valid or not; the
  arithmetic of a product's price and of delivery is in `Shelf`), and the proof of
  an advance payment at placement (`CheckoutForm` has the page's side). The
  settings that refuse an order are covered by `GiveUp`. The cash the courier is
  to collect is a pure function of one row and shows nothing that its unit tests
  do not.
- Row locks below a transaction: that two orders may deadlock on products taken
  in different orders is a hazard on the list without a property, since
  PostgreSQL breaks the deadlock and the request fails as others do.
- Creating products, coupons and shops, images, registration: one `INSERT` each,
  after checks of the request alone.
- The rate limiter and the cache of analytics are bounded maps behind a lock;
  nothing else depends on what they hold.
- The aggregator, insights, analytics, customers, marketplace, and the pages that
  only show: queries that change nothing, or are computed again from the rows.
- Handlers, DTOs, routing, PDF, e-mail, storage, configuration, deployment:
  conversion and I/O.
- Several servers behave as one in all modules of requests, since no state of
  them is kept outside the database. The background jobs are modelled as they are
  deployed, one of each. Two tabs of the storefront are not modelled: they share
  `localStorage`, and every reservation call names its own hold.

## Plan

The plan of the first version is carried out: checkout, order lifecycle and their
proofs; the outbox; fees; visits; ad spend and the reset of passwords; the pages
of buyer, seller and admin. Deadlocks of row locks, the rate limiter and the cache
were considered and left out for the reasons above. A change to one of the
modelled files belongs with a change to the definitions that `map` in
`PROJECT.json` gives for its lines.
