------------------------------- MODULE Shelf --------------------------------
(***************************************************************************)
(* The two pages a buyer shops on: the shop page with its grid of products *)
(* and the product page.  Both show copies of what the seller has saved:   *)
(* the grid, one cached copy per product page, and the delivery terms that *)
(* the layout loaded with the site.  A line of the cart keeps the price    *)
(* and the stock of the copy it was added from.                            *)
(*                                                                         *)
(* Every product costs 2 and is on sale for 1 or not at all.               *)
(***************************************************************************)
EXTENDS Naturals, FiniteSets, FiniteSetsExt

CONSTANTS
  Wares,      \* active products of the shop
  Areas,      \* divisions of the country
  Fees,       \* delivery charges a seller may set
  MaxStock,   \* bound on the stock of a product
  MaxSaves    \* bound on what the seller saves

NoArea == "default"
NoProduct == "none"

ASSUME ShelfAssumption ==
  /\ Fees \subseteq Nat /\ IsFiniteSet(Fees) /\ 0 \in Fees
  /\ {MaxStock, MaxSaves} \subseteq Nat
  /\ NoArea \notin Areas /\ NoProduct \notin Wares

Goods == [stock : 0..MaxStock, sale : BOOLEAN]
\* A zone is an area with a fee of its own; "over" is a threshold for free
\* delivery.
Terms == [charge : Fees, zones : UNION {[A -> Fees] : A \in SUBSET Areas}, over : BOOLEAN]

VARIABLES
  goods,    \* the products as the seller saved them
  terms,    \* the delivery settings as the seller saved them
  grid,     \* the products as the shop page shows them
  filter,   \* its quick filter
  known,    \* the products as the product pages show them
  noted,    \* the delivery settings the site was loaded with
  page,     \* the product page that is open, if any
  qty,      \* its quantity
  lines,    \* the cart: pieces, price and stock of each product in it
  saves     \* how often the seller has saved

shopVars == <<goods, terms, saves>>
viewVars == <<grid, filter, known, noted>>
pageVars == <<page, qty>>
shelfVars == <<shopVars, viewVars, pageVars, lines>>

NewGoods == [stock |-> MaxStock, sale |-> FALSE]

ShelfInit ==
  /\ goods = [p \in Wares |-> NewGoods]
  /\ terms \in {t \in Terms : ~t.over /\ DOMAIN t.zones = {}}
  /\ grid = goods /\ filter = "all" /\ known = goods /\ noted = terms
  /\ page = NoProduct /\ qty = 1
  /\ lines = << >>
  /\ saves = 0
-----------------------------------------------------------------------------
(* What the pages show.                                                    *)

applyDiscount(g) == IF g.sale THEN 1 ELSE 2

outOfStock(g) == g.stock = 0

\* The quick filters of the grid.
Passes(g) == CASE filter = "all"      -> TRUE
               [] filter = "in_stock" -> g.stock > 0
               [] filter = "on_sale"  -> g.sale

\* The fees the delivery card of the shop page looks at.
PositiveFees(t) == ({t.charge} \cup {t.zones[a] : a \in DOMAIN t.zones}) \ {0}

\* Bug for ChargeForeseen: the zones are not looked at.
DeliveryCardOfShop(t) ==
  IF t.charge = 0 THEN [says |-> "free", fee |-> 0]
  ELSE [says |-> IF DOMAIN t.zones = {} THEN "fee" ELSE "from", fee |-> t.charge]

\* The card of the shop page: "Free / On all orders", "From x / Varies by area" or
\* the charge.
DeliveryCard(t) ==
  IF PositiveFees(t) = {} THEN [says |-> "free", fee |-> 0]
  ELSE IF DOMAIN t.zones = {} THEN [says |-> "fee", fee |-> t.charge]
  ELSE [says |-> "from", fee |-> Min(PositiveFees(t))]

\* "Bangladesh-wide, from x" of the product page.
FromOnProductPage(t) == t.charge
-----------------------------------------------------------------------------
(* What the server charges.                                                *)

\* buildOrderItems takes the price as it is.
ChargedPrice(g) == 2

\* A zone overrides the charge of the shop, and a met threshold both; "enough"
\* says whether the subtotal meets it.
DeliveryChargeFor(t, area, enough) ==
  IF t.over /\ enough THEN 0
  ELSE IF area \in DOMAIN t.zones THEN t.zones[area]
  ELSE t.charge
-----------------------------------------------------------------------------
(* The seller, and other buyers who take the stock.                        *)

Save == saves < MaxSaves /\ saves' = saves + 1

SaveProduct(p) ==
  /\ Save
  /\ \E g \in Goods : goods' = [goods EXCEPT ![p] = g]
  /\ UNCHANGED <<terms, viewVars, pageVars, lines>>

SaveTerms ==
  /\ Save
  /\ terms' \in Terms
  /\ UNCHANGED <<goods, viewVars, pageVars, lines>>
-----------------------------------------------------------------------------
(* Looking around.                                                         *)

\* The site is loaded: every copy is new.
LoadSite ==
  /\ grid' = goods /\ known' = goods /\ noted' = terms /\ filter' = "all"
  /\ page' = NoProduct /\ qty' = 1
  /\ UNCHANGED <<shopVars, lines>>

\* The grid is fetched again: another category, or the page is opened anew.
FetchGrid ==
  /\ grid' = goods
  /\ UNCHANGED <<shopVars, filter, known, noted, pageVars, lines>>

PickFilter ==
  /\ page = NoProduct
  /\ filter' \in {"all", "in_stock", "on_sale"}
  /\ UNCHANGED <<shopVars, grid, known, noted, pageVars, lines>>

\* A product page opens on the cached copy.
OpenProduct(p) ==
  /\ page' = p /\ qty' = 1
  /\ UNCHANGED <<shopVars, viewVars, lines>>

\* The answer to its fetch: the copy is new, the quantity stays.
FetchProduct ==
  /\ page # NoProduct
  /\ known' = [known EXCEPT ![page] = goods[page]]
  /\ UNCHANGED <<shopVars, grid, filter, noted, pageVars, lines>>

\* Back on the shop page, with its filter reset.
BackToShop ==
  /\ page # NoProduct
  /\ page' = NoProduct /\ qty' = 1 /\ filter' = "all"
  /\ UNCHANGED <<shopVars, grid, known, noted, lines>>
-----------------------------------------------------------------------------
(* The product page.                                                       *)

Shown == known[page]

\* The stepper; "+" is off when the quantity has reached the stock.
More ==
  /\ page # NoProduct /\ qty < Shown.stock
  /\ qty' = qty + 1
  /\ UNCHANGED <<shopVars, viewVars, page, lines>>

Fewer ==
  /\ page # NoProduct /\ qty > 1
  /\ qty' = qty - 1
  /\ UNCHANGED <<shopVars, viewVars, page, lines>>
-----------------------------------------------------------------------------
(* The cart.                                                               *)

\* Bug for LinesOrderable: a line takes the stock of the copy it is added from
\* again, but not its pieces.
addItemRefreshing(p, g, n) ==
  [q \in DOMAIN lines \cup {p} |->
     IF q # p THEN lines[q]
     ELSE IF p \in DOMAIN lines
          THEN [lines[p] EXCEPT !.stock = g.stock, !.pieces = @ + n]
          ELSE [pieces |-> Min({n, g.stock}), price |-> applyDiscount(g), stock |-> g.stock]]

\* addItem of useCart: a line that is there keeps its price and its stock.
addItem(p, g, n) ==
  [q \in DOMAIN lines \cup {p} |->
     IF q # p THEN lines[q]
     ELSE IF p \in DOMAIN lines
          THEN [lines[p] EXCEPT !.pieces = Min({@ + n, lines[p].stock})]
          ELSE [pieces |-> Min({n, g.stock}), price |-> applyDiscount(g), stock |-> g.stock]]

\* "Add to cart" of a card of the grid.
AddFromGrid(p) ==
  /\ page = NoProduct /\ Passes(grid[p]) /\ ~outOfStock(grid[p])
  /\ lines' = addItem(p, grid[p], 1)
  /\ UNCHANGED <<shopVars, viewVars, pageVars>>

\* "Add to cart" and "Buy now" of the product page and of its sticky bar.
Buy ==
  /\ page # NoProduct /\ ~outOfStock(Shown)
  /\ lines' = addItem(page, Shown, qty)
  /\ UNCHANGED <<shopVars, viewVars, pageVars>>

\* updateQuantity of useCart, for "-" and "+" in the cart drawer.
updateQuantity(p, n) ==
  IF n = 0 THEN [q \in DOMAIN lines \ {p} |-> lines[q]]
           ELSE [lines EXCEPT ![p].pieces = Min({n, lines[p].stock})]

StepLine(p) ==
  /\ p \in DOMAIN lines
  /\ \E n \in {lines[p].pieces - 1, lines[p].pieces + 1} : lines' = updateQuantity(p, n)
  /\ UNCHANGED <<shopVars, viewVars, pageVars>>

\* The buyer takes a line out, or has ordered.
DropLine(p) ==
  /\ p \in DOMAIN lines
  /\ lines' = [q \in DOMAIN lines \ {p} |-> lines[q]]
  /\ UNCHANGED <<shopVars, viewVars, pageVars>>

ShelfNext ==
  \/ \E p \in Wares : SaveProduct(p)
  \/ SaveTerms
  \/ LoadSite
  \/ FetchGrid
  \/ PickFilter
  \/ \E p \in Wares : OpenProduct(p)
  \/ FetchProduct
  \/ BackToShop
  \/ More
  \/ Fewer
  \/ \E p \in Wares : AddFromGrid(p)
  \/ Buy
  \/ \E p \in Wares : StepLine(p) \/ DropLine(p)

ShelfSpec == ShelfInit /\ [][ShelfNext]_shelfVars
-----------------------------------------------------------------------------
(* Properties.                                                             *)

\* Every line of the cart has a piece and no more than the stock it was added
\* from, whatever copies the pages show and however often they are fetched
\* while a quantity is picked (the flags of the product page and the cap of
\* useCart together).
LinesOrderable ==
  \A p \in DOMAIN lines : lines[p].pieces \in 1 .. lines[p].stock

(***************************************************************************)
(* What an up-to-date site says of delivery is kept by the quote.  On the  *)
(* card of the shop page "Free" is free everywhere; a charge is what every *)
(* order pays below the threshold for free delivery; with "From x" an      *)
(* order below it pays x at least, and some order pays x, where the card   *)
(* leaves out areas that are free for themselves.  NoArea is any area      *)
(* without a zone.  The product page does not look at the zones: its       *)
(* "from x" is what areas without a zone pay, and the others may pay less. *)
(***************************************************************************)
ChargeForeseen ==
  noted = terms =>
    LET card == DeliveryCard(noted)
        Fee(area) == DeliveryChargeFor(terms, area, FALSE)
        Anywhere == Areas \cup {NoArea}
    IN  /\ card.says = "free" =>
             \A area \in Anywhere, enough \in BOOLEAN : DeliveryChargeFor(terms, area, enough) = 0
        /\ card.says = "fee" => \A area \in Anywhere : Fee(area) = card.fee
        /\ card.says = "from" => /\ \A area \in Anywhere : Fee(area) = 0 \/ Fee(area) >= card.fee
                                 /\ \E area \in Anywhere : Fee(area) = card.fee
        /\ \A area \in Anywhere \ DOMAIN noted.zones : Fee(area) = FromOnProductPage(noted)

\* A product page that is up to date shows the price the quote charges
\* (lib/format.ts:59, and "SAVE x%" on the product page).  The code does not
\* keep it: the server ignores the discount of a product.
PriceShownIsCharged ==
  page # NoProduct /\ Shown = goods[page]
    => applyDiscount(Shown) = ChargedPrice(goods[page])
=============================================================================
