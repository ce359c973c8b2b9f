--------------------------- MODULE CheckoutProofs ---------------------------
(***************************************************************************)
(* Checkout for any products, holds, orders and coupons: its invariants,    *)
(* and that settled holds stay as they are.                                 *)
(*                                                                         *)
(* The argument is one inductive invariant, Inductive.  StockBalances needs *)
(* RequestsMatchHolds: when an order consumes a hold, the sum over active   *)
(* holds loses the lines of the hold and the sum over orders gains those of *)
(* the request, and the two cancel because they are the same lines.         *)
(***************************************************************************)
EXTENDS Checkout, QuantitiesProofs

\* The sums over active holds and over orders are numbers.
LEMMA SumsType ==
  ASSUME NEW p
  PROVE  Held(p) \in Nat /\ Sold(p) \in Nat
<1>1. IsFiniteSet(ActiveHolds) /\ IsFiniteSet(PlacedOrders)
  BY CheckoutAssumption, FS_Subset DEF ActiveHolds, PlacedOrders
<1>2. QED
  BY <1>1, TotalType DEF Held, Sold

\* A step that settles or opens no hold and commits no order changes no sum.
LEMMA SumsSame ==
  ASSUME NEW p,
         holdStatus' = holdStatus, held' = held,
         \A o \in Orders : phase'[o] = "placed" <=> phase[o] = "placed",
         \A o \in PlacedOrders : basket'[o] = basket[o]
  PROVE  Held(p)' = Held(p) /\ Sold(p)' = Sold(p)
<1>1. Held(p)' = Held(p)
  BY DEF Held, ActiveHolds
<1>2. PlacedOrders' = PlacedOrders
  BY DEF PlacedOrders
<1>3. Total(PlacedOrders, basket', p) = Total(PlacedOrders, basket, p)
  BY TotalSame
<1>4. Sold(p)' = Sold(p)
  BY <1>2, <1>3 DEF Sold
<1>5. QED
  BY <1>1, <1>4

\* A new hold adds its lines to what is held.
LEMMA CreateHoldSums ==
  ASSUME TypeOK, NEW h \in Holds, NEW q \in Baskets(Products), CreateHold(h, q),
         NEW p \in Products
  PROVE  Held(p)' = Held(p) + q[p] /\ Sold(p)' = Sold(p)
<1>0. h \notin ActiveHolds /\ h \in ActiveHolds'
  BY DEF CreateHold, ActiveHolds, TypeOK
<1>1. ActiveHolds' = ActiveHolds \cup {h}
  BY DEF CreateHold, ActiveHolds, TypeOK
<1>2. IsFiniteSet(ActiveHolds)
  BY CheckoutAssumption, FS_Subset DEF ActiveHolds
<1>3. held'[h] = q /\ q[p] \in 0..MaxQty /\ held'[h][p] \in 0..MaxQty
  BY DEF CreateHold, TypeOK, Baskets
<1>4. \A x \in ActiveHolds : held'[x][p] = held[x][p]
  BY <1>0 DEF CreateHold, TypeOK, ActiveHolds
<1> DEFINE lines == held'
<1> HIDE DEF lines
<1>5. Total(ActiveHolds \cup {h}, lines, p) = Total(ActiveHolds, lines, p) + lines[h][p]
  <2>1. lines[h][p] \in 0..MaxQty
    BY <1>3 DEF lines
  <2>2. QED
    BY <1>0, <1>2, <2>1, TotalAdd
<1>6. Total(ActiveHolds, held', p) = Total(ActiveHolds, held, p)
  BY <1>4, TotalSame
<1>7. Held(p)' = Held(p) + q[p]
  BY <1>1, <1>3, <1>5, <1>6 DEF Held, lines
<1>8. Sold(p)' = Sold(p)
  BY DEF CreateHold, requestVars, Sold, PlacedOrders
<1>9. QED
  BY <1>7, <1>8

\* A hold that is cancelled or consumed takes its lines out of what is held.
LEMMA SettleOne ==
  ASSUME TypeOK, NEW h \in Holds, NEW s, s # "active", holdStatus[h] = "active",
         holdStatus' = [holdStatus EXCEPT ![h] = s], held' = held,
         NEW p \in Products
  PROVE  Held(p)' = Held(p) - held[h][p]
<1>1. h \in ActiveHolds /\ ActiveHolds' = ActiveHolds \ {h}
  BY DEF ActiveHolds, TypeOK
<1>2. IsFiniteSet(ActiveHolds)
  BY CheckoutAssumption, FS_Subset DEF ActiveHolds
<1>3. held[h][p] \in 0..MaxQty
  BY DEF TypeOK, Baskets
<1>4. Total(ActiveHolds', held, p) = Total(ActiveHolds, held, p) - held[h][p]
  BY <1>1, <1>2, <1>3, TotalRemove
<1>5. QED
  BY <1>4 DEF Held

\* A sweep takes the lines of all the holds it expires out of what is held.
LEMMA SweepSums ==
  ASSUME TypeOK, Sweep, NEW p \in Products
  PROVE  Held(p)' = Held(p) - Total(Overdue, held, p) /\ Sold(p)' = Sold(p)
<1>1. Overdue \subseteq ActiveHolds /\ ActiveHolds' = ActiveHolds \ Overdue
  BY DEF Sweep, ActiveHolds, Overdue, TypeOK
<1>2. IsFiniteSet(ActiveHolds)
  BY CheckoutAssumption, FS_Subset DEF ActiveHolds
<1>3. Total(ActiveHolds \ Overdue, held, p)
        = Total(ActiveHolds, held, p) - Total(Overdue, held, p)
  BY <1>1, <1>2, TotalDiff
<1>4. held' = held
  BY DEF Sweep
<1>5. Held(p)' = Held(p) - Total(Overdue, held, p)
  BY <1>1, <1>3, <1>4 DEF Held
<1>6. Sold(p)' = Sold(p)
  BY DEF Sweep, requestVars, Sold, PlacedOrders
<1>7. QED
  BY <1>5, <1>6

\* An order that commits adds its lines to what is sold.
LEMMA PlaceOne ==
  ASSUME TypeOK, NEW o \in Orders, phase[o] # "placed",
         phase' = [phase EXCEPT ![o] = "placed"], basket' = basket,
         NEW p \in Products
  PROVE  Sold(p)' = Sold(p) + basket[o][p]
<1>0. o \notin PlacedOrders /\ o \in PlacedOrders'
  BY DEF PlacedOrders, TypeOK
<1>1. PlacedOrders' = PlacedOrders \cup {o}
  BY DEF PlacedOrders, TypeOK
<1>2. IsFiniteSet(PlacedOrders)
  BY CheckoutAssumption, FS_Subset DEF PlacedOrders
<1>3. basket[o][p] \in 0..MaxQty
  BY DEF TypeOK, Baskets
<1>4. Total(PlacedOrders', basket, p) = Total(PlacedOrders, basket, p) + basket[o][p]
  BY <1>0, <1>1, <1>2, <1>3, TotalAdd
<1>5. QED
  BY <1>1, <1>4 DEF Sold

\* The quantities of a basket are numbers within the bound.
LEMMA BasketQty ==
  ASSUME NEW q \in Baskets(Products), NEW p \in Products
  PROVE  q[p] \in 0..MaxQty /\ q[p] \in Nat
BY MaxQtyAssumption DEF Baskets

\* The types hold at the start and are kept by every step.
LEMMA InitType == Init => TypeOK
BY CheckoutAssumption, MaxQtyAssumption
   DEF Init, TypeOK, EmptyBasket, Baskets, HoldStatuses, Phases, NoDraft

LEMMA TypeStep ==
  ASSUME TypeOK, [Next]_vars
  PROVE  TypeOK'
<1>1. ASSUME NEW h \in Holds, NEW q \in Baskets(Products), CreateHold(h, q)
      PROVE  TypeOK'
  BY <1>1, CheckoutAssumption, MaxQtyAssumption DEF CreateHold, CanTake, Take,
     Baskets, requestVars, couponVars, TypeOK, HoldStatuses
<1>2. ASSUME NEW h \in Holds, CancelHold(h)
      PROVE  TypeOK'
  BY <1>2, MaxQtyAssumption DEF CancelHold, Return, Baskets, requestVars,
     couponVars, TypeOK, HoldStatuses
<1>3. CASE Sweep
  <2>1. IsFiniteSet(Overdue)
    BY CheckoutAssumption, FS_Subset DEF Overdue, ActiveHolds
  <2>2. \A p \in Products : Total(Overdue, held, p) \in Nat
    BY <2>1, TotalType
  <2>3. stock' \in [Products -> Nat]
    BY <1>3, <2>2 DEF Sweep, TypeOK
  <2>4. holdStatus' \in [Holds -> HoldStatuses]
    BY <1>3 DEF Sweep, TypeOK, HoldStatuses
  <2>5. QED
    BY <1>3, <2>3, <2>4 DEF Sweep, TypeOK, requestVars, couponVars
<1>4. ASSUME NEW o \in Orders, NEW q \in Baskets(Products), NEW c \in Coupons
             \cup {NoCoupon}, QuoteDirect(o, q, c)
      PROVE  TypeOK'
  BY <1>4 DEF QuoteDirect, productVars, holdVars, couponVars, TypeOK, Phases
<1>5. ASSUME NEW o \in Orders, NEW h \in Holds, NEW c \in Coupons \cup
             {NoCoupon}, QuoteHold(o, h, c)
      PROVE  TypeOK'
  BY <1>5 DEF QuoteHold, productVars, holdVars, couponVars, TypeOK, Phases
<1>6. ASSUME NEW o \in Orders, AttachPhone(o)
      PROVE  TypeOK'
  BY <1>6 DEF AttachPhone, productVars, couponVars, TypeOK, Phases
<1>7. ASSUME NEW o \in Orders, PlaceDirect(o)
      PROVE  TypeOK'
  BY <1>7, MaxQtyAssumption DEF PlaceDirect, RedeemCoupon, CanTake, Take,
     Baskets, holdVars, TypeOK, Phases
<1>8. ASSUME NEW o \in Orders, PlaceFromHold(o)
      PROVE  TypeOK'
  BY <1>8 DEF PlaceFromHold, RedeemCoupon, productVars, TypeOK, HoldStatuses,
     Phases
<1>9. ASSUME NEW o \in Orders, GiveUp(o)
      PROVE  TypeOK'
  BY <1>9, MaxQtyAssumption DEF GiveUp, EmptyBasket, Baskets, productVars,
     holdVars, couponVars, TypeOK, Phases
<1>10. ASSUME NEW p \in Edited, BeginEdit(p)
      PROVE  TypeOK'
  BY <1>10, CheckoutAssumption DEF BeginEdit, holdVars, requestVars,
     couponVars, TypeOK
<1>11. ASSUME NEW p \in Edited, NEW onSale \in BOOLEAN, SaveEdit(p, onSale)
      PROVE  TypeOK'
  BY <1>11, CheckoutAssumption DEF SaveEdit, SetActive, NoDraft, holdVars,
     requestVars, couponVars, TypeOK
<1>12. ASSUME NEW p \in Edited, NEW n \in 0..MaxStock, NEW onSale \in BOOLEAN,
             SaveStock(p, n, onSale)
      PROVE  TypeOK'
  BY <1>12, CheckoutAssumption DEF SaveStock, SetActive, NoDraft, holdVars,
     requestVars, couponVars, TypeOK
<1>13. ASSUME NEW p \in Edited, AbandonEdit(p)
      PROVE  TypeOK'
  BY <1>13, CheckoutAssumption DEF AbandonEdit, holdVars, requestVars,
     couponVars, TypeOK
<1>14. ASSUME NEW p \in Edited, Archive(p)
      PROVE  TypeOK'
  BY <1>14, CheckoutAssumption DEF Archive, holdVars, requestVars, couponVars,
     TypeOK
<1>15. ASSUME NEW p \in Edited, DeleteProduct(p)
      PROVE  TypeOK'
  BY <1>15, CheckoutAssumption DEF DeleteProduct, holdVars, requestVars,
     couponVars, TypeOK
<1>16. ASSUME NEW p \in Edited, NEW onSale \in BOOLEAN,
             ModerateProduct(p, onSale)
      PROVE  TypeOK'
  BY <1>16, CheckoutAssumption DEF ModerateProduct, SetActive, holdVars,
     requestVars, couponVars, TypeOK
<1>17. ASSUME NEW c \in Coupons, DisableCoupon(c)
      PROVE  TypeOK'
  BY <1>17 DEF DisableCoupon, productVars, holdVars, requestVars, TypeOK
<1>18. CASE Tick
  BY <1>18, CheckoutAssumption DEF Tick, productVars, holdVars, requestVars,
     couponVars, TypeOK
<1>19. CASE UNCHANGED vars
  BY <1>19 DEF vars, productVars, holdVars, requestVars, couponVars, TypeOK
<1>20. QED
  BY <1>1, <1>2, <1>3, <1>4, <1>5, <1>6, <1>7, <1>8, <1>9, <1>10, <1>11,
     <1>12, <1>13, <1>14, <1>15, <1>16, <1>17, <1>18, <1>19
     DEF Next, HoldNext, PlaceNext, SellerNext

\* Every variable keeps its type in every reachable state: no interleaving takes
\* a stock below zero, and quantities and times stay numbers.
THEOREM TypeCorrect == Spec => []TypeOK
<1>1. Init => TypeOK
  BY InitType
<1>2. TypeOK /\ [Next]_vars => TypeOK'
  BY TypeStep
<1>3. QED
  BY <1>1, <1>2, PTL DEF Spec

\* StockBalances for one product.
Balanced(p) == stock[p] + Held(p) + Sold(p) = owned[p] + drift[p]

\* No step makes or loses a piece.
LEMMA BalanceStep ==
  ASSUME TypeOK, RequestsMatchHolds, [Next]_vars, NEW p \in Products, Balanced(p)
  PROVE  Balanced(p)'
<1>0. /\ stock[p] \in Nat /\ owned[p] \in Int /\ drift[p] \in Int
      /\ Held(p) \in Nat /\ Sold(p) \in Nat
      /\ stock[p] + Held(p) + Sold(p) = owned[p] + drift[p]
  BY SumsType DEF TypeOK, Balanced
<1>1. ASSUME NEW h \in Holds, NEW q \in Baskets(Products), CreateHold(h, q)
      PROVE  Balanced(p)'
  <2>1. Held(p)' = Held(p) + q[p] /\ Sold(p)' = Sold(p)
    BY <1>1, CreateHoldSums
  <2>2. stock'[p] = stock[p] - q[p] /\ owned' = owned /\ drift' = drift
    BY <1>1 DEF CreateHold, Take
  <2>3. q[p] \in Nat
    BY <1>1, BasketQty
  <2>4. QED
    BY <1>0, <2>1, <2>2, <2>3 DEF Balanced
<1>2. ASSUME NEW h \in Holds, CancelHold(h)
      PROVE  Balanced(p)'
  <2>1. Held(p)' = Held(p) - held[h][p]
    BY <1>2, SettleOne DEF CancelHold
  <2>2. Sold(p)' = Sold(p)
    BY <1>2 DEF CancelHold, requestVars, Sold, PlacedOrders
  <2>3. stock'[p] = stock[p] + held[h][p] /\ owned' = owned /\ drift' = drift
    BY <1>2 DEF CancelHold, Return
  <2>4. held[h][p] \in Nat
    BY <1>2, BasketQty DEF TypeOK
  <2>5. QED
    BY <1>0, <2>1, <2>2, <2>3, <2>4 DEF Balanced
<1>3. CASE Sweep
  <2>1. Held(p)' = Held(p) - Total(Overdue, held, p) /\ Sold(p)' = Sold(p)
    BY <1>3, SweepSums
  <2>2. /\ stock'[p] = stock[p] + Total(Overdue, held, p)
        /\ owned' = owned
        /\ drift' = drift
    BY <1>3 DEF Sweep
  <2>3. IsFiniteSet(Overdue)
    BY CheckoutAssumption, FS_Subset DEF Overdue, ActiveHolds
  <2>4. Total(Overdue, held, p) \in Nat
    BY <2>3, TotalType
  <2>5. QED
    BY <1>0, <2>1, <2>2, <2>4 DEF Balanced
<1>4. ASSUME NEW o \in Orders, NEW q \in Baskets(Products), NEW c \in Coupons
             \cup {NoCoupon}, QuoteDirect(o, q, c)
      PROVE  Balanced(p)'
  <2>1. Held(p)' = Held(p) /\ Sold(p)' = Sold(p)
    BY <1>4, SumsSame DEF QuoteDirect, TypeOK, PlacedOrders, productVars, holdVars,
       requestVars, couponVars
  <2>2. stock' = stock /\ owned' = owned /\ drift' = drift
    BY <1>4 DEF QuoteDirect, productVars
  <2>3. QED
    BY <1>0, <2>1, <2>2 DEF Balanced
<1>5. ASSUME NEW o \in Orders, NEW h \in Holds, NEW c \in Coupons \cup
             {NoCoupon}, QuoteHold(o, h, c)
      PROVE  Balanced(p)'
  <2>1. Held(p)' = Held(p) /\ Sold(p)' = Sold(p)
    BY <1>5, SumsSame DEF QuoteHold, TypeOK, PlacedOrders, productVars, holdVars,
       requestVars, couponVars
  <2>2. stock' = stock /\ owned' = owned /\ drift' = drift
    BY <1>5 DEF QuoteHold, productVars
  <2>3. QED
    BY <1>0, <2>1, <2>2 DEF Balanced
<1>6. ASSUME NEW o \in Orders, AttachPhone(o)
      PROVE  Balanced(p)'
  <2>1. Held(p)' = Held(p) /\ Sold(p)' = Sold(p)
    BY <1>6, SumsSame DEF AttachPhone, TypeOK, PlacedOrders, productVars, holdVars,
       requestVars, couponVars
  <2>2. stock' = stock /\ owned' = owned /\ drift' = drift
    BY <1>6 DEF AttachPhone, productVars
  <2>3. QED
    BY <1>0, <2>1, <2>2 DEF Balanced
<1>7. ASSUME NEW o \in Orders, PlaceDirect(o)
      PROVE  Balanced(p)'
  <2>1. Held(p)' = Held(p)
    BY <1>7 DEF PlaceDirect, holdVars, Held, ActiveHolds
  <2>2. Sold(p)' = Sold(p) + basket[o][p]
    BY <1>7, PlaceOne DEF PlaceDirect
  <2>3. stock'[p] = stock[p] - basket[o][p] /\ owned' = owned /\ drift' = drift
    BY <1>7 DEF PlaceDirect, Take
  <2>4. basket[o][p] \in Nat
    BY <1>7, BasketQty DEF TypeOK
  <2>5. QED
    BY <1>0, <2>1, <2>2, <2>3, <2>4 DEF Balanced
<1>8. ASSUME NEW o \in Orders, PlaceFromHold(o)
      PROVE  Balanced(p)'
  <2>1. via[o] \in Holds /\ basket[o] = held[via[o]]
    BY <1>8 DEF PlaceFromHold, TypeOK, RequestsMatchHolds
  <2>2. Held(p)' = Held(p) - held[via[o]][p]
    BY <1>8, <2>1, SettleOne DEF PlaceFromHold
  <2>3. Sold(p)' = Sold(p) + basket[o][p]
    BY <1>8, PlaceOne DEF PlaceFromHold
  <2>4. stock' = stock /\ owned' = owned /\ drift' = drift
    BY <1>8 DEF PlaceFromHold, productVars
  <2>5. basket[o][p] \in Nat
    BY <1>8, BasketQty DEF TypeOK
  <2>6. QED
    BY <1>0, <2>1, <2>2, <2>3, <2>4, <2>5 DEF Balanced
<1>9. ASSUME NEW o \in Orders, GiveUp(o)
      PROVE  Balanced(p)'
  <2>1. Held(p)' = Held(p) /\ Sold(p)' = Sold(p)
    BY <1>9, SumsSame DEF GiveUp, TypeOK, PlacedOrders, productVars, holdVars,
       requestVars, couponVars
  <2>2. stock' = stock /\ owned' = owned /\ drift' = drift
    BY <1>9 DEF GiveUp, productVars
  <2>3. QED
    BY <1>0, <2>1, <2>2 DEF Balanced
<1>10. ASSUME NEW r \in Edited, BeginEdit(r)
      PROVE  Balanced(p)'
  <2>1. Held(p)' = Held(p) /\ Sold(p)' = Sold(p)
    BY <1>10, SumsSame DEF BeginEdit, TypeOK, PlacedOrders, productVars, holdVars,
       requestVars, couponVars
  <2>2. stock' = stock /\ owned' = owned /\ drift' = drift
    BY <1>10 DEF BeginEdit, productVars
  <2>3. QED
    BY <1>0, <2>1, <2>2 DEF Balanced
<1>11. ASSUME NEW r \in Edited, NEW onSale \in BOOLEAN, SaveEdit(r, onSale)
      PROVE  Balanced(p)'
  <2>1. Held(p)' = Held(p) /\ Sold(p)' = Sold(p)
    BY <1>11, SumsSame DEF SaveEdit, PlacedOrders, holdVars, requestVars
  <2>2. stock'[p] \in Int
    BY <1>11, CheckoutAssumption DEF SaveEdit, TypeOK, NoDraft
  <2>3. owned' = owned
    BY <1>11 DEF SaveEdit
  <2>4. drift'[p] = drift[p] + (stock'[p] - stock[p])
    BY <1>11, <1>0, CheckoutAssumption DEF SaveEdit, TypeOK, NoDraft
  <2>5. stock'[p] + Held(p) + Sold(p) = owned'[p] + drift'[p]
    BY <1>0, <2>2, <2>3, <2>4
  <2>6. QED
    BY <2>1, <2>5 DEF Balanced
<1>12. ASSUME NEW r \in Edited, NEW n \in 0..MaxStock, NEW onSale \in BOOLEAN,
             SaveStock(r, n, onSale)
      PROVE  Balanced(p)'
  <2>1. Held(p)' = Held(p) /\ Sold(p)' = Sold(p)
    BY <1>12, SumsSame DEF SaveStock, PlacedOrders, holdVars, requestVars
  <2>2. stock'[p] \in Int
    BY <1>12, CheckoutAssumption DEF SaveStock, TypeOK, NoDraft
  <2>3. drift' = drift
    BY <1>12 DEF SaveStock
  <2>4. owned'[p] = owned[p] + (stock'[p] - stock[p])
    BY <1>12, <1>0, CheckoutAssumption DEF SaveStock, TypeOK, NoDraft
  <2>5. stock'[p] + Held(p) + Sold(p) = owned'[p] + drift'[p]
    BY <1>0, <2>2, <2>3, <2>4
  <2>6. QED
    BY <2>1, <2>5 DEF Balanced
<1>13. ASSUME NEW r \in Edited, AbandonEdit(r)
      PROVE  Balanced(p)'
  <2>1. Held(p)' = Held(p) /\ Sold(p)' = Sold(p)
    BY <1>13, SumsSame DEF AbandonEdit, TypeOK, PlacedOrders, productVars, holdVars,
       requestVars, couponVars
  <2>2. stock' = stock /\ owned' = owned /\ drift' = drift
    BY <1>13 DEF AbandonEdit, productVars
  <2>3. QED
    BY <1>0, <2>1, <2>2 DEF Balanced
<1>14. ASSUME NEW r \in Edited, Archive(r)
      PROVE  Balanced(p)'
  <2>1. Held(p)' = Held(p) /\ Sold(p)' = Sold(p)
    BY <1>14, SumsSame DEF Archive, TypeOK, PlacedOrders, productVars, holdVars,
       requestVars, couponVars
  <2>2. stock' = stock /\ owned' = owned /\ drift' = drift
    BY <1>14 DEF Archive, productVars
  <2>3. QED
    BY <1>0, <2>1, <2>2 DEF Balanced
<1>15. ASSUME NEW r \in Edited, DeleteProduct(r)
      PROVE  Balanced(p)'
  <2>1. Held(p)' = Held(p) /\ Sold(p)' = Sold(p)
    BY <1>15, SumsSame DEF DeleteProduct, PlacedOrders, holdVars, requestVars
  <2>2. stock'[p] \in Int
    BY <1>15, CheckoutAssumption DEF DeleteProduct, TypeOK
  <2>3. drift'[p] = drift[p]
    BY <1>15 DEF DeleteProduct
  <2>4. owned'[p] = owned[p] + (stock'[p] - stock[p])
    BY <1>15, <1>0, CheckoutAssumption DEF DeleteProduct, TypeOK
  <2>5. stock'[p] + Held(p) + Sold(p) = owned'[p] + drift'[p]
    BY <1>0, <2>2, <2>3, <2>4
  <2>6. QED
    BY <2>1, <2>5 DEF Balanced
<1>16. ASSUME NEW r \in Edited, NEW onSale \in BOOLEAN,
             ModerateProduct(r, onSale)
      PROVE  Balanced(p)'
  <2>1. Held(p)' = Held(p) /\ Sold(p)' = Sold(p)
    BY <1>16, SumsSame DEF ModerateProduct, PlacedOrders, holdVars, requestVars
  <2>2. stock' = stock /\ owned' = owned /\ drift' = drift
    BY <1>16 DEF ModerateProduct
  <2>3. QED
    BY <1>0, <2>1, <2>2 DEF Balanced
<1>17. ASSUME NEW c \in Coupons, DisableCoupon(c)
      PROVE  Balanced(p)'
  <2>1. Held(p)' = Held(p) /\ Sold(p)' = Sold(p)
    BY <1>17, SumsSame DEF DisableCoupon, TypeOK, PlacedOrders, productVars, holdVars,
       requestVars, couponVars
  <2>2. stock' = stock /\ owned' = owned /\ drift' = drift
    BY <1>17 DEF DisableCoupon, productVars
  <2>3. QED
    BY <1>0, <2>1, <2>2 DEF Balanced
<1>18. CASE Tick
  <2>1. Held(p)' = Held(p) /\ Sold(p)' = Sold(p)
    BY <1>18, SumsSame DEF Tick, TypeOK, PlacedOrders, productVars, holdVars,
       requestVars, couponVars
  <2>2. stock' = stock /\ owned' = owned /\ drift' = drift
    BY <1>18 DEF Tick, productVars
  <2>3. QED
    BY <1>0, <2>1, <2>2 DEF Balanced
<1>19. CASE UNCHANGED vars
  <2>1. Held(p)' = Held(p) /\ Sold(p)' = Sold(p)
    BY <1>19, SumsSame DEF vars, TypeOK, PlacedOrders, productVars, holdVars,
       requestVars, couponVars
  <2>2. stock' = stock /\ owned' = owned /\ drift' = drift
    BY <1>19 DEF vars, productVars
  <2>3. QED
    BY <1>0, <2>1, <2>2 DEF Balanced
<1>20. QED
  BY <1>1, <1>2, <1>3, <1>4, <1>5, <1>6, <1>7, <1>8, <1>9, <1>10, <1>11,
     <1>12, <1>13, <1>14, <1>15, <1>16, <1>17, <1>18, <1>19
     DEF Next, HoldNext, PlaceNext, SellerNext

\* No step parts a request from its hold.
LEMMA RequestsStep ==
  ASSUME TypeOK, RequestsMatchHolds, [Next]_vars
  PROVE  RequestsMatchHolds'
<1>1. ASSUME NEW h \in Holds, NEW q \in Baskets(Products), CreateHold(h, q)
      PROVE  RequestsMatchHolds'
  BY <1>1 DEF CreateHold, CanTake, Take, requestVars, couponVars, TypeOK,
     RequestsMatchHolds
<1>2. ASSUME NEW h \in Holds, CancelHold(h)
      PROVE  RequestsMatchHolds'
  BY <1>2 DEF CancelHold, Return, requestVars, couponVars, TypeOK,
     RequestsMatchHolds
<1>3. CASE Sweep
  BY <1>3 DEF Sweep, Overdue, ActiveHolds, requestVars, couponVars, TypeOK,
     RequestsMatchHolds
<1>4. ASSUME NEW o \in Orders, NEW q \in Baskets(Products), NEW c \in Coupons
             \cup {NoCoupon}, QuoteDirect(o, q, c)
      PROVE  RequestsMatchHolds'
  BY <1>4 DEF QuoteDirect, productVars, holdVars, couponVars, TypeOK,
     RequestsMatchHolds
<1>5. ASSUME NEW o \in Orders, NEW h \in Holds, NEW c \in Coupons \cup
             {NoCoupon}, QuoteHold(o, h, c)
      PROVE  RequestsMatchHolds'
  BY <1>5 DEF QuoteHold, productVars, holdVars, couponVars, TypeOK,
     RequestsMatchHolds
<1>6. ASSUME NEW o \in Orders, AttachPhone(o)
      PROVE  RequestsMatchHolds'
  BY <1>6 DEF AttachPhone, productVars, couponVars, TypeOK, RequestsMatchHolds
<1>7. ASSUME NEW o \in Orders, PlaceDirect(o)
      PROVE  RequestsMatchHolds'
  BY <1>7 DEF PlaceDirect, RedeemCoupon, CanTake, Take, holdVars, TypeOK,
     RequestsMatchHolds
<1>8. ASSUME NEW o \in Orders, PlaceFromHold(o)
      PROVE  RequestsMatchHolds'
  BY <1>8 DEF PlaceFromHold, RedeemCoupon, productVars, TypeOK,
     RequestsMatchHolds
<1>9. ASSUME NEW o \in Orders, GiveUp(o)
      PROVE  RequestsMatchHolds'
  BY <1>9 DEF GiveUp, productVars, holdVars, couponVars, TypeOK,
     RequestsMatchHolds
<1>10. ASSUME NEW p \in Edited, BeginEdit(p)
      PROVE  RequestsMatchHolds'
  BY <1>10 DEF BeginEdit, holdVars, requestVars, couponVars, TypeOK,
     RequestsMatchHolds
<1>11. ASSUME NEW p \in Edited, NEW onSale \in BOOLEAN, SaveEdit(p, onSale)
      PROVE  RequestsMatchHolds'
  BY <1>11 DEF SaveEdit, SetActive, holdVars, requestVars, couponVars, TypeOK,
     RequestsMatchHolds
<1>12. ASSUME NEW p \in Edited, NEW n \in 0..MaxStock, NEW onSale \in BOOLEAN,
             SaveStock(p, n, onSale)
      PROVE  RequestsMatchHolds'
  BY <1>12 DEF SaveStock, SetActive, holdVars, requestVars, couponVars,
     TypeOK, RequestsMatchHolds
<1>13. ASSUME NEW p \in Edited, AbandonEdit(p)
      PROVE  RequestsMatchHolds'
  BY <1>13 DEF AbandonEdit, holdVars, requestVars, couponVars, TypeOK,
     RequestsMatchHolds
<1>14. ASSUME NEW p \in Edited, Archive(p)
      PROVE  RequestsMatchHolds'
  BY <1>14 DEF Archive, holdVars, requestVars, couponVars, TypeOK,
     RequestsMatchHolds
<1>15. ASSUME NEW p \in Edited, DeleteProduct(p)
      PROVE  RequestsMatchHolds'
  BY <1>15 DEF DeleteProduct, holdVars, requestVars,
     couponVars, TypeOK,
     RequestsMatchHolds
<1>16. ASSUME NEW p \in Edited, NEW onSale \in BOOLEAN,
             ModerateProduct(p, onSale)
      PROVE  RequestsMatchHolds'
  BY <1>16 DEF ModerateProduct, SetActive, holdVars, requestVars,
     couponVars, TypeOK,
     RequestsMatchHolds
<1>17. ASSUME NEW c \in Coupons, DisableCoupon(c)
      PROVE  RequestsMatchHolds'
  BY <1>17 DEF DisableCoupon, productVars, holdVars, requestVars, TypeOK,
     RequestsMatchHolds
<1>18. CASE Tick
  BY <1>18 DEF Tick, productVars, holdVars, requestVars, couponVars, TypeOK,
     RequestsMatchHolds
<1>19. CASE UNCHANGED vars
  BY <1>19 DEF vars, productVars, holdVars, requestVars, couponVars, TypeOK,
     RequestsMatchHolds
<1>20. QED
  BY <1>1, <1>2, <1>3, <1>4, <1>5, <1>6, <1>7, <1>8, <1>9, <1>10, <1>11,
     <1>12, <1>13, <1>14, <1>15, <1>16, <1>17, <1>18, <1>19
     DEF Next, HoldNext, PlaceNext, SellerNext

\* No step parts an order from the hold it consumed.
LEMMA OrdersStep ==
  ASSUME TypeOK, RequestsMatchHolds, OrdersMatchHolds, [Next]_vars
  PROVE  OrdersMatchHolds'
<1>1. ASSUME NEW h \in Holds, NEW q \in Baskets(Products), CreateHold(h, q)
      PROVE  OrdersMatchHolds'
  BY <1>1 DEF CreateHold, CanTake, Take, requestVars, couponVars, TypeOK,
     RequestsMatchHolds, OrdersMatchHolds, PlacedOrders
<1>2. ASSUME NEW h \in Holds, CancelHold(h)
      PROVE  OrdersMatchHolds'
  BY <1>2 DEF CancelHold, Return, requestVars, couponVars, TypeOK,
     RequestsMatchHolds, OrdersMatchHolds, PlacedOrders
<1>3. CASE Sweep
  BY <1>3 DEF Sweep, Overdue, ActiveHolds, requestVars, couponVars, TypeOK,
     RequestsMatchHolds, OrdersMatchHolds, PlacedOrders
<1>4. ASSUME NEW o \in Orders, NEW q \in Baskets(Products), NEW c \in Coupons
             \cup {NoCoupon}, QuoteDirect(o, q, c)
      PROVE  OrdersMatchHolds'
  BY <1>4 DEF QuoteDirect, productVars, holdVars, couponVars, TypeOK,
     RequestsMatchHolds, OrdersMatchHolds, PlacedOrders
<1>5. ASSUME NEW o \in Orders, NEW h \in Holds, NEW c \in Coupons \cup
             {NoCoupon}, QuoteHold(o, h, c)
      PROVE  OrdersMatchHolds'
  BY <1>5 DEF QuoteHold, productVars, holdVars, couponVars, TypeOK,
     RequestsMatchHolds, OrdersMatchHolds, PlacedOrders
<1>6. ASSUME NEW o \in Orders, AttachPhone(o)
      PROVE  OrdersMatchHolds'
  BY <1>6 DEF AttachPhone, productVars, couponVars, TypeOK,
     RequestsMatchHolds, OrdersMatchHolds, PlacedOrders
<1>7. ASSUME NEW o \in Orders, PlaceDirect(o)
      PROVE  OrdersMatchHolds'
  BY <1>7 DEF PlaceDirect, RedeemCoupon, CanTake, Take, holdVars, TypeOK,
     RequestsMatchHolds, OrdersMatchHolds, PlacedOrders
<1>8. ASSUME NEW o \in Orders, PlaceFromHold(o)
      PROVE  OrdersMatchHolds'
  BY <1>8 DEF PlaceFromHold, RedeemCoupon, productVars, TypeOK,
     RequestsMatchHolds, OrdersMatchHolds, PlacedOrders
<1>9. ASSUME NEW o \in Orders, GiveUp(o)
      PROVE  OrdersMatchHolds'
  BY <1>9 DEF GiveUp, productVars, holdVars, couponVars, TypeOK,
     RequestsMatchHolds, OrdersMatchHolds, PlacedOrders
<1>10. ASSUME NEW p \in Edited, BeginEdit(p)
      PROVE  OrdersMatchHolds'
  BY <1>10 DEF BeginEdit, holdVars, requestVars, couponVars, TypeOK,
     RequestsMatchHolds, OrdersMatchHolds, PlacedOrders
<1>11. ASSUME NEW p \in Edited, NEW onSale \in BOOLEAN, SaveEdit(p, onSale)
      PROVE  OrdersMatchHolds'
  BY <1>11 DEF SaveEdit, SetActive, holdVars, requestVars, couponVars, TypeOK,
     RequestsMatchHolds, OrdersMatchHolds, PlacedOrders
<1>12. ASSUME NEW p \in Edited, NEW n \in 0..MaxStock, NEW onSale \in BOOLEAN,
             SaveStock(p, n, onSale)
      PROVE  OrdersMatchHolds'
  BY <1>12 DEF SaveStock, SetActive, holdVars, requestVars, couponVars,
     TypeOK, RequestsMatchHolds, OrdersMatchHolds, PlacedOrders
<1>13. ASSUME NEW p \in Edited, AbandonEdit(p)
      PROVE  OrdersMatchHolds'
  BY <1>13 DEF AbandonEdit, holdVars, requestVars, couponVars, TypeOK,
     RequestsMatchHolds, OrdersMatchHolds, PlacedOrders
<1>14. ASSUME NEW p \in Edited, Archive(p)
      PROVE  OrdersMatchHolds'
  BY <1>14 DEF Archive, holdVars, requestVars, couponVars, TypeOK,
     RequestsMatchHolds, OrdersMatchHolds, PlacedOrders
<1>15. ASSUME NEW p \in Edited, DeleteProduct(p)
      PROVE  OrdersMatchHolds'
  BY <1>15 DEF DeleteProduct, holdVars, requestVars,
     couponVars, TypeOK,
     RequestsMatchHolds, OrdersMatchHolds, PlacedOrders
<1>16. ASSUME NEW p \in Edited, NEW onSale \in BOOLEAN,
             ModerateProduct(p, onSale)
      PROVE  OrdersMatchHolds'
  BY <1>16 DEF ModerateProduct, SetActive, holdVars, requestVars,
     couponVars, TypeOK,
     RequestsMatchHolds, OrdersMatchHolds, PlacedOrders
<1>17. ASSUME NEW c \in Coupons, DisableCoupon(c)
      PROVE  OrdersMatchHolds'
  BY <1>17 DEF DisableCoupon, productVars, holdVars, requestVars, TypeOK,
     RequestsMatchHolds, OrdersMatchHolds, PlacedOrders
<1>18. CASE Tick
  BY <1>18 DEF Tick, productVars, holdVars, requestVars, couponVars, TypeOK,
     RequestsMatchHolds, OrdersMatchHolds, PlacedOrders
<1>19. CASE UNCHANGED vars
  BY <1>19 DEF vars, productVars, holdVars, requestVars, couponVars, TypeOK,
     RequestsMatchHolds, OrdersMatchHolds, PlacedOrders
<1>20. QED
  BY <1>1, <1>2, <1>3, <1>4, <1>5, <1>6, <1>7, <1>8, <1>9, <1>10, <1>11,
     <1>12, <1>13, <1>14, <1>15, <1>16, <1>17, <1>18, <1>19
     DEF Next, HoldNext, PlaceNext, SellerNext

\* Committing an order with a coupon that is not used up keeps the coupons and
\* the orders in step.
LEMMA RedeemOne ==
  ASSUME TypeOK, CouponsMatchOrders, NEW o \in Orders, phase[o] # "placed",
         RedeemCoupon(code[o]), phase' = [phase EXCEPT ![o] = "placed"],
         code' = code
  PROVE  CouponsMatchOrders'
<1>1. PlacedOrders' = PlacedOrders \cup {o}
  BY DEF PlacedOrders, TypeOK
<1>2. code[o] = NoCoupon \/ (code[o] \in Coupons /\ code[o] \notin redeemed)
  BY DEF RedeemCoupon, CouponOK
<1>3. redeemed' = redeemed \cup ({code[o]} \ {NoCoupon})
  BY <1>2, CheckoutAssumption DEF RedeemCoupon
<1>4. {code[x] : x \in PlacedOrders \cup {o}} = {code[x] : x \in PlacedOrders} \cup {code[o]}
  OBVIOUS
<1>5. redeemed' = {code'[x] : x \in PlacedOrders'} \ {NoCoupon}
  BY <1>1, <1>3, <1>4 DEF CouponsMatchOrders
<1>6. code[o] # NoCoupon => \A x \in PlacedOrders : code[x] # code[o]
  BY <1>2 DEF CouponsMatchOrders
<1>7. QED
  BY <1>1, <1>5, <1>6 DEF CouponsMatchOrders

\* No step uses a coupon without an order or twice.
LEMMA CouponsStep ==
  ASSUME TypeOK, CouponsMatchOrders, [Next]_vars
  PROVE  CouponsMatchOrders'
<1>1. ASSUME NEW h \in Holds, NEW q \in Baskets(Products), CreateHold(h, q)
      PROVE  CouponsMatchOrders'
  BY <1>1 DEF CreateHold, CanTake, Take, requestVars, couponVars, TypeOK,
     CouponsMatchOrders, PlacedOrders, CouponOK
<1>2. ASSUME NEW h \in Holds, CancelHold(h)
      PROVE  CouponsMatchOrders'
  BY <1>2 DEF CancelHold, Return, requestVars, couponVars, TypeOK,
     CouponsMatchOrders, PlacedOrders, CouponOK
<1>3. CASE Sweep
  BY <1>3 DEF Sweep, Overdue, ActiveHolds, requestVars, couponVars, TypeOK,
     CouponsMatchOrders, PlacedOrders, CouponOK
<1>4. ASSUME NEW o \in Orders, NEW q \in Baskets(Products), NEW c \in Coupons
             \cup {NoCoupon}, QuoteDirect(o, q, c)
      PROVE  CouponsMatchOrders'
  BY <1>4 DEF QuoteDirect, productVars, holdVars, couponVars, TypeOK,
     CouponsMatchOrders, PlacedOrders, CouponOK
<1>5. ASSUME NEW o \in Orders, NEW h \in Holds, NEW c \in Coupons \cup
             {NoCoupon}, QuoteHold(o, h, c)
      PROVE  CouponsMatchOrders'
  BY <1>5 DEF QuoteHold, productVars, holdVars, couponVars, TypeOK,
     CouponsMatchOrders, PlacedOrders, CouponOK
<1>6. ASSUME NEW o \in Orders, AttachPhone(o)
      PROVE  CouponsMatchOrders'
  BY <1>6 DEF AttachPhone, productVars, couponVars, TypeOK,
     CouponsMatchOrders, PlacedOrders, CouponOK
<1>7. ASSUME NEW o \in Orders, PlaceDirect(o)
      PROVE  CouponsMatchOrders'
  BY <1>7, RedeemOne DEF PlaceDirect
<1>8. ASSUME NEW o \in Orders, PlaceFromHold(o)
      PROVE  CouponsMatchOrders'
  BY <1>8, RedeemOne DEF PlaceFromHold
<1>9. ASSUME NEW o \in Orders, GiveUp(o)
      PROVE  CouponsMatchOrders'
  BY <1>9 DEF GiveUp, productVars, holdVars, couponVars, TypeOK,
     CouponsMatchOrders, PlacedOrders, CouponOK
<1>10. ASSUME NEW p \in Edited, BeginEdit(p)
      PROVE  CouponsMatchOrders'
  BY <1>10 DEF BeginEdit, holdVars, requestVars, couponVars, TypeOK,
     CouponsMatchOrders, PlacedOrders, CouponOK
<1>11. ASSUME NEW p \in Edited, NEW onSale \in BOOLEAN, SaveEdit(p, onSale)
      PROVE  CouponsMatchOrders'
  BY <1>11 DEF SaveEdit, SetActive, holdVars, requestVars, couponVars, TypeOK,
     CouponsMatchOrders, PlacedOrders, CouponOK
<1>12. ASSUME NEW p \in Edited, NEW n \in 0..MaxStock, NEW onSale \in BOOLEAN,
             SaveStock(p, n, onSale)
      PROVE  CouponsMatchOrders'
  BY <1>12 DEF SaveStock, SetActive, holdVars, requestVars, couponVars,
     TypeOK, CouponsMatchOrders, PlacedOrders, CouponOK
<1>13. ASSUME NEW p \in Edited, AbandonEdit(p)
      PROVE  CouponsMatchOrders'
  BY <1>13 DEF AbandonEdit, holdVars, requestVars, couponVars, TypeOK,
     CouponsMatchOrders, PlacedOrders, CouponOK
<1>14. ASSUME NEW p \in Edited, Archive(p)
      PROVE  CouponsMatchOrders'
  BY <1>14 DEF Archive, holdVars, requestVars, couponVars, TypeOK,
     CouponsMatchOrders, PlacedOrders, CouponOK
<1>15. ASSUME NEW p \in Edited, DeleteProduct(p)
      PROVE  CouponsMatchOrders'
  BY <1>15 DEF DeleteProduct, holdVars, requestVars,
     couponVars, TypeOK,
     CouponsMatchOrders, PlacedOrders, CouponOK
<1>16. ASSUME NEW p \in Edited, NEW onSale \in BOOLEAN,
             ModerateProduct(p, onSale)
      PROVE  CouponsMatchOrders'
  BY <1>16 DEF ModerateProduct, SetActive, holdVars, requestVars,
     couponVars, TypeOK,
     CouponsMatchOrders, PlacedOrders, CouponOK
<1>17. ASSUME NEW c \in Coupons, DisableCoupon(c)
      PROVE  CouponsMatchOrders'
  BY <1>17 DEF DisableCoupon, productVars, holdVars, requestVars, TypeOK,
     CouponsMatchOrders, PlacedOrders, CouponOK
<1>18. CASE Tick
  BY <1>18 DEF Tick, productVars, holdVars, requestVars, couponVars, TypeOK,
     CouponsMatchOrders, PlacedOrders, CouponOK
<1>19. CASE UNCHANGED vars
  BY <1>19 DEF vars, productVars, holdVars, requestVars, couponVars, TypeOK,
     CouponsMatchOrders, PlacedOrders, CouponOK
<1>20. QED
  BY <1>1, <1>2, <1>3, <1>4, <1>5, <1>6, <1>7, <1>8, <1>9, <1>10, <1>11,
     <1>12, <1>13, <1>14, <1>15, <1>16, <1>17, <1>18, <1>19
     DEF Next, HoldNext, PlaceNext, SellerNext

\* What SettledIsFinal says of one hold and one step.
Stays(h) == holdStatus[h] \in Settled =>
              /\ holdStatus'[h] = holdStatus[h]
              /\ held'[h] = held[h]
              /\ phone'[h] = phone[h]

\* No step touches a settled hold.
LEMMA SettledStep ==
  ASSUME TypeOK, [Next]_vars, NEW h \in Holds
  PROVE  Stays(h)
<1>1. ASSUME NEW g \in Holds, NEW q \in Baskets(Products), CreateHold(g, q)
      PROVE  Stays(h)
  BY <1>1 DEF CreateHold, CanTake, Take, requestVars, couponVars, TypeOK,
     Stays, Settled
<1>2. ASSUME NEW g \in Holds, CancelHold(g)
      PROVE  Stays(h)
  BY <1>2 DEF CancelHold, Return, requestVars, couponVars, TypeOK, Stays,
     Settled
<1>3. CASE Sweep
  BY <1>3 DEF Sweep, Overdue, ActiveHolds, requestVars, couponVars, TypeOK,
     Stays, Settled
<1>4. ASSUME NEW o \in Orders, NEW q \in Baskets(Products), NEW c \in Coupons
             \cup {NoCoupon}, QuoteDirect(o, q, c)
      PROVE  Stays(h)
  BY <1>4 DEF QuoteDirect, productVars, holdVars, couponVars, TypeOK, Stays,
     Settled
<1>5. ASSUME NEW o \in Orders, NEW g \in Holds, NEW c \in Coupons \cup
             {NoCoupon}, QuoteHold(o, g, c)
      PROVE  Stays(h)
  BY <1>5 DEF QuoteHold, productVars, holdVars, couponVars, TypeOK, Stays,
     Settled
<1>6. ASSUME NEW o \in Orders, AttachPhone(o)
      PROVE  Stays(h)
  BY <1>6 DEF AttachPhone, productVars, couponVars, TypeOK, Stays, Settled
<1>7. ASSUME NEW o \in Orders, PlaceDirect(o)
      PROVE  Stays(h)
  BY <1>7 DEF PlaceDirect, RedeemCoupon, CanTake, Take, holdVars, TypeOK,
     Stays, Settled
<1>8. ASSUME NEW o \in Orders, PlaceFromHold(o)
      PROVE  Stays(h)
  BY <1>8 DEF PlaceFromHold, RedeemCoupon, productVars, TypeOK, Stays, Settled
<1>9. ASSUME NEW o \in Orders, GiveUp(o)
      PROVE  Stays(h)
  BY <1>9 DEF GiveUp, productVars, holdVars, couponVars, TypeOK, Stays,
     Settled
<1>10. ASSUME NEW p \in Edited, BeginEdit(p)
      PROVE  Stays(h)
  BY <1>10 DEF BeginEdit, holdVars, requestVars, couponVars, TypeOK, Stays,
     Settled
<1>11. ASSUME NEW p \in Edited, NEW onSale \in BOOLEAN, SaveEdit(p, onSale)
      PROVE  Stays(h)
  BY <1>11 DEF SaveEdit, SetActive, holdVars, requestVars, couponVars, TypeOK,
     Stays, Settled
<1>12. ASSUME NEW p \in Edited, NEW n \in 0..MaxStock, NEW onSale \in BOOLEAN,
             SaveStock(p, n, onSale)
      PROVE  Stays(h)
  BY <1>12 DEF SaveStock, SetActive, holdVars, requestVars, couponVars,
     TypeOK, Stays, Settled
<1>13. ASSUME NEW p \in Edited, AbandonEdit(p)
      PROVE  Stays(h)
  BY <1>13 DEF AbandonEdit, holdVars, requestVars, couponVars, TypeOK, Stays,
     Settled
<1>14. ASSUME NEW p \in Edited, Archive(p)
      PROVE  Stays(h)
  BY <1>14 DEF Archive, holdVars, requestVars, couponVars, TypeOK, Stays,
     Settled
<1>15. ASSUME NEW p \in Edited, DeleteProduct(p)
      PROVE  Stays(h)
  BY <1>15 DEF DeleteProduct, holdVars, requestVars,
     couponVars, TypeOK,
     Stays, Settled
<1>16. ASSUME NEW p \in Edited, NEW onSale \in BOOLEAN,
             ModerateProduct(p, onSale)
      PROVE  Stays(h)
  BY <1>16 DEF ModerateProduct, SetActive, holdVars, requestVars,
     couponVars, TypeOK,
     Stays, Settled
<1>17. ASSUME NEW c \in Coupons, DisableCoupon(c)
      PROVE  Stays(h)
  BY <1>17 DEF DisableCoupon, productVars, holdVars, requestVars, TypeOK,
     Stays, Settled
<1>18. CASE Tick
  BY <1>18 DEF Tick, productVars, holdVars, requestVars, couponVars, TypeOK,
     Stays, Settled
<1>19. CASE UNCHANGED vars
  BY <1>19 DEF vars, productVars, holdVars, requestVars, couponVars, TypeOK,
     Stays, Settled
<1>20. QED
  BY <1>1, <1>2, <1>3, <1>4, <1>5, <1>6, <1>7, <1>8, <1>9, <1>10, <1>11,
     <1>12, <1>13, <1>14, <1>15, <1>16, <1>17, <1>18, <1>19
     DEF Next, HoldNext, PlaceNext, SellerNext

\* A shop that has just opened satisfies the invariant.
LEMMA InitInductive == Init => Inductive
<1> SUFFICES ASSUME Init PROVE Inductive
  OBVIOUS
<1>1. TypeOK
  BY InitType
<1>2. ActiveHolds = {} /\ PlacedOrders = {}
  BY DEF Init, ActiveHolds, PlacedOrders
<1>3. \A p \in Products : Held(p) = 0 /\ Sold(p) = 0
  BY <1>2, TotalEmpty DEF Held, Sold
<1>4. StockBalances
  BY <1>1, <1>3 DEF Init, StockBalances, TypeOK
<1>5. RequestsMatchHolds
  BY DEF Init, RequestsMatchHolds
<1>6. OrdersMatchHolds
  BY <1>2 DEF Init, OrdersMatchHolds
<1>7. CouponsMatchOrders
  BY <1>2 DEF Init, CouponsMatchOrders
<1>8. QED
  BY <1>1, <1>4, <1>5, <1>6, <1>7 DEF Inductive

LEMMA InductiveStep == Inductive /\ [Next]_vars => Inductive'
<1> SUFFICES ASSUME Inductive, [Next]_vars PROVE Inductive'
  OBVIOUS
<1>1. TypeOK'
  BY TypeStep DEF Inductive
<1>2. StockBalances'
  BY BalanceStep DEF Inductive, StockBalances, Balanced
<1>3. RequestsMatchHolds'
  BY RequestsStep DEF Inductive
<1>4. OrdersMatchHolds'
  BY OrdersStep DEF Inductive
<1>5. CouponsMatchOrders'
  BY CouponsStep DEF Inductive
<1>6. QED
  BY <1>1, <1>2, <1>3, <1>4, <1>5 DEF Inductive

\* The invariant holds in every reachable state of a shop of any size.
THEOREM Invariance == Spec => []Inductive
<1>1. QED
  BY InitInductive, InductiveStep, PTL DEF Spec

\* No piece of any product is lost or made: shelf, active holds and orders add
\* up to what the seller declared and what product edits wrote over.
THEOREM StockAddsUp == Spec => []StockBalances
<1>1. Inductive => StockBalances
  BY DEF Inductive
<1>2. QED
  BY <1>1, Invariance, PTL

\* Requests in flight and committed orders have the lines of the holds they
\* name, and each consumed hold has exactly one order.
THEOREM HoldsAndOrdersAgree == Spec => [](RequestsMatchHolds /\ OrdersMatchHolds)
<1>1. Inductive => RequestsMatchHolds /\ OrdersMatchHolds
  BY DEF Inductive
<1>2. QED
  BY <1>1, Invariance, PTL

\* A coupon is redeemed by exactly one committed order, or not at all.
THEOREM CouponsAreSingleUse == Spec => []CouponsMatchOrders
<1>1. Inductive => CouponsMatchOrders
  BY DEF Inductive
<1>2. QED
  BY <1>1, Invariance, PTL

\* Only a product edit can make the shop promise more than it has.
THEOREM OversellNeedsEdit == Spec => []OversoldOnlyByEdits
<1>1. ASSUME Inductive PROVE OversoldOnlyByEdits
  <2> SUFFICES ASSUME NEW p \in Products, drift[p] <= 0
               PROVE  Held(p) + Sold(p) <= owned[p]
    BY DEF OversoldOnlyByEdits
  <2>1. stock[p] + Held(p) + Sold(p) = owned[p] + drift[p]
    BY <1>1 DEF Inductive, StockBalances
  <2>2. stock[p] \in Nat /\ owned[p] \in Int /\ drift[p] \in Int
    BY <1>1 DEF Inductive, TypeOK
  <2>3. Held(p) \in Nat /\ Sold(p) \in Nat
    BY SumsType
  <2>4. QED
    BY <2>1, <2>2, <2>3
<1>2. QED
  BY <1>1, Invariance, PTL

\* A settled hold stays exactly as it was settled.
THEOREM SettledHoldsStay == Spec => SettledIsFinal
<1>1. ASSUME TypeOK, [Next]_vars PROVE \A h \in Holds : Stays(h)
  BY <1>1, SettledStep
<1>2. QED
  BY <1>1, TypeCorrect, PTL DEF Spec, SettledIsFinal, Stays
=============================================================================
