--------------------------- MODULE PlatformProofs ---------------------------
(***************************************************************************)
(* The platform and its shops.  Of the fees: one claim is under review at  *)
(* most, each approved claim is paid once and no other, reviews are final, *)
(* and what an order is charged stays.  Of the admins: the platform keeps  *)
(* one, and a report that was closed with a suspension saw one.            *)
(***************************************************************************)
EXTENDS FeeLedger, AdminDesk, TLAPS

ClaimRecords == [status : {"pending", "approved", "rejected"}, amount : Amounts]

\* A drawer with buttons shows a claim that was made.
DrawerShowsClaims ==
  /\ drawer \in [Desks -> [claim : Claims \cup {NoClaim}, pending : BOOLEAN]]
  /\ \A a \in Desks : drawer[a].pending => drawer[a].claim \in DOMAIN claims

LedgerInv ==
  /\ DOMAIN claims \subseteq Claims
  /\ claims \in [DOMAIN claims -> ClaimRecords]
  /\ DrawerShowsClaims
  /\ OnePendingClaim
  /\ ClaimPaidOnce

\* The invariant only reads claims, payments and drawer.
LEMMA LedgerKeeps ==
  ASSUME LedgerInv, UNCHANGED <<claims, payments, drawer>>
  PROVE  LedgerInv'
  BY DEF LedgerInv, DrawerShowsClaims, OnePendingClaim, ClaimPaidOnce, PaymentsOf,
         Pending

\* Create: a claim is made only when none is pending, and nothing is paid for it.
LEMMA CreateKeeps ==
  ASSUME LedgerInv, NEW t \in Tabs, NEW c \in Claims, Create(t, c)
  PROVE  LedgerInv'
<1>1. CASE UNCHANGED claims
  BY <1>1, LedgerKeeps DEF Create
<1>2. CASE Pending = {} /\ \E a \in Amounts :
             claims' = [d \in DOMAIN claims \cup {c} |->
                          IF d = c THEN [status |-> "pending", amount |-> a] ELSE claims[d]]
  <2>1. PICK a \in Amounts :
          claims' = [d \in DOMAIN claims \cup {c} |->
                       IF d = c THEN [status |-> "pending", amount |-> a] ELSE claims[d]]
    BY <1>2
  <2>2. /\ c \notin DOMAIN claims
        /\ UNCHANGED <<payments, drawer>>
    BY DEF Create
  <2>3. /\ DOMAIN claims' = DOMAIN claims \cup {c}
        /\ claims'[c] = [status |-> "pending", amount |-> a]
        /\ \A d \in DOMAIN claims : claims'[d] = claims[d]
    BY <2>1, <2>2
  <2>4. DOMAIN claims' \subseteq Claims /\ claims' \in [DOMAIN claims' -> ClaimRecords]
    BY <2>1, <2>3 DEF LedgerInv, ClaimRecords
  <2>5. DrawerShowsClaims'
    BY <2>2, <2>3 DEF LedgerInv, DrawerShowsClaims
  <2>6. Pending' = {c}
    BY <1>2, <2>3 DEF Pending
  <2>7. OnePendingClaim'
    BY <2>6 DEF OnePendingClaim
  <2>8. \A d \in Claims : PaymentsOf(d)' = PaymentsOf(d)
    BY <2>2 DEF PaymentsOf
  <2>9. ClaimPaidOnce'
    <3> SUFFICES ASSUME NEW d \in Claims
                 PROVE  IF d \in DOMAIN claims' /\ claims'[d].status = "approved"
                        THEN \E p \in payments' :
                               PaymentsOf(d)' = {p} /\ p.amount = claims'[d].amount
                        ELSE PaymentsOf(d)' = {}
      BY DEF ClaimPaidOnce
    <3>1. CASE d = c
      BY <3>1, <2>2, <2>3, <2>8 DEF LedgerInv, ClaimPaidOnce
    <3>2. CASE d # c
      BY <3>2, <2>2, <2>3, <2>8 DEF LedgerInv, ClaimPaidOnce
    <3> QED BY <3>1, <3>2
  <2> QED BY <2>4, <2>5, <2>7, <2>9 DEF LedgerInv
<1> QED BY <1>1, <1>2 DEF Create

\* Approve: a pending claim gets its one payment.
LEMMA ApproveKeeps ==
  ASSUME LedgerInv, NEW a \in Desks, Approve(a)
  PROVE  LedgerInv'
<1> DEFINE c == drawer[a].claim
           paid == [no |-> Cardinality(payments) + 1, claim |-> c, amount |-> claims[c].amount]
<1>1. CASE c \notin Pending
  BY <1>1, LedgerKeeps DEF Approve
<1>2. CASE c \in Pending
  <2>1. /\ claims' = [claims EXCEPT ![c].status = "approved"]
        /\ payments' = payments \cup {paid}
        /\ drawer' = [drawer EXCEPT ![a] = [claim |-> NoClaim, pending |-> FALSE]]
    BY <1>2 DEF Approve
  <2>2. c \in DOMAIN claims /\ c \in Claims /\ claims[c].status = "pending"
    BY <1>2 DEF Pending, LedgerInv
  <2>3. /\ DOMAIN claims' = DOMAIN claims
        /\ claims'[c].status = "approved" /\ claims'[c].amount = claims[c].amount
        /\ \A d \in DOMAIN claims : d # c => claims'[d] = claims[d]
    BY <2>1, <2>2 DEF LedgerInv, ClaimRecords
  <2>4. DOMAIN claims' \subseteq Claims /\ claims' \in [DOMAIN claims' -> ClaimRecords]
    BY <2>1, <2>2, <2>3 DEF LedgerInv, ClaimRecords
  <2>5. DrawerShowsClaims'
    BY <2>1, <2>3 DEF LedgerInv, DrawerShowsClaims
  <2>6. Pending' \subseteq Pending
    BY <2>3 DEF Pending
  <2>7. OnePendingClaim'
    BY <2>6 DEF LedgerInv, OnePendingClaim
  <2>8. paid.claim = c /\ paid.amount = claims[c].amount
    OBVIOUS
  <2> HIDE DEF paid
  <2>9. ClaimPaidOnce'
    <3> SUFFICES ASSUME NEW d \in Claims
                 PROVE  IF d \in DOMAIN claims' /\ claims'[d].status = "approved"
                        THEN \E p \in payments' :
                               PaymentsOf(d)' = {p} /\ p.amount = claims'[d].amount
                        ELSE PaymentsOf(d)' = {}
      BY DEF ClaimPaidOnce
    <3>1. CASE d = c
      <4>1. PaymentsOf(d) = {}
        BY <3>1, <2>2 DEF LedgerInv, ClaimPaidOnce
      <4>2. PaymentsOf(d)' = {paid}
        BY <3>1, <4>1, <2>1, <2>8 DEF PaymentsOf
      <4> QED BY <3>1, <4>2, <2>1, <2>2, <2>3, <2>8
    <3>2. CASE d # c
      <4>1. PaymentsOf(d)' = PaymentsOf(d)
        BY <3>2, <2>1, <2>8 DEF PaymentsOf
      <4> QED BY <3>2, <4>1, <2>1, <2>3 DEF LedgerInv, ClaimPaidOnce
    <3> QED BY <3>1, <3>2
  <2> QED BY <2>4, <2>5, <2>7, <2>9 DEF LedgerInv
<1> QED BY <1>1, <1>2

\* Reject: only a pending claim changes, and it was not paid.
LEMMA RejectKeeps ==
  ASSUME LedgerInv, NEW a \in Desks, Reject(a)
  PROVE  LedgerInv'
<1> DEFINE c == drawer[a].claim
<1>1. CASE c \notin Pending
  BY <1>1, LedgerKeeps DEF Reject
<1>2. CASE c \in Pending
  <2>1. /\ claims' = [claims EXCEPT ![c].status = "rejected"]
        /\ payments' = payments
        /\ drawer' = [drawer EXCEPT ![a] = [claim |-> NoClaim, pending |-> FALSE]]
    BY <1>2 DEF Reject
  <2>2. c \in DOMAIN claims /\ c \in Claims /\ claims[c].status = "pending"
    BY <1>2 DEF Pending, LedgerInv
  <2>3. /\ DOMAIN claims' = DOMAIN claims
        /\ claims'[c].status = "rejected"
        /\ \A d \in DOMAIN claims : d # c => claims'[d] = claims[d]
    BY <2>1, <2>2 DEF LedgerInv, ClaimRecords
  <2>4. DOMAIN claims' \subseteq Claims /\ claims' \in [DOMAIN claims' -> ClaimRecords]
    BY <2>1, <2>2, <2>3 DEF LedgerInv, ClaimRecords
  <2>5. DrawerShowsClaims'
    BY <2>1, <2>3 DEF LedgerInv, DrawerShowsClaims
  <2>6. Pending' \subseteq Pending
    BY <2>3 DEF Pending
  <2>7. OnePendingClaim'
    BY <2>6 DEF LedgerInv, OnePendingClaim
  <2>8. ClaimPaidOnce'
    BY <2>1, <2>2, <2>3 DEF LedgerInv, ClaimPaidOnce, PaymentsOf
  <2> QED BY <2>4, <2>5, <2>7, <2>8 DEF LedgerInv
<1> QED BY <1>1, <1>2

\* The drawer takes a copy of a claim that was made.
LEMMA DrawerKeeps ==
  ASSUME LedgerInv, NEW a \in Desks,
         CloseDrawer(a) \/ \E c \in Claims : OpenDrawer(a, c)
  PROVE  LedgerInv'
<1>1. UNCHANGED <<claims, payments>>
  BY DEF CloseDrawer, OpenDrawer, claimVars
<1>2. PICK copy \in [claim : Claims \cup {NoClaim}, pending : BOOLEAN] :
        /\ drawer' = [drawer EXCEPT ![a] = copy]
        /\ copy.pending => copy.claim \in DOMAIN claims
  <2>1. CASE CloseDrawer(a)
    <3>1. drawer' = [drawer EXCEPT ![a] = [claim |-> NoClaim, pending |-> FALSE]]
      BY <2>1 DEF CloseDrawer
    <3>2. [claim |-> NoClaim, pending |-> FALSE]
            \in [claim : Claims \cup {NoClaim}, pending : BOOLEAN]
      OBVIOUS
    <3>3. [claim |-> NoClaim, pending |-> FALSE].pending = FALSE
      OBVIOUS
    <3> QED BY <3>1, <3>2, <3>3, Zenon
  <2>2. ASSUME NEW c \in Claims, OpenDrawer(a, c)
        PROVE  \E copy \in [claim : Claims \cup {NoClaim}, pending : BOOLEAN] :
                 /\ drawer' = [drawer EXCEPT ![a] = copy]
                 /\ copy.pending => copy.claim \in DOMAIN claims
    <3>1. /\ c \in DOMAIN claims
          /\ drawer' = [drawer EXCEPT ![a] = [claim |-> c, pending |-> c \in Pending]]
      BY <2>2 DEF OpenDrawer
    <3>2. [claim |-> c, pending |-> c \in Pending]
            \in [claim : Claims \cup {NoClaim}, pending : BOOLEAN]
      OBVIOUS
    <3> QED BY <3>1, <3>2
  <2> QED BY <2>1, <2>2
<1>3. DrawerShowsClaims'
  BY <1>1, <1>2 DEF LedgerInv, DrawerShowsClaims
<1> QED BY <1>1, <1>3 DEF LedgerInv, OnePendingClaim, ClaimPaidOnce, PaymentsOf, Pending

\* A payment that is recorded by hand is no payment of a claim.
LEMMA RecordKeeps ==
  ASSUME LedgerInv, RecordFeePayment
  PROVE  LedgerInv'
<1>1. PICK amount \in Amounts :
        payments' = payments \cup
          {[no |-> Cardinality(payments) + 1, claim |-> ByHand, amount |-> amount]}
  BY DEF RecordFeePayment
<1>2. UNCHANGED <<claims, drawer>>
  BY DEF RecordFeePayment, tabVars
<1>3. \A c \in Claims : PaymentsOf(c)' = PaymentsOf(c)
  BY <1>1, LedgerAssumption DEF PaymentsOf
<1>4. payments \subseteq payments'
  BY <1>1
<1>5. ClaimPaidOnce'
  BY <1>2, <1>3, <1>4 DEF LedgerInv, ClaimPaidOnce
<1> QED BY <1>2, <1>5 DEF LedgerInv, DrawerShowsClaims, OnePendingClaim, Pending

LEMMA LedgerStep ==
  ASSUME LedgerInv, [LedgerNext]_ledgerVars
  PROVE  LedgerInv'
<1>1. CASE \E t \in Tabs, c \in Claims : Create(t, c)
  BY <1>1, CreateKeeps
<1>2. CASE \E a \in Desks : Approve(a)
  BY <1>2, ApproveKeeps
<1>3. CASE \E a \in Desks : Reject(a)
  BY <1>3, RejectKeeps
<1>4. CASE \E a \in Desks : CloseDrawer(a) \/ \E c \in Claims : OpenDrawer(a, c)
  BY <1>4, DrawerKeeps
<1>5. CASE RecordFeePayment
  BY <1>5, RecordKeeps
<1>6. CASE \E o \in FeeOrders : PlaceOrder(o) \/ CancelOrReopen(o)
  BY <1>6, LedgerKeeps DEF PlaceOrder, CancelOrReopen, claimVars, tabVars
<1>7. CASE SetDefaultRule \/ SetShopRule \/ ResetShopRule
  BY <1>7, LedgerKeeps DEF SetDefaultRule, SetShopRule, ResetShopRule, claimVars, tabVars
<1>8. CASE \E t \in Tabs : LoadBilling(t) \/ SubmitPayment(t)
  BY <1>8, LedgerKeeps DEF LoadBilling, SubmitPayment, claimVars
<1>9. CASE UNCHANGED ledgerVars
  BY <1>9, LedgerKeeps DEF ledgerVars, claimVars, tabVars
<1> QED BY <1>1, <1>2, <1>3, <1>4, <1>5, <1>6, <1>7, <1>8, <1>9 DEF LedgerNext

\* The inductive invariant holds in every state of the specification.
THEOREM LedgerInvariance == LedgerSpec => []LedgerInv
<1>1. LedgerInit => LedgerInv
  BY DEF LedgerInit, LedgerInv, DrawerShowsClaims, OnePendingClaim, ClaimPaidOnce,
         Pending, PaymentsOf
<1> QED BY <1>1, LedgerStep, PTL DEF LedgerSpec

\* The seller never has two claims under review (billing_repo.go, Create).
THEOREM ClaimsComeOneByOne == LedgerSpec => []OnePendingClaim
BY LedgerInvariance, PTL DEF LedgerInv

\* Each approved claim is deducted once, and nothing is deducted for another
\* claim (billing_repo.go, Approve and MarkRejected).
THEOREM ApprovedIsPaidOnce == LedgerSpec => []ClaimPaidOnce
BY LedgerInvariance, PTL DEF LedgerInv

\* A review is final.
THEOREM ReviewsAreFinal == LedgerSpec => ReviewIsFinal
<1> DEFINE Final == \A c \in DOMAIN claims :
                      /\ c \in DOMAIN claims'
                      /\ claims[c].status # "pending" => claims'[c] = claims[c]
<1>1. ASSUME LedgerInv, LedgerNext
      PROVE  Final
  <2>1. CASE UNCHANGED claims
    BY <2>1
  <2>2. ASSUME NEW t \in Tabs, NEW c \in Claims, Create(t, c)
        PROVE  Final
    BY <2>2 DEF Create
  <2>3. ASSUME NEW a \in Desks, Approve(a)
        PROVE  Final
    BY <1>1, <2>3 DEF Approve, Pending, LedgerInv
  <2>4. ASSUME NEW a \in Desks, Reject(a)
        PROVE  Final
    BY <1>1, <2>4 DEF Reject, Pending, LedgerInv
  <2>5. (\E t \in Tabs, c \in Claims : Create(t, c)) \/ (\E a \in Desks : Approve(a))
          \/ (\E a \in Desks : Reject(a)) \/ UNCHANGED claims
    BY <1>1 DEF LedgerNext, PlaceOrder, CancelOrReopen, SetDefaultRule, SetShopRule,
                ResetShopRule, LoadBilling, SubmitPayment, OpenDrawer, CloseDrawer,
                RecordFeePayment, claimVars
  <2> QED BY <2>1, <2>2, <2>3, <2>4, <2>5
<1>2. LedgerInv /\ [LedgerNext]_ledgerVars => [Final]_ledgerVars
  BY <1>1
<1> QED BY <1>2, LedgerInvariance, PTL DEF LedgerSpec, ReviewIsFinal
-----------------------------------------------------------------------------
(* The charges.                                                            *)

\* An order as it was saved, with the rule of its day.
OrderRows == [units : Pieces, total : {10 * n : n \in Pieces}, rule : Rules \cup {NoRule},
              cancelled : BOOLEAN]

\* Every order has a rule of its own, one of those an admin has set.
OrdersInv ==
  /\ defaultRule \in Rules /\ shopRule \in Rules \cup {NoRule}
  /\ DOMAIN placed \subseteq FeeOrders /\ placed \in [DOMAIN placed -> OrderRows]

\* What OrdersKeepCharges says of a step, order by order.
KeepsCharge(o) ==
  /\ o \in DOMAIN placed'
  /\ placed'[o].cancelled \/ fee(o)' = feeBy(placed[o].rule, placed[o])
  /\ feeBy(placed'[o].rule, placed'[o]) = feeBy(placed[o].rule, placed[o])

ChargesKept == \A o \in DOMAIN placed : KeepsCharge(o)

\* The charge is by the rule, the units and the total.
LEMMA SameFee ==
  ASSUME NEW rule, NEW order, NEW other, order.total = other.total, order.units = other.units
  PROVE  feeBy(rule, order) = feeBy(rule, other)
  BY DEF feeBy

\* An order that is not cancelled is charged by the rule saved with it.
LEMMA FeeBySavedRule ==
  ASSUME NEW o, ~placed'[o].cancelled PROVE fee(o)' = feeBy(placed'[o].rule, placed'[o])
  BY DEF fee, feeBy

LEMMA FeeStays ==
  ASSUME NEW o, o \in DOMAIN placed', placed'[o] = placed[o] PROVE KeepsCharge(o)
<1>1. feeBy(placed'[o].rule, placed'[o]) = feeBy(placed[o].rule, placed[o])
  OBVIOUS
<1> QED
  BY <1>1, FeeBySavedRule DEF KeepsCharge

LEMMA OrdersSame ==
  ASSUME OrdersInv, UNCHANGED placed, defaultRule' \in Rules, shopRule' \in Rules \cup {NoRule}
  PROVE  OrdersInv' /\ ChargesKept
  BY FeeStays DEF OrdersInv, ChargesKept

LEMMA OrdersPlaced ==
  ASSUME OrdersInv, NEW o \in FeeOrders, PlaceOrder(o)
  PROVE  OrdersInv' /\ ChargesKept
<1>1. PICK n \in Pieces :
        placed' = [q \in DOMAIN placed \cup {o} |->
                     IF q = o THEN [units |-> n, total |-> 10 * n,
                                    rule |-> ForShop, cancelled |-> FALSE]
                              ELSE placed[q]]
  BY DEF PlaceOrder
<1>2. [units |-> n, total |-> 10 * n, rule |-> ForShop, cancelled |-> FALSE] \in OrderRows
  BY DEF OrdersInv, OrderRows, ForShop
<1>3. /\ DOMAIN placed' = DOMAIN placed \cup {o}
      /\ \A q \in DOMAIN placed : placed'[q] = placed[q]
  BY <1>1 DEF PlaceOrder
<1>4. placed' \in [DOMAIN placed' -> OrderRows]
  BY <1>1, <1>2 DEF OrdersInv
<1>5. \A q \in DOMAIN placed : KeepsCharge(q)
  BY <1>3, FeeStays
<1> QED
  BY <1>3, <1>4, <1>5 DEF OrdersInv, ChargesKept, PlaceOrder, ruleVars

LEMMA OrdersCancelled ==
  ASSUME OrdersInv, NEW o \in FeeOrders, CancelOrReopen(o)
  PROVE  OrdersInv' /\ ChargesKept
<1> DEFINE new == [placed[o] EXCEPT !.cancelled = ~placed[o].cancelled]
<1>1. placed' = [placed EXCEPT ![o] = new] /\ o \in DOMAIN placed
  BY DEF CancelOrReopen
<1>2. placed[o] \in OrderRows
  BY <1>1 DEF OrdersInv
<1>3. /\ new \in OrderRows /\ new.units = placed[o].units /\ new.total = placed[o].total
      /\ new.rule = placed[o].rule
  BY <1>2 DEF OrderRows
<1> HIDE DEF new
<1>4. /\ DOMAIN placed' = DOMAIN placed /\ placed'[o] = new
      /\ \A q \in DOMAIN placed \ {o} : placed'[q] = placed[q]
  BY <1>1
<1>5. placed' \in [DOMAIN placed' -> OrderRows]
  BY <1>1, <1>3 DEF OrdersInv
<1>6. feeBy(new.rule, new) = feeBy(placed[o].rule, placed[o])
  BY <1>3, SameFee
<1>7. KeepsCharge(o)
  <2>1. feeBy(placed'[o].rule, placed'[o]) = feeBy(placed[o].rule, placed[o])
    BY <1>4, <1>6
  <2> QED
    BY <1>1, <1>4, <2>1, FeeBySavedRule DEF KeepsCharge
<1>8. \A q \in DOMAIN placed \ {o} : KeepsCharge(q)
  BY <1>4, FeeStays
<1>9. ChargesKept
  BY <1>7, <1>8 DEF ChargesKept
<1> QED
  BY <1>4, <1>5, <1>9 DEF OrdersInv, CancelOrReopen, ruleVars

\* Every step but those of the orders leaves the orders alone.
LEMMA OrdersStep ==
  ASSUME OrdersInv, [LedgerNext]_ledgerVars
  PROVE  OrdersInv' /\ ChargesKept
<1>1. ASSUME NEW o \in FeeOrders, PlaceOrder(o) \/ CancelOrReopen(o)
      PROVE  OrdersInv' /\ ChargesKept
  BY <1>1, OrdersPlaced, OrdersCancelled
<1>2. CASE SetDefaultRule \/ SetShopRule \/ ResetShopRule
  BY <1>2, OrdersSame DEF SetDefaultRule, SetShopRule, ResetShopRule, OrdersInv
<1>3. UNCHANGED <<placed, ruleVars>> => OrdersInv' /\ ChargesKept
  BY OrdersSame DEF ruleVars, OrdersInv
<1>4. ASSUME NEW t \in Tabs, NEW c \in Claims, LoadBilling(t) \/ SubmitPayment(t) \/ Create(t, c)
      PROVE  UNCHANGED <<placed, ruleVars>>
  BY <1>4 DEF LoadBilling, SubmitPayment, Create
<1>5. ASSUME NEW t \in Tabs, LoadBilling(t) \/ SubmitPayment(t)
      PROVE  UNCHANGED <<placed, ruleVars>>
  BY <1>5 DEF LoadBilling, SubmitPayment
<1>6. ASSUME NEW a \in Desks, NEW c \in Claims, OpenDrawer(a, c)
      PROVE  UNCHANGED <<placed, ruleVars>>
  BY <1>6 DEF OpenDrawer
<1>7. ASSUME NEW a \in Desks, CloseDrawer(a) \/ Approve(a) \/ Reject(a)
      PROVE  UNCHANGED <<placed, ruleVars>>
  BY <1>7 DEF CloseDrawer, Approve, Reject
<1>8. RecordFeePayment \/ UNCHANGED ledgerVars => UNCHANGED <<placed, ruleVars>>
  BY DEF RecordFeePayment, ledgerVars
<1> QED
  BY <1>1, <1>2, <1>3, <1>4, <1>5, <1>6, <1>7, <1>8 DEF LedgerNext

\* "Existing order rates and unpaid balances remain unchanged": no order is lost
\* from the ledger, and what one is charged stays what it was when it was placed,
\* whatever rules are set, and through a cancellation and its undoing (the trigger
\* of the orders and the view order_platform_fees).
THEOREM OrderChargesStay == LedgerSpec => OrdersKeepCharges
<1>1. LedgerInit => OrdersInv
  BY DEF LedgerInit, OrdersInv
<1>2. OrdersInv /\ [LedgerNext]_ledgerVars => OrdersInv' /\ [ChargesKept]_ledgerVars
  BY OrdersStep
<1>3. ChargesKept => \A o \in DOMAIN placed :
                       LET charge == feeBy(placed[o].rule, placed[o])
                       IN /\ o \in DOMAIN placed'
                          /\ placed'[o].cancelled \/ fee(o)' = charge
                          /\ feeBy(placed'[o].rule, placed'[o]) = charge
  BY DEF ChargesKept, KeepsCharge
<1> QED
  BY <1>1, <1>2, <1>3, PTL DEF LedgerSpec, OrdersKeepCharges
-----------------------------------------------------------------------------
(***************************************************************************)
(* The admins.  Every list that a tab shows, and every removal that        *)
(* requireAdmin has let in, knows of an admin at least as old, and the     *)
(* removal of an older one.                                                *)
(***************************************************************************)
Requests == [by : Users, to : Users, make : BOOLEAN]

\* No list is older than the oldest admin, and no removal is aimed at him.
TeamInv ==
  /\ admins \in SUBSET Users /\ admins # {}
  /\ team \in [Users -> SUBSET Users]
  /\ entered \in SUBSET Requests
  /\ \A u \in Users : \A m \in team[u] : \E o \in admins : o <= m
  /\ \A r \in entered : ~r.make => \E o \in admins : o < r.to

LEMMA InitTeam == AdminInit => TeamInv
BY DEF AdminInit, TeamInv

LEMMA LoadTeamStep ==
  ASSUME TeamInv, NEW u \in Users, LoadTeam(u)
  PROVE  TeamInv'
<1>0. Users \subseteq Nat  BY AdminAssumption
<1>1. \A m \in admins : \E o \in admins : o <= m  BY <1>0 DEF TeamInv
<1>2. QED  BY <1>1 DEF TeamInv, LoadTeam

LEMMA LetInStep ==
  ASSUME TeamInv, NEW u \in Users, NEW m \in Users, NEW make \in BOOLEAN, LetIn(u, m, make),
         ~make => \E o \in admins : o < m
  PROVE  TeamInv'
<1>1. entered' \in SUBSET Requests  BY DEF TeamInv, LetIn, Requests
<1>2. \A r \in entered' : ~r.make => \E o \in admins' : o < r.to
  BY DEF TeamInv, LetIn
<1>3. QED  BY <1>1, <1>2 DEF TeamInv, LetIn

LEMMA DemoteStep ==
  ASSUME TeamInv, NEW u \in Users, NEW m \in Users, Demote(u, m)
  PROVE  TeamInv'
<1>0. Users \subseteq Nat  BY AdminAssumption
<1>1. PICK o \in team[u] : o < m  BY DEF Demote, Removable
<1>2. PICK a \in admins : a <= o  BY <1>1 DEF TeamInv
<1>3. a \in Nat /\ o \in Nat /\ m \in Nat  BY <1>0, <1>1, <1>2 DEF TeamInv
<1>4. a < m  BY <1>1, <1>2, <1>3
<1>5. QED  BY <1>2, <1>4, LetInStep DEF Demote

LEMMA PromoteStep ==
  ASSUME TeamInv, NEW u \in Users, NEW m \in Users, Promote(u, m)
  PROVE  TeamInv'
BY LetInStep DEF Promote

LEMMA SetUserAdminStep ==
  ASSUME TeamInv, NEW r \in entered, SetUserAdmin(r)
  PROVE  TeamInv'
<1>0. Users \subseteq Nat  BY AdminAssumption
<1>t. r \in Requests /\ r.to \in Users  BY DEF TeamInv, Requests
<1>1. CASE r.make
  <2>1. admins' = admins \cup {r.to}  BY <1>1 DEF SetUserAdmin
  <2>2. QED  BY <2>1, <1>t DEF TeamInv, SetUserAdmin
<1>2. CASE ~r.make /\ r.by = r.to
  <2>1. admins' = admins  BY <1>2 DEF SetUserAdmin
  <2>2. QED  BY <2>1 DEF TeamInv, SetUserAdmin
<1>3. CASE ~r.make /\ r.by # r.to
  <2>1. admins' = admins \ {r.to}  BY <1>3 DEF SetUserAdmin
  <2>2. PICK older \in admins : older < r.to  BY <1>3 DEF TeamInv
  <2>n. older \in Nat /\ r.to \in Nat  BY <1>0, <1>t DEF TeamInv
  <2>d. older # r.to  BY <2>2, <2>n
  <2>3. older \in admins' /\ older \in Nat /\ r.to \in Nat  BY <2>1, <2>d, <2>n
  \* An admin older than somebody may be the one who goes; his elder stays.
  <2>4. ASSUME NEW m \in Nat, NEW o \in admins, o <= m
        PROVE  \E q \in admins' : q <= m
    <3>1. o \in Nat  BY <1>0 DEF TeamInv
    <3>2. CASE o = r.to
      <4>1. older <= m  BY <2>2, <2>3, <2>4, <3>1, <3>2
      <4>2. QED  BY <4>1, <2>3
    <3>3. CASE o # r.to  BY <3>3, <2>1, <2>4
    <3>4. QED  BY <3>2, <3>3
  <2>5. ASSUME NEW m \in Nat, NEW o \in admins, o < m
        PROVE  \E q \in admins' : q < m
    <3>1. o \in Nat  BY <1>0 DEF TeamInv
    <3>2. CASE o = r.to
      <4>1. older < m  BY <2>2, <2>3, <2>5, <3>1, <3>2
      <4>2. QED  BY <4>1, <2>3
    <3>3. CASE o # r.to  BY <3>3, <2>1, <2>5
    <3>4. QED  BY <3>2, <3>3
  <2>6. \A u \in Users : \A m \in team'[u] : \E o \in admins' : o <= m
    <3>1. ASSUME NEW u \in Users, NEW m \in team[u]
          PROVE  \E o \in admins' : o <= m
      <4>1. m \in Nat  BY <3>1, <1>0 DEF TeamInv
      <4>2. PICK o \in admins : o <= m  BY <3>1 DEF TeamInv
      <4>3. QED  BY <4>1, <4>2, <2>4
    <3>2. QED  BY <3>1 DEF SetUserAdmin
  <2>7. \A q \in entered' : ~q.make => \E o \in admins' : o < q.to
    <3>1. ASSUME NEW q \in entered, ~q.make
          PROVE  \E o \in admins' : o < q.to
      <4>1. q.to \in Nat  BY <3>1, <1>0 DEF TeamInv, Requests
      <4>2. PICK o \in admins : o < q.to  BY <3>1 DEF TeamInv
      <4>3. QED  BY <4>1, <4>2, <2>5
    <3>2. QED  BY <3>1 DEF SetUserAdmin
  <2>8. QED  BY <2>1, <2>3, <2>6, <2>7 DEF TeamInv, SetUserAdmin
<1>4. QED  BY <1>1, <1>2, <1>3, <1>t DEF Requests

LEMMA ListStep ==
  ASSUME TeamInv, ListNext
  PROVE  TeamInv'
<1>1. UNCHANGED teamVars
  BY Zenon DEF ListNext, LoadRows, toggleSuspend, toggleActive, Toggle, SetLever, Fail,
         SubmitReport, OpenReport, Change, SuspendAndResolve, UpdateReport
<1>2. QED  BY <1>1 DEF TeamInv, teamVars

\* The strengthening of AnAdminRemains holds in every state.
THEOREM TeamInvariance == AdminSpec => []TeamInv
<1>1. TeamInv /\ [AdminNext]_adminVars => TeamInv'
  <2> SUFFICES ASSUME TeamInv, [AdminNext]_adminVars PROVE TeamInv'
    OBVIOUS
  <2>1. CASE TeamNext
    BY <2>1, LoadTeamStep, DemoteStep, PromoteStep, SetUserAdminStep DEF TeamNext
  <2>2. CASE ListNext  BY <2>2, ListStep
  <2>3. CASE UNCHANGED adminVars  BY <2>3 DEF adminVars, teamVars, TeamInv
  <2>4. QED  BY <2>1, <2>2, <2>3 DEF AdminNext
<1>2. QED  BY InitTeam, <1>1, PTL DEF AdminSpec

\* The admins never lock everybody out (the rows of the team page and the check
\* of SetUserAdmin together).
THEOREM NoLockout == AdminSpec => []AnAdminRemains
<1>1. TeamInv => AnAdminRemains  BY DEF TeamInv, AnAdminRemains
<1>2. QED  BY <1>1, TeamInvariance, PTL
-----------------------------------------------------------------------------
(* The reports.                                                            *)

Levers == {"untouched", "down", "up"}
Statuses == {"open", "reviewing", "resolved", "dismissed"}
ReportRecords == [shop : Shops, status : Statuses, suspended : BOOLEAN]
Jobs == [call : {"none", "lever", "update"}, on : Shops \cup Items \cup {NoReport},
         down : BOOLEAN, report : Reports \cup {NoReport}, status : Statuses]

ReportTypes ==
  /\ lever \in [Shops \cup Items -> Levers]
  /\ rows \in [Staff -> [Shops \cup Items -> BOOLEAN]]
  /\ DOMAIN reports \subseteq Reports
  /\ reports \in [DOMAIN reports -> ReportRecords]
  /\ opened \in [Staff -> DOMAIN reports \cup {NoReport}]
  /\ job \in [Staff -> Jobs]

\* What a call that is under way is about; the second call of the drawer follows
\* a suspension.
JobFits(j) ==
  /\ j.report \in DOMAIN reports \cup {NoReport}
  /\ j.call = "lever" =>
       /\ j.on \in Shops \cup Items
       /\ j.report # NoReport => j.on = reports[j.report].shop
  /\ j.call = "update" =>
       /\ j.report \in DOMAIN reports
       /\ j.down => lever[reports[j.report].shop] # "untouched"

ReportInv ==
  /\ ReportTypes
  /\ \A u \in Staff : JobFits(job[u])
  /\ ResolvedWereSuspended

LEMMA NoJobIsJob == NoJob \in Jobs
BY DEF NoJob, Jobs, Statuses

LEMMA InitReports == AdminInit => ReportInv
<1> SUFFICES ASSUME AdminInit PROVE ReportInv
  OBVIOUS
<1>1. DOMAIN reports = {}  BY DEF AdminInit
<1>2. ReportTypes  BY <1>1, NoJobIsJob DEF AdminInit, ReportTypes, Levers
<1>3. \A u \in Staff : JobFits(job[u])  BY DEF AdminInit, JobFits, NoJob
<1>4. QED  BY <1>1, <1>2, <1>3 DEF ReportInv, ResolvedWereSuspended

\* A tab starts a call: nothing else changes.
LEMMA AskStep ==
  ASSUME ReportInv, NEW u \in Staff, NEW call \in Jobs, Ask(u, call), JobFits(call),
         UNCHANGED <<lever, rows, reports, opened>>
  PROVE  ReportInv'
<1>1. job' = [job EXCEPT ![u] = call]  BY DEF Ask
<1>2. ReportTypes'  BY <1>1 DEF ReportInv, ReportTypes
<1>3. ASSUME NEW v \in Staff PROVE JobFits(job[v])'
  <2>1. job'[v] = IF v = u THEN call ELSE job[v]  BY <1>1 DEF ReportInv, ReportTypes
  <2>2. JobFits(job[v])  BY DEF ReportInv
  <2>3. QED  BY <2>1, <2>2 DEF JobFits
<1>4. QED  BY <1>2, <1>3 DEF ReportInv, ResolvedWereSuspended

LEMMA ToggleStep ==
  ASSUME ReportInv, NEW u \in Staff, NEW x \in Shops \cup Items, Toggle(u, x)
  PROVE  ReportInv'
<1> DEFINE call == [call |-> "lever", on |-> x, down |-> ~rows[u][x],
                    report |-> NoReport, status |-> "open"]
<1>0. rows[u][x] \in BOOLEAN  BY DEF ReportInv, ReportTypes
<1>1. call \in Jobs  BY <1>0 DEF Jobs, Statuses
<1>2. JobFits(call)  BY DEF JobFits
<1>3. Ask(u, call) /\ UNCHANGED <<lever, rows, reports, opened>>
  BY DEF Toggle, listVars, reportVars
<1> HIDE DEF call
<1>4. QED  BY <1>1, <1>2, <1>3, AskStep

LEMMA ChangeStep ==
  ASSUME ReportInv, NEW u \in Staff, NEW status \in {"reviewing", "resolved", "dismissed"},
         Change(u, status)
  PROVE  ReportInv'
<1> DEFINE call == [call |-> "update", on |-> NoReport, down |-> FALSE,
                    report |-> opened[u], status |-> status]
<1>0. opened[u] \in DOMAIN reports /\ opened[u] \in Reports
  BY DEF Change, ReportInv, ReportTypes
<1>1. call \in Jobs  BY <1>0 DEF Jobs, Statuses
<1>2. JobFits(call)  BY <1>0 DEF JobFits
<1>3. Ask(u, call) /\ UNCHANGED <<lever, rows, reports, opened>>
  BY DEF Change, listVars, reportVars
<1> HIDE DEF call
<1>4. QED  BY <1>1, <1>2, <1>3, AskStep

LEMMA SuspendAndResolveStep ==
  ASSUME ReportInv, NEW u \in Staff, SuspendAndResolve(u)
  PROVE  ReportInv'
<1> DEFINE call == [call |-> "lever", on |-> reports[opened[u]].shop, down |-> TRUE,
                    report |-> opened[u], status |-> "resolved"]
<1>0. opened[u] \in DOMAIN reports /\ opened[u] \in Reports
  BY DEF SuspendAndResolve, ReportInv, ReportTypes
<1>a. reports[opened[u]].shop \in Shops
  BY <1>0 DEF ReportInv, ReportTypes, ReportRecords
<1>1. call \in Jobs  BY <1>0, <1>a DEF Jobs, Statuses
<1>2. JobFits(call)  BY <1>0, <1>a DEF JobFits
<1>3. Ask(u, call) /\ UNCHANGED <<lever, rows, reports, opened>>
  BY DEF SuspendAndResolve, listVars, reportVars
<1> HIDE DEF call
<1>4. QED  BY <1>1, <1>2, <1>3, AskStep

LEMMA FailStep ==
  ASSUME ReportInv, NEW u \in Staff, Fail(u)
  PROVE  ReportInv'
<1>1. job' = [job EXCEPT ![u] = NoJob] /\ UNCHANGED <<lever, rows, reports, opened>>
  BY DEF Fail, listVars, reportVars
<1>2. ReportTypes'  BY <1>1, NoJobIsJob DEF ReportInv, ReportTypes
<1>3. ASSUME NEW v \in Staff PROVE JobFits(job[v])'
  <2>1. job'[v] = IF v = u THEN NoJob ELSE job[v]  BY <1>1 DEF ReportInv, ReportTypes
  <2>2. JobFits(job[v]) /\ JobFits(NoJob)  BY DEF ReportInv, JobFits, NoJob
  <2>3. QED  BY <1>1, <2>1, <2>2 DEF JobFits
<1>4. QED  BY <1>1, <1>2, <1>3 DEF ReportInv, ResolvedWereSuspended

\* Whatever a lever is set to, it is not untouched any more, and none goes back.
LEMMA SetLeverStep ==
  ASSUME ReportInv, NEW u \in Staff, SetLever(u)
  PROVE  ReportInv'
<1> DEFINE j == job[u]
           x == j.on
           next == [j EXCEPT !.call = "update"]
<1>0. j \in Jobs /\ j.call = "lever" /\ JobFits(j)
  BY DEF ReportInv, ReportTypes, SetLever
<1>1. x \in Shops \cup Items /\ (j.report # NoReport => x = reports[j.report].shop)
  BY <1>0 DEF JobFits
<1>2. /\ lever' = [lever EXCEPT ![x] = IF j.down THEN "down" ELSE "up"]
      /\ \/ job' = [job EXCEPT ![u] = NoJob]
         \/ j.report # NoReport /\ job' = [job EXCEPT ![u] = next]
      /\ reports' = reports /\ opened' = opened /\ rows' = rows
  BY DEF SetLever, reportVars
<1>3. /\ next \in Jobs /\ next.call = "update"
      /\ next.report = j.report /\ next.down = j.down
  BY <1>0 DEF Jobs
<1>j. j.report \in DOMAIN reports \cup {NoReport}  BY <1>0 DEF JobFits
<1> HIDE DEF j, x, next
<1>4. ReportTypes'
  BY <1>1, <1>2, <1>3, NoJobIsJob DEF ReportInv, ReportTypes, Levers
<1>5. lever'[x] # "untouched" /\ \A y \in Shops \cup Items :
        lever[y] # "untouched" => lever'[y] # "untouched"
  BY <1>1, <1>2 DEF ReportInv, ReportTypes
<1>6. \A r \in DOMAIN reports : reports[r].shop \in Shops
  BY DEF ReportInv, ReportTypes, ReportRecords
<1>7. ASSUME NEW v \in Staff PROVE JobFits(job[v])'
  <2>1. CASE v # u
    <3>1. job'[v] = job[v] /\ JobFits(job[v])  BY <1>2, <2>1 DEF ReportInv, ReportTypes
    <3>2. QED  BY <3>1, <1>2, <1>5, <1>6 DEF JobFits
  <2>2. CASE v = u /\ job' = [job EXCEPT ![u] = NoJob]
    <3>1. job'[v] = NoJob  BY <2>2 DEF ReportInv, ReportTypes
    <3>2. QED  BY <3>1 DEF JobFits, NoJob
  <2>3. CASE v = u /\ j.report # NoReport /\ job' = [job EXCEPT ![u] = next]
    <3>1. job'[v] = next  BY <2>3 DEF ReportInv, ReportTypes
    <3>2. j.report \in DOMAIN reports  BY <2>3, <1>j
    <3>3. lever'[reports'[next.report].shop] # "untouched"
      BY <1>1, <1>2, <1>3, <1>5, <2>3
    <3>4. QED  BY <3>1, <3>2, <3>3, <1>2, <1>3 DEF JobFits
  <2>4. QED  BY <2>1, <2>2, <2>3, <1>2
<1>8. ResolvedWereSuspended'
  BY <1>2, <1>5, <1>6 DEF ReportInv, ResolvedWereSuspended
<1>9. QED  BY <1>4, <1>7, <1>8 DEF ReportInv

LEMMA SubmitReportStep ==
  ASSUME ReportInv, NEW r \in Reports, NEW s \in Shops, SubmitReport(r, s)
  PROVE  ReportInv'
<1> DEFINE new == [shop |-> s, status |-> "open", suspended |-> FALSE]
<1>1. new \in ReportRecords /\ new.suspended = FALSE
  BY DEF ReportRecords, Statuses
<1>2. /\ reports' = [q \in DOMAIN reports \cup {r} |-> IF q = r THEN new ELSE reports[q]]
      /\ r \notin DOMAIN reports
      /\ lever' = lever /\ rows' = rows /\ opened' = opened /\ job' = job
  BY DEF SubmitReport, listVars
<1> HIDE DEF new
<1>3. /\ DOMAIN reports' = DOMAIN reports \cup {r}
      /\ reports'[r] = new
      /\ \A q \in DOMAIN reports : reports'[q] = reports[q]
  BY <1>2
<1>4. ReportTypes'
  <2>1. reports' \in [DOMAIN reports' -> ReportRecords]
    BY <1>1, <1>2, <1>3 DEF ReportInv, ReportTypes
  <2>2. opened' \in [Staff -> DOMAIN reports' \cup {NoReport}]
    BY <1>2, <1>3 DEF ReportInv, ReportTypes
  <2>3. QED  BY <1>2, <1>3, <2>1, <2>2 DEF ReportInv, ReportTypes
<1>5. ASSUME NEW v \in Staff PROVE JobFits(job[v])'
  <2>1. JobFits(job[v])  BY DEF ReportInv
  <2>2. NoReport \notin DOMAIN reports  BY AdminAssumption DEF ReportInv, ReportTypes
  <2>3. QED  BY <2>1, <2>2, <1>2, <1>3 DEF JobFits
<1>6. ResolvedWereSuspended'
  BY <1>1, <1>2, <1>3 DEF ReportInv, ResolvedWereSuspended
<1>7. QED  BY <1>4, <1>5, <1>6 DEF ReportInv

LEMMA OpenReportStep ==
  ASSUME ReportInv, NEW u \in Staff, NEW r, OpenReport(u, r)
  PROVE  ReportInv'
<1>1. /\ opened' = [opened EXCEPT ![u] = r] /\ r \in DOMAIN reports \cup {NoReport}
      /\ lever' = lever /\ rows' = rows /\ reports' = reports /\ job' = job
  BY DEF OpenReport, listVars
<1>2. ReportTypes'  BY <1>1 DEF ReportInv, ReportTypes
<1>3. QED  BY <1>1, <1>2 DEF ReportInv, JobFits, ResolvedWereSuspended

\* The update says "suspended" only of a call that was made after a suspension.
LEMMA UpdateReportStep ==
  ASSUME ReportInv, NEW u \in Staff, UpdateReport(u)
  PROVE  ReportInv'
<1> DEFINE j == job[u]
           old == reports[j.report]
           new == [old EXCEPT !.status = j.status, !.suspended = j.down]
<1>0. j \in Jobs /\ j.call = "update" /\ JobFits(j)
  BY DEF ReportInv, ReportTypes, UpdateReport
<1>1. /\ j.report \in DOMAIN reports
      /\ j.down => lever[old.shop] # "untouched"
  BY <1>0 DEF JobFits
<1>2. old \in ReportRecords  BY <1>1 DEF ReportInv, ReportTypes
<1>3. new \in ReportRecords /\ new.shop = old.shop /\ new.suspended = j.down
  BY <1>0, <1>2 DEF ReportRecords, Jobs
<1>4. /\ reports' = [reports EXCEPT ![j.report] = new]
      /\ job' = [job EXCEPT ![u] = NoJob]
      /\ opened' \in {opened, [opened EXCEPT ![u] = NoReport]}
      /\ lever' = lever /\ rows' = rows
  BY DEF UpdateReport, listVars
<1>r. old = reports[j.report]  OBVIOUS
<1> HIDE DEF j, old, new
<1>5. /\ DOMAIN reports' = DOMAIN reports
      /\ reports'[j.report] = new
      /\ \A q \in DOMAIN reports \ {j.report} : reports'[q] = reports[q]
  BY <1>1, <1>4
<1>6. \A q \in DOMAIN reports : reports'[q].shop = reports[q].shop
  BY <1>3, <1>5, <1>r
<1>7. ReportTypes'
  <2>1. reports' \in [DOMAIN reports' -> ReportRecords]
    BY <1>1, <1>3, <1>4, <1>5 DEF ReportInv, ReportTypes
  <2>2. opened' \in [Staff -> DOMAIN reports' \cup {NoReport}]
    BY <1>4, <1>5 DEF ReportInv, ReportTypes
  <2>3. job' \in [Staff -> Jobs]  BY <1>4, NoJobIsJob DEF ReportInv, ReportTypes
  <2>4. QED  BY <1>4, <1>5, <2>1, <2>2, <2>3 DEF ReportInv, ReportTypes
<1>8. ASSUME NEW v \in Staff PROVE JobFits(job[v])'
  <2>1. job'[v] = IF v = u THEN NoJob ELSE job[v]  BY <1>4 DEF ReportInv, ReportTypes
  <2>2. JobFits(job[v]) /\ JobFits(NoJob)  BY DEF ReportInv, JobFits, NoJob
  <2>3. NoReport \notin DOMAIN reports  BY AdminAssumption DEF ReportInv, ReportTypes
  <2>4. QED  BY <1>4, <1>5, <1>6, <2>1, <2>2, <2>3 DEF JobFits
<1>9. ResolvedWereSuspended'
  BY <1>1, <1>3, <1>4, <1>5 DEF ReportInv, ResolvedWereSuspended
<1>10. QED  BY <1>7, <1>8, <1>9 DEF ReportInv

LEMMA LoadRowsStep ==
  ASSUME ReportInv, NEW u \in Staff, LoadRows(u)
  PROVE  ReportInv'
<1>1. /\ rows' = [rows EXCEPT ![u] = [x \in Shops \cup Items |-> lever[x] = "down"]]
      /\ UNCHANGED <<lever, reports, opened, job>>
  BY DEF LoadRows, reportVars
<1>2. ReportTypes'  BY <1>1 DEF ReportInv, ReportTypes
<1>3. QED  BY <1>1, <1>2 DEF ReportInv, JobFits, ResolvedWereSuspended

LEMMA TeamStep ==
  ASSUME ReportInv, TeamNext
  PROVE  ReportInv'
<1>1. UNCHANGED <<listVars, reportVars, job>>
  BY Zenon DEF TeamNext, LoadTeam, Demote, Promote, LetIn, SetUserAdmin
<1>2. QED
  BY <1>1 DEF listVars, reportVars, ReportInv, ReportTypes, JobFits, ResolvedWereSuspended

LEMMA ReportStep ==
  ASSUME ReportInv, ListNext
  PROVE  ReportInv'
BY LoadRowsStep, ToggleStep, SetLeverStep, FailStep, SubmitReportStep, OpenReportStep,
   ChangeStep, SuspendAndResolveStep, UpdateReportStep
   DEF ListNext, toggleSuspend, toggleActive

\* A report that the drawer closed with a suspension is about a shop that was
\* suspended, whichever calls failed or were repeated, and whatever other admins
\* did meanwhile (admin/reports: the shop first, then the report).
THEOREM SuspendedBeforeResolved == AdminSpec => []ResolvedWereSuspended
<1>1. ReportInv /\ [AdminNext]_adminVars => ReportInv'
  <2> SUFFICES ASSUME ReportInv, [AdminNext]_adminVars PROVE ReportInv'
    OBVIOUS
  <2>1. CASE TeamNext  BY <2>1, TeamStep
  <2>2. CASE ListNext  BY <2>2, ReportStep
  <2>3. CASE UNCHANGED adminVars
    BY <2>3 DEF adminVars, listVars, reportVars, ReportInv, ReportTypes, JobFits,
                ResolvedWereSuspended
  <2>4. QED  BY <2>1, <2>2, <2>3 DEF AdminNext
<1>2. ReportInv => ResolvedWereSuspended  BY DEF ReportInv
<1>3. QED  BY InitReports, <1>1, <1>2, PTL DEF AdminSpec
=============================================================================
