----------------------------- MODULE FeeLedger -----------------------------
(***************************************************************************)
(* The platform fees of one shop: the rule an order is charged by, the     *)
(* claims "I have paid" that the seller sends from the billing page, their *)
(* review in the drawer of the admin page, and the payments that are       *)
(* deducted from the balance.  Sellers and admins work in several tabs,    *)
(* each on the copy it loaded.                                             *)
(***************************************************************************)
EXTENDS Naturals, FiniteSets

CONSTANTS
  FeeOrders,   \* orders of the shop
  Pieces,      \* how many pieces an order has
  Claims,      \* fee submissions, in no particular order
  Tabs,        \* tabs with the seller's billing page
  Desks,       \* tabs with the admin's list of submissions
  Amounts,     \* amounts a seller may claim
  Rules,       \* fee rules an admin may set
  MaxRules,    \* bound on the rules that are set
  MaxRecorded  \* bound on the payments an admin records by hand

NoClaim == "none"
ByHand == "by hand"

ASSUME LedgerAssumption ==
  /\ {NoClaim, ByHand} \cap Claims = {}
  /\ Amounts \subseteq Nat /\ Pieces \subseteq Nat /\ IsFiniteSet(FeeOrders)
  /\ {MaxRules, MaxRecorded} \subseteq Nat

NoRule == [kind |-> "none", value |-> 0]

VARIABLES
  defaultRule,  \* the rule of the platform
  shopRule,     \* the rule of the shop, or NoRule
  ruleSets,     \* how often a rule was set
  placed,       \* the orders: units, total, the saved rule, cancelled
  claims,       \* status and amount of each submission that was made
  payments,     \* what was deducted from the balance
  form,         \* does a seller's tab show the form for a claim
  passed,       \* tabs whose claim has passed the first check
  drawer        \* the copy of a submission each admin's drawer shows

ruleVars == <<defaultRule, shopRule, ruleSets>>
claimVars == <<claims, payments>>
tabVars == <<form, passed, drawer>>
ledgerVars == <<ruleVars, placed, claimVars, tabVars>>

LedgerInit ==
  /\ defaultRule \in Rules /\ shopRule = NoRule /\ ruleSets = 0
  /\ placed = << >>
  /\ claims = << >> /\ payments = {}
  /\ form = [t \in Tabs |-> TRUE] /\ passed = {}
  /\ drawer = [a \in Desks |-> [claim |-> NoClaim, pending |-> FALSE]]
-----------------------------------------------------------------------------
(* The charge of an order and the balance of the shop.                     *)

\* The rule of the shop, or else the rule of the platform.
ForShop == IF shopRule = NoRule THEN defaultRule ELSE shopRule

feeBy(rule, order) ==
  CASE rule.kind = "percentage"      -> (order.total * rule.value) \div 100
    [] rule.kind = "fixed_per_order" -> rule.value
    [] rule.kind = "fixed_per_item"  -> order.units * rule.value

\* order_platform_fees: by the rule saved with the order; cancelled orders are
\* not in the view.
fee(o) == IF placed[o].cancelled THEN 0 ELSE feeBy(placed[o].rule, placed[o])
-----------------------------------------------------------------------------
(* Orders.                                                                 *)

\* The trigger saves the rule with the order.
PlaceOrder(o) ==
  /\ o \notin DOMAIN placed
  /\ \E units \in Pieces :
       placed' = [q \in DOMAIN placed \cup {o} |->
                    IF q = o THEN [units |-> units, total |-> 10 * units,
                                   rule |-> ForShop, cancelled |-> FALSE]
                             ELSE placed[q]]
  /\ UNCHANGED <<ruleVars, claimVars, tabVars>>

\* Bug for OrdersKeepCharges: the trigger prices an order again when it is taken
\* out of the cancelled ones.
CancelOrReopenPriced(o) ==
  /\ o \in DOMAIN placed
  /\ placed' = [placed EXCEPT ![o].cancelled = ~@,
                              ![o].rule = IF placed[o].cancelled THEN ForShop ELSE @]
  /\ UNCHANGED <<ruleVars, claimVars, tabVars>>

\* Cancelled, or taken out of the cancelled ones by "Undo".
CancelOrReopen(o) ==
  /\ o \in DOMAIN placed
  /\ placed' = [placed EXCEPT ![o].cancelled = ~@]
  /\ UNCHANGED <<ruleVars, claimVars, tabVars>>
-----------------------------------------------------------------------------
(* Rules.                                                                  *)

SetsRule == ruleSets < MaxRules /\ ruleSets' = ruleSets + 1

SetDefaultRule ==
  /\ SetsRule
  /\ defaultRule' \in Rules
  /\ UNCHANGED <<shopRule, placed, claimVars, tabVars>>

\* "Save seller rate".
SetShopRule ==
  /\ SetsRule
  /\ shopRule' \in Rules
  /\ UNCHANGED <<defaultRule, placed, claimVars, tabVars>>

\* "Use platform default".
ResetShopRule ==
  /\ SetsRule
  /\ shopRule' = NoRule
  /\ UNCHANGED <<defaultRule, placed, claimVars, tabVars>>
-----------------------------------------------------------------------------
(* The seller's claims.                                                    *)

Pending == {c \in DOMAIN claims : claims[c].status = "pending"}

\* The page is loaded or refreshed: the form is there unless a claim is pending.
LoadBilling(t) ==
  /\ form' = [form EXCEPT ![t] = (Pending = {})]
  /\ UNCHANGED <<ruleVars, placed, claimVars, passed, drawer>>

\* SubmitPayment asks HasPending first.  The button is off until the answer.
SubmitPayment(t) ==
  /\ form[t] /\ t \notin passed /\ Pending = {}
  /\ passed' = passed \cup {t}
  /\ UNCHANGED <<ruleVars, placed, claimVars, form, drawer>>

\* Bug for OnePendingClaim: the insertion relies on the first check.
CreateUnchecked(t, c) ==
  /\ t \in passed /\ c \notin DOMAIN claims
  /\ passed' = passed \ {t}
  /\ \E a \in Amounts :
       claims' = [d \in DOMAIN claims \cup {c} |->
                    IF d = c THEN [status |-> "pending", amount |-> a] ELSE claims[d]]
  /\ UNCHANGED <<ruleVars, placed, payments, form, drawer>>

\* Create locks the row of the shop and asks again.
Create(t, c) ==
  /\ t \in passed /\ c \notin DOMAIN claims
  /\ passed' = passed \ {t}
  /\ IF Pending = {}
     THEN \E a \in Amounts :
            claims' = [d \in DOMAIN claims \cup {c} |->
                         IF d = c THEN [status |-> "pending", amount |-> a] ELSE claims[d]]
     ELSE UNCHANGED claims
  /\ UNCHANGED <<ruleVars, placed, payments, form, drawer>>
-----------------------------------------------------------------------------
(* The admin's review.                                                     *)

\* A row of the list is clicked, or the drawer is closed.
OpenDrawer(a, c) ==
  /\ c \in DOMAIN claims
  /\ drawer' = [drawer EXCEPT ![a] = [claim |-> c, pending |-> c \in Pending]]
  /\ UNCHANGED <<ruleVars, placed, claimVars, form, passed>>

CloseDrawer(a) ==
  /\ drawer' = [drawer EXCEPT ![a] = [claim |-> NoClaim, pending |-> FALSE]]
  /\ UNCHANGED <<ruleVars, placed, claimVars, form, passed>>

\* Bug for ClaimPaidOnce: the payment is recorded by a step of its own, before
\* MarkApproved looks at the status.
ApproveInTwoSteps(a) ==
  /\ drawer[a].pending
  /\ LET c == drawer[a].claim
     IN /\ payments' = payments \cup
             {[no |-> Cardinality(payments) + 1, claim |-> c, amount |-> claims[c].amount]}
        /\ claims' = IF c \in Pending THEN [claims EXCEPT ![c].status = "approved"]
                                      ELSE claims
  /\ UNCHANGED <<ruleVars, placed, form, passed, drawer>>

\* "Mark as received": the claim is locked, and paid only if it is pending
\* still.  The drawer closes after a success; else it stays as it is.
Approve(a) ==
  /\ drawer[a].pending
  /\ LET c == drawer[a].claim
     IN IF c \in Pending
        THEN /\ claims' = [claims EXCEPT ![c].status = "approved"]
             /\ payments' = payments \cup
                  {[no |-> Cardinality(payments) + 1, claim |-> c, amount |-> claims[c].amount]}
             /\ drawer' = [drawer EXCEPT ![a] = [claim |-> NoClaim, pending |-> FALSE]]
        ELSE UNCHANGED <<claims, payments, drawer>>
  /\ UNCHANGED <<ruleVars, placed, form, passed>>

\* "Reject", with a feedback: one conditional update.
Reject(a) ==
  /\ drawer[a].pending
  /\ LET c == drawer[a].claim
     IN IF c \in Pending
        THEN /\ claims' = [claims EXCEPT ![c].status = "rejected"]
             /\ drawer' = [drawer EXCEPT ![a] = [claim |-> NoClaim, pending |-> FALSE]]
        ELSE UNCHANGED <<claims, drawer>>
  /\ UNCHANGED <<ruleVars, placed, payments, form, passed>>

\* "Mark fee paid" of the page on money: a payment without a claim.
RecordFeePayment ==
  /\ Cardinality({p \in payments : p.claim = ByHand}) < MaxRecorded
  /\ \E amount \in Amounts :
       payments' = payments \cup
         {[no |-> Cardinality(payments) + 1, claim |-> ByHand, amount |-> amount]}
  /\ UNCHANGED <<ruleVars, placed, claims, tabVars>>

LedgerNext ==
  \/ \E o \in FeeOrders : PlaceOrder(o) \/ CancelOrReopen(o)
  \/ SetDefaultRule
  \/ SetShopRule
  \/ ResetShopRule
  \/ \E t \in Tabs : LoadBilling(t) \/ SubmitPayment(t)
  \/ \E t \in Tabs, c \in Claims : Create(t, c)
  \/ \E a \in Desks, c \in Claims : OpenDrawer(a, c)
  \/ \E a \in Desks : CloseDrawer(a) \/ Approve(a) \/ Reject(a)
  \/ RecordFeePayment

LedgerSpec == LedgerInit /\ [][LedgerNext]_ledgerVars
-----------------------------------------------------------------------------
(* Properties.                                                             *)

PaymentsOf(c) == {p \in payments : p.claim = c}

\* A shop has one claim under review at most, although two tabs may pass the
\* first check together (the lock on the row of the shop in Create).
OnePendingClaim == \A c, d \in Pending : c = d

\* However many admins review a claim on outdated copies, an approved claim is
\* deducted once, with its amount, and no other claim is.
ClaimPaidOnce ==
  \A c \in Claims :
    IF c \in DOMAIN claims /\ claims[c].status = "approved"
    THEN \E p \in payments : PaymentsOf(c) = {p} /\ p.amount = claims[c].amount
    ELSE PaymentsOf(c) = {}

\* A claim that was reviewed is never reviewed again, and no claim vanishes.
ReviewIsFinal ==
  [][\A c \in DOMAIN claims :
       /\ c \in DOMAIN claims'
       /\ claims[c].status # "pending" => claims'[c] = claims[c]]_ledgerVars

\* "Existing order rates and unpaid balances remain unchanged": no order leaves
\* the ledger, and one that is not cancelled is charged what it was charged when it
\* was placed, whatever rules are set meanwhile and however often it is cancelled
\* and reopened (the trigger saves the rule; order_platform_fees reads it).
OrdersKeepCharges ==
  [][\A o \in DOMAIN placed :
       LET charge == feeBy(placed[o].rule, placed[o])
       IN /\ o \in DOMAIN placed'
          /\ placed'[o].cancelled \/ fee(o)' = charge
          /\ feeBy(placed'[o].rule, placed'[o]) = charge]_ledgerVars
=============================================================================
