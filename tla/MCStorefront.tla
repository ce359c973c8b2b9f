---------------------------- MODULE MCStorefront ----------------------------
(***************************************************************************)
(* Small instances of the pages of a buyer.  The modules share no state:   *)
(* in a behaviour one of them moves.  The tab with its cart and its hold   *)
(* comes twice: with changes of the cart and reloads, one hold given back  *)
(* at a time, and with "Edit cart" pressed again while the answer to the   *)
(* first click is on its way, for the cart the tab was opened with.        *)
(***************************************************************************)
EXTENDS Storefront, CheckoutForm

VARIABLE part

BuyerInit ==
  /\ part \in {"changes", "clicks", "form"}
  /\ Init
  /\ part = "form" => savedCart = Empty /\ advance
  /\ FormInit
  /\ part # "form" => remembered = NoDetails

BuyerNext ==
  /\ part' = part
  /\ \/ part = "changes" /\ Next
        /\ \A t \in Tabs : Cardinality(tab'[t].back) <= 1
        /\ UNCHANGED formVars
     \/ part = "clicks" /\ Next
        /\ \A t \in Tabs : tab'[t].moves <= 1
        /\ UNCHANGED formVars
     \/ part = "form" /\ FormNext /\ UNCHANGED vars

BuyerSpec ==
  /\ BuyerInit /\ [][BuyerNext]_<<part, vars, formVars>>
  /\ \A t \in Tabs : WF_vars(QueueGoesOn(t))
=============================================================================
