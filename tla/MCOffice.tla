------------------------------ MODULE MCOffice ------------------------------
(***************************************************************************)
(* Small instances of the pages of sellers, admins and buyers that work on *)
(* copies of what the server keeps, each with the handlers it calls.  The  *)
(* modules share no state, so a behaviour is one of one of them: the part  *)
(* that was chosen moves, and the others stay at one initial state.  Fees  *)
(* are two parts, since claims do not look at rules and orders, nor these  *)
(* at claims; reviews are two, the buyers alone and the seller with one    *)
(* form for each line, since nothing the seller does changes a form.       *)
(***************************************************************************)
EXTENDS OrderDesk, FeeLedger, AdminDesk, Accounts, Reviews, ShopSettings,
        Catalogue, Integrations, Shelf

VARIABLE part

TwoLines == "f1" :> "l1" @@ "f2" :> "l1" @@ "f3" :> "l2"
TwoRules == {[kind |-> "percentage", value |-> 10], [kind |-> "fixed_per_item", value |-> 3]}

\* One form for each line.
MainForms == {CHOOSE f \in Forms : LineOf[f] = l : l \in OrderLines}

vars == <<part, deskVars, ledgerVars, adminVars,
          accountVars, reviewVars, settingsVars, catalogueVars, keyVars, shelfVars>>

Parts == {"desk", "charges", "claims", "admins", "lists", "accounts", "reviews",
          "replies", "delivery", "methods", "catalogue", "keys", "shelf"}

\* The lists are worked on by the staff, and a part that stays starts in one way.
Init ==
  /\ part \in Parts
  /\ DeskInit
  /\ part # "desk" => ~desk.proof
  /\ LedgerInit
  /\ part # "charges" => defaultRule.kind = "percentage"
  /\ AdminInit
  /\ part # "admins" => admins = Staff
  /\ AccountInit
  /\ part # "accounts" => cookie = NoCookie
  /\ ReviewInit
  /\ SettingsInit
  /\ part # "delivery" => saved.charge = 1
  /\ CatalogueInit
  /\ KeysInit
  /\ part # "keys" => section = "courier"
  /\ ShelfInit
  /\ part # "shelf" => terms.charge = 1

Next ==
  /\ part' = part
  /\ \/ part = "desk" /\ DeskNext
        /\ UNCHANGED <<ledgerVars, adminVars, accountVars,
                       reviewVars, settingsVars, catalogueVars, keyVars, shelfVars>>
     \/ part = "charges" /\ LedgerNext /\ UNCHANGED <<claimVars, tabVars>>
        /\ UNCHANGED <<deskVars, adminVars, accountVars,
                       reviewVars, settingsVars, catalogueVars, keyVars, shelfVars>>
     \/ part = "claims" /\ LedgerNext /\ UNCHANGED <<ruleVars, placed>>
        /\ UNCHANGED <<deskVars, adminVars, accountVars,
                       reviewVars, settingsVars, catalogueVars, keyVars, shelfVars>>
     \/ part = "admins" /\ TeamNext
        /\ UNCHANGED <<deskVars, ledgerVars, accountVars,
                       reviewVars, settingsVars, catalogueVars, keyVars, shelfVars>>
     \/ part = "lists" /\ ListNext
        /\ UNCHANGED <<deskVars, ledgerVars, accountVars,
                       reviewVars, settingsVars, catalogueVars, keyVars, shelfVars>>
     \/ part = "accounts" /\ AccountNext
        /\ UNCHANGED <<deskVars, ledgerVars, adminVars,
                       reviewVars, settingsVars, catalogueVars, keyVars, shelfVars>>
     \/ part = "reviews" /\ ReviewNext /\ UNCHANGED sellerVars
        /\ UNCHANGED <<deskVars, ledgerVars, adminVars,
                       accountVars, settingsVars, catalogueVars, keyVars, shelfVars>>
     \/ part = "replies" /\ ReviewNext
        /\ \A f \in Forms \ MainForms : leave'[f] = NoForm
        /\ UNCHANGED <<deskVars, ledgerVars, adminVars,
                       accountVars, settingsVars, catalogueVars, keyVars, shelfVars>>
     \/ part = "delivery" /\ DeliveryNext
        /\ UNCHANGED <<deskVars, ledgerVars, adminVars,
                       accountVars, reviewVars, catalogueVars, keyVars, shelfVars>>
     \/ part = "methods" /\ MethodsNext
        /\ UNCHANGED <<deskVars, ledgerVars, adminVars,
                       accountVars, reviewVars, catalogueVars, keyVars, shelfVars>>
     \/ part = "catalogue" /\ CatalogueNext
        /\ UNCHANGED <<deskVars, ledgerVars, adminVars,
                       accountVars, reviewVars, settingsVars, keyVars, shelfVars>>
     \/ part = "keys" /\ KeysNext
        /\ UNCHANGED <<deskVars, ledgerVars, adminVars, accountVars,
                       reviewVars, settingsVars, catalogueVars, shelfVars>>
     \/ part = "shelf" /\ ShelfNext
        /\ UNCHANGED <<deskVars, ledgerVars, adminVars, accountVars,
                       reviewVars, settingsVars, catalogueVars, keyVars>>

Spec == Init /\ [][Next]_vars
=============================================================================
