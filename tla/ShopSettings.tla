---------------------------- MODULE ShopSettings ----------------------------
(***************************************************************************)
(* The page "Delivery & payments" in several tabs of one seller: the form  *)
(* with the delivery charges, a copy of the saved settings until something *)
(* is typed, and below it the accounts for advance payments, whose buttons *)
(* work on the rows the tab has loaded.                                    *)
(*                                                                         *)
(* The other fields of the form (free delivery, timing of the payment,     *)
(* pause) are written and read with the standard charge, which stands for  *)
(* them.                                                                   *)
(***************************************************************************)
EXTENDS Naturals, Sequences, SequencesExt

CONSTANTS
  Pages,       \* tabs with the page
  Zones,       \* the divisions that can have a rate of their own
  Rates,       \* charges
  Methods,     \* ids of payment methods
  MaxLoads,    \* bound on the times the settings are loaded
  MaxTyped,    \* bound on the changes to the form
  MaxClicks    \* bound on the clicks on the payment methods

ASSUME SettingsAssumption == MaxLoads \in Nat /\ MaxTyped \in Nat /\ MaxClicks \in Nat

NoSheet == [step |-> "none"]
NoDivision == "no division"
NoModal == [on |-> "no method"]

VARIABLES
  saved,       \* the delivery settings of the shop
  sheet,       \* the form of each page
  dirty,       \* whether something was typed into it since
  chosen,      \* the division of the rate that is being added
  loads,       \* the request for the settings of each page
  puts,        \* its save
  loaded, typings,  \* loads and changes so far
  accounts,    \* the payment methods of the shop
  removed,     \* the deleted ones (history)
  lists,       \* the rows of each page
  modal,       \* the row its dialog edits
  clicks,      \* the requests of its buttons
  clicked      \* how many there were

deliveryVars == <<saved, sheet, dirty, chosen, loads, puts, loaded, typings>>
methodVars == <<accounts, removed, lists, modal, clicks, clicked>>
settingsVars == <<deliveryVars, methodVars>>

\* Settings that were saved before, with a standard charge and no rates yet.
SettingsInit ==
  /\ \E n \in Rates : saved = [charge |-> n, rates |-> << >>]
  /\ sheet = [t \in Pages |-> NoSheet] /\ dirty = [t \in Pages |-> FALSE]
  /\ chosen = [t \in Pages |-> NoDivision]
  /\ loads = [t \in Pages |-> NoSheet] /\ puts = [t \in Pages |-> NoSheet]
  /\ loaded = 0 /\ typings = 0
  /\ accounts = << >> /\ removed = {}
  /\ lists = [t \in Pages |-> << >>] /\ modal = [t \in Pages |-> NoModal]
  /\ clicks = {} /\ clicked = 0
-----------------------------------------------------------------------------
(* The delivery charges.                                                   *)

SetSheet(t, to) == sheet' = [sheet EXCEPT ![t] = to]
Covered(s) == {s.rates[i].division : i \in DOMAIN s.rates}

\* The page is opened, or the network comes back.
LoadSettings(t) ==
  /\ loads[t] = NoSheet /\ loaded < MaxLoads
  /\ loads' = [loads EXCEPT ![t] = [step |-> "sent"]]
  /\ loaded' = loaded + 1
  /\ UNCHANGED <<saved, sheet, dirty, chosen, puts, typings, methodVars>>

\* Get reads the settings, and the rates in a query of its own.
GetSettings(t) ==
  /\ \/ /\ loads[t].step = "sent"
        /\ loads' = [loads EXCEPT ![t] = [step |-> "half", charge |-> saved.charge]]
     \/ /\ loads[t].step = "half"
        /\ loads' = [loads EXCEPT ![t] =
             [step |-> "read", of |-> [charge |-> loads[t].charge, rates |-> saved.rates]]]
  /\ UNCHANGED <<saved, sheet, dirty, chosen, puts, loaded, typings, methodVars>>

\* What was loaded becomes the form, unless the form was changed.
SettingsArrive(t) ==
  /\ loads[t].step = "read"
  /\ loads' = [loads EXCEPT ![t] = NoSheet]
  /\ IF dirty[t] THEN UNCHANGED sheet ELSE SetSheet(t, loads[t].of)
  /\ UNCHANGED <<saved, dirty, chosen, puts, loaded, typings, methodVars>>

\* Bug for TypedStays: the form stays on while it is saved.
changeWhileSaving(t, to) ==
  /\ sheet[t] # NoSheet /\ typings < MaxTyped
  /\ SetSheet(t, to)
  /\ dirty' = [dirty EXCEPT ![t] = TRUE]
  /\ typings' = typings + 1
  /\ UNCHANGED <<saved, loads, puts, loaded, methodVars>>

\* The form is off while it is saved.
change(t, to) ==
  /\ sheet[t] # NoSheet /\ puts[t] = NoSheet /\ typings < MaxTyped
  /\ SetSheet(t, to)
  /\ dirty' = [dirty EXCEPT ![t] = TRUE]
  /\ typings' = typings + 1
  /\ UNCHANGED <<saved, loads, puts, loaded, methodVars>>

ChangeCharge(t) ==
  /\ sheet[t] # NoSheet
  /\ \E n \in Rates : change(t, [sheet[t] EXCEPT !.charge = n])
  /\ UNCHANGED chosen

ChangeRate(t) ==
  /\ sheet[t] # NoSheet
  /\ \E i \in DOMAIN sheet[t].rates, n \in Rates :
       change(t, [sheet[t] EXCEPT !.rates[i].fee = n])
  /\ UNCHANGED chosen

RemoveRate(t) ==
  /\ sheet[t] # NoSheet
  /\ \E i \in DOMAIN sheet[t].rates :
       change(t, [sheet[t] EXCEPT !.rates = RemoveAt(sheet[t].rates, i)])
  /\ UNCHANGED chosen

\* The fields of a new rate, shown while a division lacks one, which offer the
\* divisions without a rate of their own.
AdderShown(t) == sheet[t] # NoSheet /\ Len(sheet[t].rates) < Cardinality(Zones)

ChooseDivision(t, d) ==
  /\ puts[t] = NoSheet /\ AdderShown(t)
  /\ d \in {NoDivision} \cup (Zones \ Covered(sheet[t]))
  /\ chosen' = [chosen EXCEPT ![t] = d]
  /\ UNCHANGED <<saved, sheet, dirty, loads, puts, loaded, typings, methodVars>>

AddRate(t) ==
  /\ AdderShown(t) /\ chosen[t] # NoDivision
  /\ \E n \in Rates :
       change(t, [sheet[t] EXCEPT !.rates = Append(@, [division |-> chosen[t], fee |-> n])])
  /\ chosen' = [chosen EXCEPT ![t] = NoDivision]

\* "Save delivery settings" is for a changed form, without a rate half added.
SaveSettings(t) ==
  /\ dirty[t] /\ puts[t] = NoSheet /\ chosen[t] = NoDivision
  /\ puts' = [puts EXCEPT ![t] = [step |-> "sent", of |-> sheet[t]]]
  /\ UNCHANGED <<saved, sheet, dirty, chosen, loads, loaded, typings, methodVars>>

\* One transaction replaces the settings and the rates; (shop, division) is
\* UNIQUE.  The answer may be lost.
Upsert(t) ==
  /\ puts[t].step = "sent"
  /\ \/ /\ Cardinality(Covered(puts[t].of)) = Len(puts[t].of.rates)
        /\ saved' = puts[t].of
        /\ \E step \in {"stored", "failed"} : puts' = [puts EXCEPT ![t].step = step]
     \/ /\ puts' = [puts EXCEPT ![t].step = "failed"]
        /\ UNCHANGED saved
  /\ UNCHANGED <<sheet, dirty, chosen, loads, loaded, typings, methodVars>>

SaveAnswered(t) ==
  /\ puts[t].step \in {"stored", "failed"}
  /\ puts' = [puts EXCEPT ![t] = NoSheet]
  /\ IF puts[t].step = "stored"
       THEN SetSheet(t, puts[t].of) /\ dirty' = [dirty EXCEPT ![t] = FALSE]
       ELSE UNCHANGED <<sheet, dirty>>
  /\ UNCHANGED <<saved, chosen, loads, loaded, typings, methodVars>>
-----------------------------------------------------------------------------
(* The accounts for advance payments: a method is shown to buyers or not,  *)
(* and its number is the edition of its details.                           *)

Press(c) == clicked < MaxClicks /\ clicked' = clicked + 1 /\ clicks' = clicks \cup {c}

\* The list is loaded when the page is opened.
LoadMethods(t) ==
  /\ lists[t] = << >> /\ lists' = [lists EXCEPT ![t] = accounts]
  /\ UNCHANGED <<deliveryVars, accounts, removed, modal, clicks, clicked>>

AddMethod(t) ==
  /\ modal[t] = NoModal
  /\ \E m \in Methods \ (DOMAIN accounts \cup removed) :
       /\ \A c \in clicks : c.on # m
       /\ Press([page |-> t, from |-> "dialog", call |-> "create", on |-> m,
                 row |-> [shown |-> TRUE, edition |-> 0]])
  /\ UNCHANGED <<deliveryVars, accounts, removed, lists, modal>>

\* "Hide" and "Show" send back the row, as the page has it.
ToggleActive(t, m) ==
  /\ m \in DOMAIN lists[t]
  /\ Press([page |-> t, from |-> "row", call |-> "update", on |-> m,
            row |-> [lists[t][m] EXCEPT !.shown = ~@]])
  /\ UNCHANGED <<deliveryVars, accounts, removed, lists, modal>>

\* "Edit" opens the dialog with the row, and a click beside it closes it.
OpenMethod(t, m) ==
  /\ modal[t] = NoModal /\ m \in DOMAIN lists[t]
  /\ modal' = [modal EXCEPT ![t] = [on |-> m, row |-> lists[t][m]]]
  /\ UNCHANGED <<deliveryVars, accounts, removed, lists, clicks, clicked>>

CloseMethod(t) ==
  /\ modal[t] # NoModal
  /\ modal' = [modal EXCEPT ![t] = NoModal]
  /\ UNCHANGED <<deliveryVars, accounts, removed, lists, clicks, clicked>>

\* Whether buyers see the method is sent as it was when the dialog was opened.
SaveMethod(t) ==
  /\ modal[t] # NoModal
  /\ Press([page |-> t, from |-> "dialog", call |-> "update", on |-> modal[t].on,
            row |-> [modal[t].row EXCEPT !.edition = clicked + 1]])
  /\ UNCHANGED <<deliveryVars, accounts, removed, lists, modal>>

DeleteMethod(t, m) ==
  /\ m \in DOMAIN lists[t]
  /\ Press([page |-> t, from |-> "row", call |-> "delete", on |-> m])
  /\ UNCHANGED <<deliveryVars, accounts, removed, lists, modal>>

With(f, m, row) == [x \in DOMAIN f \cup {m} |-> IF x = m THEN row ELSE f[x]]

CreateMethod(c) ==
  /\ c.call = "create" /\ accounts' = With(accounts, c.on, c.row)
  /\ UNCHANGED removed

\* Bug for RemovedStaysRemoved: the row is inserted when it is missing.
UpdateMethodAnyhow(c) ==
  /\ c.call = "update" /\ accounts' = With(accounts, c.on, c.row)
  /\ UNCHANGED removed

\* Update and Delete are for a row that is there.
UpdateMethod(c) ==
  /\ c.call = "update" /\ c.on \in DOMAIN accounts
  /\ accounts' = With(accounts, c.on, c.row)
  /\ UNCHANGED removed

RemoveMethod(c) ==
  /\ c.call = "delete" /\ c.on \in DOMAIN accounts
  /\ accounts' = Restrict(accounts, DOMAIN accounts \ {c.on})
  /\ removed' = removed \cup {c.on}

\* What the answer does to the rows of the page: the dialog adds one that is
\* not there, and is closed; the buttons of a row change one that is.
RowsAfter(rows, c) ==
  CASE c.call = "delete" -> Restrict(rows, DOMAIN rows \ {c.on})
    [] c.from = "dialog" \/ c.on \in DOMAIN rows -> With(rows, c.on, c.row)
    [] OTHER -> rows

ClickServed ==
  \E c \in clicks :
    /\ clicks' = clicks \ {c}
    /\ CreateMethod(c) \/ UpdateMethod(c) \/ RemoveMethod(c)
    /\ lists' = [lists EXCEPT ![c.page] = RowsAfter(@, c)]
    /\ modal' = IF c.from = "dialog" THEN [modal EXCEPT ![c.page] = NoModal] ELSE modal
    /\ UNCHANGED <<deliveryVars, clicked>>

\* The answer is lost, or the request itself, or it failed.
ClickLost ==
  \E c \in clicks :
    /\ clicks' = clicks \ {c}
    /\ \/ CreateMethod(c) \/ UpdateMethod(c) \/ RemoveMethod(c)
       \/ UNCHANGED <<accounts, removed>>
    /\ UNCHANGED <<deliveryVars, lists, modal, clicked>>
-----------------------------------------------------------------------------
DeliveryNext ==
  \E t \in Pages :
    \/ LoadSettings(t) \/ GetSettings(t) \/ SettingsArrive(t)
    \/ ChangeCharge(t) \/ ChangeRate(t) \/ RemoveRate(t)
    \/ \E d \in Zones \cup {NoDivision} : ChooseDivision(t, d)
    \/ AddRate(t) \/ SaveSettings(t) \/ Upsert(t) \/ SaveAnswered(t)

MethodsNext ==
  \/ \E t \in Pages :
       \/ LoadMethods(t) \/ AddMethod(t) \/ CloseMethod(t) \/ SaveMethod(t)
       \/ \E m \in Methods : ToggleActive(t, m) \/ OpenMethod(t, m) \/ DeleteMethod(t, m)
  \/ ClickServed \/ ClickLost

SettingsNext == DeliveryNext \/ MethodsNext

SettingsSpec == SettingsInit /\ [][SettingsNext]_settingsVars
-----------------------------------------------------------------------------
(***************************************************************************)
(* What a seller has typed is changed by typing only, until it is saved:   *)
(* settings that arrive late do not take its place, nor does the answer to *)
(* a save, which is what the form shows still, or an error.                *)
(***************************************************************************)
TypedStays ==
  [][\A t \in Pages : dirty[t] /\ sheet'[t] # sheet[t] => typings' = typings + 1]_settingsVars

(***************************************************************************)
(* "Remove this payment method? Buyers won't see it anymore." holds        *)
(* whatever a tab that still lists the method does with it: hiding,        *)
(* showing and editing it do not bring it back.                            *)
(***************************************************************************)
RemovedStaysRemoved == removed \cap DOMAIN accounts = {}
=============================================================================
