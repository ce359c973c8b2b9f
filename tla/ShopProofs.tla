----------------------------- MODULE ShopProofs -----------------------------
(***************************************************************************)
(* What sellers and buyers see and change of a shop, for any number of     *)
(* tabs, rows and requests: the secrets of its integrations, its delivery  *)
(* settings and payment methods, its catalogue, its reviews, the sessions  *)
(* of its accounts, and the shelf its buyers take from.                    *)
(*                                                                         *)
(* The modules share no state.  Each theorem rests on an inductive         *)
(* invariant of its own, which is kept by one lemma for each group of      *)
(* actions.                                                                *)
(***************************************************************************)
EXTENDS Integrations, ShopSettings, Catalogue, Reviews, Accounts, Shelf,
        FiniteSetTheorems, FunctionTheorems, SequenceTheorems, WellFoundedInduction, TLAPS
-----------------------------------------------------------------------------
(* The secrets of the courier and of Meta.                                 *)

(***************************************************************************)
(* A save that has read the settings stores them over what it read: until  *)
(* an overlap, that is what is stored still.                               *)
(***************************************************************************)
Current == \A w \in writes : w.step = "merged" => w.next = Keep(w.given, keys)

KeysInv == ~overlapped => keys = meant /\ Current

LEMMA KeysInvInit == KeysInit => KeysInv
  BY DEF KeysInit, KeysInv, Current

\* A save that only reads, or ends, leaves what the others have read.
LEMMA KeysInvWindows ==
  ASSUME KeysInv, NEW p \in Windows,
         FetchKeys(p) \/ ReadSettings(p) \/ KeysArrive(p) \/ KeysFail(p) \/ TypeKeys(p)
           \/ GiveUp(p)
  PROVE  KeysInv'
<1>1. UNCHANGED <<keys, meant, overlapped, writes>>
  BY DEF FetchKeys, ReadSettings, KeysArrive, KeysFail, TypeKeys, GiveUp
<1> QED
  BY <1>1 DEF KeysInv, Current, Keep

LEMMA KeysInvSave == ASSUME KeysInv, NEW p \in Windows, SaveKeys(p) PROVE KeysInv'
<1>1. UNCHANGED <<keys, meant, overlapped>>
  BY DEF SaveKeys
<1>2. \A w \in writes' : w \in writes \/ w.step = "sent"
  BY DEF SaveKeys
<1> QED
  BY <1>1, <1>2 DEF KeysInv, Current, Keep

LEMMA KeysInvMerge == ASSUME KeysInv, NEW w \in writes, MergeKeys(w) PROVE KeysInv'
<1>1. UNCHANGED <<keys, meant, overlapped>>
  BY DEF MergeKeys
<1> DEFINE refused == [id |-> w.id, step |-> "refused"]
           merged == [id |-> w.id, step |-> "merged", given |-> w.given, on |-> w.on,
                      next |-> Keep(w.given, keys)]
<1>2. writes' \subseteq writes \cup {refused, merged}
  BY DEF MergeKeys, Moves
<1>3. refused.step = "refused" /\ merged.next = Keep(merged.given, keys)
  OBVIOUS
<1> HIDE DEF refused, merged
<1>4. \A v \in writes' :
        v \in writes \/ v.step = "refused" \/ v.next = Keep(v.given, keys)
  BY <1>2, <1>3
<1> QED
  BY <1>1, <1>4 DEF KeysInv, Current, Keep

LEMMA KeysInvUpsert == ASSUME KeysInv, NEW w \in writes, UpsertKeys(w) PROVE KeysInv'
<1>1. SUFFICES ASSUME ~overlapped' PROVE keys' = meant' /\ Current'
  BY DEF KeysInv
<1>2. ~overlapped /\ \A v \in writes \ {w} : v.step # "merged"
  BY <1>1 DEF UpsertKeys
<1>3. keys' = meant'
  BY <1>2 DEF UpsertKeys, KeysInv, Current, Keep
<1> DEFINE ended == [id |-> w.id, step |-> "stored"]
<1>4. writes' \subseteq (writes \ {w}) \cup {ended}
  BY DEF UpsertKeys, Moves
<1>5. ended.step # "merged"
  OBVIOUS
<1> HIDE DEF ended
<1>6. \A v \in writes' : v.step # "merged"
  BY <1>2, <1>4, <1>5
<1> QED
  BY <1>3, <1>6 DEF Current

LEMMA KeysInvEnds ==
  ASSUME KeysInv, NEW w \in writes, KeysSaved(w) \/ KeysRefused(w)
  PROVE  KeysInv'
<1>1. UNCHANGED <<keys, meant, overlapped>> /\ writes' \subseteq writes
  BY DEF KeysSaved, KeysRefused, SaveEnds
<1> QED
  BY <1>1 DEF KeysInv, Current, Keep

(***************************************************************************)
(* Rotating one key, or only the switch, keeps the other: each stored      *)
(* secret is the one given last, in courier_service.go's and               *)
(* meta_service.go's UpdateSettings, unless two of them overlapped.        *)
(***************************************************************************)
THEOREM KeysKept == KeysSpec => []KeysAreAsGiven
<1>1. KeysInit => KeysInv
  BY KeysInvInit
<1>2. KeysInv /\ [KeysNext]_keyVars => KeysInv'
  <2> SUFFICES ASSUME KeysInv, [KeysNext]_keyVars PROVE KeysInv'
    OBVIOUS
  <2>1. ASSUME NEW p \in Windows,
               FetchKeys(p) \/ ReadSettings(p) \/ KeysArrive(p) \/ KeysFail(p)
                 \/ TypeKeys(p) \/ GiveUp(p)
        PROVE  KeysInv'
    BY <2>1, KeysInvWindows
  <2>2. ASSUME NEW p \in Windows, SaveKeys(p) PROVE KeysInv'
    BY <2>2, KeysInvSave
  <2>3. ASSUME NEW w \in writes, MergeKeys(w) PROVE KeysInv'
    BY <2>3, KeysInvMerge
  <2>4. ASSUME NEW w \in writes, UpsertKeys(w) PROVE KeysInv'
    BY <2>4, KeysInvUpsert
  <2>5. ASSUME NEW w \in writes, KeysSaved(w) \/ KeysRefused(w) PROVE KeysInv'
    BY <2>5, KeysInvEnds
  <2>6. CASE UNCHANGED keyVars
    BY <2>6 DEF keyVars, KeysInv, Current, Keep
  <2> QED
    BY <2>1, <2>2, <2>3, <2>4, <2>5, <2>6 DEF KeysNext
<1>3. KeysInv => KeysAreAsGiven
  BY DEF KeysInv, KeysAreAsGiven
<1> QED
  BY <1>1, <1>2, <1>3, PTL DEF KeysSpec

-----------------------------------------------------------------------------
(* The delivery settings.                                                  *)

(***************************************************************************)
(* While a form is saved, it is what was sent: nobody types into it, and   *)
(* what arrives late leaves it, because it was changed.                    *)
(***************************************************************************)
FormsInv ==
  /\ sheet = [t \in Pages |-> sheet[t]] /\ dirty \in [Pages -> BOOLEAN]
  /\ puts = [t \in Pages |-> puts[t]]
  /\ \A t \in Pages :
       \/ puts[t] = NoSheet
       \/ dirty[t] /\ puts[t] = [step |-> puts[t].step, of |-> sheet[t]]

\* The action of TypedStays.
ByTyping == \A t \in Pages : dirty[t] /\ sheet'[t] # sheet[t] => typings' = typings + 1

LEMMA FormsInvInit == SettingsInit => FormsInv
  BY DEF SettingsInit, FormsInv

\* Steps that leave the forms and their saves alone.
LEMMA FormsInvSame ==
  ASSUME FormsInv, UNCHANGED <<sheet, dirty, puts>> PROVE FormsInv' /\ ByTyping
  BY DEF FormsInv, ByTyping

\* What arrives goes into a form that nobody has changed, and that is not saved.
LEMMA FormsInvArrive ==
  ASSUME FormsInv, NEW t \in Pages, SettingsArrive(t) PROVE FormsInv' /\ ByTyping
<1>1. CASE dirty[t]
  BY <1>1, FormsInvSame DEF SettingsArrive
<1>2. CASE ~dirty[t]
  <2>1. /\ sheet' = [sheet EXCEPT ![t] = loads[t].of] /\ UNCHANGED <<dirty, puts>>
    BY <1>2 DEF SettingsArrive, SetSheet
  <2>2. puts[t] = NoSheet
    BY <1>2 DEF FormsInv
  <2> QED
    BY <1>2, <2>1, <2>2 DEF FormsInv, ByTyping
<1> QED
  BY <1>1, <1>2

\* Nobody types into a form that is saved.
LEMMA FormsInvChange ==
  ASSUME FormsInv, NEW t \in Pages, NEW to, change(t, to) PROVE FormsInv' /\ ByTyping
<1>1. /\ sheet' = [sheet EXCEPT ![t] = to] /\ dirty' = [dirty EXCEPT ![t] = TRUE]
      /\ puts[t] = NoSheet /\ puts' = puts /\ typings' = typings + 1
  BY DEF change, SetSheet
<1> QED
  BY <1>1 DEF FormsInv, ByTyping

LEMMA FormsInvTyped ==
  ASSUME FormsInv, NEW t \in Pages,
         ChangeCharge(t) \/ ChangeRate(t) \/ RemoveRate(t) \/ AddRate(t)
  PROVE  FormsInv' /\ ByTyping
<1>1. \E to : change(t, to)
  BY DEF ChangeCharge, ChangeRate, RemoveRate, AddRate
<1> QED
  BY <1>1, FormsInvChange

\* A save: sent, stored or refused, and answered.
LEMMA FormsInvSave ==
  ASSUME FormsInv, NEW t \in Pages, SaveSettings(t) \/ Upsert(t) \/ SaveAnswered(t)
  PROVE  FormsInv' /\ ByTyping
<1>1. CASE SaveSettings(t)
  <2>1. /\ dirty[t] /\ puts' = [puts EXCEPT ![t] = [step |-> "sent", of |-> sheet[t]]]
        /\ UNCHANGED <<sheet, dirty>>
    BY <1>1 DEF SaveSettings
  <2> QED
    BY <2>1 DEF FormsInv, ByTyping
<1>2. CASE Upsert(t)
  <2>1. PICK step \in {"stored", "failed"} : puts' = [puts EXCEPT ![t].step = step]
    BY <1>2 DEF Upsert
  <2>2. puts[t] # NoSheet /\ UNCHANGED <<sheet, dirty>>
    BY <1>2 DEF Upsert, NoSheet
  <2>3. dirty[t] /\ puts[t] = [step |-> puts[t].step, of |-> sheet[t]]
    BY <2>2 DEF FormsInv
  <2>4. [puts[t] EXCEPT !.step = step] = [step |-> step, of |-> sheet[t]]
    BY <2>3
  <2>5. puts' = [puts EXCEPT ![t] = [step |-> step, of |-> sheet[t]]]
    BY <2>1, <2>4
  <2> QED
    BY <2>2, <2>3, <2>5 DEF FormsInv, ByTyping
<1>3. CASE SaveAnswered(t)
  <2>1. puts[t] # NoSheet
    BY <1>3 DEF SaveAnswered, NoSheet
  <2>2. puts[t].of = sheet[t]
    BY <2>1 DEF FormsInv
  <2>3. /\ puts' = [puts EXCEPT ![t] = NoSheet] /\ sheet' = sheet
        /\ dirty' = dirty \/ dirty' = [dirty EXCEPT ![t] = FALSE]
    BY <1>3, <2>2 DEF SaveAnswered, SetSheet, FormsInv
  <2> QED
    BY <2>3 DEF FormsInv, ByTyping
<1> QED
  BY <1>1, <1>2, <1>3

\* The payment methods are kept apart from the delivery settings.
LEMMA MethodsLeaveForms == MethodsNext => UNCHANGED deliveryVars
<1> SUFFICES ASSUME MethodsNext PROVE UNCHANGED deliveryVars
  OBVIOUS
<1>1. ASSUME NEW t \in Pages, LoadMethods(t) \/ AddMethod(t) \/ CloseMethod(t) \/ SaveMethod(t)
      PROVE  UNCHANGED deliveryVars
  BY <1>1 DEF LoadMethods, AddMethod, CloseMethod, SaveMethod
<1>2. ASSUME NEW t \in Pages, NEW m \in Methods,
             ToggleActive(t, m) \/ OpenMethod(t, m) \/ DeleteMethod(t, m)
      PROVE  UNCHANGED deliveryVars
  BY <1>2 DEF ToggleActive, OpenMethod, DeleteMethod
<1>3. ClickServed \/ ClickLost => UNCHANGED deliveryVars
  BY DEF ClickServed, ClickLost
<1> QED
  BY <1>1, <1>2, <1>3 DEF MethodsNext

(***************************************************************************)
(* What a seller has typed is changed by typing only, for any number of    *)
(* tabs, rates and loads: the form is off while it is saved (the page      *)
(* "Delivery & payments"), so that the answer brings back what it shows.   *)
(***************************************************************************)
THEOREM TypingStays == SettingsSpec => TypedStays
<1>1. FormsInv /\ [SettingsNext]_settingsVars => FormsInv' /\ [ByTyping]_settingsVars
  <2> SUFFICES ASSUME FormsInv, [SettingsNext]_settingsVars
               PROVE  FormsInv' /\ [ByTyping]_settingsVars
    OBVIOUS
  <2>1. ASSUME NEW t \in Pages,
               \/ LoadSettings(t) \/ GetSettings(t)
               \/ \E d \in Zones \cup {NoDivision} : ChooseDivision(t, d)
        PROVE  FormsInv' /\ ByTyping
    BY <2>1, FormsInvSame DEF LoadSettings, GetSettings, ChooseDivision
  <2>2. ASSUME NEW t \in Pages, SettingsArrive(t) PROVE FormsInv' /\ ByTyping
    BY <2>2, FormsInvArrive
  <2>3. ASSUME NEW t \in Pages, ChangeCharge(t) \/ ChangeRate(t) \/ RemoveRate(t) \/ AddRate(t)
        PROVE  FormsInv' /\ ByTyping
    BY <2>3, FormsInvTyped
  <2>4. ASSUME NEW t \in Pages, SaveSettings(t) \/ Upsert(t) \/ SaveAnswered(t)
        PROVE  FormsInv' /\ ByTyping
    BY <2>4, FormsInvSave
  <2>5. CASE MethodsNext
    BY <2>5, MethodsLeaveForms, FormsInvSame DEF deliveryVars
  <2>6. CASE UNCHANGED settingsVars
    BY <2>6, FormsInvSame DEF settingsVars, deliveryVars
  <2> QED
    BY <2>1, <2>2, <2>3, <2>4, <2>5, <2>6 DEF SettingsNext, DeliveryNext
<1>2. SettingsSpec => [][ByTyping]_settingsVars
  BY FormsInvInit, <1>1, PTL DEF SettingsSpec
<1> QED
  BY <1>2 DEF TypedStays, ByTyping

-----------------------------------------------------------------------------
(* The accounts for advance payments.                                      *)

(***************************************************************************)
(* A request that adds a method adds one that never was there, and no      *)
(* other request adds the same.                                            *)
(***************************************************************************)
NewOnes == \A c \in clicks : c.call = "create" => c.on \notin removed \cup DOMAIN accounts
AddedOnce ==
  \A c, d \in clicks : c.call = "create" /\ d.call = "create" /\ c.on = d.on => c = d

MethodsInv == NewOnes /\ AddedOnce /\ RemovedStaysRemoved

LEMMA MethodsInvInit == SettingsInit => MethodsInv
  BY DEF SettingsInit, MethodsInv, NewOnes, AddedOnce, RemovedStaysRemoved

LEMMA WithDomain == ASSUME NEW f, NEW m, NEW row PROVE DOMAIN With(f, m, row) = DOMAIN f \cup {m}
  BY DEF With

LEMMA MethodsInvSame ==
  ASSUME MethodsInv, clicks' \subseteq clicks, UNCHANGED <<accounts, removed>>
  PROVE  MethodsInv'
  BY DEF MethodsInv, NewOnes, AddedOnce, RemovedStaysRemoved

\* A button of a page that lists the method.
LEMMA MethodsInvPressed ==
  ASSUME MethodsInv, NEW c, Press(c), UNCHANGED <<accounts, removed>>,
         c.call = "create" =>
           c.on \notin DOMAIN accounts \cup removed /\ \A d \in clicks : d.on # c.on
  PROVE  MethodsInv'
<1>1. clicks' = clicks \cup {c}
  BY DEF Press
<1>2. NewOnes' /\ RemovedStaysRemoved'
  BY <1>1 DEF MethodsInv, NewOnes, RemovedStaysRemoved
<1>3. AddedOnce'
  BY <1>1 DEF MethodsInv, AddedOnce
<1> QED
  BY <1>2, <1>3 DEF MethodsInv

LEMMA MethodsInvPages ==
  ASSUME MethodsInv, NEW t \in Pages,
         LoadMethods(t) \/ AddMethod(t) \/ CloseMethod(t) \/ SaveMethod(t)
  PROVE  MethodsInv'
<1>1. CASE LoadMethods(t) \/ CloseMethod(t)
  BY <1>1, MethodsInvSame DEF LoadMethods, CloseMethod
<1>2. CASE AddMethod(t)
  <2>1. PICK m \in Methods \ (DOMAIN accounts \cup removed) :
          /\ \A c \in clicks : c.on # m
          /\ Press([page |-> t, from |-> "dialog", call |-> "create", on |-> m,
                    row |-> [shown |-> TRUE, edition |-> 0]])
    BY <1>2 DEF AddMethod
  <2> QED
    BY <1>2, <2>1, MethodsInvPressed DEF AddMethod
<1>3. CASE SaveMethod(t)
  BY <1>3, MethodsInvPressed DEF SaveMethod
<1> QED
  BY <1>1, <1>2, <1>3

LEMMA MethodsInvRows ==
  ASSUME MethodsInv, NEW t \in Pages, NEW m \in Methods,
         ToggleActive(t, m) \/ OpenMethod(t, m) \/ DeleteMethod(t, m)
  PROVE  MethodsInv'
<1>1. CASE ToggleActive(t, m)
  BY <1>1, MethodsInvPressed DEF ToggleActive
<1>2. CASE OpenMethod(t, m)
  BY <1>2, MethodsInvSame DEF OpenMethod
<1>3. CASE DeleteMethod(t, m)
  BY <1>3, MethodsInvPressed DEF DeleteMethod
<1> QED
  BY <1>1, <1>2, <1>3

\* The server runs a request, with or without an answer.
LEMMA MethodsInvRun ==
  ASSUME MethodsInv, NEW c \in clicks, clicks' = clicks \ {c},
         CreateMethod(c) \/ UpdateMethod(c) \/ RemoveMethod(c)
  PROVE  MethodsInv'
<1>1. CASE CreateMethod(c)
  <2>1. DOMAIN accounts' = DOMAIN accounts \cup {c.on} /\ removed' = removed
    BY <1>1, WithDomain DEF CreateMethod
  <2>2. \A d \in clicks' : d.call = "create" => d.on # c.on
    BY <1>1 DEF CreateMethod, MethodsInv, AddedOnce
  <2>3. c.on \notin removed
    BY <1>1 DEF CreateMethod, MethodsInv, NewOnes
  <2> QED
    BY <2>1, <2>2, <2>3 DEF MethodsInv, NewOnes, AddedOnce, RemovedStaysRemoved
<1>2. CASE UpdateMethod(c)
  <2>1. DOMAIN accounts' = DOMAIN accounts /\ removed' = removed
    <3>1. accounts' = With(accounts, c.on, c.row) /\ c.on \in DOMAIN accounts
      BY <1>2 DEF UpdateMethod
    <3>2. DOMAIN accounts' = DOMAIN accounts \cup {c.on}
      BY <3>1, WithDomain
    <3> QED
      BY <1>2, <3>1, <3>2 DEF UpdateMethod
  <2> QED
    BY <2>1 DEF MethodsInv, NewOnes, AddedOnce, RemovedStaysRemoved
<1>3. CASE RemoveMethod(c)
  <2>1. DOMAIN accounts' = DOMAIN accounts \ {c.on} /\ removed' = removed \cup {c.on}
    BY <1>3 DEF RemoveMethod, Restrict
  <2>2. c.on \in DOMAIN accounts
    BY <1>3 DEF RemoveMethod
  <2> QED
    BY <2>1, <2>2 DEF MethodsInv, NewOnes, AddedOnce, RemovedStaysRemoved
<1> QED
  BY <1>1, <1>2, <1>3

LEMMA MethodsInvServer == ASSUME MethodsInv, ClickServed \/ ClickLost PROVE MethodsInv'
<1>1. CASE ClickServed
  BY <1>1, MethodsInvRun DEF ClickServed
<1>2. CASE ClickLost
  <2>1. PICK c \in clicks :
          /\ clicks' = clicks \ {c}
          /\ \/ CreateMethod(c) \/ UpdateMethod(c) \/ RemoveMethod(c)
             \/ UNCHANGED <<accounts, removed>>
    BY <1>2 DEF ClickLost
  <2>2. CASE CreateMethod(c) \/ UpdateMethod(c) \/ RemoveMethod(c)
    BY <2>1, <2>2, MethodsInvRun
  <2>3. CASE UNCHANGED <<accounts, removed>>
    BY <2>1, <2>3, MethodsInvSame
  <2> QED
    BY <2>1, <2>2, <2>3
<1> QED
  BY <1>1, <1>2

LEMMA DeliveryLeavesMethods == DeliveryNext => UNCHANGED methodVars
<1> SUFFICES ASSUME NEW t \in Pages,
                    \/ LoadSettings(t) \/ GetSettings(t) \/ SettingsArrive(t)
                    \/ ChangeCharge(t) \/ ChangeRate(t) \/ RemoveRate(t)
                    \/ \E d \in Zones \cup {NoDivision} : ChooseDivision(t, d)
                    \/ AddRate(t) \/ SaveSettings(t) \/ Upsert(t) \/ SaveAnswered(t)
             PROVE  UNCHANGED methodVars
  BY DEF DeliveryNext
<1>1. ASSUME NEW to, change(t, to) PROVE UNCHANGED methodVars
  BY <1>1 DEF change
<1>2. CASE ChangeCharge(t) \/ ChangeRate(t) \/ RemoveRate(t) \/ AddRate(t)
  BY <1>1, <1>2 DEF ChangeCharge, ChangeRate, RemoveRate, AddRate
<1>3. CASE LoadSettings(t) \/ GetSettings(t) \/ SettingsArrive(t)
  BY <1>3 DEF LoadSettings, GetSettings, SettingsArrive
<1>4. CASE \/ \E d \in Zones \cup {NoDivision} : ChooseDivision(t, d)
           \/ SaveSettings(t) \/ Upsert(t) \/ SaveAnswered(t)
  BY <1>4 DEF ChooseDivision, SaveSettings, Upsert, SaveAnswered
<1> QED
  BY <1>2, <1>3, <1>4

(***************************************************************************)
(* A payment method that was removed stays away from the buyers, whatever  *)
(* a tab that lists it still sends (payment_method_repo.go updates a row   *)
(* that is there, and inserts under a new id).                             *)
(***************************************************************************)
THEOREM RemovedForGood == SettingsSpec => []RemovedStaysRemoved
<1>1. MethodsInv /\ [SettingsNext]_settingsVars => MethodsInv'
  <2> SUFFICES ASSUME MethodsInv, [SettingsNext]_settingsVars PROVE MethodsInv'
    OBVIOUS
  <2>1. CASE DeliveryNext
    BY <2>1, DeliveryLeavesMethods, MethodsInvSame DEF methodVars
  <2>2. CASE MethodsNext
    BY <2>2, MethodsInvPages, MethodsInvRows, MethodsInvServer DEF MethodsNext
  <2>3. CASE UNCHANGED settingsVars
    BY <2>3, MethodsInvSame DEF settingsVars, methodVars
  <2> QED
    BY <2>1, <2>2, <2>3 DEF SettingsNext
<1>2. MethodsInv => RemovedStaysRemoved
  BY DEF MethodsInv
<1> QED
  BY MethodsInvInit, <1>1, <1>2, PTL DEF SettingsSpec

-----------------------------------------------------------------------------
(* The catalogue.                                                          *)

\* A product, whatever its category is and whether it is active.
IsListing(r) ==
  \E kinds, switches :
    r \in [there : {TRUE}, category : kinds, active : switches, archived : BOOLEAN]

(***************************************************************************)
(* What is in the catalogue is a product, and its id was given to it.      *)
(***************************************************************************)
ListingsInv ==
  /\ listings = [g \in Listings |-> listings[g]]
  /\ \A g \in Listings : There(g) => g \in idsUsed /\ IsListing(listings[g])

Archived(g) == There(g) /\ listings[g].archived

StaysArchived == \A g \in Listings : Archived(g) => listings'[g] = NoListing \/ listings'[g].archived

LEMMA ListingEdited ==
  ASSUME NEW r, IsListing(r), NEW c, NEW a
  PROVE  IsListing([r EXCEPT !.category = c, !.active = a]) /\ [r EXCEPT !.category = c, !.active = a].archived = r.archived
<1>1. PICK kinds, switches :
        r \in [there : {TRUE}, category : kinds, active : switches, archived : BOOLEAN]
  BY DEF IsListing
<1>2. [r EXCEPT !.category = c, !.active = a]
        \in [there : {TRUE}, category : {c}, active : {a}, archived : BOOLEAN]
  BY <1>1
<1>3. [r EXCEPT !.category = c, !.active = a].archived = r.archived
  BY <1>1
<1> QED
  BY <1>2, <1>3 DEF IsListing

LEMMA ListingArchived ==
  ASSUME NEW r, IsListing(r)
  PROVE  IsListing([r EXCEPT !.archived = TRUE]) /\ [r EXCEPT !.archived = TRUE].archived
<1>1. PICK kinds, switches :
        r \in [there : {TRUE}, category : kinds, active : switches, archived : BOOLEAN]
  BY DEF IsListing
<1>2. [r EXCEPT !.archived = TRUE]
        \in [there : {TRUE}, category : kinds, active : switches, archived : BOOLEAN]
  BY <1>1
<1>3. [r EXCEPT !.archived = TRUE].archived
  BY <1>1
<1> QED
  BY <1>2, <1>3 DEF IsListing

LEMMA ListingUncategorised ==
  ASSUME NEW r, IsListing(r), NEW c
  PROVE  IsListing([r EXCEPT !.category = c]) /\ [r EXCEPT !.category = c].archived = r.archived
<1>1. PICK kinds, switches :
        r \in [there : {TRUE}, category : kinds, active : switches, archived : BOOLEAN]
  BY DEF IsListing
<1>2. [r EXCEPT !.category = c]
        \in [there : {TRUE}, category : {c}, active : switches, archived : BOOLEAN]
  BY <1>1
<1>3. [r EXCEPT !.category = c].archived = r.archived
  BY <1>1
<1> QED
  BY <1>2, <1>3 DEF IsListing

LEMMA ListingsInvInit == CatalogueInit => ListingsInv
  BY DEF CatalogueInit, ListingsInv, There

LEMMA ListingsSame ==
  ASSUME ListingsInv, UNCHANGED <<listings, idsUsed>>
  PROVE  ListingsInv' /\ StaysArchived
  BY DEF ListingsInv, There, Archived, StaysArchived

LEMMA ListingsPages ==
  ASSUME ListingsInv, NEW t \in Editors,
         \/ \E g \in Listings : LoadProduct(t, g)
         \/ LoadCategories(t) \/ AskCreate(t) \/ AskUpdate(t) \/ AskArchive(t)
         \/ AskDeleteProduct(t) \/ AskCategory(t) \/ AskDeleteCategory(t) \/ Leave(t)
  PROVE  ListingsInv' /\ StaysArchived
<1>1. CASE \/ \E g \in Listings : LoadProduct(t, g)
           \/ LoadCategories(t) \/ Leave(t)
  BY <1>1, ListingsSame DEF LoadProduct, LoadCategories, Leave
<1>2. ASSUME NEW e, AskEdit(e) PROVE UNCHANGED <<listings, idsUsed>>
  BY <1>2 DEF AskEdit
<1>3. CASE AskCreate(t) \/ AskUpdate(t) \/ AskArchive(t)
  BY <1>2, <1>3, ListingsSame DEF AskCreate, AskUpdate, AskArchive
<1>4. CASE AskDeleteProduct(t) \/ AskCategory(t) \/ AskDeleteCategory(t)
  BY <1>2, <1>4, ListingsSame DEF AskDeleteProduct, AskCategory, AskDeleteCategory
<1> QED
  BY <1>1, <1>3, <1>4

\* A row is added under an id that no product had.
LEMMA ListingsCreate ==
  ASSUME ListingsInv, NEW e \in changes, CreateProduct(e)
  PROVE  ListingsInv' /\ StaysArchived
<1> DEFINE new == [there |-> TRUE, category |-> e.category, active |-> e.active,
                   archived |-> FALSE]
<1>1. PICK g \in Listings \ idsUsed :
        listings' = [listings EXCEPT ![g] = new] /\ idsUsed' = idsUsed \cup {g}
  BY DEF CreateProduct
<1>2. new \in [there : {TRUE}, category : {e.category}, active : {e.active}, archived : BOOLEAN]
  OBVIOUS
<1>3. ~There(g) /\ IsListing(new)
  BY <1>1, <1>2 DEF ListingsInv, IsListing
<1> HIDE DEF new
<1>4. listings' = [h \in Listings |-> listings'[h]] /\ listings'[g] = new
  BY <1>1 DEF ListingsInv
<1>5. \A h \in Listings \ {g} : listings'[h] = listings[h]
  BY <1>1 DEF ListingsInv
<1> QED
  BY <1>1, <1>3, <1>4, <1>5 DEF ListingsInv, There, Archived, StaysArchived

\* One row is replaced by a row that is as archived, or removed.
LEMMA ListingsChange ==
  ASSUME ListingsInv, NEW g, NEW r, listings' = [listings EXCEPT ![g] = r],
         UNCHANGED idsUsed,
         \/ r = NoListing
         \/ g \in Listings =>
              There(g) /\ IsListing(r) /\ (listings[g].archived => r.archived)
  PROVE  ListingsInv' /\ StaysArchived
<1>1. listings' = [h \in Listings |-> listings'[h]]
  BY DEF ListingsInv
<1>2. \A h \in Listings : h # g => listings'[h] = listings[h]
  BY DEF ListingsInv
<1>3. g \in Listings => listings'[g] = r
  BY DEF ListingsInv
<1> QED
  BY <1>1, <1>2, <1>3 DEF ListingsInv, There, Archived, StaysArchived

LEMMA ListingsUpdate ==
  ASSUME ListingsInv, NEW e \in changes, UpdateProduct(e)
  PROVE  ListingsInv' /\ StaysArchived
<1> DEFINE new == [listings[e.on] EXCEPT !.category = e.row.category, !.active = e.row.active]
<1>1. listings' = [listings EXCEPT ![e.on] = new] /\ There(e.on) /\ UNCHANGED idsUsed
  BY DEF UpdateProduct, ListingsInv
<1>2. e.on \in Listings => IsListing(new) /\ new.archived = listings[e.on].archived
  BY <1>1, ListingEdited DEF ListingsInv
<1> HIDE DEF new
<1> QED
  BY <1>1, <1>2, ListingsChange

LEMMA ListingsArchive ==
  ASSUME ListingsInv, NEW e \in changes, ArchiveProduct(e)
  PROVE  ListingsInv' /\ StaysArchived
<1> DEFINE new == [listings[e.on] EXCEPT !.archived = TRUE]
<1>1. listings' = [listings EXCEPT ![e.on] = new] /\ There(e.on) /\ UNCHANGED idsUsed
  BY DEF ArchiveProduct
<1>2. e.on \in Listings => IsListing(new) /\ new.archived
  BY <1>1, ListingArchived DEF ListingsInv
<1> HIDE DEF new
<1> QED
  BY <1>1, <1>2, ListingsChange

LEMMA ListingsDelete ==
  ASSUME ListingsInv, NEW e \in changes, DeleteProduct(e)
  PROVE  ListingsInv' /\ StaysArchived
  BY ListingsChange DEF DeleteProduct

\* The products of a category that is deleted stay as archived as they were.
LEMMA ListingsUncategorised ==
  ASSUME ListingsInv, NEW e \in changes, DeleteCategory(e)
  PROVE  ListingsInv' /\ StaysArchived
<1>1. \A g \in Listings : There(g) /\ listings[g].category = e.on =>
        listings'[g] = [listings[g] EXCEPT !.category = NoCategory]
  BY DEF DeleteCategory
<1>2. \A g \in Listings : ~(There(g) /\ listings[g].category = e.on) => listings'[g] = listings[g]
  BY DEF DeleteCategory
<1>3. ASSUME NEW g \in Listings, There(g), listings[g].category = e.on
      PROVE  IsListing(listings'[g]) /\ listings'[g].archived = listings[g].archived
  <2> DEFINE new == [listings[g] EXCEPT !.category = NoCategory]
  <2>1. listings'[g] = new
    BY <1>1, <1>3
  <2>2. IsListing(new) /\ new.archived = listings[g].archived
    BY <1>3, ListingUncategorised DEF ListingsInv
  <2> HIDE DEF new
  <2> QED
    BY <2>1, <2>2
<1>4. \A g \in Listings : There(g) =>
        IsListing(listings'[g]) /\ listings'[g].archived = listings[g].archived
  BY <1>2, <1>3 DEF ListingsInv
<1>5. \A g \in Listings : ~There(g) => listings'[g] = NoListing
  BY <1>2 DEF There
<1>6. listings' = [g \in Listings |-> listings'[g]] /\ idsUsed' = idsUsed
  BY DEF DeleteCategory
<1> QED
  BY <1>4, <1>5, <1>6 DEF ListingsInv, There, Archived, StaysArchived

LEMMA ListingsServer ==
  ASSUME ListingsInv, NEW e \in changes,
         \/ CheckCategory(e) \/ CreateProduct(e) \/ ReadProduct(e) \/ VerifyCategory(e)
         \/ UpdateProduct(e) \/ ArchiveProduct(e) \/ DeleteProduct(e)
         \/ CreateCategory(e) \/ DeleteCategory(e) \/ EditFails(e)
  PROVE  ListingsInv' /\ StaysArchived
<1>1. CASE CheckCategory(e) \/ ReadProduct(e) \/ VerifyCategory(e) \/ EditFails(e)
  BY <1>1, ListingsSame DEF CheckCategory, ReadProduct, VerifyCategory, EditFails
<1>2. CASE CreateCategory(e)
  <2>1. listings' = listings /\ idsUsed \subseteq idsUsed'
    BY <1>2 DEF CreateCategory
  <2> QED
    BY <2>1 DEF ListingsInv, There, Archived, StaysArchived
<1> QED
  BY <1>1, <1>2, ListingsCreate, ListingsUpdate, ListingsArchive, ListingsDelete,
     ListingsUncategorised

(***************************************************************************)
(* No save brings a product back from the archive (UpdateProduct of        *)
(* product_repo.go leaves is_archived alone, and no other handler clears   *)
(* it).                                                                    *)
(***************************************************************************)
THEOREM NoWayBackFromTheArchive == CatalogueSpec => ArchivedStaysArchived
<1>1. ListingsInv /\ [CatalogueNext]_catalogueVars => ListingsInv'
  <2>1. ASSUME ListingsInv, UNCHANGED catalogueVars PROVE ListingsInv'
    BY <2>1, ListingsSame DEF catalogueVars
  <2> QED
    BY <2>1, ListingsPages, ListingsServer DEF CatalogueNext
<1>2. ListingsInv /\ [CatalogueNext]_catalogueVars
        => [\A g \in Listings : There(g) /\ listings[g].archived =>
              listings'[g] = NoListing \/ listings'[g].archived]_catalogueVars
  <2>1. ASSUME ListingsInv, CatalogueNext PROVE StaysArchived
    BY <2>1, ListingsPages, ListingsServer DEF CatalogueNext
  <2> QED
    BY <2>1 DEF StaysArchived, Archived
<1> QED
  BY ListingsInvInit, <1>1, <1>2, PTL DEF CatalogueSpec, ArchivedStaysArchived

-----------------------------------------------------------------------------
(* The reviews.                                                            *)

ReviewRows == [line : OrderLines, stars : Stars]
FormStates == {NoForm} \cup [step : {"sent", "passed", "thanks"}, stars : Stars]

(***************************************************************************)
(* The buyers: a line has one review, and the thanks are for it.           *)
(***************************************************************************)
BuyersInv ==
  /\ reviews \in Seq(ReviewRows)
  /\ leave \in [Forms -> FormStates]
  /\ \A i, j \in DOMAIN reviews : reviews[i].line = reviews[j].line => i = j
  /\ ThanksAreMeant

LEMMA NoFormIsNone == ASSUME NEW x \in FormStates, x.step \in {"sent", "passed", "thanks"}
                      PROVE  x.stars \in Stars
  BY DEF FormStates, NoForm

LEMMA BuyersInvInit == ReviewInit => BuyersInv
  BY DEF ReviewInit, BuyersInv, ThanksAreMeant, FormStates, NoForm

LEMMA BuyersInvSame == ASSUME BuyersInv, UNCHANGED buyerVars PROVE BuyersInv'
  BY DEF buyerVars, BuyersInv, ThanksAreMeant

\* A form that changes without thanks.
LEMMA BuyersInvForm ==
  ASSUME BuyersInv, NEW f \in Forms, NEW to \in FormStates, SetForm(f, to),
         to.step # "thanks", UNCHANGED reviews
  PROVE  BuyersInv'
<1>1. leave' \in [Forms -> FormStates]
  BY DEF BuyersInv, SetForm
<1>2. ThanksAreMeant'
  BY DEF BuyersInv, SetForm, ThanksAreMeant
<1> QED
  BY <1>1, <1>2 DEF BuyersInv

LEMMA BuyersInvWrites ==
  ASSUME BuyersInv, NEW f \in Forms, LookUpAgain(f) \/ SubmitReview(f) \/ CheckReview(f)
  PROVE  BuyersInv'
<1>1. NoForm \in FormStates /\ NoForm.step # "thanks"
  BY DEF FormStates, NoForm
<1>2. CASE LookUpAgain(f)
  BY <1>1, <1>2, BuyersInvForm DEF LookUpAgain
<1>3. CASE SubmitReview(f)
  <2>1. PICK n \in Stars : SetForm(f, [step |-> "sent", stars |-> n])
    BY <1>3 DEF SubmitReview
  <2>2. [step |-> "sent", stars |-> n] \in FormStates
    BY DEF FormStates
  <2> QED
    BY <1>3, <2>1, <2>2, BuyersInvForm DEF SubmitReview
<1>4. CASE CheckReview(f)
  <2>1. leave[f].stars \in Stars
    BY <1>4, NoFormIsNone DEF CheckReview, BuyersInv
  <2>2. [step |-> "passed", stars |-> leave[f].stars] \in FormStates
    BY <2>1 DEF FormStates
  <2> QED
    BY <1>1, <1>4, <2>2, BuyersInvForm DEF CheckReview
<1> QED
  BY <1>2, <1>3, <1>4

LEMMA BuyersInvInsert ==
  ASSUME BuyersInv, NEW f \in Forms, InsertReview(f)
  PROVE  BuyersInv'
<1> DEFINE new == [line |-> LineOf[f], stars |-> leave[f].stars]
           last == Len(reviews) + 1
<1>1. NoForm \in FormStates /\ NoForm.step # "thanks"
  BY DEF FormStates, NoForm
<1>2. CASE Reviewed(LineOf[f])
  BY <1>1, <1>2, BuyersInvForm DEF InsertReview
<1>3. CASE ~Reviewed(LineOf[f])
  <2>1. leave[f].stars \in Stars
    BY NoFormIsNone DEF InsertReview, BuyersInv
  <2>2. new \in ReviewRows /\ new.line = LineOf[f]
    BY <2>1, ReviewAssumption DEF ReviewRows
  <2>3. reviews' = Append(reviews, new)
    BY <1>3 DEF InsertReview
  <2>4. [step |-> "thanks", stars |-> leave[f].stars] \in FormStates
    BY <2>1 DEF FormStates
  <2>5. leave' \in [Forms -> FormStates]
    BY <1>1, <2>4 DEF InsertReview, SetForm, BuyersInv
  <2>6. \A g \in Forms : leave'[g].step = "thanks" =>
          \/ leave'[g] = leave[g]
          \/ g = f /\ leave'[g].stars = leave[f].stars
    BY <1>1, <1>3 DEF InsertReview, SetForm, BuyersInv
  <2> HIDE DEF new
  <2>7. /\ reviews' \in Seq(ReviewRows) /\ DOMAIN reviews' = 1..last /\ reviews'[last] = new
        /\ DOMAIN reviews = 1..Len(reviews) /\ Len(reviews) \in Nat
        /\ \A i \in DOMAIN reviews : reviews'[i] = reviews[i]
    BY <2>2, <2>3, AppendProperties, LenProperties DEF BuyersInv
  <2>8. \A i \in DOMAIN reviews' : i \in DOMAIN reviews \/ i = last
    BY <2>7
  <2>9. \A i \in DOMAIN reviews : reviews[i].line # LineOf[f]
    BY <1>3 DEF Reviewed
  <2>10. \A i \in DOMAIN reviews' : reviews'[i].line = LineOf[f] => i = last
    BY <2>7, <2>8, <2>9
  <2>11. \A i, j \in DOMAIN reviews' : reviews'[i].line = reviews'[j].line => i = j
    <3> SUFFICES ASSUME NEW i \in DOMAIN reviews', NEW j \in DOMAIN reviews',
                        reviews'[i].line = reviews'[j].line
                 PROVE  i = j
      OBVIOUS
    <3>1. CASE i = last \/ j = last
      BY <2>2, <2>7, <2>10, <3>1
    <3>2. CASE i # last /\ j # last
      BY <2>7, <2>8, <3>2 DEF BuyersInv
    <3> QED
      BY <3>1, <3>2
  <2>12. ASSUME NEW g \in Forms, leave'[g].step = "thanks"
         PROVE  \E i \in DOMAIN reviews' :
                  /\ reviews'[i] = [line |-> LineOf[g], stars |-> leave'[g].stars]
                  /\ \A j \in DOMAIN reviews' : reviews'[j].line = LineOf[g] => i = j
    <3>1. CASE leave'[g] = leave[g]
      <4>1. PICK i \in DOMAIN reviews : reviews[i] = [line |-> LineOf[g], stars |-> leave[g].stars]
        BY <2>12, <3>1 DEF BuyersInv, ThanksAreMeant
      <4>2. i \in DOMAIN reviews' /\ reviews'[i] = reviews[i] /\ reviews'[i].line = LineOf[g]
        BY <2>7, <4>1
      <4> QED
        BY <2>11, <3>1, <4>1, <4>2
    <3>2. CASE g = f /\ leave'[g].stars = leave[f].stars
      <4>1. reviews'[last] = [line |-> LineOf[g], stars |-> leave'[g].stars]
        BY <2>7, <3>2 DEF new
      <4> QED
        BY <2>7, <2>10, <3>2, <4>1
    <3> QED
      BY <2>6, <2>12, <3>1, <3>2
  <2>13. ThanksAreMeant'
    BY <2>12 DEF ThanksAreMeant
  <2> QED
    BY <2>5, <2>7, <2>11, <2>13 DEF BuyersInv
<1> QED
  BY <1>2, <1>3

LEMMA SellerLeavesBuyers ==
  ASSUME ReviewNext, ~\E f \in Forms : LookUpAgain(f) \/ SubmitReview(f) \/ CheckReview(f)
                                         \/ InsertReview(f)
  PROVE  UNCHANGED buyerVars
<1>1. LoadReviews \/ ReplyAnswered => UNCHANGED buyerVars
  BY DEF LoadReviews, ReplyAnswered
<1>2. ASSUME NEW s, NEW n, NEW o, Filter(s, n, o) PROVE UNCHANGED buyerVars
  BY <1>2 DEF Filter
<1>3. PickStatus \/ PickStars \/ PickSort => UNCHANGED buyerVars
  BY <1>2 DEF PickStatus, PickStars, PickSort
<1>4. JumpToNeedsReply \/ JumpToLow \/ PickRating \/ ClearFilters => UNCHANGED buyerVars
  BY <1>2 DEF JumpToNeedsReply, JumpToLow, PickRating, ClearFilters
<1>5. ASSUME NEW i \in filtered(view),
             TypeReply(i) \/ TakeSuggestion(i) \/ EditReply(i) \/ CancelEdit(i) \/ SendReply(i)
      PROVE  UNCHANGED buyerVars
  BY <1>5 DEF TypeReply, TakeSuggestion, EditReply, CancelEdit, SendReply
<1> QED
  BY <1>1, <1>3, <1>4, <1>5 DEF ReviewNext

LEMMA BuyersInvNext == BuyersInv /\ [ReviewNext]_reviewVars => BuyersInv'
<1>1. ASSUME BuyersInv, NEW f \in Forms,
             LookUpAgain(f) \/ SubmitReview(f) \/ CheckReview(f) \/ InsertReview(f)
      PROVE  BuyersInv'
  BY <1>1, BuyersInvWrites, BuyersInvInsert
<1>2. UNCHANGED reviewVars => UNCHANGED buyerVars
  BY DEF reviewVars
<1> QED
  BY <1>1, <1>2, SellerLeavesBuyers, BuyersInvSame

(***************************************************************************)
(* The thanks of a form are for a review that is there, the only one of    *)
(* its line, and the buyer's own: product_reviews has one row for a line   *)
(* (review_repo.go's Create), and the form learns of it by the answer.     *)
(***************************************************************************)
THEOREM ThanksMeant == ReviewSpec => []ThanksAreMeant
<1>1. BuyersInv => ThanksAreMeant
  BY DEF BuyersInv
<1> QED
  BY BuyersInvInit, BuyersInvNext, <1>1, PTL DEF ReviewSpec

(***************************************************************************)
(* The seller: the text in a row, on its way or stored is the one of the   *)
(* review it is shown with.                                                *)
(***************************************************************************)
Views == [list : Seq([line : OrderLines, stars : Stars, reply : OrderLines \cup {NoText}]),
          status : {"all", "needs_reply", "replied"},
          stars : Stars \cup {AllStars},
          sort : {"newest", "oldest", "lowest", "highest"}]
Faithful(v) == \A i \in DOMAIN v.list : v.list[i].reply \in {NoText, v.list[i].line}
EditorOf(q) == [text : {NoText, q}, editing : BOOLEAN]

EditorsInv == \A q \in DOMAIN drafts : drafts[q] \in EditorOf(q)
PostsInv == \A p \in posts : p.to \in OrderLines /\ p.key = p.to /\ p.text = p.to
RepliesInv == replies \in [OrderLines -> OrderLines \cup {NoText}] /\ RepliesWhereTyped

SellerInv ==
  /\ view \in Views /\ Faithful(view) /\ EditorsInv /\ PostsInv /\ RepliesInv
  \* a row that is shown has its editor
  /\ {KeyOf(view, i) : i \in filtered(view)} \subseteq DOMAIN drafts

LEMMA SellerInvInit == ReviewInit => SellerInv
<1> SUFFICES ASSUME ReviewInit PROVE SellerInv
  OBVIOUS
<1>1. view \in Views /\ DOMAIN view.list = {}
  BY DEF ReviewInit, Views
<1>2. filtered(view) = {}
  BY <1>1 DEF filtered
<1>3. Faithful(view)
  BY <1>1 DEF Faithful
<1>4. DOMAIN drafts = {} /\ PostsInv /\ RepliesInv
  BY DEF ReviewInit, PostsInv, RepliesInv, RepliesWhereTyped
<1> QED
  BY <1>1, <1>2, <1>3, <1>4 DEF SellerInv, EditorsInv

LEMMA SellerInvSame == ASSUME SellerInv, UNCHANGED <<sellerVars, replies>> PROVE SellerInv'
<1>1. UNCHANGED <<view, drafts, posts, replies>>
  BY DEF sellerVars
<1>2. {KeyOf(view, i) : i \in filtered(view)}' = {KeyOf(view, i) : i \in filtered(view)}
  BY <1>1
<1> QED
  BY <1>1, <1>2 DEF SellerInv, EditorsInv, PostsInv, RepliesInv, RepliesWhereTyped

\* The page is drawn again: the new editors start with the replies of their rows.
LEMMA SellerInvRedraw ==
  ASSUME SellerInv, NEW v \in Views, Faithful(v), Redraw(v), UNCHANGED <<posts, replies>>
  PROVE  SellerInv'
<1> DEFINE rowKeys == {KeyOf(v, i) : i \in filtered(v)}
           at(q) == CHOOSE i \in filtered(v) : KeyOf(v, i) = q
           first(q) == [text |-> v.list[at(q)].reply, editing |-> FALSE]
<1>1. /\ view' = v
      /\ drafts' = [q \in rowKeys |-> IF q \in DOMAIN drafts THEN drafts[q] ELSE first(q)]
  BY DEF Redraw
<1>2. ASSUME NEW q \in rowKeys PROVE first(q) \in EditorOf(q)
  <2>1. at(q) \in filtered(v) /\ KeyOf(v, at(q)) = q
    BY <1>2
  <2>2. at(q) \in DOMAIN v.list /\ v.list[at(q)].line = q
    BY <2>1 DEF filtered, KeyOf, RowKey
  <2> HIDE DEF at
  <2>3. v.list[at(q)].reply \in {NoText, q}
    BY <2>2 DEF Faithful
  <2> QED
    BY <2>3 DEF EditorOf
<1> HIDE DEF first
<1>3. DOMAIN drafts' = rowKeys
  BY <1>1
<1>4. EditorsInv'
  BY <1>1, <1>2 DEF SellerInv, EditorsInv
<1>5. {KeyOf(view, i) : i \in filtered(view)}' = rowKeys
  BY <1>1
<1>6. view' \in Views /\ Faithful(view')
  BY <1>1
<1> QED
  BY <1>3, <1>4, <1>5, <1>6 DEF SellerInv, PostsInv, RepliesInv, RepliesWhereTyped

LEMMA SellerInvLoad == ASSUME BuyersInv, SellerInv, LoadReviews PROVE SellerInv'
<1> DEFINE place(i) == Len(reviews) + 1 - i
           row(i) == [line |-> reviews[place(i)].line, stars |-> reviews[place(i)].stars,
                      reply |-> replies[reviews[place(i)].line]]
           list == [i \in 1..Len(reviews) |-> row(i)]
           v == [view EXCEPT !.list = list]
<1>1. Len(reviews) \in Nat /\ DOMAIN reviews = 1..Len(reviews)
  BY LenProperties DEF BuyersInv
<1>2. Redraw(v) /\ UNCHANGED <<posts, replies>>
  BY <1>1 DEF LoadReviews
<1>3. ASSUME NEW i \in 1..Len(reviews)
      PROVE  /\ row(i) \in [line : OrderLines, stars : Stars, reply : OrderLines \cup {NoText}]
             /\ row(i).reply \in {NoText, row(i).line}
  <2>1. place(i) \in 1..Len(reviews)
    BY <1>1
  <2>2. reviews[place(i)] \in ReviewRows
    BY <1>1, <2>1 DEF BuyersInv
  <2> HIDE DEF place
  <2>3. replies[reviews[place(i)].line] \in {NoText, reviews[place(i)].line}
    BY <2>2 DEF ReviewRows, SellerInv, RepliesInv, RepliesWhereTyped
  <2> QED
    BY <2>2, <2>3 DEF ReviewRows
<1> HIDE DEF row
<1>4. list \in Seq([line : OrderLines, stars : Stars, reply : OrderLines \cup {NoText}])
  BY <1>1, <1>3, IsASeq
<1>5. DOMAIN list = 1..Len(reviews) /\ \A i \in DOMAIN list : list[i].reply \in {NoText, list[i].line}
  BY <1>3
<1> HIDE DEF list
<1>6. v \in Views /\ v.list = list
  BY <1>4 DEF SellerInv, Views
<1>7. Faithful(v)
  BY <1>5, <1>6 DEF Faithful
<1> QED
  BY <1>2, <1>6, <1>7, SellerInvRedraw

LEMMA SellerInvFilter ==
  ASSUME SellerInv, NEW s \in {"all", "needs_reply", "replied"}, NEW n \in Stars \cup {AllStars},
         NEW o \in {"newest", "oldest", "lowest", "highest"}, Filter(s, n, o)
  PROVE  SellerInv'
<1> DEFINE v == [view EXCEPT !.status = s, !.stars = n, !.sort = o]
<1>1. Redraw(v) /\ UNCHANGED <<posts, replies>>
  BY DEF Filter
<1>2. v \in Views /\ v.list = view.list
  BY DEF SellerInv, Views
<1>3. Faithful(v)
  BY <1>2 DEF SellerInv, Faithful
<1> QED
  BY <1>1, <1>2, <1>3, SellerInvRedraw

LEMMA ViewRows ==
  ASSUME SellerInv, NEW i \in DOMAIN view.list
  PROVE  view.list[i].line \in OrderLines /\ view.list[i].stars \in Stars
<1>1. view.list \in Seq([line : OrderLines, stars : Stars, reply : OrderLines \cup {NoText}])
  BY DEF SellerInv, Views
<1> DEFINE list == view.list
<1> HIDE DEF list
<1>2. list[i] \in [line : OrderLines, stars : Stars, reply : OrderLines \cup {NoText}]
  BY <1>1, LenProperties, ElementOfSeq DEF list
<1> QED
  BY <1>2 DEF list

LEMMA SellerInvFilters ==
  ASSUME SellerInv,
         \/ PickStatus \/ PickStars \/ PickSort
         \/ JumpToNeedsReply \/ JumpToLow \/ PickRating \/ ClearFilters
  PROVE  SellerInv'
<1>1. /\ view.status \in {"all", "needs_reply", "replied"} /\ view.stars \in Stars \cup {AllStars}
      /\ view.sort \in {"newest", "oldest", "lowest", "highest"}
      /\ \A i \in DOMAIN view.list : view.list[i].stars \in Stars
  BY ViewRows DEF SellerInv, Views
<1>2. CASE PickStatus \/ PickStars \/ PickSort
  BY <1>1, <1>2, SellerInvFilter DEF PickStatus, PickStars, PickSort
<1>3. CASE JumpToNeedsReply \/ JumpToLow \/ PickRating \/ ClearFilters
  BY <1>1, <1>3, SellerInvFilter DEF JumpToNeedsReply, JumpToLow, PickRating, ClearFilters
<1> QED
  BY <1>2, <1>3

LEMMA SellerInvEditor ==
  ASSUME SellerInv, NEW i \in filtered(view), NEW e \in EditorOf(KeyOf(view, i)), SetEditor(i, e),
         UNCHANGED <<view, posts, replies>>
  PROVE  SellerInv'
<1> DEFINE key == KeyOf(view, i)
<1>1. drafts' = [drafts EXCEPT ![key] = e]
  BY DEF SetEditor
<1>2. DOMAIN drafts' = DOMAIN drafts
  BY <1>1
<1> HIDE DEF key
<1>3. \A q \in DOMAIN drafts' : \/ drafts'[q] = drafts[q]
                                \/ q = key /\ drafts'[q] = e
  BY <1>1
<1>4. EditorsInv'
  BY <1>2, <1>3 DEF SellerInv, EditorsInv, key
<1>5. {KeyOf(view, j) : j \in filtered(view)}' = {KeyOf(view, j) : j \in filtered(view)}
  OBVIOUS
<1> QED
  BY <1>2, <1>4, <1>5 DEF SellerInv, PostsInv, RepliesInv, RepliesWhereTyped

LEMMA ShownRow ==
  ASSUME SellerInv, NEW i \in filtered(view)
  PROVE  /\ KeyOf(view, i) = Row(i).line
         /\ Row(i).reply \in {NoText, KeyOf(view, i)} /\ Row(i).line \in OrderLines
         /\ Editor(i) \in EditorOf(KeyOf(view, i))
<1>1. i \in DOMAIN view.list
  BY DEF filtered
<1>2. KeyOf(view, i) = view.list[i].line
  BY DEF KeyOf, RowKey
<1>3. view.list[i].reply \in {NoText, view.list[i].line}
  BY <1>1 DEF SellerInv, Faithful
<1>4. view.list[i].line \in OrderLines
  BY <1>1, ViewRows
<1>5. KeyOf(view, i) \in DOMAIN drafts
  BY DEF SellerInv
<1>6. drafts[KeyOf(view, i)] \in EditorOf(KeyOf(view, i))
  BY <1>5 DEF SellerInv, EditorsInv
<1> QED
  BY <1>2, <1>3, <1>4, <1>6 DEF Row, Editor

LEMMA SellerInvTypes ==
  ASSUME SellerInv, NEW i \in filtered(view),
         TypeReply(i) \/ TakeSuggestion(i) \/ EditReply(i) \/ CancelEdit(i)
  PROVE  SellerInv'
<1> DEFINE key == KeyOf(view, i)
<1>1. /\ key = Row(i).line /\ Row(i).reply \in {NoText, key} /\ Editor(i) \in EditorOf(key)
  BY ShownRow
<1> HIDE DEF key
<1>2. [Editor(i) EXCEPT !.text = Row(i).line] \in EditorOf(key)
  BY <1>1 DEF EditorOf
<1>3. \A b \in BOOLEAN : [text |-> Row(i).reply, editing |-> b] \in EditorOf(key)
  BY <1>1 DEF EditorOf
<1>4. UNCHANGED <<view, posts, replies>>
  BY DEF TypeReply, TakeSuggestion, EditReply, CancelEdit
<1>5. PICK e \in EditorOf(key) : SetEditor(i, e)
  BY <1>2, <1>3 DEF TypeReply, TakeSuggestion, EditReply, CancelEdit
<1> QED
  BY <1>4, <1>5, SellerInvEditor DEF key

LEMMA SellerInvSend ==
  ASSUME SellerInv, NEW i \in filtered(view), SendReply(i)
  PROVE  SellerInv'
<1> DEFINE new == [key |-> KeyOf(view, i), to |-> Row(i).line, text |-> Editor(i).text]
<1>1. posts' = posts \cup {new} /\ UNCHANGED <<view, drafts, replies>> /\ Editor(i).text # NoText
  BY DEF SendReply
<1>2. new.to \in OrderLines /\ new.key = new.to /\ new.text = new.to
  BY <1>1, ShownRow DEF EditorOf
<1> HIDE DEF new
<1>3. PostsInv'
  BY <1>1, <1>2 DEF SellerInv, PostsInv
<1>4. {KeyOf(view, j) : j \in filtered(view)}' = {KeyOf(view, j) : j \in filtered(view)}
  BY <1>1
<1> QED
  BY <1>1, <1>3, <1>4 DEF SellerInv, EditorsInv, RepliesInv, RepliesWhereTyped

LEMMA SellerInvAnswered == ASSUME SellerInv, ReplyAnswered PROVE SellerInv'
<1>1. PICK p \in posts :
        /\ posts' = posts \ {p}
        /\ replies' \in {replies, [replies EXCEPT ![p.to] = p.text]}
        /\ \/ UNCHANGED drafts
           \/ p.key \in DOMAIN drafts /\ drafts' = [drafts EXCEPT ![p.key].editing = FALSE]
        /\ UNCHANGED view
  BY DEF ReplyAnswered
<1>2. p.to \in OrderLines /\ p.text = p.to /\ PostsInv'
  BY <1>1 DEF SellerInv, PostsInv
<1>3. RepliesInv'
  BY <1>1, <1>2 DEF SellerInv, RepliesInv, RepliesWhereTyped
<1>4. DOMAIN drafts' = DOMAIN drafts
  BY <1>1
<1>5. EditorsInv'
  <2>1. CASE UNCHANGED drafts
    BY <2>1 DEF SellerInv, EditorsInv
  <2>2. CASE p.key \in DOMAIN drafts /\ drafts' = [drafts EXCEPT ![p.key].editing = FALSE]
    <3>1. [drafts[p.key] EXCEPT !.editing = FALSE] \in EditorOf(p.key)
      BY <2>2 DEF SellerInv, EditorsInv, EditorOf
    <3>2. \A q \in DOMAIN drafts' :
            \/ drafts'[q] = drafts[q]
            \/ q = p.key /\ drafts'[q] = [drafts[p.key] EXCEPT !.editing = FALSE]
      BY <2>2
    <3> QED
      BY <1>4, <3>1, <3>2 DEF SellerInv, EditorsInv
  <2> QED
    BY <1>1, <2>1, <2>2
<1>6. {KeyOf(view, j) : j \in filtered(view)}' = {KeyOf(view, j) : j \in filtered(view)}
  BY <1>1
<1> QED
  BY <1>1, <1>2, <1>3, <1>4, <1>5, <1>6 DEF SellerInv

LEMMA BuyersLeaveSeller ==
  ASSUME NEW f \in Forms, LookUpAgain(f) \/ SubmitReview(f) \/ CheckReview(f) \/ InsertReview(f)
  PROVE  UNCHANGED <<sellerVars, replies>>
  BY DEF LookUpAgain, SubmitReview, CheckReview, InsertReview

(***************************************************************************)
(* A reply stands under the review it was typed for, however the rows have *)
(* moved meanwhile: they keep their editors by the review.                 *)
(***************************************************************************)
THEOREM RepliesTyped == ReviewSpec => []RepliesWhereTyped
<1>1. BuyersInv /\ SellerInv /\ [ReviewNext]_reviewVars => SellerInv'
  <2> SUFFICES ASSUME BuyersInv, SellerInv, [ReviewNext]_reviewVars PROVE SellerInv'
    OBVIOUS
  <2>1. ASSUME NEW f \in Forms,
               LookUpAgain(f) \/ SubmitReview(f) \/ CheckReview(f) \/ InsertReview(f)
        PROVE  SellerInv'
    BY <2>1, BuyersLeaveSeller, SellerInvSame
  <2>2. CASE LoadReviews
    BY <2>2, SellerInvLoad
  <2>3. CASE \/ PickStatus \/ PickStars \/ PickSort
             \/ JumpToNeedsReply \/ JumpToLow \/ PickRating \/ ClearFilters
    BY <2>3, SellerInvFilters
  <2>4. ASSUME NEW i \in filtered(view),
               TypeReply(i) \/ TakeSuggestion(i) \/ EditReply(i) \/ CancelEdit(i) \/ SendReply(i)
        PROVE  SellerInv'
    BY <2>4, SellerInvTypes, SellerInvSend
  <2>5. CASE ReplyAnswered
    BY <2>5, SellerInvAnswered
  <2>6. CASE UNCHANGED reviewVars
    BY <2>6, SellerInvSame DEF reviewVars
  <2> QED
    BY <2>1, <2>2, <2>3, <2>4, <2>5, <2>6 DEF ReviewNext
<1>2. SellerInv => RepliesWhereTyped
  BY DEF SellerInv, RepliesInv
<1> QED
  BY BuyersInvInit, BuyersInvNext, SellerInvInit, <1>1, <1>2, PTL DEF ReviewSpec

-----------------------------------------------------------------------------
(* The accounts and their sessions.                                        *)

Codes == [code : Nat, wrong : Nat, live : BOOLEAN, recent : BOOLEAN]

(***************************************************************************)
(* The row holds the newest code, or none; and then the newest code could  *)
(* not be mailed, or was used.                                             *)
(***************************************************************************)
CodeInv == codes \in Nat /\ stored \in Codes /\ NewestCodeStands

LEMMA CodeInvInit == AccountInit => CodeInv
  BY DEF AccountInit, CodeInv, NewestCodeStands, Codes, NoCode

LEMMA CodeInvRequested == ASSUME CodeInv, RequestCode PROVE CodeInv'
  BY DEF CodeInv, RequestCode, NewestCodeStands, Codes

LEMMA CodeInvTime == ASSUME CodeInv, MinutePasses \/ CodeExpires PROVE CodeInv'
<1>1. stored'.code = stored.code /\ stored' \in Codes
  BY DEF CodeInv, Codes, MinutePasses, CodeExpires
<1>2. UNCHANGED <<codes, unmailed, used>>
  BY DEF MinutePasses, CodeExpires
<1> QED
  BY <1>1, <1>2 DEF CodeInv, NewestCodeStands

LEMMA CodeInvMailed ==
  ASSUME CodeInv, NEW c \in 1..MaxCodes, MailArrives(c) \/ MailFails(c)
  PROVE  CodeInv'
<1>1. CASE MailArrives(c)
  BY <1>1 DEF MailArrives, CodeInv, NewestCodeStands
<1>2. CASE MailFails(c) /\ stored' # stored
  <2>1. c = codes /\ stored' = NoCode /\ UNCHANGED <<codes, used>> /\ c \in unmailed'
    BY <1>2, AccountAssumption DEF MailFails, CodeInv, NewestCodeStands
  <2> QED
    BY <2>1 DEF CodeInv, NewestCodeStands, NoCode, Codes
<1>3. CASE MailFails(c) /\ stored' = stored
  <2>1. UNCHANGED <<stored, codes, used>> /\ unmailed \subseteq unmailed'
    BY <1>3 DEF MailFails
  <2> QED
    BY <2>1 DEF CodeInv, NewestCodeStands
<1> QED
  BY <1>1, <1>2, <1>3

LEMMA CodeInvConsumed ==
  ASSUME CodeInv, NEW c \in 0..MaxCodes, Consume(c)
  PROVE  CodeInv'
<1>1. CASE stored.code = c
  <2>1. stored' = NoCode /\ used' = used \cup {c} /\ UNCHANGED <<codes, unmailed>>
    BY <1>1 DEF Consume
  <2>2. codes = 0 \/ codes \in unmailed \cup used'
    BY <1>1, <2>1 DEF CodeInv, NewestCodeStands
  <2> QED
    BY <2>1, <2>2 DEF CodeInv, NewestCodeStands, NoCode, Codes
<1>2. CASE stored.code # c
  <2>1. stored' = [stored EXCEPT !.wrong = @ + 1] /\ UNCHANGED <<codes, unmailed, used>>
    BY <1>2 DEF Consume
  <2>2. stored' \in Codes /\ stored'.code = stored.code
    BY <2>1 DEF CodeInv, Codes
  <2> QED
    BY <2>1, <2>2 DEF CodeInv, NewestCodeStands
<1> QED
  BY <1>1, <1>2

\* Nothing that the browser does touches the reset of the password.
LEMMA SessionLeavesReset == SessionNext => UNCHANGED <<password, resetVars>>
<1> SUFFICES ASSUME SessionNext PROVE UNCHANGED <<password, resetVars>>
  OBVIOUS
<1>1. CASE StartNext
  BY <1>1 DEF StartNext, StartAnswered, StartRenewed, StartRepeated, StartRefused, MeAnswered,
              StartLost
<1>2. CASE Login \/ LoginAnswered \/ Logout \/ LogoutAnswered
  BY <1>2 DEF Login, LoginAnswered, Logout, LogoutAnswered
<1>3. CASE TokenExpires \/ Call \/ CallAnswered \/ CallRenewed
  BY <1>3 DEF TokenExpires, Call, CallAnswered, CallRenewed
<1> QED
  BY <1>1, <1>2, <1>3 DEF SessionNext

(***************************************************************************)
(* The code that the server compares is the newest one, from Request       *)
(* through a mail that fails late to Consume (password_reset.go).          *)
(***************************************************************************)
THEOREM NewestCode == AccountSpec => []NewestCodeStands
<1>1. CodeInv /\ [AccountNext]_accountVars => CodeInv'
  <2> SUFFICES ASSUME CodeInv, [AccountNext]_accountVars PROVE CodeInv'
    OBVIOUS
  <2>1. CASE RequestCode
    BY <2>1, CodeInvRequested
  <2>2. CASE MinutePasses \/ CodeExpires
    BY <2>2, CodeInvTime
  <2>3. ASSUME NEW c \in 1..MaxCodes, MailArrives(c) \/ MailFails(c) PROVE CodeInv'
    BY <2>3, CodeInvMailed
  <2>4. ASSUME NEW c \in 0..MaxCodes, Consume(c) PROVE CodeInv'
    BY <2>4, CodeInvConsumed
  <2>5. CASE SessionNext
    BY <2>5, SessionLeavesReset DEF resetVars, CodeInv, NewestCodeStands
  <2>6. CASE UNCHANGED accountVars
    BY <2>6 DEF accountVars, resetVars, CodeInv, NewestCodeStands
  <2> QED
    BY <2>1, <2>2, <2>3, <2>4, <2>5, <2>6 DEF AccountNext, ResetNext
<1>2. CodeInv => NewestCodeStands
  BY DEF CodeInv
<1> QED
  BY CodeInvInit, <1>1, <1>2, PTL DEF AccountSpec

(***************************************************************************)
(* Whoever is signed in has a token and a cookie, and the first refresh is *)
(* repeated with a cookie, as long as none of its calls was lost, nobody   *)
(* has signed out and no login was answered over its refusal.  Then a      *)
(* refusal that is read while somebody is signed in is of a cookie older   *)
(* than the password.                                                      *)
(***************************************************************************)
Signed ==
  /\ user \/ start \in {"me", "renew", "again"} => token # "none"
  /\ token # "none" \/ startWith # NoCookie => cookie # NoCookie
  /\ start \in {"renew", "again"} => startWith # NoCookie
  /\ start = "refused" /\ user => startWith \notin {NoCookie, password}

SessionInv ==
  /\ password \in Nat \ {0} /\ cookie \in 0..password /\ startWith \in 0..password
  /\ disturbed \/ Signed

LEMMA SessionInvInit == AccountInit => SessionInv
<1> SUFFICES ASSUME AccountInit PROVE SessionInv
  OBVIOUS
<1>1. password = 1 /\ cookie \in 0..1 /\ startWith \in 0..1 /\ disturbed = FALSE
  BY DEF AccountInit, NoCookie
<1>2. Signed
  BY DEF AccountInit, Signed
<1>3. password \in Nat \ {0} /\ cookie \in 0..password /\ startWith \in 0..password
  BY <1>1
<1> QED
  BY <1>2, <1>3 DEF SessionInv

LEMMA SessionInvReset == ASSUME SessionInv, ResetNext PROVE SessionInv'
<1>1. UNCHANGED browserVars /\ password' \in {password, password + 1}
  BY DEF ResetNext, RequestCode, MinutePasses, CodeExpires, MailArrives, MailFails, Consume
<1>2. UNCHANGED <<cookie, token, user, start, startWith, disturbed>>
  BY <1>1 DEF browserVars, startVars
<1>3. /\ password' \in Nat \ {0} /\ cookie \in 0..password' /\ startWith \in 0..password'
      /\ startWith # password => startWith # password'
  BY <1>1 DEF SessionInv
<1>4. Signed => Signed'
  BY <1>2, <1>3 DEF Signed
<1> QED
  BY <1>2, <1>3, <1>4 DEF SessionInv

LEMMA SessionInvStart == ASSUME SessionInv, StartNext PROVE SessionInv'
<1> USE DEF SessionInv, Signed, restVars, resetVars, NoCookie
<1>1. CASE StartAnswered
  BY <1>1 DEF StartAnswered, StartReadsRefusal, Refreshes
<1>2. CASE StartRenewed
  BY <1>2 DEF StartRenewed, StartReadsRefusal, Refreshes
<1>3. CASE StartRepeated
  BY <1>3 DEF StartRepeated, StartReadsRefusal, Refreshes
<1>4. CASE StartRefused
  BY <1>4 DEF StartRefused, StartFailed
<1>5. CASE MeAnswered
  BY <1>5 DEF MeAnswered
<1>6. CASE StartLost
  BY <1>6 DEF StartLost
<1> QED
  BY <1>1, <1>2, <1>3, <1>4, <1>5, <1>6 DEF StartNext

LEMMA SessionInvRest ==
  ASSUME SessionInv, SessionNext, ~StartNext
  PROVE  SessionInv'
<1> USE DEF SessionInv, Signed, startVars
<1>1. CASE Login \/ Logout \/ Call \/ CallAnswered
  BY <1>1 DEF Login, Logout, Call, CallAnswered
<1>2. CASE LoginAnswered
  <2>1. cookie' \in {cookie, password} /\ UNCHANGED <<password, start, startWith>>
    BY <1>2 DEF LoginAnswered
  <2>2. /\ password' \in Nat \ {0} /\ cookie' \in 0..password' /\ startWith' \in 0..password'
    BY <2>1
  <2>3. CASE UNCHANGED <<cookie, token, user, disturbed>>
    BY <1>2, <2>2, <2>3 DEF LoginAnswered
  <2>4. CASE start = "refused" /\ disturbed' = TRUE
    BY <2>2, <2>4
  <2>5. CASE start # "refused" /\ cookie' = password /\ token' = "valid" /\ disturbed' = disturbed
    <3>1. cookie' # NoCookie
      BY <2>5 DEF NoCookie
    <3> QED
      BY <2>1, <2>2, <2>5, <3>1
  <2> QED
    BY <1>2, <2>3, <2>4, <2>5 DEF LoginAnswered
<1>3. CASE LogoutAnswered
  <2>1. cookie' \in 0..password /\ disturbed' = TRUE /\ UNCHANGED <<password, startWith>>
    BY <1>3 DEF LogoutAnswered, NoCookie
  <2> HIDE DEF Signed
  <2> QED
    BY <2>1
<1>4. CASE TokenExpires
  BY <1>4 DEF TokenExpires
<1>5. CASE CallRenewed
  BY <1>5 DEF CallRenewed, Refreshes
<1> QED
  BY <1>1, <1>2, <1>3, <1>4, <1>5 DEF SessionNext

\* What ends a session, beside what StaysSignedIn names.
LEMMA SignedInStays ==
  ASSUME SessionInv, AccountNext, user, ~user', ~logout, ~disturbed'
  PROVE  startWith \notin {NoCookie, password}
<1>1. ~LogoutAnswered /\ ~StartLost
  BY DEF LogoutAnswered, StartLost
<1>2. ~ResetNext
  BY DEF ResetNext, RequestCode, MinutePasses, CodeExpires, MailArrives, MailFails, Consume,
         browserVars
<1>3. ~MeAnswered /\ ~Login /\ ~LoginAnswered /\ ~Logout
  BY DEF MeAnswered, Login, LoginAnswered, Logout
<1>4. ~TokenExpires /\ ~Call /\ ~CallAnswered /\ ~CallRenewed
  BY DEF TokenExpires, Call, CallAnswered, CallRenewed
<1>5. ~StartAnswered /\ ~StartRenewed /\ ~StartRepeated
  BY DEF StartAnswered, StartRenewed, StartRepeated
<1>6. StartRefused
  BY <1>1, <1>2, <1>3, <1>4, <1>5 DEF AccountNext, SessionNext, StartNext
<1> QED
  BY <1>6 DEF StartRefused, SessionInv, Signed

(***************************************************************************)
(* A login outlives the first refresh that is refused after it (the retry  *)
(* of rawFetch): nothing but the four cases ends a session.                *)
(***************************************************************************)
THEOREM SignedInUntilLogout == AccountSpec => StaysSignedIn
<1>1. SessionInv /\ [AccountNext]_accountVars => SessionInv'
  <2> SUFFICES ASSUME SessionInv, [AccountNext]_accountVars PROVE SessionInv'
    OBVIOUS
  <2>1. CASE ResetNext
    BY <2>1, SessionInvReset
  <2>2. CASE SessionNext
    BY <2>2, SessionInvStart, SessionInvRest
  <2>3. CASE UNCHANGED accountVars
    BY <2>3 DEF accountVars, browserVars, startVars, SessionInv, Signed
  <2> QED
    BY <2>1, <2>2, <2>3 DEF AccountNext
<1>2. SessionInv /\ [AccountNext]_accountVars
        => [user /\ ~user' => logout \/ disturbed' \/ startWith \notin {NoCookie, password}]_accountVars
  BY SignedInStays
<1> QED
  BY SessionInvInit, <1>1, <1>2, PTL DEF AccountSpec, StaysSignedIn

-----------------------------------------------------------------------------
(* The pages a buyer shops on.                                             *)

Lines == [pieces : Nat, price : {1, 2}, stock : Nat]

(***************************************************************************)
(* The copies of the pages are of products, and the quantity is one at     *)
(* least; a line of the cart has pieces within its stock.                  *)
(***************************************************************************)
CartInv ==
  /\ goods \in [Wares -> Goods] /\ grid \in [Wares -> Goods]
  /\ known \in [Wares -> Goods]
  /\ page \in Wares \cup {NoProduct} /\ qty \in Nat \ {0}
  /\ \A p \in DOMAIN lines : lines[p] \in Lines
  /\ LinesOrderable

LEMMA MinOfTwo == ASSUME NEW m \in Nat, NEW n \in Nat PROVE Min({m, n}) = IF m <= n THEN m ELSE n
<1> DEFINE least == IF m <= n THEN m ELSE n
<1>1. least \in {m, n} /\ \A y \in {m, n} : least <= y
  OBVIOUS
<1>2. \A x \in {m, n} : (\A y \in {m, n} : x <= y) => x = least
  OBVIOUS
<1> HIDE DEF least
<1>3. Min({m, n}) = least
  BY <1>1, <1>2 DEF Min
<1> QED
  BY <1>3 DEF least

LEMMA CartInvInit == ShelfInit => CartInv
  BY ShelfAssumption DEF ShelfInit, CartInv, NewGoods, Goods, LinesOrderable

LEMMA CartInvPages ==
  ASSUME CartInv, UNCHANGED lines,
         goods' \in [Wares -> Goods], grid' \in [Wares -> Goods],
         known' \in [Wares -> Goods], page' \in Wares \cup {NoProduct}, qty' \in Nat \ {0}
  PROVE  CartInv'
  BY DEF CartInv, LinesOrderable

LEMMA CartInvLooks ==
  ASSUME CartInv,
         \/ \E p \in Wares : SaveProduct(p) \/ OpenProduct(p)
         \/ SaveTerms \/ LoadSite \/ FetchGrid \/ PickFilter \/ FetchProduct \/ BackToShop
         \/ More \/ Fewer
  PROVE  CartInv'
<1> USE DEF shopVars, viewVars, pageVars
<1>1. ASSUME NEW p \in Wares, SaveProduct(p) \/ OpenProduct(p) PROVE CartInv'
  BY <1>1, CartInvPages DEF CartInv, SaveProduct, OpenProduct
<1>2. CASE SaveTerms \/ LoadSite \/ FetchGrid
  BY <1>2, CartInvPages DEF CartInv, SaveTerms, LoadSite, FetchGrid
<1>3. CASE PickFilter \/ BackToShop
  BY <1>3, CartInvPages DEF CartInv, PickFilter, BackToShop
<1>4. CASE FetchProduct
  BY <1>4, CartInvPages DEF CartInv, FetchProduct
<1>5. CASE More \/ Fewer
  <2>1. qty' \in Nat \ {0}
    BY <1>5 DEF CartInv, More, Fewer
  <2> QED
    BY <1>5, <2>1, CartInvPages DEF CartInv, More, Fewer
<1> QED
  BY <1>1, <1>2, <1>3, <1>4, <1>5

\* addItem keeps every line within its stock.
LEMMA ItemAdded ==
  ASSUME CartInv, NEW p, NEW g \in Goods, ~outOfStock(g), NEW n \in Nat \ {0},
         NEW q \in DOMAIN lines \cup {p}
  PROVE  /\ addItem(p, g, n)[q] \in Lines
         /\ addItem(p, g, n)[q].pieces \in 1 .. addItem(p, g, n)[q].stock
<1>1. g.stock \in Nat \ {0}
  BY ShelfAssumption DEF Goods, outOfStock
<1>2. CASE q # p
  BY <1>2 DEF addItem, CartInv, LinesOrderable
<1>3. CASE q = p /\ p \in DOMAIN lines
  <2> DEFINE line == lines[p]
             more == Min({line.pieces + n, line.stock})
             new == [line EXCEPT !.pieces = more]
  <2>1. line \in Lines /\ line.pieces \in 1..line.stock
    BY <1>3 DEF CartInv, LinesOrderable
  <2>2. addItem(p, g, n)[q] = new
    BY <1>3 DEF addItem
  <2> HIDE DEF line
  <2>3. more \in 1..line.stock
    BY <2>1, MinOfTwo DEF Lines
  <2> HIDE DEF more
  <2>4. new \in Lines /\ new.pieces = more /\ new.stock = line.stock
    BY <2>1, <2>3 DEF Lines
  <2> QED
    BY <2>2, <2>3, <2>4
<1>4. CASE q = p /\ p \notin DOMAIN lines
  <2> DEFINE least == Min({n, g.stock})
             new == [pieces |-> least, price |-> applyDiscount(g), stock |-> g.stock]
  <2>1. addItem(p, g, n)[q] = new
    BY <1>4 DEF addItem
  <2>2. least \in 1..g.stock
    BY <1>1, MinOfTwo
  <2> HIDE DEF least
  <2>3. new \in Lines /\ new.pieces = least /\ new.stock = g.stock
    BY <1>1, <2>2 DEF Lines, applyDiscount
  <2> QED
    BY <2>1, <2>2, <2>3
<1> QED
  BY <1>2, <1>3, <1>4

LEMMA CartInvAdded ==
  ASSUME CartInv, NEW p, NEW g \in Goods, ~outOfStock(g), NEW n \in Nat \ {0},
         lines' = addItem(p, g, n), UNCHANGED <<goods, grid, known, page, qty>>
  PROVE  CartInv'
<1>1. DOMAIN lines' = DOMAIN lines \cup {p}
  BY DEF addItem
<1> QED
  BY <1>1, ItemAdded DEF CartInv, LinesOrderable

\* The stepper of the cart keeps a line within its stock, or drops it.
LEMMA CartInvStepped == ASSUME CartInv, NEW p \in Wares, StepLine(p) PROVE CartInv'
<1> USE DEF shopVars, viewVars, pageVars
<1>1. PICK n \in {lines[p].pieces - 1, lines[p].pieces + 1} : lines' = updateQuantity(p, n)
  BY DEF StepLine
<1>2. p \in DOMAIN lines /\ lines[p] \in Lines /\ lines[p].pieces \in 1..lines[p].stock
  BY DEF StepLine, CartInv, LinesOrderable
<1>3. n \in Nat
  BY <1>1, <1>2 DEF Lines
<1>4. CASE n = 0
  BY <1>1, <1>4 DEF updateQuantity, StepLine, CartInv, LinesOrderable
<1>5. CASE n # 0
  <2> DEFINE more == Min({n, lines[p].stock})
             new == [lines[p] EXCEPT !.pieces = more]
  <2>1. lines' = [lines EXCEPT ![p] = new]
    BY <1>1, <1>5 DEF updateQuantity
  <2>2. more \in 1..lines[p].stock
    BY <1>2, <1>3, <1>5, MinOfTwo DEF Lines
  <2> HIDE DEF more
  <2>3. new \in Lines /\ new.pieces \in 1..new.stock
    BY <1>2, <2>2 DEF Lines
  <2> HIDE DEF new
  <2>4. \A q \in DOMAIN lines' : lines'[q] \in Lines /\ lines'[q].pieces \in 1..lines'[q].stock
    BY <1>2, <2>1, <2>3 DEF CartInv, LinesOrderable
  <2> QED
    BY <2>4 DEF StepLine, CartInv, LinesOrderable
<1> QED
  BY <1>4, <1>5

LEMMA CartInvLines ==
  ASSUME CartInv, Buy \/ \E p \in Wares : AddFromGrid(p) \/ StepLine(p) \/ DropLine(p)
  PROVE  CartInv'
<1> USE DEF shopVars, viewVars, pageVars
<1>1. CASE Buy
  <2>1. Shown \in Goods
    BY <1>1 DEF Buy, Shown, CartInv
  <2> QED
    BY <1>1, <2>1, CartInvAdded DEF Buy, CartInv
<1>2. ASSUME NEW p \in Wares, AddFromGrid(p) PROVE CartInv'
  <2>1. grid[p] \in Goods
    BY DEF CartInv
  <2> QED
    BY <1>2, <2>1, CartInvAdded DEF AddFromGrid
<1>3. ASSUME NEW p \in Wares, DropLine(p) PROVE CartInv'
  BY <1>3 DEF DropLine, CartInv, LinesOrderable
<1> QED
  BY <1>1, <1>2, <1>3, CartInvStepped

(***************************************************************************)
(* A line of the cart can be ordered as it is, by the stock it was added   *)
(* from (the product page's flags and the caps of useCart's addItem and    *)
(* updateQuantity).                                                        *)
(***************************************************************************)
THEOREM CartWithinStock == ShelfSpec => []LinesOrderable
<1>1. CartInv /\ [ShelfNext]_shelfVars => CartInv'
  <2>1. ASSUME CartInv, UNCHANGED shelfVars PROVE CartInv'
    BY <2>1 DEF shelfVars, shopVars, viewVars, pageVars, CartInv, LinesOrderable
  <2> QED
    BY <2>1, CartInvLooks, CartInvLines DEF ShelfNext
<1>2. CartInv => LinesOrderable
  BY DEF CartInv
<1> QED
  BY CartInvInit, <1>1, <1>2, PTL DEF ShelfSpec

(***************************************************************************)
(* The delivery settings, as saved and as the site was loaded with them.   *)
(***************************************************************************)
TermsInv == terms \in Terms /\ noted \in Terms

LEMMA MinOfNaturals ==
  ASSUME NEW S \in SUBSET Nat, S # {}
  PROVE  Min(S) \in S /\ \A y \in S : Min(S) <= y
<1>1. PICK x \in S : \A y \in S : ~(<<y, x>> \in OpToRel(<, Nat))
  BY NatLessThanWellFounded, WFMin
<1>2. ASSUME NEW y \in S, ~(x <= y) PROVE FALSE
  <2>1. <<y, x>> \in {ss \in Nat \X Nat : ss[1] < ss[2]}
    BY <1>2
  <2>2. OpToRel(<, Nat) = {ss \in Nat \X Nat : ss[1] < ss[2]}
    BY DEF OpToRel
  <2> QED
    BY <1>1, <2>1, <2>2
<1> QED
  BY <1>2 DEF Min

\* The fees of the settings, and what an order pays.
LEMMA FeesOf ==
  ASSUME NEW t \in Terms, NEW area \in Areas \cup {NoArea}, NEW enough \in BOOLEAN
  PROVE  /\ PositiveFees(t) \in SUBSET (Nat \ {0})
         /\ DeliveryChargeFor(t, area, enough) = 0
              \/ DeliveryChargeFor(t, area, enough) \in PositiveFees(t)
<1>1. t.charge \in Fees /\ \A a \in DOMAIN t.zones : t.zones[a] \in Fees
  BY DEF Terms
<1>2. t.charge \in Nat /\ \A a \in DOMAIN t.zones : t.zones[a] \in Nat
  BY <1>1, ShelfAssumption
<1> QED
  BY <1>2 DEF PositiveFees, DeliveryChargeFor

\* Every fee is paid somewhere by an order below the threshold.
LEMMA FeePaid ==
  ASSUME NEW t \in Terms, NEW fee \in PositiveFees(t)
  PROVE  \E area \in Areas \cup {NoArea} : DeliveryChargeFor(t, area, FALSE) = fee
<1>1. DOMAIN t.zones \subseteq Areas
  BY DEF Terms
<1>2. CASE fee = t.charge
  <2>1. NoArea \notin DOMAIN t.zones
    BY <1>1, ShelfAssumption
  <2> QED
    BY <1>2, <2>1 DEF DeliveryChargeFor
<1>3. ASSUME NEW a \in DOMAIN t.zones, fee = t.zones[a]
      PROVE  \E area \in Areas \cup {NoArea} : DeliveryChargeFor(t, area, FALSE) = fee
  BY <1>1, <1>3 DEF DeliveryChargeFor
<1> QED
  BY <1>2, <1>3 DEF PositiveFees

\* What the card says of the settings is so.
LEMMA CardKept ==
  ASSUME NEW t \in Terms
  PROVE  LET card == DeliveryCard(t)
             Fee(area) == DeliveryChargeFor(t, area, FALSE)
             Anywhere == Areas \cup {NoArea}
         IN  /\ card.says = "free" =>
                  \A area \in Anywhere, enough \in BOOLEAN : DeliveryChargeFor(t, area, enough) = 0
             /\ card.says = "fee" => \A area \in Anywhere : Fee(area) = card.fee
             /\ card.says = "from" => /\ \A area \in Anywhere : Fee(area) = 0 \/ Fee(area) >= card.fee
                                      /\ \E area \in Anywhere : Fee(area) = card.fee
<1> DEFINE Anywhere == Areas \cup {NoArea}
           fees == PositiveFees(t)
           Fee(area) == DeliveryChargeFor(t, area, FALSE)
<1>1. CASE fees = {}
  <2>1. DeliveryCard(t).says = "free"
    BY <1>1 DEF DeliveryCard
  <2>2. \A area \in Anywhere, enough \in BOOLEAN : DeliveryChargeFor(t, area, enough) = 0
    BY <1>1, FeesOf
  <2> QED
    BY <2>1, <2>2
<1>2. CASE fees # {} /\ DOMAIN t.zones = {}
  <2>1. DeliveryCard(t) = [says |-> "fee", fee |-> t.charge]
    BY <1>2 DEF DeliveryCard
  <2>2. \A area \in Anywhere : Fee(area) = t.charge
    BY <1>2 DEF DeliveryChargeFor
  <2>3. DeliveryCard(t).says = "fee" /\ DeliveryCard(t).fee = t.charge
    BY <2>1
  <2> QED
    BY <2>2, <2>3
<1>3. CASE fees # {} /\ DOMAIN t.zones # {}
  <2> DEFINE least == Min(fees)
  <2>1. fees \in SUBSET (Nat \ {0}) /\ \A area \in Anywhere : Fee(area) = 0 \/ Fee(area) \in fees
    BY FeesOf
  <2>2. least \in fees /\ \A y \in fees : least <= y
    BY <1>3, <2>1, MinOfNaturals
  <2>3. DeliveryCard(t) = [says |-> "from", fee |-> least]
    BY <1>3 DEF DeliveryCard
  <2>4. \E area \in Anywhere : Fee(area) = least
    BY <2>2, FeePaid
  <2> HIDE DEF least, fees
  <2>5. ASSUME NEW area \in Anywhere, Fee(area) # 0 PROVE Fee(area) >= least
    BY <2>1, <2>2, <2>5
  <2>6. \A area \in Anywhere : Fee(area) = 0 \/ Fee(area) >= least
    BY <2>5
  <2>7. DeliveryCard(t).says = "from" /\ DeliveryCard(t).fee = least
    BY <2>3
  <2> QED
    BY <2>4, <2>6, <2>7
<1> QED
  BY <1>1, <1>2, <1>3

LEMMA TermsInvNext == TermsInv /\ [ShelfNext]_shelfVars => TermsInv'
<1> SUFFICES ASSUME TermsInv, [ShelfNext]_shelfVars PROVE TermsInv'
  OBVIOUS
<1>1. CASE SaveTerms \/ LoadSite
  BY <1>1 DEF TermsInv, SaveTerms, LoadSite, shopVars, viewVars
<1>2. ASSUME NEW p \in Wares,
             SaveProduct(p) \/ OpenProduct(p) \/ AddFromGrid(p) \/ StepLine(p) \/ DropLine(p)
      PROVE  UNCHANGED <<terms, noted>>
  BY <1>2 DEF SaveProduct, OpenProduct, AddFromGrid, StepLine, DropLine, shopVars, viewVars
<1>3. FetchGrid \/ PickFilter \/ FetchProduct \/ BackToShop \/ More => UNCHANGED <<terms, noted>>
  BY DEF FetchGrid, PickFilter, FetchProduct, BackToShop, More, shopVars, viewVars
<1>4. Fewer \/ Buy => UNCHANGED <<terms, noted>>
  BY DEF Fewer, Buy, shopVars, viewVars
<1>5. UNCHANGED shelfVars => UNCHANGED <<terms, noted>>
  BY DEF shelfVars, shopVars, viewVars
<1> QED
  BY <1>1, <1>2, <1>3, <1>4, <1>5 DEF ShelfNext, TermsInv

(***************************************************************************)
(* What the delivery card of an up-to-date shop page says is what orders   *)
(* pay, for any charges, zones and threshold (DeliveryInfo of the shop     *)
(* page against DeliveryChargeFor of delivery.go), and the product page's  *)
(* "from x" is what areas without a zone of their own pay.                 *)
(***************************************************************************)
THEOREM CardsAreKept == ShelfSpec => []ChargeForeseen
<1>1. ShelfInit => TermsInv
  BY DEF ShelfInit, TermsInv
<1>2. TermsInv => ChargeForeseen
  <2> SUFFICES ASSUME TermsInv, noted = terms PROVE ChargeForeseen
    BY DEF ChargeForeseen
  <2>1. terms \in Terms
    BY DEF TermsInv
  <2>2. \A area \in (Areas \cup {NoArea}) \ DOMAIN noted.zones :
          DeliveryChargeFor(terms, area, FALSE) = FromOnProductPage(noted)
    BY DEF DeliveryChargeFor, FromOnProductPage
  <2> QED
    BY <2>1, <2>2, CardKept DEF ChargeForeseen
<1> QED
  BY <1>1, <1>2, TermsInvNext, PTL DEF ShelfSpec
=============================================================================
