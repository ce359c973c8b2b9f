------------------------------ MODULE AdSpend ------------------------------
(***************************************************************************)
(* What a shop spends on advertising: the figures the seller enters for a  *)
(* day and a platform, and the estimates that the server fills in for the  *)
(* days without one while a daily budget is active, when a budget is set,  *)
(* when the server starts and every hour.                                  *)
(*                                                                         *)
(* The seller works on copies of the figures and of the budgets that his   *)
(* page has loaded, in several tabs.                                       *)
(***************************************************************************)
EXTENDS Integers

CONSTANTS
  Platforms,   \* where ads are bought
  AdAmounts,   \* what they cost a day
  Backfill,    \* how many days back the server fills in estimates
  LastDay,     \* bound on the days
  AdTabs,      \* tabs with the page
  MaxAdCalls   \* bound on the requests

ASSUME AdAssumption ==
  /\ AdAmounts \subseteq Nat /\ Backfill \in Nat /\ LastDay \in Nat /\ MaxAdCalls \in Nat

Days == 0..LastDay
Keys == Days \X Platforms
NoRow == [row |-> 0]
NoBudget == [active |-> FALSE]

VARIABLES
  today,        \* the day in Bangladesh
  up,           \* is the server running?
  spend,        \* the figures: (shop, day, platform) is UNIQUE
  made,         \* how many rows each day and platform has had, which names them
  budget,       \* the daily budget of each platform
  spendOn,      \* the copy of the figures in each tab
  budgetOn,     \* the copy of the budgets
  adCalls,      \* the requests
  adCalled      \* how many there were

adVars == <<today, up, spend, made, budget, spendOn, budgetOn, adCalls, adCalled>>

AdInit ==
  /\ today = 0 /\ up = TRUE
  /\ spend = [k \in Keys |-> NoRow] /\ made = [k \in Keys |-> 0]
  /\ budget = [p \in Platforms |-> NoBudget]
  /\ spendOn = [t \in AdTabs |-> spend] /\ budgetOn = [t \in AdTabs |-> budget]
  /\ adCalls = {} /\ adCalled = 0
-----------------------------------------------------------------------------
(* The page.                                                               *)

\* The two lists are loaded when the page is opened and after each change.
LoadSpend(t) ==
  /\ spendOn' = [spendOn EXCEPT ![t] = spend]
  /\ UNCHANGED <<today, up, spend, made, budget, budgetOn, adCalls, adCalled>>

LoadBudgets(t) ==
  /\ budgetOn' = [budgetOn EXCEPT ![t] = budget]
  /\ UNCHANGED <<today, up, spend, made, budget, spendOn, adCalls, adCalled>>

Active(b) == b.active /\ b.amount > 0

\* The two forms are off while they are saved; the buttons of a row are not.
Saving(t, op) == \E c \in adCalls : c.op = op /\ c.form /\ c.tab = t

AskAd(c) ==
  /\ adCalled < MaxAdCalls /\ adCalled' = adCalled + 1
  /\ adCalls' = adCalls \cup {c}
  /\ UNCHANGED <<today, up, spend, made, budget, spendOn, budgetOn>>

\* "Save actual cost" for a day of one's choice.
AskRecord(t) ==
  /\ ~Saving(t, "record")
  /\ \E k \in Keys, n \in AdAmounts :
       AskAd([op |-> "record", form |-> TRUE, tab |-> t, on |-> k, amount |-> n])

AskDelete(t, k) ==
  /\ spendOn[t][k] # NoRow
  /\ AskAd([op |-> "delete", form |-> FALSE, tab |-> t, on |-> k, row |-> spendOn[t][k].row])

\* "Update daily estimate".
AskBudget(t, p) ==
  /\ ~Saving(t, "budget")
  /\ \E n \in AdAmounts :
       AskAd([op |-> "budget", form |-> TRUE, tab |-> t, on |-> p,
            active |-> TRUE, amount |-> n, step |-> "set"])

\* "Turn off" sends the amount of the copy.
turnOff(t, p) ==
  /\ Active(budgetOn[t][p])
  /\ AskAd([op |-> "budget", form |-> FALSE, tab |-> t, on |-> p,
          active |-> FALSE, amount |-> budgetOn[t][p].amount, step |-> "set"])
-----------------------------------------------------------------------------
(* The server.                                                             *)

Answered(c) == adCalls' = adCalls \ {c}

\* The row of a day and a platform is replaced, or inserted.
UpsertAdSpend(c) ==
  /\ up /\ c.op = "record"
  /\ LET old == spend[c.on]
         row == IF old = NoRow THEN made[c.on] + 1 ELSE old.row
     IN /\ spend' = [spend EXCEPT ![c.on] =
              [row |-> row, amount |-> c.amount, estimated |-> FALSE]]
        /\ made' = [made EXCEPT ![c.on] = IF old = NoRow THEN row ELSE @]
  /\ Answered(c)
  /\ UNCHANGED <<today, up, budget, spendOn, budgetOn, adCalled>>

\* A row is deleted by its id.
DeleteAdSpend(c) ==
  /\ up /\ c.op = "delete"
  /\ spend' = IF spend[c.on].row = c.row THEN [spend EXCEPT ![c.on] = NoRow] ELSE spend
  /\ Answered(c)
  /\ UNCHANGED <<today, up, made, budget, spendOn, budgetOn, adCalled>>

\* The day on which the budget of a platform was first set is kept.
UpsertAdBudget(c) ==
  /\ up /\ c.op = "budget" /\ c.step = "set"
  /\ budget' = [budget EXCEPT ![c.on] =
       [active |-> c.active, amount |-> c.amount,
        starts_on |-> IF @ = NoBudget THEN today ELSE @.starts_on]]
  /\ adCalls' = (adCalls \ {c})
       \cup (IF Active(budget'[c.on]) THEN {[c EXCEPT !.step = "fill"]} ELSE {})
  /\ UNCHANGED <<today, up, spend, made, spendOn, budgetOn, adCalled>>

\* The days that are filled in, in Bangladesh's today.
Span(p) == {d \in Days : d >= budget[p].starts_on /\ d >= today - Backfill /\ d <= today}
Lacking == {k \in Keys : Active(budget[k[2]]) /\ k[1] \in Span(k[2]) /\ spend[k] = NoRow}

Estimate(k) == [row |-> made[k] + 1, amount |-> budget[k[2]].amount, estimated |-> TRUE]

\* Bug for OwnFiguresStand: the estimate replaces what is there.
FillOverwriting ==
  LET all == {k \in Keys : Active(budget[k[2]]) /\ k[1] \in Span(k[2])}
  IN /\ spend' = [k \in Keys |-> IF k \in all THEN Estimate(k) ELSE spend[k]]
     /\ made' = [k \in Keys |-> IF k \in Lacking THEN made[k] + 1 ELSE made[k]]

\* Bug for FillerCatchesUp: only today is filled in.
FillToday ==
  LET now == {k \in Lacking : k[1] = today}
  IN /\ spend' = [k \in Keys |-> IF k \in now THEN Estimate(k) ELSE spend[k]]
     /\ made' = [k \in Keys |-> IF k \in now THEN made[k] + 1 ELSE made[k]]

\* One statement inserts the rows that are lacking, and no other.
FillEstimatedSpend ==
  /\ spend' = [k \in Keys |-> IF k \in Lacking THEN Estimate(k) ELSE spend[k]]
  /\ made' = [k \in Keys |-> IF k \in Lacking THEN made[k] + 1 ELSE made[k]]

\* SetAdBudget fills in after it has set the budget.
FillNow(c) ==
  /\ up /\ c.op = "budget" /\ c.step = "fill"
  /\ FillEstimatedSpend
  /\ Answered(c)
  /\ UNCHANGED <<today, up, budget, spendOn, budgetOn, adCalled>>

\* A request fails before its next statement; a budget that was set stays set.
CallFails(c) ==
  /\ Answered(c)
  /\ UNCHANGED <<today, up, spend, made, budget, spendOn, budgetOn, adCalled>>

\* The filler's loop: at the start and every hour.
Fill ==
  /\ up /\ FillEstimatedSpend
  /\ UNCHANGED <<today, up, budget, spendOn, budgetOn, adCalls, adCalled>>

\* The server stops, with what it was doing, and starts again.
ServerStops ==
  /\ up /\ up' = FALSE /\ adCalls' = {}
  /\ UNCHANGED <<today, spend, made, budget, spendOn, budgetOn, adCalled>>

ServerStarts ==
  /\ ~up /\ up' = TRUE
  /\ UNCHANGED <<today, spend, made, budget, spendOn, budgetOn, adCalls, adCalled>>

DayPasses ==
  /\ today < LastDay /\ today' = today + 1
  /\ UNCHANGED <<up, spend, made, budget, spendOn, budgetOn, adCalls, adCalled>>
-----------------------------------------------------------------------------
AdNext ==
  \/ \E t \in AdTabs :
       \/ LoadSpend(t) \/ LoadBudgets(t) \/ AskRecord(t)
       \/ \E k \in Keys : AskDelete(t, k)
       \/ \E p \in Platforms : AskBudget(t, p) \/ turnOff(t, p)
  \/ \E c \in adCalls :
       UpsertAdSpend(c) \/ DeleteAdSpend(c) \/ UpsertAdBudget(c) \/ FillNow(c) \/ CallFails(c)
  \/ Fill \/ ServerStops \/ ServerStarts \/ DayPasses

\* The loop runs as long as the server does, and its statement does not fail
\* for ever.
AdSpec == AdInit /\ [][AdNext]_adVars /\ WF_adVars(Fill)
-----------------------------------------------------------------------------
(***************************************************************************)
(* "A seller's own figure is never clobbered": a figure that the seller    *)
(* has entered is changed by his own requests about that day and platform, *)
(* and by nothing the filler does, however it runs between them.           *)
(***************************************************************************)
OwnFigure(k) == spend[k] # NoRow /\ ~spend[k].estimated

OwnFiguresStand ==
  [][\A k \in Keys : OwnFigure(k) /\ spend'[k] # spend[k] =>
       \E c \in adCalls : c.op \in {"record", "delete"} /\ c.on = k /\ c \notin adCalls']_adVars

(***************************************************************************)
(* "Self-healing after downtime": while the server is up, every day of an  *)
(* active budget that the filler reaches back to has a figure sooner or    *)
(* later, after a crash between setting the budget and filling in, days    *)
(* without the server, and deleted rows alike.                             *)
(***************************************************************************)
CaughtUp == Lacking = {}

FillerCatchesUp == []<>(up => CaughtUp)
=============================================================================
