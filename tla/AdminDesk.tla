----------------------------- MODULE AdminDesk -----------------------------
(***************************************************************************)
(* The admin pages that change something: the team page, which gives and   *)
(* takes admin rights, the lists of shops and products with their levers   *)
(* (suspend, hide), and the drawer of a customer's report, which may do    *)
(* two calls in a row.  Each admin works in a tab on copies that may be    *)
(* outdated; a request is let in by requireAdmin and takes effect later.   *)
(***************************************************************************)
EXTENDS Naturals, FiniteSets

CONSTANTS
  Users,    \* numbered by the age of their accounts: a smaller number is older
  Staff,    \* those of them who work on the lists and the reports
  Shops,    \* reported and suspended
  Items,    \* products of theirs, hidden and shown
  Reports,  \* customers' reports, in no particular order
  MaxEntered \* bound on the requests for rights that are handled at once

NoReport == "none"

ASSUME AdminAssumption ==
  /\ Users \subseteq Nat /\ Staff \subseteq Users
  /\ Shops \cap Items = {} /\ MaxEntered \in Nat
  /\ NoReport \notin Reports

VARIABLES
  admins,   \* users with admin rights
  team,     \* the team as each admin's page shows it
  entered,  \* requests to change rights that requireAdmin has let in
  lever,    \* of each shop and product: "untouched", "down" (suspended, hidden) or "up"
  rows,     \* is it down, as each admin's lists show it
  reports,  \* the reports that were made
  opened,   \* the report each admin's drawer shows
  job       \* the call each admin's tab is waiting for

teamVars == <<admins, team, entered>>
listVars == <<lever, rows>>
reportVars == <<reports, opened>>
adminVars == <<teamVars, listVars, reportVars, job>>

NoJob == [call |-> "none", on |-> NoReport, down |-> FALSE, report |-> NoReport, status |-> "open"]

AdminInit ==
  /\ admins \in (SUBSET Users) \ {{}}
  /\ team = [u \in Users |-> {}] /\ entered = {}
  /\ lever = [x \in Shops \cup Items |-> "untouched"]
  /\ rows = [u \in Staff |-> [x \in Shops \cup Items |-> FALSE]]
  /\ reports = << >> /\ opened = [u \in Staff |-> NoReport]
  /\ job = [u \in Staff |-> NoJob]
-----------------------------------------------------------------------------
(* The team.                                                               *)

\* ListAdmins: the team, oldest account first.
LoadTeam(u) ==
  /\ u \in admins
  /\ team' = [team EXCEPT ![u] = admins]
  /\ UNCHANGED <<admins, entered, listVars, reportVars, job>>

\* Bug for AnAdminRemains: the row of the super admin has the button as well.
RemovableAll(u) == team[u] \ {u}

\* "Remove access" is in every row but one's own and that of the super admin,
\* who is the oldest of the list.
Removable(u) == {m \in team[u] \ {u} : \E o \in team[u] : o < m}

\* requireAdmin asks before the request is handled.
LetIn(u, m, make) ==
  /\ u \in admins /\ Cardinality(entered) < MaxEntered
  /\ entered' = entered \cup {[by |-> u, to |-> m, make |-> make]}
  /\ UNCHANGED <<admins, team, listVars, reportVars, job>>

Demote(u, m) == m \in Removable(u) /\ LetIn(u, m, FALSE)

\* The results of a search may be old: anybody may be in them.
Promote(u, m) == LetIn(u, m, TRUE)

\* Nobody takes his own rights.
SetUserAdmin(r) ==
  /\ r \in entered
  /\ entered' = entered \ {r}
  /\ admins' = IF r.make THEN admins \cup {r.to}
               ELSE IF r.by = r.to THEN admins
               ELSE admins \ {r.to}
  /\ UNCHANGED <<team, listVars, reportVars, job>>
-----------------------------------------------------------------------------
(* The lists and their levers.                                             *)

LoadRows(u) ==
  /\ u \in admins
  /\ rows' = [rows EXCEPT ![u] = [x \in Shops \cup Items |-> lever[x] = "down"]]
  /\ UNCHANGED <<teamVars, lever, reportVars, job>>

Ask(u, call) ==
  /\ u \in admins /\ job[u] = NoJob
  /\ job' = [job EXCEPT ![u] = call]

\* A tab asks for the opposite of what its row shows.
Toggle(u, x) ==
  /\ Ask(u, [call |-> "lever", on |-> x, down |-> ~rows[u][x],
             report |-> NoReport, status |-> "open"])
  /\ UNCHANGED <<teamVars, listVars, reportVars>>

toggleSuspend(u, s) == Toggle(u, s)
toggleActive(u, p) == Toggle(u, p)

\* SetShopSuspended and SetProductActive.  The drawer goes on with the report
\* when the answer arrives; when it is lost, the call has failed for the tab.
SetLever(u) ==
  /\ job[u].call = "lever"
  /\ lever' = [lever EXCEPT ![job[u].on] = IF job[u].down THEN "down" ELSE "up"]
  /\ \/ job' = [job EXCEPT ![u] = NoJob]
     \/ job[u].report # NoReport /\ job' = [job EXCEPT ![u].call = "update"]
  /\ UNCHANGED <<teamVars, rows, reportVars>>

\* A call fails, or is given up, without an effect.
Fail(u) ==
  /\ job[u] # NoJob
  /\ job' = [job EXCEPT ![u] = NoJob]
  /\ UNCHANGED <<teamVars, listVars, reportVars>>
-----------------------------------------------------------------------------
(* The reports.                                                            *)

\* A customer reports a shop.
SubmitReport(r, s) ==
  /\ r \notin DOMAIN reports
  /\ reports' = [q \in DOMAIN reports \cup {r} |->
       IF q = r THEN [shop |-> s, status |-> "open", suspended |-> FALSE] ELSE reports[q]]
  /\ UNCHANGED <<teamVars, listVars, opened, job>>

\* A row of the list is clicked, or the drawer is closed, even while its call is
\* under way.
OpenReport(u, r) ==
  /\ r \in DOMAIN reports \cup {NoReport}
  /\ opened' = [opened EXCEPT ![u] = r]
  /\ UNCHANGED <<teamVars, listVars, reports, job>>

\* "I'm looking into this", "Resolved" and "Dismiss".
Change(u, status) ==
  /\ opened[u] # NoReport
  /\ Ask(u, [call |-> "update", on |-> NoReport, down |-> FALSE,
             report |-> opened[u], status |-> status])
  /\ UNCHANGED <<teamVars, listVars, reportVars>>

\* Bug for ResolvedWereSuspended: the report is updated first.
ResolveThenSuspend(u) ==
  /\ opened[u] # NoReport
  /\ Ask(u, [call |-> "update", on |-> reports[opened[u]].shop, down |-> TRUE,
             report |-> opened[u], status |-> "resolved"])
  /\ UNCHANGED <<teamVars, listVars, reportVars>>

\* "Suspend the shop & resolve": the shop first.
SuspendAndResolve(u) ==
  /\ opened[u] # NoReport
  /\ Ask(u, [call |-> "lever", on |-> reports[opened[u]].shop, down |-> TRUE,
             report |-> opened[u], status |-> "resolved"])
  /\ UNCHANGED <<teamVars, listVars, reportVars>>

\* UpdateStatus, whatever the status is by now.  After the answer the drawer
\* closes.
UpdateReport(u) ==
  /\ job[u].call = "update"
  /\ reports' = [reports EXCEPT ![job[u].report].status = job[u].status,
                                ![job[u].report].suspended = job[u].down]
  /\ job' = [job EXCEPT ![u] = NoJob]
  /\ opened' \in {opened, [opened EXCEPT ![u] = NoReport]}
  /\ UNCHANGED <<teamVars, listVars>>

\* The team page, and the other pages.
TeamNext ==
  \/ \E u \in Users : LoadTeam(u)
  \/ \E u, m \in Users : Demote(u, m) \/ Promote(u, m)
  \/ \E r \in entered : SetUserAdmin(r)

ListNext ==
  \/ \E u \in Staff : LoadRows(u)
  \/ \E u \in Staff, s \in Shops : toggleSuspend(u, s)
  \/ \E u \in Staff, p \in Items : toggleActive(u, p)
  \/ \E u \in Staff : SetLever(u) \/ Fail(u)
  \/ \E r \in Reports, s \in Shops : SubmitReport(r, s)
  \/ \E u \in Staff, r \in Reports \cup {NoReport} : OpenReport(u, r)
  \/ \E u \in Staff, status \in {"reviewing", "resolved", "dismissed"} : Change(u, status)
  \/ \E u \in Staff : SuspendAndResolve(u) \/ UpdateReport(u)

AdminNext == TeamNext \/ ListNext

AdminSpec == AdminInit /\ [][AdminNext]_adminVars
-----------------------------------------------------------------------------
(* Properties.                                                             *)

\* The lockout trap of admin_access_service.go:44: however many admins take
\* each other's rights at once and on outdated lists, one is left.  The server
\* refuses self-demotion only; it takes the missing button of the super admin.
AnAdminRemains == admins # {}

\* A report that was closed by "Suspend the shop & resolve" is about a shop that
\* was suspended, although either of the two calls may fail: the shop is down,
\* or was put up again by an admin.
ResolvedWereSuspended ==
  \A r \in DOMAIN reports : reports[r].suspended => lever[reports[r].shop] # "untouched"
=============================================================================
