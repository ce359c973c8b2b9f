----------------------------- MODULE Accounts ------------------------------
(***************************************************************************)
(* One account: the session of a browser, which signs in, out and in again *)
(* by the refresh cookie, and the reset of the password by a code that is  *)
(* mailed.  The browser's calls overlap: the refresh that starts the page, *)
(* a login, a logout, and the calls of the pages, which refresh an expired *)
(* access token and try again.                                             *)
(*                                                                         *)
(* A password is its number; the refresh cookie is tied to it, the access  *)
(* token is not.                                                           *)
(***************************************************************************)
EXTENDS Naturals, FiniteSets

CONSTANTS
  MaxCodes,   \* bound on the reset codes that are made
  MaxWrong,   \* wrong codes that a reset takes
  MaxLogins   \* bound on the logins

NoCookie == 0
NoCode == [code |-> 0, wrong |-> 0, live |-> FALSE, recent |-> FALSE]

ASSUME AccountAssumption == {MaxCodes, MaxWrong, MaxLogins} \subseteq Nat

VARIABLES
  password,  \* the number of the password in force
  codes,     \* reset codes that were made
  stored,    \* the row of password_resets
  mails,     \* codes that are being mailed
  mailed,    \* codes that have arrived
  unmailed,  \* codes that could not be mailed
  used       \* codes that have changed the password

VARIABLES
  cookie,    \* the password the refresh cookie is tied to
  token,     \* the access token: "none", "valid" or "expired"
  user,      \* is somebody signed in
  loading,   \* is the first refresh under way
  start,     \* how far the first refresh is
  disturbed, \* was a call of it lost, or did somebody sign out meanwhile, or in
             \* while its refusal was being read
  startWith, \* the cookie it was sent with
  login,     \* is a login under way
  logout,    \* is a logout under way
  call,      \* how far a call of a page is
  logins     \* logins that were made

resetVars == <<codes, stored, mails, mailed, unmailed, used>>
startVars == <<loading, start, disturbed, startWith>>
restVars == <<login, logout, call, logins>>
browserVars == <<cookie, token, user, startVars, restVars>>
accountVars == <<password, resetVars, browserVars>>

AccountInit ==
  /\ password = 1
  /\ codes = 0 /\ stored = NoCode /\ mails = {} /\ mailed = {} /\ unmailed = {} /\ used = {}
  /\ cookie \in {NoCookie, 1} /\ token = "none" /\ user = FALSE
  /\ loading = TRUE /\ start = "refresh" /\ disturbed = FALSE /\ startWith = cookie
  /\ login = FALSE /\ logout = FALSE /\ call = "none" /\ logins = 0
-----------------------------------------------------------------------------
(* The reset of the password.                                              *)

\* Request: a code is stored unless the last one is younger than a minute.
RequestCode ==
  /\ codes < MaxCodes /\ ~stored.recent
  /\ codes' = codes + 1
  /\ stored' = [code |-> codes + 1, wrong |-> 0, live |-> TRUE, recent |-> TRUE]
  /\ mails' = mails \cup {codes + 1}
  /\ UNCHANGED <<password, mailed, unmailed, used, browserVars>>

MinutePasses ==
  /\ stored.recent
  /\ stored' = [stored EXCEPT !.recent = FALSE]
  /\ UNCHANGED <<password, codes, mails, mailed, unmailed, used, browserVars>>

\* Ten minutes.
CodeExpires ==
  /\ stored.live
  /\ stored' = [stored EXCEPT !.live = FALSE, !.recent = FALSE]
  /\ UNCHANGED <<password, codes, mails, mailed, unmailed, used, browserVars>>

MailArrives(c) ==
  /\ c \in mails
  /\ mails' = mails \ {c} /\ mailed' = mailed \cup {c}
  /\ UNCHANGED <<password, codes, stored, unmailed, used, browserVars>>

\* Bug for NewestCodeStands: the row of the user is deleted, whatever its code.
MailFailsAnyCode(c) ==
  /\ c \in mails
  /\ mails' = mails \ {c} /\ unmailed' = unmailed \cup {c}
  /\ mailed' \in {mailed, mailed \cup {c}}
  /\ stored' \in {stored, NoCode}
  /\ UNCHANGED <<password, codes, used, browserVars>>

\* Send returns an error, before or after the mail was handed over: Delete takes
\* the code back, but no newer one; an error of Delete itself is ignored.
MailFails(c) ==
  /\ c \in mails
  /\ mails' = mails \ {c} /\ unmailed' = unmailed \cup {c}
  /\ mailed' \in {mailed, mailed \cup {c}}
  /\ stored' \in {stored, IF stored.code = c THEN NoCode ELSE stored}
  /\ UNCHANGED <<password, codes, used, browserVars>>

\* Consume locks the row: a code that is live and has tries left is compared; a
\* match sets the password and deletes the row, all others count.
Consume(c) ==
  /\ c \in mailed \cup {0}
  /\ stored.live /\ stored.wrong < MaxWrong
  /\ IF stored.code = c
     THEN /\ password' = password + 1
          /\ stored' = NoCode /\ used' = used \cup {c}
     ELSE /\ stored' = [stored EXCEPT !.wrong = @ + 1]
          /\ UNCHANGED <<password, used>>
  /\ UNCHANGED <<codes, mails, mailed, unmailed, browserVars>>
-----------------------------------------------------------------------------
(* The session of the browser.                                             *)

\* Refresh of the server: the cookie is of the password in force.
Refreshes(c) == c # NoCookie /\ c = password

\* The first refresh fails: nobody is signed in.
StartFailed == token' = "none" /\ user' = FALSE /\ loading' = FALSE /\ start' = "done"

\* The final answer is a refusal: its body is read before anything is done.
StartReadsRefusal == start' = "refused" /\ UNCHANGED <<token, startWith>>

\* Bug for StaysSignedIn: a refresh that is refused is not tried again.
StartAnsweredOnce ==
  /\ start = "refresh"
  /\ IF Refreshes(startWith)
     THEN token' = "valid" /\ start' = "me" /\ UNCHANGED startWith
     ELSE StartReadsRefusal
  /\ UNCHANGED <<password, resetVars, cookie, user, loading, disturbed, restVars>>

\* tryRefresh through rawFetch: a refusal is taken for an expired token if there
\* is one by now (of a login), which is refreshed before the call is repeated.
StartAnswered ==
  /\ start = "refresh"
  /\ \/ /\ Refreshes(startWith)
        /\ token' = "valid" /\ start' = "me" /\ UNCHANGED startWith
     \/ /\ ~Refreshes(startWith) /\ token # "none"
        /\ start' = "renew" /\ startWith' = cookie /\ UNCHANGED token
     \/ /\ ~Refreshes(startWith) /\ token = "none"
        /\ StartReadsRefusal
  /\ UNCHANGED <<password, resetVars, cookie, user, loading, disturbed, restVars>>

StartRenewed ==
  /\ start = "renew"
  /\ IF Refreshes(startWith)
     THEN token' = "valid" /\ start' = "again" /\ startWith' = cookie
     ELSE StartReadsRefusal
  /\ UNCHANGED <<password, resetVars, cookie, user, loading, disturbed, restVars>>

StartRepeated ==
  /\ start = "again"
  /\ IF Refreshes(startWith)
     THEN token' = "valid" /\ start' = "me" /\ UNCHANGED startWith
     ELSE StartReadsRefusal
  /\ UNCHANGED <<password, resetVars, cookie, user, loading, disturbed, restVars>>

\* The refusal has been read: the token and the user of this moment go, also
\* those of a login that was answered meanwhile.
StartRefused ==
  /\ start = "refused"
  /\ StartFailed
  /\ UNCHANGED <<password, resetVars, cookie, disturbed, startWith, restVars>>

\* The account is asked for; a token of a moment ago is valid.
MeAnswered ==
  /\ start = "me"
  /\ user' = TRUE /\ loading' = FALSE /\ start' = "done"
  /\ UNCHANGED <<password, resetVars, cookie, token, disturbed, startWith, restVars>>

\* A call of the first refresh gets no answer.
StartLost ==
  /\ start \notin {"refused", "done"}
  /\ StartFailed /\ disturbed' = TRUE
  /\ UNCHANGED <<password, resetVars, cookie, startWith, restVars>>

\* The login page does not wait for the first refresh; it is left by a login.
Login ==
  /\ logins < MaxLogins /\ ~login /\ ~user
  /\ login' = TRUE /\ logins' = logins + 1
  /\ UNCHANGED <<password, resetVars, cookie, token, user, startVars, logout, call>>

\* The answer brings the cookie and the token, or an error.
LoginAnswered ==
  /\ login
  /\ login' = FALSE
  /\ \/ /\ cookie' = password /\ token' = "valid" /\ user' = TRUE
        /\ disturbed' = IF start = "refused" THEN TRUE ELSE disturbed
     \/ UNCHANGED <<cookie, token, user, disturbed>>
  /\ UNCHANGED <<password, resetVars, loading, start, startWith, logout, call, logins>>

Logout ==
  /\ user /\ ~logout
  /\ logout' = TRUE
  /\ UNCHANGED <<password, resetVars, cookie, token, user, startVars, login, call, logins>>

\* The answer clears the cookie; if it is lost, the rest is cleared all the same.
LogoutAnswered ==
  /\ logout
  /\ logout' = FALSE /\ token' = "none" /\ user' = FALSE
  /\ cookie' \in {cookie, NoCookie}
  /\ disturbed' = TRUE
  /\ UNCHANGED <<password, resetVars, loading, start, startWith, login, call, logins>>

TokenExpires ==
  /\ token = "valid"
  /\ token' = "expired"
  /\ UNCHANGED <<password, resetVars, cookie, user, startVars, restVars>>

\* A page of the dashboard calls the server.
Call ==
  /\ user /\ call = "none"
  /\ call' = "asked"
  /\ UNCHANGED <<password, resetVars, cookie, token, user, startVars, login, logout, logins>>

\* The answer: a token that has expired is refreshed first.
CallAnswered ==
  /\ call = "asked"
  /\ call' = IF token = "expired" THEN "renew" ELSE "none"
  /\ UNCHANGED <<password, resetVars, cookie, token, user, startVars, login, logout, logins>>

\* The token is kept whether or not somebody is signed in by now; an error
\* leaves everything to the page.
CallRenewed ==
  /\ call = "renew"
  /\ call' = "none"
  /\ \/ Refreshes(cookie) /\ token' = "valid"
     \/ UNCHANGED token
  /\ UNCHANGED <<password, resetVars, cookie, user, startVars, login, logout, logins>>

ResetNext ==
  \/ RequestCode
  \/ MinutePasses
  \/ CodeExpires
  \/ \E c \in 1..MaxCodes : MailArrives(c) \/ MailFails(c)
  \/ \E c \in 0..MaxCodes : Consume(c)

StartNext ==
  \/ StartAnswered
  \/ StartRenewed
  \/ StartRepeated
  \/ StartRefused
  \/ MeAnswered
  \/ StartLost

SessionNext ==
  \/ StartNext
  \/ Login
  \/ LoginAnswered
  \/ Logout
  \/ LogoutAnswered
  \/ TokenExpires
  \/ Call
  \/ CallAnswered
  \/ CallRenewed

AccountNext == ResetNext \/ SessionNext

AccountSpec == AccountInit /\ [][AccountNext]_accountVars
-----------------------------------------------------------------------------
(* Properties.                                                             *)

\* The newest code can be used until it expires, is used or has been guessed at
\* too often: a mail that fails late takes no newer code back
\* (password_reset.go:63), and no older code is taken for it.
NewestCodeStands ==
  /\ stored.code \in {0, codes}
  /\ stored.code = 0 => codes = 0 \/ codes \in unmailed \cup used

\* Somebody who has signed in stays so until he signs out, although the refusal
\* of the first refresh may come after the answer to his login (lib/api.ts:54).
\* Four cases are left, in which tryRefresh signs him out (useAuth.tsx:39-40): a
\* call of the first refresh is lost, somebody has signed out during it, the
\* login is answered while the body of the refusal is read (lib/api.ts:63), or the
\* password is reset meanwhile.
StaysSignedIn ==
  [][user /\ ~user' => logout \/ disturbed' \/ startWith \notin {NoCookie, password}]_accountVars
=============================================================================
