----------------------------- MODULE MetaOutbox -----------------------------
(***************************************************************************)
(* The outbox of conversion events.  What happens to an order is committed  *)
(* first; then the same request reads the shop's tracking settings and      *)
(* inserts a row.  A background dispatcher, one goroutine of the one server,*)
(* takes the oldest pending rows in batches and posts them to Meta.         *)
(*                                                                         *)
(* An event stands for one (order, kind): the order was placed, or it was   *)
(* delivered, which may happen again when the seller undoes it.             *)
(*                                                                         *)
(* Every statement of the dispatcher is a step, since the seller, other     *)
(* requests and crashes come between them.  Meta is external: an answer     *)
(* that is lost leaves open whether it has the event.                       *)
(***************************************************************************)
EXTENDS Integers, FiniteSets

CONSTANTS
  Events, Shops,
  Repeated,     \* events that may happen again ("OrderDelivered")
  BatchSize,    \* rows taken in one pass
  MaxAttempts   \* MetaMaxAttempts

ASSUME MetaOutboxAssumption ==
  /\ IsFiniteSet(Events)
  /\ Repeated \subseteq Events
  /\ BatchSize \in Nat \ {0}
  /\ MaxAttempts \in Nat \ {0}

VARIABLES
  shop,         \* the shop of an event; never changes
  active,       \* shops whose settings are Active()
  told,         \* progress of the request that reports an event
  row,          \* meta_events.status, "none" before the row exists
  attempts,     \* meta_events.attempts
  createdAt,    \* meta_events.created_at: the how-manieth row
  batch,        \* rows of this pass that are still to do; {}: no pass
  known,        \* settingsCache of this pass
  phase,        \* what came of sending the oldest of the batch
  received,     \* events Meta has accepted
  onDuring      \* ghost: shops that were active at some time of this pass

requestVars == <<told, createdAt>>
passVars    == <<batch, known, phase>>
vars == <<shop, active, requestVars, row, attempts, passVars, received,
          onDuring>>

\* How the request ended: with a row, with a reason not to write one, or in a
\* crash.
Ended == {"done", "silent", "lost"}

Pending == {e \in Events : row[e] = "pending"}
Rows    == {e \in Events : row[e] # "none"}

\* ORDER BY created_at.
IsOldest(e, S) == e \in S /\ \A f \in S : createdAt[e] <= createdAt[f]

\* ORDER BY created_at LIMIT BatchSize.
IsBatch(B) ==
  /\ B \subseteq Pending
  /\ \A e \in B, f \in Pending \ B : createdAt[e] <= createdAt[f]
  /\ \/ Cardinality(B) = BatchSize
     \/ Cardinality(B) < BatchSize /\ B = Pending

Init ==
  /\ shop \in [Events -> Shops]
  /\ active \in SUBSET Shops
  /\ told = [e \in Events |-> "no"]
  /\ row = [e \in Events |-> "none"]
  /\ attempts = [e \in Events |-> 0]
  /\ createdAt = [e \in Events |-> 0]
  /\ batch = {}
  /\ known = [s \in Shops |-> "unknown"]
  /\ phase = "ready"
  /\ received = {}
  /\ onDuring = {}
-----------------------------------------------------------------------------
(* Requests.                                                               *)

\* The order is placed, or its delivery is written: committed, not reported.
Happen(e) ==
  /\ \/ told[e] = "no"
     \/ told[e] \in Ended /\ e \in Repeated
  /\ told' = [told EXCEPT ![e] = "committed"]
  /\ UNCHANGED <<shop, active, createdAt, row, attempts, passVars, received,
                 onDuring>>

\* PublishOrderEvent reads the settings; a seller may not track deliveries.
ReadSettings(e) ==
  /\ told[e] = "committed"
  /\ \/ /\ shop[e] \in active
        /\ told' = [told EXCEPT ![e] = "wanted"]
     \/ /\ shop[e] \notin active \/ e \in Repeated
        /\ told' = [told EXCEPT ![e] = "silent"]
  /\ UNCHANGED <<shop, active, createdAt, row, attempts, passVars, received,
                 onDuring>>

\* Bug for SettledStays: ON CONFLICT DO UPDATE SET status = 'pending'.
EnqueueAgain(e) ==
  /\ told[e] = "wanted"
  /\ told' = [told EXCEPT ![e] = "done"]
  /\ row' = [row EXCEPT ![e] = "pending"]
  /\ createdAt' = [createdAt EXCEPT ![e] = Cardinality(Rows) + 1]
  /\ UNCHANGED <<shop, active, attempts, passVars, received, onDuring>>

\* EnqueueEvent: ON CONFLICT (shop_id, event_id) DO NOTHING.
Enqueue(e) ==
  /\ told[e] = "wanted"
  /\ told' = [told EXCEPT ![e] = "done"]
  /\ IF row[e] = "none"
     THEN /\ row' = [row EXCEPT ![e] = "pending"]
          /\ createdAt' = [createdAt EXCEPT ![e] = Cardinality(Rows) + 1]
     ELSE UNCHANGED <<row, createdAt>>
  /\ UNCHANGED <<shop, active, attempts, passVars, received, onDuring>>

\* Reading the settings or inserting the row fails: logged, and forgotten.
PublishFails(e) ==
  /\ told[e] \in {"committed", "wanted"}
  /\ told' = [told EXCEPT ![e] = "silent"]
  /\ UNCHANGED <<shop, active, createdAt, row, attempts, passVars, received,
                 onDuring>>

\* UpdateSettings: the seller turns tracking on or off.
Toggle(s) ==
  /\ active' = IF s \in active THEN active \ {s} ELSE active \cup {s}
  /\ onDuring' = onDuring \cup (active' \cap {s})
  /\ UNCHANGED <<shop, requestVars, row, attempts, passVars, received>>
-----------------------------------------------------------------------------
(* The dispatcher.                                                         *)

\* Bug for SentOnlyWhileOn: the cache of the settings outlives the pass.
ClaimOldCache ==
  /\ batch = {}
  /\ Pending # {}
  /\ \E B \in SUBSET Events : IsBatch(B) /\ batch' = B
  /\ phase' = "ready"
  /\ onDuring' = active
  /\ UNCHANGED <<shop, active, requestVars, row, attempts, known, received>>

\* A tick: ClaimPending, and an empty cache.
Claim ==
  /\ batch = {}
  /\ Pending # {}
  /\ \E B \in SUBSET Events : IsBatch(B) /\ batch' = B
  /\ known' = [s \in Shops |-> "unknown"]
  /\ phase' = "ready"
  /\ onDuring' = active
  /\ UNCHANGED <<shop, active, requestVars, row, attempts, received>>

\* GetSettings, once per shop and pass.
LookUp(e) ==
  /\ IsOldest(e, batch)
  /\ known[shop[e]] = "unknown"
  /\ known' = [known EXCEPT ![shop[e]] = IF shop[e] \in active THEN "on"
                                                               ELSE "off"]
  /\ UNCHANGED <<shop, active, requestVars, row, attempts, batch, phase,
                 received, onDuring>>

\* buildEvent and Send.  Meta accepts the event; or Meta is busy or the answer
\* does not arrive, which is worth a retry; or Meta refuses it, or the order
\* cannot be read, which is not.
Deliver(e) ==
  /\ IsOldest(e, batch)
  /\ known[shop[e]] = "on"
  /\ phase = "ready"
  /\ \/ phase' = "accepted" /\ received' = received \cup {e}
     \/ phase' = "retry" /\ received' \in {received, received \cup {e}}
     \/ phase' = "refused" /\ UNCHANGED received
  /\ UNCHANGED <<shop, active, requestVars, row, attempts, batch, known,
                 onDuring>>

\* Bug for SentWasReceived: the error of Send is not looked at.
StatusAfterIgnoringErrors(e) ==
  CASE phase = "retry" /\ attempts[e] + 1 < MaxAttempts -> "pending"
    [] phase = "ready" -> "failed"
    [] OTHER -> "sent"

\* What MarkSent or MarkFailed makes of the status.  Phase "ready": tracking is
\* off, and the event is dropped without sending it.
StatusAfter(e) ==
  CASE phase = "accepted" -> "sent"
    [] phase = "retry" /\ attempts[e] + 1 < MaxAttempts -> "pending"
    [] OTHER -> "failed"

\* Bug for EventsSettle: only a delivery counts as an attempt.
AttemptsAfterDelivery(e) ==
  IF phase = "accepted" THEN attempts[e] + 1 ELSE attempts[e]

\* MarkSent and MarkFailed both count the attempt.
AttemptsAfter(e) == attempts[e] + 1

\* MarkSent or MarkFailed, and on to the next event.
Mark(e) ==
  /\ IsOldest(e, batch)
  /\ phase # "ready" \/ known[shop[e]] = "off"
  /\ row' = [row EXCEPT ![e] = StatusAfter(e)]
  /\ attempts' = [attempts EXCEPT ![e] = AttemptsAfter(e)]
  /\ batch' = batch \ {e}
  /\ phase' = "ready"
  /\ UNCHANGED <<shop, active, requestVars, known, received, onDuring>>

\* On to the next event without a mark: the settings cannot be read, or the mark
\* fails, which is logged or ignored; so does everything that is left of a pass
\* once its two minutes are over.
Skip(e) ==
  /\ IsOldest(e, batch)
  /\ phase # "ready" \/ known[shop[e]] # "on"
  /\ batch' = batch \ {e}
  /\ phase' = "ready"
  /\ UNCHANGED <<shop, active, requestVars, row, attempts, known, received,
                 onDuring>>

\* The server dies and starts again.
Crash ==
  /\ told' = [e \in Events |-> IF told[e] \in {"committed", "wanted"}
                               THEN "lost" ELSE told[e]]
  /\ batch' = {}
  /\ phase' = "ready"
  /\ UNCHANGED <<shop, active, createdAt, row, attempts, known, received,
                 onDuring>>
-----------------------------------------------------------------------------
RequestNext == \E e \in Events :
  Happen(e) \/ ReadSettings(e) \/ Enqueue(e) \/ PublishFails(e)

DispatchNext ==
  \/ Claim
  \/ \E e \in Events : LookUp(e) \/ Deliver(e) \/ Mark(e) \/ Skip(e)

Next == RequestNext \/ DispatchNext \/ Crash \/ \E s \in Shops : Toggle(s)

Spec == Init /\ [][Next]_vars

\* The ticker keeps firing, and neither the database nor the server is down
\* every time the dispatcher gets to an event.
Fairness ==
  /\ WF_vars(Claim)
  /\ \A e \in Events :
       SF_vars(LookUp(e)) /\ SF_vars(Deliver(e)) /\ SF_vars(Mark(e))

FairSpec == Spec /\ Fairness
-----------------------------------------------------------------------------
(* Properties.                                                             *)

TypeOK ==
  /\ shop \in [Events -> Shops]
  /\ active \subseteq Shops
  /\ told \in [Events -> {"no", "committed", "wanted"} \cup Ended]
  /\ row \in [Events -> {"none", "pending", "sent", "failed"}]
  /\ attempts \in [Events -> 0..MaxAttempts]
  /\ createdAt \in [Events -> Nat]
  /\ batch \subseteq Events
  /\ known \in [Shops -> {"unknown", "on", "off"}]
  /\ phase \in {"ready", "accepted", "retry", "refused"}
  /\ received \subseteq Events
  /\ onDuring \subseteq Shops

\* A row is marked sent only if Meta accepted its event, in this pass or, when
\* the mark or the server failed, in an earlier one.
SentWasReceived == \A e \in Events : row[e] = "sent" => e \in received

\* A row that is sent or parked stays so and is not touched again, though its
\* event may be reported again while the dispatcher is at work.
SettledStays ==
  [][\A e \in Events : row[e] \in {"sent", "failed"} =>
       row'[e] = row[e] /\ attempts'[e] = attempts[e]]_vars

\* Nothing is sent for a shop whose tracking was off during the whole pass: the
\* settings of a pass are at most as old as the pass.
SentOnlyWhileOn ==
  [][\A e \in received' \ received : shop[e] \in onDuring]_vars

\* Every row is sent or parked in the end: the rows at the head of the queue
\* that keep failing do not hold up the others for ever.
EventsSettle ==
  \A e \in Events : row[e] = "pending" ~> row[e] \in {"sent", "failed"}

\* What the others rest on: the batch has pending rows only; ...
BatchIsPending == \A e \in batch : row[e] = "pending"

\* ... a row that is not settled has attempts left; ...
AttemptsLeft ==
  \A e \in Events : row[e] \in {"none", "pending"} => attempts[e] < MaxAttempts

\* ... rows are told apart by their age; ...
AgesDiffer ==
  /\ \A e \in Rows : createdAt[e] <= Cardinality(Rows)
  /\ \A e, f \in Rows : createdAt[e] = createdAt[f] => e = f

\* ... Meta has what it just accepted; ...
AcceptedIsReceived ==
  phase = "accepted" => \A e \in Events : IsOldest(e, batch) => e \in received

\* ... and what the pass knows was so during the pass.
KnownWasOn ==
  batch # {} => /\ active \subseteq onDuring
                /\ \A s \in Shops : known[s] = "on" => s \in onDuring

Inductive ==
  /\ TypeOK
  /\ SentWasReceived
  /\ BatchIsPending
  /\ AttemptsLeft
  /\ AgesDiffer
  /\ AcceptedIsReceived
  /\ KnownWasOn

\* "can never [...] lose a conversion to a server restart": a restart costs no
\* event of a shop with tracking on.
NoConversionLost ==
  \A e \in Events : told[e] = "lost" /\ shop[e] \in active => row[e] # "none"
=============================================================================
