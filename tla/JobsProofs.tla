----------------------------- MODULE JobsProofs -----------------------------
(***************************************************************************)
(* Proofs about the background jobs.  The outbox: types, that only what    *)
(* Meta accepted is marked sent, that settled rows stay, and that no shop  *)
(* whose tracking is off is reported, for any number of events and shops.  *)
(* The filler: what the seller entered stays.  The visits: only the        *)
(* janitor lets a repeat count, and nothing is left behind when the        *)
(* writers go.                                                             *)
(***************************************************************************)
EXTENDS MetaOutbox, AdSpend, VisitPipeline, FiniteSetTheorems, TLAPS

-----------------------------------------------------------------------------
(* The outbox.                                                             *)

\* The batch has one oldest event.
LEMMA OldestIsUnique ==
  ASSUME Inductive, NEW e, NEW f, IsOldest(e, batch), IsOldest(f, batch)
  PROVE  e = f
<1>1. e \in Rows /\ f \in Rows
  BY DEF Inductive, TypeOK, BatchIsPending, IsOldest, Rows
<1>2. createdAt[e] = createdAt[f]
  <2>1. createdAt[e] <= createdAt[f] /\ createdAt[f] <= createdAt[e]
    BY DEF IsOldest
  <2>2. createdAt[e] \in Nat /\ createdAt[f] \in Nat
    BY <1>1 DEF Inductive, TypeOK, Rows
  <2>3. QED
    BY <2>1, <2>2
<1>3. QED
  BY <1>1, <1>2 DEF Inductive, AgesDiffer

\* The rows can be counted.
LEMMA CountedRows == Cardinality(Rows) \in Nat /\ IsFiniteSet(Rows)
<1>1. Rows \in SUBSET Events
  BY DEF Rows
<1>2. IsFiniteSet(Rows)
  BY <1>1, FS_Subset, MetaOutboxAssumption
<1>3. QED
  BY <1>2, FS_CardinalityType

LEMMA InitInductive == Init => Inductive
<1> SUFFICES ASSUME Init PROVE Inductive
  OBVIOUS
<1>1. TypeOK
  BY MetaOutboxAssumption DEF Init, TypeOK
<1>2. Rows = {}
  BY DEF Init, Rows
<1>3. SentWasReceived /\ BatchIsPending /\ AttemptsLeft
  BY MetaOutboxAssumption DEF Init, SentWasReceived, BatchIsPending, AttemptsLeft
<1>4. AgesDiffer /\ AcceptedIsReceived /\ KnownWasOn
  BY <1>2 DEF Init, AgesDiffer, AcceptedIsReceived, KnownWasOn
<1>5. QED
  BY <1>1, <1>3, <1>4 DEF Inductive

\* A new row is younger than every other.
LEMMA EnqueueInductive ==
  ASSUME Inductive, NEW e \in Events, Enqueue(e)
  PROVE  Inductive'
<1> DEFINE n == Cardinality(Rows)
<1>1. TypeOK /\ n \in Nat
  BY CountedRows DEF Inductive
<1>2. CASE row[e] # "none"
  <2>1. UNCHANGED <<shop, active, row, attempts, createdAt, batch, known, phase,
                    received, onDuring>>
    BY <1>2 DEF Enqueue, passVars
  <2>2. told' \in [Events -> {"no", "committed", "wanted"} \cup Ended]
    BY <1>1 DEF Enqueue, TypeOK, Ended
  <2>3. QED
    BY <2>1, <2>2 DEF Inductive, TypeOK, SentWasReceived, BatchIsPending,
       AttemptsLeft, AgesDiffer, AcceptedIsReceived, KnownWasOn, Rows, IsOldest
<1>3. CASE row[e] = "none"
  <2>1. /\ row' = [row EXCEPT ![e] = "pending"]
        /\ createdAt' = [createdAt EXCEPT ![e] = n + 1]
        /\ told' = [told EXCEPT ![e] = "done"]
        /\ UNCHANGED <<shop, active, attempts, batch, known, phase, received,
                       onDuring>>
    BY <1>3 DEF Enqueue, passVars
  <2>2. TypeOK'
    BY <1>1, <2>1 DEF TypeOK, Ended
  <2>3. Rows' = Rows \cup {e} /\ e \notin Rows
    BY <1>1, <1>3, <2>1 DEF TypeOK, Rows
  <2>4. Cardinality(Rows') = n + 1
    BY <2>3, CountedRows, FS_AddElement
  <2>5. \A f \in Rows : createdAt'[f] = createdAt[f] /\ createdAt[f] \in Nat
                        /\ createdAt[f] <= n
    BY <1>1, <2>1, <2>3 DEF Inductive, AgesDiffer, TypeOK, Rows
  <2>6. createdAt'[e] = n + 1
    BY <1>1, <2>1 DEF TypeOK
  <2>7. AgesDiffer'
    <3> HIDE DEF n
    <3>1. \A f \in Rows' : createdAt'[f] <= n + 1
      BY <1>1, <2>3, <2>5, <2>6
    <3>2. \A f \in Rows : createdAt'[f] # createdAt'[e]
      BY <1>1, <2>5, <2>6
    <3>3. \A f, g \in Rows : createdAt'[f] = createdAt'[g] => f = g
      BY <2>5 DEF Inductive, AgesDiffer
    <3>4. QED
      BY <2>3, <2>4, <3>1, <3>2, <3>3 DEF AgesDiffer
  <2>8. e \notin batch
    BY <1>3 DEF Inductive, BatchIsPending
  <2>9. BatchIsPending' /\ SentWasReceived' /\ AttemptsLeft'
    BY <1>1, <1>3, <2>1, <2>8
    DEF Inductive, TypeOK, BatchIsPending, SentWasReceived, AttemptsLeft
  <2>10. AcceptedIsReceived'
    <3>1. \A f : IsOldest(f, batch)' => IsOldest(f, batch)
      BY <1>1, <2>1, <2>8 DEF IsOldest, TypeOK
    <3>2. QED
      BY <2>1, <3>1 DEF Inductive, AcceptedIsReceived
  <2>11. KnownWasOn'
    BY <2>1 DEF Inductive, KnownWasOn
  <2>12. QED
    BY <2>2, <2>7, <2>9, <2>10, <2>11 DEF Inductive
<1>4. QED
  BY <1>2, <1>3

\* Only marking changes a row that exists, and it does so to a pending one.
LEMMA MarkInductive ==
  ASSUME Inductive, NEW e \in Events, Mark(e)
  PROVE  Inductive'
<1>1. TypeOK /\ row[e] = "pending" /\ e \in batch
  BY DEF Inductive, BatchIsPending, Mark, IsOldest
<1>2. /\ row' = [row EXCEPT ![e] = StatusAfter(e)]
      /\ attempts' = [attempts EXCEPT ![e] = AttemptsAfter(e)]
      /\ batch' = batch \ {e}
      /\ phase' = "ready"
      /\ UNCHANGED <<shop, active, told, createdAt, known, received, onDuring>>
  BY DEF Mark, requestVars
<1>3. /\ attempts[e] \in Nat
      /\ attempts[e] < MaxAttempts
      /\ attempts'[e] = attempts[e] + 1
  BY <1>1, <1>2, MetaOutboxAssumption
  DEF TypeOK, Inductive, AttemptsLeft, AttemptsAfter
<1>4. \A f \in Events \ {e} : row'[f] = row[f] /\ attempts'[f] = attempts[f]
  BY <1>1, <1>2 DEF TypeOK
<1>5. /\ row'[e] \in {"pending", "sent", "failed"}
      /\ row'[e] = "sent" => phase = "accepted"
      /\ row'[e] = "pending" => attempts'[e] < MaxAttempts
  BY <1>1, <1>2, <1>3 DEF TypeOK, StatusAfter
<1>6. TypeOK'
  <2>1. row' \in [Events -> {"none", "pending", "sent", "failed"}]
    BY <1>1, <1>2 DEF TypeOK, StatusAfter
  <2>2. attempts[e] + 1 \in 0..MaxAttempts
    BY <1>3, MetaOutboxAssumption
  <2>3. attempts' \in [Events -> 0..MaxAttempts]
    BY <1>1, <1>2, <2>2 DEF TypeOK, AttemptsAfter
  <2>4. QED
    BY <1>1, <1>2, <2>1, <2>3 DEF TypeOK
<1>7. Rows' = Rows
  BY <1>1, <1>4, <1>5 DEF Rows
<1>8. SentWasReceived'
  <2>1. phase = "accepted" => e \in received
    BY DEF Inductive, AcceptedIsReceived, Mark
  <2>2. QED
    BY <1>2, <1>4, <1>5, <2>1 DEF Inductive, SentWasReceived
<1>9. BatchIsPending'
  BY <1>1, <1>2, <1>4 DEF Inductive, BatchIsPending, TypeOK
<1>10. AttemptsLeft'
  BY <1>4, <1>5 DEF Inductive, AttemptsLeft
<1>11. AgesDiffer'
  BY <1>2, <1>7 DEF Inductive, AgesDiffer
<1>12. AcceptedIsReceived'
  BY <1>2 DEF AcceptedIsReceived
<1>13. KnownWasOn'
  BY <1>1, <1>2 DEF Inductive, KnownWasOn
<1>14. QED
  BY <1>6, <1>8, <1>9, <1>10, <1>11, <1>12, <1>13 DEF Inductive

LEMMA StepInductive == Inductive /\ [Next]_vars => Inductive'
<1> SUFFICES ASSUME Inductive, [Next]_vars PROVE Inductive'
  OBVIOUS
<1> USE DEF requestVars, passVars
<1>1. CASE UNCHANGED vars
  BY <1>1 DEF vars, Inductive, TypeOK, SentWasReceived, BatchIsPending,
     AttemptsLeft, AgesDiffer, AcceptedIsReceived, KnownWasOn, Rows, IsOldest
<1>2. ASSUME NEW e \in Events, Happen(e) \/ ReadSettings(e) \/ PublishFails(e)
      PROVE Inductive'
  <2>1. UNCHANGED <<shop, active, row, attempts, createdAt, batch, known, phase,
                    received, onDuring>>
    BY <1>2 DEF Happen, ReadSettings, PublishFails
  <2>2. told' \in [Events -> {"no", "committed", "wanted"} \cup Ended]
    BY <1>2 DEF Happen, ReadSettings, PublishFails, Inductive, TypeOK, Ended
  <2>3. QED
    BY <2>1, <2>2 DEF Inductive, TypeOK, SentWasReceived, BatchIsPending,
       AttemptsLeft, AgesDiffer, AcceptedIsReceived, KnownWasOn, Rows, IsOldest
<1>3. ASSUME NEW e \in Events, Enqueue(e) PROVE Inductive'
  BY <1>3, EnqueueInductive
<1>4. ASSUME NEW s \in Shops, Toggle(s) PROVE Inductive'
  <2>1. UNCHANGED <<shop, told, row, attempts, createdAt, batch, known, phase,
                    received>>
    BY <1>4 DEF Toggle
  <2>2. /\ active' \subseteq Shops
        /\ onDuring' \subseteq Shops
        /\ onDuring \subseteq onDuring'
        /\ active' \subseteq active \cup onDuring'
    BY <1>4 DEF Toggle, Inductive, TypeOK
  <2>3. TypeOK'
    BY <2>1, <2>2 DEF Inductive, TypeOK
  <2>4. KnownWasOn'
    BY <2>1, <2>2 DEF Inductive, KnownWasOn
  <2>5. QED
    BY <2>1, <2>3, <2>4 DEF Inductive, SentWasReceived, BatchIsPending,
       AttemptsLeft, AgesDiffer, AcceptedIsReceived, Rows, IsOldest
<1>5. CASE Claim
  <2>1. UNCHANGED <<shop, active, told, createdAt, row, attempts, received>>
    BY <1>5 DEF Claim
  <2>2. /\ batch' \subseteq Pending
        /\ known' = [s \in Shops |-> "unknown"]
        /\ phase' = "ready"
        /\ onDuring' = active
    BY <1>5 DEF Claim, IsBatch
  <2>3. TypeOK'
    BY <2>1, <2>2 DEF Inductive, TypeOK, Pending
  <2>4. BatchIsPending' /\ AcceptedIsReceived' /\ KnownWasOn'
    BY <2>1, <2>2 DEF BatchIsPending, AcceptedIsReceived, KnownWasOn, Pending
  <2>5. QED
    BY <2>1, <2>3, <2>4 DEF Inductive, SentWasReceived, AttemptsLeft,
       AgesDiffer, Rows
<1>6. ASSUME NEW e \in Events, LookUp(e) PROVE Inductive'
  <2>1. UNCHANGED <<shop, active, told, createdAt, row, attempts, batch, phase,
                    received, onDuring>>
    BY <1>6 DEF LookUp
  <2>2. known' = [known EXCEPT ![shop[e]] = IF shop[e] \in active THEN "on"
                                                                  ELSE "off"]
    BY <1>6 DEF LookUp
  <2>3. TypeOK' /\ KnownWasOn'
    BY <2>1, <2>2 DEF Inductive, TypeOK, KnownWasOn
  <2>4. QED
    BY <2>1, <2>3 DEF Inductive, SentWasReceived, BatchIsPending,
       AttemptsLeft, AgesDiffer, AcceptedIsReceived, Rows, IsOldest
<1>7. ASSUME NEW e \in Events, Deliver(e) PROVE Inductive'
  <2>1. UNCHANGED <<shop, active, told, createdAt, row, attempts, batch, known,
                    onDuring>>
    BY <1>7 DEF Deliver
  <2>2. /\ received' \in {received, received \cup {e}}
        /\ phase' \in {"accepted", "retry", "refused"}
        /\ phase' = "accepted" => e \in received'
    BY <1>7 DEF Deliver
  <2>3. AcceptedIsReceived'
    <3>1. \A f : IsOldest(f, batch)' => f = e
      BY <1>7, <2>1, OldestIsUnique DEF Deliver, IsOldest
    <3>2. QED
      BY <2>2, <3>1 DEF AcceptedIsReceived
  <2>4. TypeOK' /\ SentWasReceived'
    BY <2>1, <2>2 DEF Inductive, TypeOK, SentWasReceived
  <2>5. QED
    BY <2>1, <2>3, <2>4 DEF Inductive, BatchIsPending, AttemptsLeft,
       AgesDiffer, KnownWasOn, Rows
<1>8. ASSUME NEW e \in Events, Mark(e) PROVE Inductive'
  BY <1>8, MarkInductive
<1>9. ASSUME Crash \/ \E e \in Events : Skip(e) PROVE Inductive'
  <2>1. /\ UNCHANGED <<shop, active, createdAt, row, attempts, known, received,
                       onDuring>>
        /\ batch' \subseteq batch
        /\ phase' = "ready"
    BY <1>9 DEF Crash, Skip
  <2>2. told' \in [Events -> {"no", "committed", "wanted"} \cup Ended]
    BY <1>9 DEF Crash, Skip, Inductive, TypeOK, Ended
  <2>3. TypeOK'
    BY <2>1, <2>2 DEF Inductive, TypeOK
  <2>4. BatchIsPending' /\ AcceptedIsReceived' /\ KnownWasOn'
    BY <2>1 DEF Inductive, BatchIsPending, AcceptedIsReceived, KnownWasOn
  <2>5. QED
    BY <2>1, <2>3, <2>4 DEF Inductive, SentWasReceived, AttemptsLeft,
       AgesDiffer, Rows
<1>10. QED
  BY <1>1, <1>2, <1>3, <1>4, <1>5, <1>6, <1>7, <1>8, <1>9
  DEF Next, RequestNext, DispatchNext

\* The dispatcher's and the requests' steps keep every invariant above.
THEOREM OutboxInvariant == Spec => []Inductive
BY InitInductive, StepInductive, PTL DEF Spec

\* A row has one of its four states and no more attempts than are allowed
\* (MarkFailed parks the event at the last one).
THEOREM OutboxTypes == Spec => []TypeOK
<1>1. Inductive => TypeOK
  BY DEF Inductive
<1>2. QED
  BY <1>1, OutboxInvariant, PTL

\* MarkSent comes after an answer of Meta that accepts the event.
THEOREM SentMeansReceived == Spec => []SentWasReceived
<1>1. Inductive => SentWasReceived
  BY DEF Inductive
<1>2. QED
  BY <1>1, OutboxInvariant, PTL

\* No step of a request, of the dispatcher or of a restart touches a row that is
\* sent or parked: the batch never holds one.
THEOREM SettledRowsStay == Spec => SettledStays
<1>1. ASSUME Inductive, [Next]_vars
      PROVE  [\A e \in Events : row[e] \in {"sent", "failed"} =>
                row'[e] = row[e] /\ attempts'[e] = attempts[e]]_vars
  <2> SUFFICES ASSUME Next, NEW e \in Events, row[e] \in {"sent", "failed"}
               PROVE  row'[e] = row[e] /\ attempts'[e] = attempts[e]
    BY <1>1
  <2>1. TypeOK /\ e \notin batch
    BY <1>1 DEF Inductive, BatchIsPending
  <2>2. ASSUME NEW f \in Events, Enqueue(f)
        PROVE  row'[e] = row[e] /\ attempts'[e] = attempts[e]
    BY <2>1, <2>2 DEF Enqueue, TypeOK
  <2>3. ASSUME NEW f \in Events, Mark(f)
        PROVE  row'[e] = row[e] /\ attempts'[e] = attempts[e]
    BY <2>1, <2>3 DEF Mark, IsOldest, TypeOK
  <2>4. QED
    BY <2>2, <2>3
    DEF Next, RequestNext, DispatchNext, Happen, ReadSettings, PublishFails,
        Claim, LookUp, Deliver, Skip, Crash, Toggle
<1>2. QED
  BY <1>1, OutboxInvariant, PTL DEF Spec, SettledStays

\* The dispatcher empties its cache of the settings for each pass, so a shop it
\* sends for had tracking on since the pass began.
THEOREM SendsOnlyWhileOn == Spec => SentOnlyWhileOn
<1>1. ASSUME Inductive, [Next]_vars
      PROVE  [\A e \in received' \ received : shop[e] \in onDuring]_vars
  <2> SUFFICES ASSUME Next, NEW e \in received' \ received
               PROVE  shop[e] \in onDuring
    BY <1>1
  <2>1. PICK f \in Events : Deliver(f)
    BY DEF Next, RequestNext, DispatchNext, Happen, ReadSettings, Enqueue,
       PublishFails, Claim, LookUp, Mark, Skip, Crash, Toggle
  <2>2. e = f /\ batch # {} /\ known[shop[f]] = "on"
    BY <2>1 DEF Deliver, IsOldest
  <2>3. shop[f] \in Shops
    BY <1>1 DEF Inductive, TypeOK
  <2>4. QED
    BY <1>1, <2>2, <2>3 DEF Inductive, KnownWasOn
<1>2. QED
  BY <1>1, OutboxInvariant, PTL DEF Spec, SentOnlyWhileOn
-----------------------------------------------------------------------------
(* The filler of the ad spend.                                             *)

SpendHasKeys == DOMAIN spend = Keys

LEMMA SpendKeepsKeys ==
  ASSUME SpendHasKeys, [AdNext]_adVars
  PROVE  SpendHasKeys'
BY DEF SpendHasKeys, AdNext, adVars, LoadSpend, LoadBudgets, AskAd, AskRecord, AskDelete,
   AskBudget, turnOff, Answered, UpsertAdSpend, DeleteAdSpend, UpsertAdBudget,
   FillEstimatedSpend, FillNow, CallFails, Fill, ServerStops, ServerStarts, DayPasses

\* The statement of the filler inserts what is lacking: a figure that is there
\* is not.
LEMMA FillKeepsFigures ==
  ASSUME SpendHasKeys, FillEstimatedSpend, NEW k \in Keys, spend[k] # NoRow
  PROVE  spend'[k] = spend[k]
BY DEF SpendHasKeys, FillEstimatedSpend, Lacking

\* A step that changes a figure of the seller is the answer to his own request
\* to replace it or to delete it.
LEMMA OwnFigureStep ==
  ASSUME SpendHasKeys, AdNext, NEW k \in Keys, OwnFigure(k), spend'[k] # spend[k]
  PROVE  \E c \in adCalls : c.op \in {"record", "delete"} /\ c.on = k /\ c \notin adCalls'
<1>1. ASSUME NEW c \in adCalls, UpsertAdSpend(c) \/ DeleteAdSpend(c)
      PROVE  c.op \in {"record", "delete"} /\ c.on = k /\ c \notin adCalls'
  BY <1>1 DEF UpsertAdSpend, DeleteAdSpend, Answered, SpendHasKeys
<1>2. ~FillEstimatedSpend
  BY FillKeepsFigures DEF OwnFigure
<1>3. PICK c \in adCalls : UpsertAdSpend(c) \/ DeleteAdSpend(c)
  BY <1>2 DEF AdNext, LoadSpend, LoadBudgets, AskAd, AskRecord, AskDelete, AskBudget,
     turnOff, UpsertAdBudget, FillNow, CallFails, Fill, ServerStops, ServerStarts, DayPasses
<1>4. QED
  BY <1>1, <1>3

\* "A seller's own figure is never clobbered" (marketing_repo.go:82), whenever
\* the filler runs, after a restart, every hour or because a budget was set.
THEOREM SellersFiguresStand == AdSpec => OwnFiguresStand
<1>1. AdInit => SpendHasKeys
  BY DEF AdInit, SpendHasKeys
<1>2. SpendHasKeys /\ [AdNext]_adVars => SpendHasKeys'
  BY SpendKeepsKeys
<1>3. ASSUME SpendHasKeys, [AdNext]_adVars
      PROVE  [\A k \in Keys : OwnFigure(k) /\ spend'[k] # spend[k] =>
                \E c \in adCalls : c.op \in {"record", "delete"} /\ c.on = k
                                     /\ c \notin adCalls']_adVars
  BY <1>3, OwnFigureStep
<1>4. QED
  BY <1>1, <1>2, <1>3, PTL DEF AdSpec, OwnFiguresStand
-----------------------------------------------------------------------------
(* The visits: which of them count.                                        *)

VisitRecords ==
  [step : {"in", "repeat", "seen", "claimed", "sent", "dropped"}, pair : Pairs,
   at : Nat, last : Int]
Entries == [pair : Pairs, last : Int]

VisitTypes ==
  /\ time \in Nat
  /\ visit \in [Visits -> {NoVisit} \cup VisitRecords]
  /\ recent \in [Pairs -> Int]
  /\ janitor \in {NoEntry} \cup Entries

\* A visit that will compare was not a repeat of what it has seen, and what the
\* janitor has looked at is old.
Judged ==
  /\ \A v \in Visits : visit[v].step = "seen" => visit[v].at >= visit[v].last + Window
  /\ janitor # NoEntry => janitor.last + Window < time

CountedFor(p) == {v \in Counted : visit[v].pair = p}

\* Visits that count are apart.  The entry of their pair is the last of them;
\* where it is gone, whatever is under way or comes later is apart from them.
Apart(p) ==
  /\ \A u, v \in CountedFor(p) :
       u # v => visit[u].at + Window <= visit[v].at \/ visit[v].at + Window <= visit[u].at
  /\ recent[p] # Forgotten =>
       \A u \in CountedFor(p) : visit[u].at = recent[p] \/ visit[u].at + Window <= recent[p]
  /\ recent[p] = Forgotten =>
       \A u \in CountedFor(p) :
         /\ visit[u].at + Window <= time
         /\ \A v \in UnderWay : visit[v].pair = p => visit[u].at + Window <= visit[v].at

CountInv == VisitTypes /\ Judged /\ \A p \in Pairs \ confused : Apart(p)

LEMMA CountInvInit == VisitInit => CountInv
BY DEF VisitInit, CountInv, VisitTypes, Judged, Apart, CountedFor, Counted, UnderWay,
   NoVisit, NoEntry, Forgotten

\* Visits that are under way or count have a record.
LEMMA VisitIsRecord ==
  ASSUME VisitTypes, NEW v \in Visits, visit[v].step # "none"
  PROVE  visit[v] \in VisitRecords
BY DEF VisitTypes, NoVisit

LEMMA TimeKeeps == ASSUME CountInv, TimePasses PROVE CountInv'
<1>1. VisitTypes' BY DEF CountInv, VisitTypes, TimePasses
<1>2. Judged'
  BY VisitAssumption DEF CountInv, VisitTypes, Judged, TimePasses, Entries
<1>3. ASSUME NEW p \in Pairs \ confused PROVE Apart(p)'
  <2>1. Apart(p) BY DEF CountInv
  <2>2. CountedFor(p)' = CountedFor(p) /\ UnderWay' = UnderWay
    BY DEF CountedFor, Counted, UnderWay, TimePasses
  <2>3. \A u \in CountedFor(p) : visit[u].at \in Nat
    BY VisitIsRecord DEF CountInv, CountedFor, Counted, VisitRecords
  <2>4. QED
    BY <2>1, <2>2, <2>3, VisitAssumption DEF Apart, TimePasses, CountInv, VisitTypes
<1>4. QED BY <1>1, <1>2, <1>3 DEF CountInv, TimePasses

LEMMA EnterKeeps ==
  ASSUME CountInv, NEW v \in Visits, NEW p \in Pairs, Enter(v, p)
  PROVE  CountInv'
<1>1. VisitTypes'
  BY DEF CountInv, VisitTypes, Enter, VisitRecords, Forgotten
<1>2. visit' = [visit EXCEPT ![v] = [step |-> "in", pair |-> p, at |-> time, last |-> Forgotten]]
      /\ UNCHANGED <<time, recent, janitor, confused>> /\ visit[v].step = "none"
  BY DEF Enter, NoVisit
<1>3. Judged'
  BY <1>2 DEF CountInv, VisitTypes, Judged
<1>4. ASSUME NEW q \in Pairs \ confused PROVE Apart(q)'
  <2>1. Apart(q) BY DEF CountInv
  <2>2. CountedFor(q)' = CountedFor(q)
    BY <1>2 DEF CountedFor, Counted, CountInv, VisitTypes
  <2>3. v \notin CountedFor(q) BY <1>2 DEF CountedFor, Counted
  <2>4. \A u \in CountedFor(q) : visit'[u] = visit[u]
    BY <1>2, <2>3 DEF CountInv, VisitTypes, CountedFor, Counted
  <2>5. \A w \in UnderWay' : w # v => w \in UnderWay /\ visit'[w] = visit[w]
    BY <1>2 DEF UnderWay, CountInv, VisitTypes
  <2>6. visit'[v].at = time BY <1>2 DEF CountInv, VisitTypes
  <2>7. QED
    BY <1>2, <2>1, <2>2, <2>4, <2>5, <2>6 DEF Apart
<1>5. QED BY <1>1, <1>2, <1>3, <1>4 DEF CountInv

\* A visit that takes the slot of its pair is apart from those before it.
LEMMA ClaimKeeps ==
  ASSUME CountInv, NEW v \in UnderWay,
         NEW p \in Pairs, p = visit[v].pair, NEW s \in Nat, s = visit[v].at,
         recent[p] # Forgotten => s >= recent[p] + Window,
         recent' = [recent EXCEPT ![p] = s],
         Moves(v, "claimed"), UNCHANGED <<time, janitor, confused>>
  PROVE  CountInv'
<1>0. v \in Visits /\ visit[v] \in VisitRecords
  BY VisitIsRecord DEF CountInv, UnderWay, VisitRecords
<1>1. VisitTypes'
  BY <1>0 DEF CountInv, VisitTypes, Moves, VisitRecords
<1>2. Judged'
  BY <1>0 DEF CountInv, VisitTypes, Judged, Moves
<1>3. /\ visit' = [visit EXCEPT ![v].step = "claimed"]
      /\ visit'[v].pair = p /\ visit'[v].at = s /\ visit'[v].step = "claimed"
      /\ \A u \in Visits : u # v => visit'[u] = visit[u]
  BY <1>0 DEF Moves, CountInv, VisitTypes, VisitRecords
<1>4. v \notin Counted /\ Counted' = Counted \cup {v}
  BY <1>3 DEF Counted, UnderWay
<1>5. UnderWay' \subseteq UnderWay \ {v}
  BY <1>3 DEF UnderWay
<1>6. ASSUME NEW q \in Pairs \ confused, q # p PROVE Apart(q)'
  <2>1. CountedFor(q)' = CountedFor(q) /\ v \notin CountedFor(q)
    BY <1>3, <1>4, <1>6 DEF CountedFor, Counted
  <2>2. recent'[q] = recent[q] BY <1>6 DEF CountInv, VisitTypes
  <2>3. \A u \in CountedFor(q) \cup UnderWay' : visit'[u] = visit[u]
    BY <1>3, <1>5, <2>1 DEF CountedFor, Counted, UnderWay
  <2>4. UNCHANGED time OBVIOUS
  <2>5. Apart(q) BY DEF CountInv
  <2>6. QED BY <1>5, <2>1, <2>2, <2>3, <2>4, <2>5 DEF Apart
<1>7. ASSUME p \notin confused PROVE Apart(p)'
  <2>1. Apart(p) BY <1>0, <1>7 DEF CountInv
  <2>2. CountedFor(p)' = CountedFor(p) \cup {v} /\ v \notin CountedFor(p)
    BY <1>3, <1>4 DEF CountedFor, Counted
  <2>3. \A u \in CountedFor(p) : u \in Visits /\ u # v /\ visit'[u] = visit[u] /\ visit[u].at \in Nat
    BY <1>3, <2>2, VisitIsRecord DEF CountedFor, Counted, CountInv, VisitRecords
  <2>4. \A u \in CountedFor(p) : visit[u].at + Window <= s
    <3>1. CASE recent[p] = Forgotten
      BY <3>1, <2>1 DEF Apart
    <3>2. CASE recent[p] # Forgotten
      <4>1. recent[p] + Window <= s /\ recent[p] \in Int
        BY <3>2, <1>0 DEF CountInv, VisitTypes
      <4>2. QED BY <1>0, <2>1, <2>3, <3>2, <4>1, VisitAssumption DEF Apart
    <3>3. QED BY <3>1, <3>2
  <2>5. recent'[p] = s /\ s # Forgotten
    BY <1>0 DEF CountInv, VisitTypes, Forgotten
  <2>6. QED
    BY <1>3, <2>1, <2>2, <2>3, <2>4, <2>5 DEF Apart
<1>8. QED BY <1>1, <1>2, <1>6, <1>7 DEF CountInv

\* A visit that goes on without taking the slot is under way as before, or ends.
LEMMA OtherKeeps ==
  ASSUME CountInv, NEW v \in Visits, visit[v].step # "none", UNCHANGED <<time, recent, janitor, confused>>,
         NEW step \in {"in", "repeat", "seen", "sent", "dropped"}, NEW last \in Int,
         visit' = [visit EXCEPT ![v].step = step, ![v].last = last],
         step = "seen" => visit[v].at >= last + Window,
         step \in {"in", "seen"} => v \in UnderWay,
         step \in {"sent", "dropped"} <=> v \in Counted
  PROVE  CountInv'
<1>0. visit[v] \in VisitRecords
  BY VisitIsRecord DEF CountInv
<1>1. VisitTypes'
  BY <1>0 DEF CountInv, VisitTypes, VisitRecords
<1>2. Judged'
  BY <1>0 DEF CountInv, VisitTypes, Judged, VisitRecords
<1>3. \A u \in Visits : visit'[u].pair = visit[u].pair /\ visit'[u].at = visit[u].at
  BY <1>0 DEF CountInv, VisitTypes, VisitRecords
<1>4. Counted' = Counted /\ UnderWay' \subseteq UnderWay
  BY <1>0 DEF Counted, UnderWay, CountInv, VisitTypes, VisitRecords
<1>5. ASSUME NEW q \in Pairs \ confused PROVE Apart(q)'
  <2>1. Apart(q) BY DEF CountInv
  <2>2. CountedFor(q)' = CountedFor(q) BY <1>3, <1>4 DEF CountedFor, Counted
  <2>3. CountedFor(q) \subseteq Visits /\ UnderWay \subseteq Visits
    BY DEF CountedFor, Counted, UnderWay
  <2>4. QED BY <1>3, <1>4, <2>1, <2>2, <2>3 DEF Apart
<1>6. QED BY <1>1, <1>2, <1>5 DEF CountInv

LEMMA LoadOrStoreKeeps ==
  ASSUME CountInv, NEW v \in Visits, LoadOrStore(v)
  PROVE  CountInv'
<1>1. /\ visit[v].step = "in" /\ v \in UnderWay /\ v \notin Counted
      /\ visit[v] \in VisitRecords /\ UNCHANGED <<time, janitor, confused>>
  BY VisitIsRecord DEF LoadOrStore, UnderWay, Counted, CountInv
<1>2. PICK p \in Pairs : p = visit[v].pair
  BY <1>1 DEF VisitRecords
<1>3. PICK s \in Nat : s = visit[v].at
  BY <1>1 DEF VisitRecords
<1>4. CASE recent[p] = Forgotten
  <2>1. recent' = [recent EXCEPT ![p] = s] /\ Moves(v, "claimed")
    BY <1>2, <1>3, <1>4 DEF LoadOrStore
  <2>2. QED BY <1>1, <1>2, <1>3, <1>4, <2>1, ClaimKeeps
<1>5. CASE recent[p] # Forgotten
  <2>1. PICK last \in Int : last = visit[v].last BY <1>1 DEF VisitRecords
  <2>2. UNCHANGED recent BY <1>2, <1>5 DEF LoadOrStore
  <2>3. CASE s - recent[p] < Window
    <3>1. visit' = [visit EXCEPT ![v].step = "repeat", ![v].last = last]
      BY <1>1, <1>2, <1>3, <1>5, <2>1, <2>3 DEF LoadOrStore, Moves, CountInv, VisitTypes, VisitRecords
    <3>2. QED BY <1>1, <2>2, <3>1, OtherKeeps
  <2>4. CASE ~(s - recent[p] < Window)
    <3>1. recent[p] \in Int /\ s >= recent[p] + Window
      BY <2>4, VisitAssumption DEF CountInv, VisitTypes
    <3>2. visit' = [visit EXCEPT ![v].step = "seen", ![v].last = recent[p]]
      BY <1>2, <1>3, <1>5, <2>4 DEF LoadOrStore
    <3>3. QED BY <1>1, <1>3, <2>2, <3>1, <3>2, OtherKeeps
  <2>5. QED BY <2>3, <2>4
<1>6. QED BY <1>4, <1>5

LEMMA CompareKeeps ==
  ASSUME CountInv, NEW v \in Visits, CompareAndSwap(v)
  PROVE  CountInv'
<1>1. /\ visit[v].step = "seen" /\ v \in UnderWay /\ v \notin Counted
      /\ visit[v] \in VisitRecords /\ UNCHANGED <<time, janitor, confused>>
  BY VisitIsRecord DEF CompareAndSwap, UnderWay, Counted, CountInv
<1>2. PICK p \in Pairs : p = visit[v].pair
  BY <1>1 DEF VisitRecords
<1>3. PICK s \in Nat : s = visit[v].at
  BY <1>1 DEF VisitRecords
<1>4. PICK last \in Int : last = visit[v].last /\ s >= last + Window
  BY <1>1, <1>3 DEF CountInv, Judged, VisitRecords
<1>5. CASE recent[p] = last
  <2>1. recent' = [recent EXCEPT ![p] = s] /\ Moves(v, "claimed")
    BY <1>2, <1>3, <1>4, <1>5 DEF CompareAndSwap
  <2>2. QED BY <1>1, <1>2, <1>3, <1>4, <1>5, <2>1, ClaimKeeps
<1>6. CASE recent[p] # last
  <2>1. visit' = [visit EXCEPT ![v].step = "in", ![v].last = last] /\ UNCHANGED recent
    BY <1>1, <1>2, <1>4, <1>6 DEF CompareAndSwap, Moves, CountInv, VisitTypes, VisitRecords
  <2>2. QED BY <1>1, <2>1, OtherKeeps
<1>7. QED BY <1>5, <1>6

LEMMA SendKeeps == ASSUME CountInv, NEW v \in Visits, Send(v) PROVE CountInv'
<1>1. /\ visit[v].step = "claimed" /\ v \in Counted
      /\ visit[v] \in VisitRecords /\ UNCHANGED <<time, recent, janitor, confused>>
  BY VisitIsRecord DEF Send, Counted, CountInv
<1>2. PICK last \in Int : last = visit[v].last BY <1>1 DEF VisitRecords
<1>3. PICK step \in {"sent", "dropped"} : visit' = [visit EXCEPT ![v].step = step]
  BY DEF Send, Moves
<1>4. visit' = [visit EXCEPT ![v].step = step, ![v].last = last]
  BY <1>1, <1>2, <1>3 DEF CountInv, VisitTypes, VisitRecords
<1>5. QED BY <1>1, <1>4, OtherKeeps

LEMMA LookKeeps == ASSUME CountInv, NEW p \in Pairs, Look(p) PROVE CountInv'
<1>1. UNCHANGED <<time, visit, recent, confused>> BY DEF Look
<1>2. recent[p] \in Int /\ time \in Nat BY DEF CountInv, VisitTypes
<1>3. janitor' \in Entries /\ janitor'.last + Window < time
  BY <1>2, VisitAssumption DEF Look, Entries
<1>4. VisitTypes' /\ Judged'
  BY <1>1, <1>3 DEF CountInv, VisitTypes, Judged
<1>5. ASSUME NEW q \in Pairs \ confused PROVE Apart(q)'
  BY <1>1 DEF CountInv, Apart, CountedFor, Counted, UnderWay
<1>6. QED BY <1>1, <1>4, <1>5 DEF CountInv

\* Unless too much is deleted, the entry is the old one that the janitor saw.
LEMMA ForgetKeeps == ASSUME CountInv, Forget PROVE CountInv'
<1>1. janitor \in Entries /\ janitor' = NoEntry /\ UNCHANGED <<time, visit>>
  BY DEF Forget, CountInv, VisitTypes
<1>2. PICK p \in Pairs : p = janitor.pair BY <1>1 DEF Entries
<1>3. recent' = [recent EXCEPT ![p] = Forgotten] BY <1>2 DEF Forget
<1>4. VisitTypes' /\ Judged'
  BY <1>1, <1>3 DEF CountInv, VisitTypes, Judged, Forgotten
<1>5. /\ CountedFor(p)' = CountedFor(p) /\ UnderWay' = UnderWay
      /\ \A q \in Pairs : CountedFor(q)' = CountedFor(q)
  BY <1>1 DEF CountedFor, Counted, UnderWay
<1>6. confused \subseteq confused' BY DEF Forget
<1>7. ASSUME NEW q \in Pairs \ confused', q # p PROVE Apart(q)'
  <2>1. Apart(q) BY <1>6 DEF CountInv
  <2>2. recent'[q] = recent[q] BY <1>3, <1>7 DEF CountInv, VisitTypes
  <2>3. QED BY <1>1, <1>5, <2>1, <2>2 DEF Apart
<1>8. ASSUME p \notin confused' PROVE Apart(p)'
  <2>1. Apart(p) BY <1>6, <1>8 DEF CountInv
  <2>2. /\ recent[p] = janitor.last
        /\ \A v \in UnderWay : visit[v].pair = p => ~(visit[v].at - recent[p] < Window)
    BY <1>2, <1>8 DEF Forget
  <2>3. recent[p] \in Int /\ time \in Nat /\ recent[p] + Window < time
    BY <1>1, <2>2 DEF CountInv, VisitTypes, Judged, Forget
  <2>4. \A v \in CountedFor(p) \cup UnderWay : visit[v].at \in Nat
    BY VisitIsRecord DEF CountInv, CountedFor, Counted, UnderWay, VisitRecords
  <2>5. \A u \in CountedFor(p) :
          /\ visit[u].at + Window <= time
          /\ \A v \in UnderWay : visit[v].pair = p => visit[u].at + Window <= visit[v].at
    <3>1. CASE recent[p] = Forgotten
      BY <2>1, <3>1 DEF Apart
    <3>2. CASE recent[p] # Forgotten
      <4>1. \A u \in CountedFor(p) : visit[u].at <= recent[p]
        BY <2>1, <2>3, <2>4, <3>2, VisitAssumption DEF Apart
      <4>2. QED BY <2>2, <2>3, <2>4, <4>1, VisitAssumption
    <3>3. QED BY <3>1, <3>2
  <2>6. recent'[p] = Forgotten BY <1>3 DEF CountInv, VisitTypes
  <2>7. QED BY <1>1, <1>5, <2>1, <2>5, <2>6 DEF Apart
<1>9. QED BY <1>4, <1>7, <1>8 DEF CountInv

LEMMA CountInvStep == CountInv /\ [VisitNext]_visitVars => CountInv'
<1> SUFFICES ASSUME CountInv, [VisitNext]_visitVars PROVE CountInv'
  OBVIOUS
<1>1. CASE UNCHANGED <<time, visit, recent, janitor, confused>>
  BY <1>1 DEF CountInv, VisitTypes, Judged, Apart, CountedFor, Counted, UnderWay
<1>2. ASSUME NEW w \in Writers, Write(w) PROVE UNCHANGED <<time, visit, recent, janitor, confused>>
  BY <1>2 DEF Write, Collect, Flush, SeeStop, FindEmpty, LastFlush
<1>3. ASSUME NEW v \in Visits, Deduplicate(v) PROVE CountInv'
  BY <1>3, EnterKeeps, LoadOrStoreKeeps, CompareKeeps DEF Deduplicate
<1>4. QED
  BY <1>1, <1>2, <1>3, TimeKeeps, SendKeeps, LookKeeps, ForgetKeeps
  DEF VisitNext, CountNext, WriteNext, Stop, visitVars

\* Requests alone never make a repeat count (worker.go:106): however many of them
\* overlap, and however long each takes, it needs a deletion by the janitor.
THEOREM RepeatsNeedTheJanitor == VisitSpec => []CountedApart
<1>1. CountInv => CountedApart
  <2> SUFFICES ASSUME CountInv, NEW u \in Counted, NEW v \in Counted, u # v,
                      visit[u].pair = visit[v].pair, visit[u].pair \notin confused
               PROVE  visit[u].at - visit[v].at \notin 1 - Window .. Window - 1
    BY DEF CountedApart
  <2>1. visit[u] \in VisitRecords /\ visit[v] \in VisitRecords
    BY VisitIsRecord DEF Counted, CountInv
  <2>2. PICK p \in Pairs : p = visit[u].pair BY <2>1 DEF VisitRecords
  <2>3. Apart(p) /\ u \in CountedFor(p) /\ v \in CountedFor(p)
    BY <2>2 DEF CountInv, CountedFor
  <2>4. visit[u].at \in Nat /\ visit[v].at \in Nat BY <2>1 DEF VisitRecords
  <2>5. visit[u].at + Window <= visit[v].at \/ visit[v].at + Window <= visit[u].at
    BY <2>3 DEF Apart
  <2>6. QED BY <2>4, <2>5, VisitAssumption
<1>2. QED BY <1>1, CountInvInit, CountInvStep, PTL DEF VisitSpec
-----------------------------------------------------------------------------
(* The visits: what becomes of them.                                       *)

Waiting == {channel[i] : i \in 1 .. Len(channel)}

\* What was in the channel before Stop is in the channel, with a writer or at the
\* database; a writer that goes has found the channel empty, and what is put in
\* after that came after Stop.
Carried(v) == v \in Waiting \cup rows \cup failed \/ \E w \in Writers : v \in writer[w].batch

DrainInv ==
  /\ channel \in Seq(Visits)
  /\ writer \in [Writers -> [batch : SUBSET Visits, step : {"collect", "drain", "last", "gone"}]]
  /\ early \subseteq {v \in Visits : visit[v].step = "sent"}
  /\ \A v \in early : Carried(v)
  /\ \A w \in Writers : writer[w].step = "gone" => writer[w].batch = {}
  /\ \A w \in Writers : writer[w].step # "collect" => stopping
  /\ \A w \in Writers : writer[w].step \in {"last", "gone"} => early \cap Waiting = {}

LEMMA TailOf ==
  ASSUME NEW S, NEW s \in Seq(S), s # << >>
  PROVE  /\ Head(s) \in S /\ Tail(s) \in Seq(S)
         /\ {s[i] : i \in 1 .. Len(s)} = {Tail(s)[i] : i \in 1 .. Len(Tail(s))} \cup {Head(s)}
<1>1. Head(s) = s[1] /\ Head(s) \in S /\ Tail(s) \in Seq(S) OBVIOUS
<1>2. Len(s) \in Nat /\ Len(s) > 0 /\ Len(Tail(s)) = Len(s) - 1 OBVIOUS
<1>3. \A i \in 1 .. Len(Tail(s)) : Tail(s)[i] = s[i + 1] OBVIOUS
<1>4. ASSUME NEW i \in 1 .. Len(s)
      PROVE  s[i] \in {Tail(s)[j] : j \in 1 .. Len(Tail(s))} \cup {Head(s)}
  <2>1. CASE i = 1 BY <1>1, <2>1
  <2>2. CASE i # 1
    <3>1. i - 1 \in 1 .. Len(Tail(s)) BY <1>2, <2>2
    <3>2. Tail(s)[i - 1] = s[i] BY <1>3, <3>1
    <3>3. QED BY <3>1, <3>2
  <2>3. QED BY <2>1, <2>2
<1>5. \A i \in 1 .. Len(Tail(s)) : i + 1 \in 1 .. Len(s) BY <1>2
<1>6. 1 \in 1 .. Len(s) BY <1>2
<1>7. ASSUME NEW x \in {s[i] : i \in 1 .. Len(s)}
      PROVE  x \in {Tail(s)[j] : j \in 1 .. Len(Tail(s))} \cup {Head(s)}
  <2>1. PICK i \in 1 .. Len(s) : x = s[i] OBVIOUS
  <2>2. QED BY <1>4, <2>1
<1>8. ASSUME NEW i \in 1 .. Len(Tail(s))
      PROVE  Tail(s)[i] \in {s[j] : j \in 1 .. Len(s)}
  <2>1. Tail(s)[i] = s[i + 1] BY <1>3
  <2>2. QED BY <1>5, <2>1
<1>9. Head(s) \in {s[j] : j \in 1 .. Len(s)} BY <1>1, <1>6
<1>10. {s[i] : i \in 1 .. Len(s)} = {Tail(s)[i] : i \in 1 .. Len(Tail(s))} \cup {Head(s)}
  BY <1>7, <1>8, <1>9, Zenon
<1>11. QED BY <1>1, <1>10

LEMMA DrainInvInit == VisitInit => DrainInv
BY DEF VisitInit, DrainInv

\* A visit is sent once, and only before Stop does it count as early.
LEMMA SendDrains ==
  ASSUME VisitTypes, DrainInv, NEW v \in Visits, Send(v)
  PROVE  DrainInv'
<1>1. v \notin early BY DEF DrainInv, Send
<1>2. visit' \in [Visits -> {NoVisit} \cup VisitRecords] /\ \A u \in Visits \ {v} : visit'[u] = visit[u]
  BY VisitIsRecord DEF Send, Moves, VisitTypes, VisitRecords
<1>3. CASE Len(channel) < BufferSize
  <2>1. channel' = Append(channel, v) /\ visit'[v].step = "sent"
    BY <1>3, VisitIsRecord DEF Send, Moves, VisitTypes, VisitRecords
  <2>2. channel' \in Seq(Visits) /\ Waiting' = Waiting \cup {v}
    BY <2>1 DEF DrainInv, Waiting
  <2>3. early' = IF stopping THEN early ELSE early \cup {v}
    BY <1>3 DEF Send
  <2>4. UNCHANGED <<writer, rows, failed, stopping>> BY DEF Send
  <2>5. early' \subseteq {u \in Visits : visit'[u].step = "sent"}
    BY <1>1, <1>2, <2>1, <2>3 DEF DrainInv
  <2>6. \A u \in early' : Carried(u)'
    BY <2>2, <2>3, <2>4 DEF DrainInv, Carried
  <2>7. \A w \in Writers : writer'[w].step \in {"last", "gone"} => early' \cap Waiting' = {}
    BY <1>1, <2>2, <2>3, <2>4 DEF DrainInv
  <2>8. QED BY <2>2, <2>4, <2>5, <2>6, <2>7 DEF DrainInv
<1>4. CASE ~(Len(channel) < BufferSize)
  <2>1. UNCHANGED <<channel, early, writer, rows, failed, stopping>>
    BY <1>4 DEF Send
  <2>2. early' \subseteq {u \in Visits : visit'[u].step = "sent"}
    BY <1>1, <1>2, <2>1 DEF DrainInv
  <2>3. QED BY <2>1, <2>2 DEF DrainInv, Carried, Waiting
<1>5. QED BY <1>3, <1>4

\* Nothing gets lost between the channel, the writers and the table.
LEMMA WriterDrains ==
  ASSUME DrainInv, NEW w \in Writers, Write(w)
  PROVE  DrainInv'
<1>1. UNCHANGED <<visit, stopping, early>>
  BY DEF Write, Collect, Flush, SeeStop, FindEmpty, LastFlush
<1>2. CASE Collect(w)
  <2>1. PICK v : v = Head(channel) OBVIOUS
  <2>2. v \in Visits /\ channel' \in Seq(Visits) /\ Waiting = Waiting' \cup {v}
    <3>1. channel \in Seq(Visits) /\ channel # << >> /\ channel' = Tail(channel)
      BY <1>2 DEF Collect, DrainInv
    <3>2. /\ Head(channel) \in Visits /\ Tail(channel) \in Seq(Visits)
          /\ Waiting = {Tail(channel)[i] : i \in 1 .. Len(Tail(channel))} \cup {Head(channel)}
      BY ONLY <3>1, TailOf DEF Waiting
    <3>3. Waiting' = {Tail(channel)[i] : i \in 1 .. Len(Tail(channel))} BY <3>1 DEF Waiting
    <3>4. QED BY ONLY <2>1, <3>1, <3>2, <3>3
  <2>3. writer' = [writer EXCEPT ![w].batch = @ \cup {v}] BY <1>2, <2>1 DEF Collect
  <2>4. /\ writer' \in [Writers -> [batch : SUBSET Visits, step : {"collect", "drain", "last", "gone"}]]
        /\ \A x \in Writers : writer'[x].step = writer[x].step /\ writer[x].batch \subseteq writer'[x].batch
        /\ v \in writer'[w].batch /\ writer[w].step # "gone"
        /\ \A x \in Writers \ {w} : writer'[x] = writer[x]
    BY <1>2, <2>2, <2>3 DEF DrainInv, Collect
  <2>5. UNCHANGED <<rows, failed>> BY <1>2 DEF Collect
  <2>6. ASSUME NEW u \in early PROVE Carried(u)'
    <3>1. u \in Waiting \cup rows \cup failed \/ \E x \in Writers : u \in writer[x].batch
      BY DEF DrainInv, Carried
    <3>2. CASE u \in Waiting
      <4>1. u \in Waiting' \/ u \in writer'[w].batch BY <2>2, <2>4, <3>2
      <4>2. QED BY <4>1 DEF Carried
    <3>3. CASE u \in rows \cup failed BY <2>5, <3>3 DEF Carried
    <3>4. ASSUME NEW x \in Writers, u \in writer[x].batch PROVE Carried(u)'
      <4>1. u \in writer'[x].batch BY <2>4, <3>4
      <4>2. QED BY <4>1 DEF Carried
    <3>5. QED BY <3>1, <3>2, <3>3, <3>4
  <2>7. QED BY <1>1, <2>2, <2>4, <2>6 DEF DrainInv
<1>3. CASE Flush(w) \/ LastFlush(w)
  <2>1. UNCHANGED channel /\ InsertBatch(w) BY <1>3 DEF Flush, LastFlush
  <2>2. rows' \cup failed' = rows \cup failed \cup writer[w].batch
    BY <2>1 DEF InsertBatch
  <2>3. /\ writer' \in [Writers -> [batch : SUBSET Visits, step : {"collect", "drain", "last", "gone"}]]
        /\ writer'[w].batch = {}
        /\ \A x \in Writers \ {w} : writer'[x] = writer[x]
        /\ \/ writer'[w].step = writer[w].step
           \/ writer'[w].step = "gone" /\ writer[w].step = "last"
    <3>0. writer[w] \in [batch : SUBSET Visits, step : {"collect", "drain", "last", "gone"}]
      BY DEF DrainInv
    <3>1. CASE Flush(w)
      <4>1. writer' = [writer EXCEPT ![w] = [writer[w] EXCEPT !.batch = {}]]
        BY <3>1 DEF Flush
      <4>2. [writer[w] EXCEPT !.batch = {}] = [batch |-> {}, step |-> writer[w].step]
        BY <3>0
      <4>3. QED BY <3>0, <4>1, <4>2 DEF DrainInv
    <3>2. CASE LastFlush(w)
      BY <3>0, <3>2 DEF DrainInv, LastFlush
    <3>3. QED BY <1>3, <3>1, <3>2
  <2>4. Waiting' = Waiting BY <2>1 DEF Waiting
  <2>5. ASSUME NEW u \in early PROVE Carried(u)'
    <3>1. u \in Waiting \cup rows \cup failed \/ \E x \in Writers : u \in writer[x].batch
      BY DEF DrainInv, Carried
    <3>2. CASE u \in Waiting \cup rows \cup failed \cup writer[w].batch
      <4>1. u \in Waiting' \cup rows' \cup failed' BY <2>2, <2>4, <3>2
      <4>2. QED BY <4>1 DEF Carried
    <3>3. ASSUME NEW x \in Writers \ {w}, u \in writer[x].batch PROVE Carried(u)'
      <4>1. u \in writer'[x].batch BY <2>3, <3>3
      <4>2. QED BY <4>1 DEF Carried
    <3>4. QED BY <3>1, <3>2, <3>3
  <2>6. QED BY <1>1, <2>1, <2>3, <2>4, <2>5 DEF DrainInv
<1>4. CASE SeeStop(w) \/ FindEmpty(w)
  <2>1. UNCHANGED <<channel, rows, failed>> BY <1>4 DEF SeeStop, FindEmpty
  <2>2. /\ writer' \in [Writers -> [batch : SUBSET Visits, step : {"collect", "drain", "last", "gone"}]]
        /\ \A x \in Writers : writer'[x].batch = writer[x].batch
        /\ \A x \in Writers \ {w} : writer'[x] = writer[x]
        /\ \/ stopping /\ writer'[w].step = "drain"
           \/ writer[w].step = "drain" /\ writer'[w].step = "last" /\ channel = << >>
    BY <1>4 DEF DrainInv, SeeStop, FindEmpty
  <2>3. Waiting' = Waiting /\ (channel = << >> => Waiting = {})
    BY <2>1 DEF Waiting
  <2>4. \A u \in early : Carried(u)'
    BY <2>1, <2>2, <2>3 DEF DrainInv, Carried
  <2>5. QED BY <1>1, <2>1, <2>2, <2>3, <2>4 DEF DrainInv
<1>5. QED BY <1>2, <1>3, <1>4 DEF Write

LEMMA DrainInvStep == CountInv /\ DrainInv /\ [VisitNext]_visitVars => DrainInv'
<1> SUFFICES ASSUME CountInv, DrainInv, [VisitNext]_visitVars PROVE DrainInv'
  OBVIOUS
<1>1. CASE UNCHANGED <<visit, channel, writer, rows, failed, early>> /\ (stopping => stopping')
  BY <1>1 DEF DrainInv, Carried, Waiting
<1>2. ASSUME NEW v \in Visits, Deduplicate(v) PROVE DrainInv'
  <2>1. UNCHANGED <<channel, writer, rows, failed, early, stopping>>
    BY <1>2 DEF Deduplicate, Enter, LoadOrStore, CompareAndSwap
  <2>2. visit[v].step # "sent" /\ \A u \in Visits \ {v} : visit'[u] = visit[u]
    BY <1>2 DEF Deduplicate, Enter, LoadOrStore, CompareAndSwap, Moves, NoVisit, CountInv, VisitTypes
  <2>3. QED BY <2>1, <2>2 DEF DrainInv, Carried, Waiting
<1>3. CASE TimePasses \/ Stop \/ Forget \/ \E p \in Pairs : Look(p)
  BY <1>1, <1>3 DEF TimePasses, Stop, Forget, Look
<1>4. CASE UNCHANGED visitVars BY <1>1, <1>4 DEF visitVars
<1>5. QED
  BY <1>2, <1>3, <1>4, SendDrains, WriterDrains DEF VisitNext, CountNext, WriteNext, CountInv

\* When Stop returns, what had been in the channel before it was called has been
\* written, or its INSERT has failed, for any number of visits and writers.
THEOREM NothingLeftBehind == VisitSpec => []DrainedBeforeExit
<1>1. DrainInv => DrainedBeforeExit
  BY VisitAssumption DEF DrainInv, DrainedBeforeExit, Carried
<1>2. QED BY <1>1, CountInvInit, CountInvStep, DrainInvInit, DrainInvStep, PTL DEF VisitSpec
=============================================================================
