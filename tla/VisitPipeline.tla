---------------------------- MODULE VisitPipeline ----------------------------
(***************************************************************************)
(* The counting of product views: the handlers of the requests put visits  *)
(* into a bounded channel, unless they repeat a recent visit of the same   *)
(* visitor to the same product; goroutines collect them into batches and   *)
(* write these; a janitor forgets old visits; and Stop drains the channel. *)
(* Handlers, writers and janitor share a map and the channel, no lock.     *)
(***************************************************************************)
EXTENDS Integers, Sequences, FiniteSets

CONSTANTS
  MaxVisits,   \* bound on the views of products
  Pairs,       \* a visitor with a product
  Writers,     \* goroutines that write
  BufferSize,  \* capacity of the channel
  BatchFull,   \* how many visits a writer collects
  Window,      \* the least time between two visits that count
  LastTime     \* bound on the clock

ASSUME VisitAssumption ==
  /\ BufferSize \in Nat \ {0} /\ BatchFull \in Nat \ {0} /\ Window \in Nat
  /\ MaxVisits \in Nat /\ LastTime \in Nat
  /\ Writers # {}

\* Requests are numbered as they come.
Visits == 1..MaxVisits
Forgotten == -1

VARIABLES
  time,      \* the clock
  visit,     \* how far each request has come, with the time it was stamped with
  recent,    \* time of the last visit of each pair
  channel,   \* visits that wait for a writer
  writer,    \* what each writer has collected, and whether it still runs
  stopping,  \* has Stop been called?
  janitor,   \* the entry that the janitor has looked at and will delete
  rows,      \* product_visits
  failed,    \* visits whose INSERT failed
  early,     \* ghost: visits that were in the channel before Stop
  confused   \* ghost: pairs for which the janitor deleted too much

visitVars == <<time, visit, recent, channel, writer, stopping, janitor,
               rows, failed, early, confused>>

NoVisit == [step |-> "none"]
NoEntry == [pair |-> "none"]

VisitInit ==
  /\ time = 0
  /\ visit = [v \in Visits |-> NoVisit]
  /\ recent = [p \in Pairs |-> Forgotten]
  /\ channel = << >>
  /\ writer = [w \in Writers |-> [batch |-> {}, step |-> "collect"]]
  /\ stopping = FALSE
  /\ janitor = NoEntry
  /\ rows = {} /\ failed = {}
  /\ early = {} /\ confused = {}

TimePasses ==
  /\ time < LastTime
  /\ time' = time + 1
  /\ UNCHANGED <<visit, recent, channel, writer, stopping, janitor, rows, failed,
                 early, confused>>
-----------------------------------------------------------------------------
(* Enqueue.                                                                *)

Moves(v, step) == visit' = [visit EXCEPT ![v].step = step]

UnderWay == {v \in Visits : visit[v].step \in {"in", "seen"}}

\* The visit is stamped, and the flag is read.
Enter(v, p) ==
  /\ {u \in Visits : visit[u] # NoVisit} = 1 .. v - 1 /\ ~stopping
  /\ visit' = [visit EXCEPT ![v] = [step |-> "in", pair |-> p, at |-> time, last |-> Forgotten]]
  /\ UNCHANGED <<time, recent, channel, writer, stopping, janitor, rows, failed,
                 early, confused>>

\* LoadOrStore: the first visit takes the slot of its pair, a repeat is dropped.
LoadOrStore(v) ==
  LET r == visit[v]
  IN /\ r.step = "in"
     /\ \/ /\ recent[r.pair] = Forgotten
           /\ recent' = [recent EXCEPT ![r.pair] = r.at]
           /\ Moves(v, "claimed")
        \/ /\ recent[r.pair] # Forgotten
           /\ IF r.at - recent[r.pair] < Window
              THEN Moves(v, "repeat")
              ELSE visit' = [visit EXCEPT ![v].step = "seen", ![v].last = recent[r.pair]]
           /\ UNCHANGED recent
     /\ UNCHANGED <<time, channel, writer, stopping, janitor, rows, failed, early, confused>>

\* Bug for CountedApart: the slot is taken without comparing.
StoreOver(v) ==
  LET r == visit[v]
  IN /\ r.step = "seen"
     /\ recent' = [recent EXCEPT ![r.pair] = r.at]
     /\ Moves(v, "claimed")
     /\ UNCHANGED <<time, channel, writer, stopping, janitor, rows, failed, early, confused>>

\* The slot is taken if nobody has changed it since, or else looked at again.
CompareAndSwap(v) ==
  LET r == visit[v]
  IN /\ r.step = "seen"
     /\ IF recent[r.pair] = r.last
        THEN recent' = [recent EXCEPT ![r.pair] = r.at] /\ Moves(v, "claimed")
        ELSE UNCHANGED recent /\ Moves(v, "in")
     /\ UNCHANGED <<time, channel, writer, stopping, janitor, rows, failed, early, confused>>

\* A full channel drops the visit, whose slot stays taken.
Send(v) ==
  /\ visit[v].step = "claimed"
  /\ IF Len(channel) < BufferSize
     THEN /\ channel' = Append(channel, v)
          /\ Moves(v, "sent")
          /\ early' = IF stopping THEN early ELSE early \cup {v}
     ELSE Moves(v, "dropped") /\ UNCHANGED <<channel, early>>
  /\ UNCHANGED <<time, recent, writer, stopping, janitor, rows, failed, confused>>
-----------------------------------------------------------------------------
(* The janitor: it ranges over the map, and deletes the key of an entry    *)
(* that was old when it looked.                                            *)

Look(p) ==
  /\ janitor = NoEntry
  /\ recent[p] # Forgotten /\ recent[p] < time - Window
  /\ janitor' = [pair |-> p, last |-> recent[p]]
  /\ UNCHANGED <<time, visit, recent, channel, writer, stopping, rows, failed,
                 early, confused>>

\* Too much is deleted if the entry is a newer one by now, or if a request that
\* is under way was to find it.
Forget ==
  /\ janitor # NoEntry
  /\ LET p == janitor.pair
     IN /\ recent' = [recent EXCEPT ![p] = Forgotten]
        /\ confused' =
             IF \/ recent[p] # janitor.last
                \/ \E v \in UnderWay : visit[v].pair = p /\ visit[v].at - recent[p] < Window
             THEN confused \cup {p} ELSE confused
  /\ janitor' = NoEntry
  /\ UNCHANGED <<time, visit, channel, writer, stopping, rows, failed, early>>
-----------------------------------------------------------------------------
(* The writers.                                                            *)

\* One visit after the other, until the batch is full; all there are when
\* draining.
Collect(w) ==
  /\ channel # << >>
  /\ \/ writer[w].step = "collect" /\ Cardinality(writer[w].batch) < BatchFull
     \/ writer[w].step = "drain"
  /\ writer' = [writer EXCEPT ![w].batch = @ \cup {Head(channel)}]
  /\ channel' = Tail(channel)
  /\ UNCHANGED <<time, visit, recent, stopping, janitor, rows, failed, early, confused>>

\* One INSERT for the batch.  When it fails, the batch is lost.
InsertBatch(w) ==
  \/ rows' = rows \cup writer[w].batch /\ UNCHANGED failed
  \/ failed' = failed \cup writer[w].batch /\ UNCHANGED rows

\* The batch is full, or the ticker has fired.
Flush(w) ==
  /\ writer[w].step = "collect" /\ writer[w].batch # {}
  /\ InsertBatch(w)
  /\ writer' = [writer EXCEPT ![w].batch = {}]
  /\ UNCHANGED <<time, visit, recent, channel, stopping, janitor, early, confused>>

Stop ==
  /\ ~stopping
  /\ stopping' = TRUE
  /\ UNCHANGED <<time, visit, recent, channel, writer, janitor, rows, failed,
                 early, confused>>

\* Bug for DrainedBeforeExit: a writer goes home without draining.
SeeStopAndLeave(w) ==
  /\ stopping /\ writer[w].step = "collect" /\ Cardinality(writer[w].batch) < BatchFull
  /\ writer' = [writer EXCEPT ![w].step = "last"]
  /\ UNCHANGED <<time, visit, recent, channel, stopping, janitor, rows, failed,
                 early, confused>>

SeeStop(w) ==
  /\ stopping /\ writer[w].step = "collect" /\ Cardinality(writer[w].batch) < BatchFull
  /\ writer' = [writer EXCEPT ![w].step = "drain"]
  /\ UNCHANGED <<time, visit, recent, channel, stopping, janitor, rows, failed,
                 early, confused>>

FindEmpty(w) ==
  /\ writer[w].step = "drain" /\ channel = << >>
  /\ writer' = [writer EXCEPT ![w].step = "last"]
  /\ UNCHANGED <<time, visit, recent, channel, stopping, janitor, rows, failed,
                 early, confused>>

LastFlush(w) ==
  /\ writer[w].step = "last"
  /\ InsertBatch(w)
  /\ writer' = [writer EXCEPT ![w] = [batch |-> {}, step |-> "gone"]]
  /\ UNCHANGED <<time, visit, recent, channel, stopping, janitor, early, confused>>
-----------------------------------------------------------------------------
Deduplicate(v) ==
  (\E p \in Pairs : Enter(v, p)) \/ LoadOrStore(v) \/ CompareAndSwap(v)

Write(w) == Collect(w) \/ Flush(w) \/ SeeStop(w) \/ FindEmpty(w) \/ LastFlush(w)

\* Which visits count, and what becomes of them: the two share the handlers.
CountNext ==
  \/ TimePasses
  \/ \E v \in Visits : Deduplicate(v)
  \/ \E p \in Pairs : Look(p)
  \/ Forget

WriteNext ==
  \/ \E v \in Visits : Deduplicate(v) \/ Send(v)
  \/ \E w \in Writers : Write(w)
  \/ Stop

VisitNext == CountNext \/ WriteNext

VisitSpec == VisitInit /\ [][VisitNext]_visitVars
-----------------------------------------------------------------------------
(* Properties.                                                             *)

Counted == {v \in Visits : visit[v].step \in {"claimed", "sent", "dropped"}}

(***************************************************************************)
(* "The dedup is race-safe" (worker.go:106): two visits of one visitor to  *)
(* one product that count are Window apart, however requests overlap.  It  *)
(* takes the janitor to break it, which deletes a key without comparing    *)
(* (worker.go:159), or an entry that a request under way was to find.      *)
(***************************************************************************)
CountedApart ==
  \A u, v \in Counted :
    u # v /\ visit[u].pair = visit[v].pair /\ visit[u].pair \notin confused
      => visit[u].at - visit[v].at \notin 1 - Window .. Window - 1

\* What was in the channel when Stop was called is written when Stop returns,
\* unless its INSERT failed: the writers drain the channel before they go, and
\* leave only what requests that had passed the flag put in later (Close shuts
\* the database down next).
DrainedBeforeExit ==
  (\A w \in Writers : writer[w].step = "gone") => early \subseteq rows \cup failed
=============================================================================
