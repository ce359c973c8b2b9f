---------------------------- MODULE Integrations ----------------------------
(***************************************************************************)
(* The pages "Courier" and "Facebook tracking" of one seller in several    *)
(* windows.  Each has two secrets (the keys of the courier, or the id of   *)
(* the data set and the token of Meta) and a switch.  The secrets are      *)
(* never shown: a field left blank keeps what is stored.  The sections are *)
(* alike and share nothing, so a behaviour is one of one of them.          *)
(*                                                                         *)
(* "Also report deliveries" is written and read with the switch, which     *)
(* stands for it; the code for test events has no field on the page.       *)
(***************************************************************************)
EXTENDS Naturals

CONSTANTS
  Windows,     \* windows with the page
  Secrets,     \* what can be typed into the two fields
  MaxSends,    \* bound on the saves
  MaxStrokes   \* bound on the changes to the fields and the switch

ASSUME SecretsAssumption == "" \notin Secrets /\ MaxSends \in Nat /\ MaxStrokes \in Nat

NoAnswer == [step |-> "no answer"]

Blanks == [first |-> "", second |-> ""]

VARIABLES
  section,     \* which of the two it is
  keys, on,    \* what is stored
  fields, tick,  \* what is typed and ticked in each window
  answer,      \* the answer its query has cached
  query,       \* the query under way
  waits,       \* the save it waits for, 0 for none
  writes,      \* the saves the server works on
  sends, strokes,  \* saves and changes so far
  meant,       \* the secrets that were given last (history)
  overlapped   \* whether a save stored what it had read before another (history)

windowVars == <<fields, tick, answer, query, waits, strokes>>
keyVars == <<section, keys, on, windowVars, writes, sends, meant, overlapped>>

\* Get answers a shop without a row with blanks, switched off.
KeysInit ==
  /\ section \in {"courier", "meta"}
  /\ keys = Blanks /\ on = FALSE
  /\ fields = [w \in Windows |-> Blanks] /\ tick = [w \in Windows |-> FALSE]
  /\ answer = [w \in Windows |-> NoAnswer] /\ query = [w \in Windows |-> NoAnswer]
  /\ waits = [w \in Windows |-> 0]
  /\ writes = {} /\ sends = 0 /\ strokes = 0
  /\ meant = Blanks /\ overlapped = FALSE
-----------------------------------------------------------------------------
(* What the page shows.                                                    *)

Ready == [step |-> "sent"]

\* The page is opened, the network is back, or "Try again" is clicked.
FetchKeys(w) ==
  /\ query[w] = NoAnswer
  /\ query' = [query EXCEPT ![w] = Ready]
  /\ UNCHANGED <<section, keys, on, fields, tick, answer, waits, writes, sends, strokes, meant, overlapped>>

Configured == keys.first # "" /\ keys.second # ""

\* The handler leaves the secrets out of the answer.
ReadSettings(w) ==
  /\ query[w] = Ready
  /\ query' = [query EXCEPT ![w] = [step |-> "read", on |-> on, configured |-> Configured]]
  /\ UNCHANGED <<section, keys, on, fields, tick, answer, waits, writes, sends, strokes, meant, overlapped>>

\* The switch follows an answer that differs from the one before.
KeysArrive(w) ==
  /\ query[w].step = "read"
  /\ answer' = [answer EXCEPT ![w] = query[w]]
  /\ query' = [query EXCEPT ![w] = NoAnswer]
  /\ tick' = IF answer[w] = query[w] THEN tick ELSE [tick EXCEPT ![w] = query[w].on]
  /\ UNCHANGED <<section, keys, on, fields, waits, writes, sends, strokes, meant, overlapped>>

\* "Could not load settings" takes the place of the form.
KeysFail(w) ==
  /\ query[w] # NoAnswer
  /\ answer' = [answer EXCEPT ![w] = NoAnswer]
  /\ query' = [query EXCEPT ![w] = NoAnswer]
  /\ UNCHANGED <<section, keys, on, fields, tick, waits, writes, sends, strokes, meant, overlapped>>

\* The fields and the switch stay on while a save is under way.
TypeKeys(w) ==
  /\ answer[w] # NoAnswer /\ strokes < MaxStrokes
  /\ strokes' = strokes + 1
  /\ \/ \E f \in DOMAIN Blanks, s \in {""} \cup Secrets : fields' = [fields EXCEPT ![w][f] = s]
        /\ UNCHANGED tick
     \/ tick' = [tick EXCEPT ![w] = ~@] /\ UNCHANGED fields
  /\ UNCHANGED <<section, keys, on, answer, query, waits, writes, sends, meant, overlapped>>
-----------------------------------------------------------------------------
(* A save, whose handler reads the settings before it stores them.         *)

SaveKeys(w) ==
  /\ answer[w] # NoAnswer /\ waits[w] = 0 /\ sends < MaxSends
  /\ sends' = sends + 1
  /\ waits' = [waits EXCEPT ![w] = sends']
  /\ writes' = writes \cup {[id |-> sends', step |-> "sent", given |-> fields[w], on |-> tick[w]]}
  /\ UNCHANGED <<section, keys, on, fields, tick, answer, query, strokes, meant, overlapped>>

\* Bug for KeysAreAsGiven: blanks are stored as blanks.
KeepNothing(given, stored) == given

\* A blank keeps what is stored.
Keep(given, stored) == [f \in DOMAIN Blanks |-> IF given[f] = "" THEN stored[f] ELSE given[f]]

Moves(w, to) == writes' = (writes \ {w}) \cup {to}

\* The tracking refuses to be switched on without the id of a data set.
MergeKeys(w) ==
  /\ w.step = "sent"
  /\ LET next == Keep(w.given, keys) IN
       IF section = "meta" /\ w.on /\ next.first = ""
         THEN Moves(w, [id |-> w.id, step |-> "refused"])
         ELSE Moves(w, [id |-> w.id, step |-> "merged", given |-> w.given, on |-> w.on,
                        next |-> next])
  /\ UNCHANGED <<section, keys, on, windowVars, sends, meant, overlapped>>

UpsertKeys(w) ==
  /\ w.step = "merged"
  /\ keys' = w.next /\ on' = w.on
  /\ Moves(w, [id |-> w.id, step |-> "stored"])
  /\ meant' = [f \in DOMAIN Blanks |-> IF w.given[f] # "" THEN w.given[f] ELSE meant[f]]
  /\ overlapped' = (overlapped \/ \E v \in writes \ {w} : v.step = "merged")
  /\ UNCHANGED <<section, windowVars, sends>>

SaveEnds(w) ==
  /\ writes' = writes \ {w}
  /\ waits' = [p \in Windows |-> IF waits[p] = w.id THEN 0 ELSE waits[p]]

\* "Settings saved." empties the fields and asks for the settings again, which
\* ends a query that is under way.
KeysSaved(w) ==
  /\ w.step = "stored"
  /\ SaveEnds(w)
  /\ fields' = [p \in Windows |-> IF waits[p] = w.id THEN Blanks ELSE fields[p]]
  /\ query' = [p \in Windows |-> IF waits[p] = w.id THEN Ready ELSE query[p]]
  /\ UNCHANGED <<section, keys, on, tick, answer, sends, strokes, meant, overlapped>>

\* The save is refused, or fails before anything is stored.
KeysRefused(w) ==
  /\ w.step # "stored"
  /\ SaveEnds(w)
  /\ UNCHANGED <<section, keys, on, fields, tick, answer, query, sends, strokes, meant, overlapped>>

\* "Save failed": the window no longer waits, and what it sent may go on.
GiveUp(p) ==
  /\ waits[p] # 0
  /\ waits' = [waits EXCEPT ![p] = 0]
  /\ UNCHANGED <<section, keys, on, fields, tick, answer, query, writes, sends, strokes, meant, overlapped>>
-----------------------------------------------------------------------------
KeysNext ==
  \/ \E p \in Windows :
       \/ FetchKeys(p) \/ ReadSettings(p) \/ KeysArrive(p) \/ KeysFail(p)
       \/ TypeKeys(p) \/ SaveKeys(p) \/ GiveUp(p)
  \/ \E w \in writes : MergeKeys(w) \/ UpsertKeys(w) \/ KeysSaved(w) \/ KeysRefused(w)

KeysSpec == KeysInit /\ [][KeysNext]_keyVars
-----------------------------------------------------------------------------
(***************************************************************************)
(* "A blank key on an already-configured shop keeps the stored value, so   *)
(* the seller can toggle 'enabled' or rotate one key without re-typing     *)
(* both secrets": as long as no save stored over what another had stored   *)
(* since it read the settings, each secret is the one that was given last, *)
(* whatever the saves in between left blank, and whichever of them the     *)
(* window had given up.                                                    *)
(***************************************************************************)
KeysAreAsGiven == ~overlapped => keys = meant
=============================================================================
