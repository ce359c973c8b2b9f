--------------------------- MODULE StorefrontProofs ---------------------------
(***************************************************************************)
(* The buyer's side of a checkout, for any number of tabs, products,       *)
(* reservations and waiting calls: a payment is shown for the cart of its  *)
(* page, an order that was sent with no call waiting is for the cart the   *)
(* buyer saw; and the form never waits for a quote in vain.                *)
(*                                                                         *)
(* BrowserInv has one part for the server, one for what the browser keeps, *)
(* and TabInv for the record of one tab.  What the operators of Storefront *)
(* do to such a record is proved for any record that satisfies TabInv, and *)
(* the steps only put the records together.                                *)
(***************************************************************************)
EXTENDS Storefront, CheckoutForm, FiniteSetTheorems, SequenceTheorems, TLAPS
-----------------------------------------------------------------------------
(* What a tab is: the invariant of one tab.                                *)

Refs == Holds \cup {NoHold}
Jobs == [kind : {"pickUp", "ensure"}, lines : Carts, live : BOOLEAN]
SentOrders ==
  [sent : BOOLEAN, answer : {"none", "placed", "gone", "failed"}, hold : Refs,
   cart : Carts, settled : BOOLEAN, live : BOOLEAN]
Backs == [no : 1..MaxBacks, hold : Refs, live : BOOLEAN]
TabRecords ==
  [moves : Nat, page : {"closed", "shop", "checkout"}, cart : Carts,
   phase : {"form", "payment"}, hold : Refs,
   jobs : Seq(Jobs), call : {"none", "get", "delete", "post"}, asked : Refs,
   shell : Refs, back : SUBSET Backs, order : SentOrders]

\* A job the page waits for is for the cart q.
Fits(job, q) == job.live => job.lines = q
Awaited(job, q) == job.live /\ job.kind = "pickUp" /\ job.lines = q

(***************************************************************************)
(* The hold of a page is for its cart, and so are the jobs it waits for;   *)
(* or there is a pick-up for its cart after which only such jobs come.     *)
(***************************************************************************)
Matching(r, f) ==
  \/ /\ r.hold # NoHold => f[r.hold] = r.cart
     /\ \A j \in DOMAIN r.jobs : Fits(r.jobs[j], r.cart)
  \/ \E k \in DOMAIN r.jobs :
       /\ Awaited(r.jobs[k], r.cart)
       /\ \A j \in DOMAIN r.jobs : j > k => Fits(r.jobs[j], r.cart)

PageInv(r, f) ==
  /\ r.hold = NoHold <=> r.phase = "form"
  /\ r.page # "checkout" =>
       r.hold = NoHold /\ \A j \in DOMAIN r.jobs : ~r.jobs[j].live
  /\ r.page = "checkout" /\ r.cart # Empty => Matching(r, f)

\* Only an ensure makes a hold, and what is asked about fits the job.
CallInv(r, f) ==
  /\ r.call # "none" => r.jobs # << >>
  /\ r.call = "get" => r.asked # NoHold /\ f[r.asked] = r.jobs[1].lines
  /\ r.call = "post" => r.jobs[1].kind = "ensure"

OrderInv(r, f) ==
  r.order.sent /\ r.order.settled =>
    r.order.hold = NoHold \/ f[r.order.hold] = r.order.cart

\* The holds of a tab apart from those of its page and its queue.
Aside(r) == {r.shell, r.order.hold} \cup {b.hold : b \in r.back}
Known(r, M) == {r.hold, r.asked} \cup Aside(r) \subseteq M \cup {NoHold}

TabInv(r, M, f) ==
  r \in TabRecords /\ PageInv(r, f) /\ CallInv(r, f) /\ OrderInv(r, f) /\ Known(r, M)
-----------------------------------------------------------------------------
\* The jobs s of which some no longer show their result.
Muted(s, S) ==
  [i \in DOMAIN s |-> IF i \in S THEN [s[i] EXCEPT !.live = FALSE] ELSE s[i]]

LEMMA EmptyIsACart == Empty \in Carts
  BY StorefrontAssumption DEF Empty, Carts

LEMMA NewJob ==
  ASSUME NEW kind \in {"pickUp", "ensure"}, NEW q \in Carts
  PROVE  /\ Job(kind, q) \in Jobs
         /\ Job(kind, q).kind = kind /\ Job(kind, q).lines = q /\ Job(kind, q).live
  BY DEF Job, Jobs

LEMMA MutedJobs ==
  ASSUME NEW s \in Seq(Jobs), NEW S
  PROVE  /\ Muted(s, S) \in Seq(Jobs) /\ Len(Muted(s, S)) = Len(s)
         /\ DOMAIN Muted(s, S) = DOMAIN s
         /\ \A i \in DOMAIN s : /\ Muted(s, S)[i].kind = s[i].kind
                                /\ Muted(s, S)[i].lines = s[i].lines
                                /\ Muted(s, S)[i].live <=> s[i].live /\ i \notin S
<1> DEFINE e(i) == IF i \in S THEN [s[i] EXCEPT !.live = FALSE] ELSE s[i]
<1>1. Len(s) \in Nat /\ DOMAIN s = 1..Len(s)
  BY LenProperties
<1>2. ASSUME NEW i \in 1..Len(s)
      PROVE  /\ e(i) \in Jobs
             /\ e(i).kind = s[i].kind /\ e(i).lines = s[i].lines
             /\ e(i).live <=> s[i].live /\ i \notin S
  <2>1. s[i] \in Jobs
    BY ElementOfSeq
  <2> QED
    BY <2>1 DEF Jobs
<1>3. Muted(s, S) = [i \in 1..Len(s) |-> e(i)]
  BY <1>1 DEF Muted
<1> HIDE DEF e
<1>4. Muted(s, S) \in Seq(Jobs)
  BY <1>1, <1>2, <1>3, IsASeq
<1>5. DOMAIN Muted(s, S) = 1..Len(s) /\ \A i \in 1..Len(s) : Muted(s, S)[i] = e(i)
  BY <1>3
<1>6. Len(Muted(s, S)) = Len(s)
  BY <1>1, <1>4, <1>5, LenProperties
<1> QED
  BY <1>1, <1>2, <1>4, <1>5, <1>6

LEMMA MoreJobs ==
  ASSUME NEW s \in Seq(Jobs), NEW j \in Jobs
  PROVE  /\ Append(s, j) \in Seq(Jobs) /\ Len(Append(s, j)) = Len(s) + 1
         /\ DOMAIN Append(s, j) = 1..(Len(s) + 1) /\ DOMAIN s = 1..Len(s)
         /\ \A i \in DOMAIN s : Append(s, j)[i] = s[i]
         /\ Append(s, j)[Len(s) + 1] = j
         /\ Append(s, j) # << >>
         /\ Len(s) \in Nat
         /\ s # << >> => 1 \in DOMAIN s
<1>1. Len(s) \in Nat /\ DOMAIN s = 1..Len(s)
  BY LenProperties
<1>2. Append(s, j) \in Seq(Jobs) /\ Len(Append(s, j)) = Len(s) + 1
  BY AppendProperties
<1>3. /\ \A i \in 1..Len(s) : Append(s, j)[i] = s[i]
      /\ Append(s, j)[Len(s) + 1] = j
  BY AppendProperties
<1>4. s # << >> => Len(s) \in Nat \ {0}
  BY EmptySeq
<1>5. Append(s, j) # << >>
  BY <1>1, <1>2, EmptySeq
<1>6. DOMAIN Append(s, j) = 1..(Len(s) + 1)
  BY <1>2, LenProperties
<1> QED
  BY <1>1, <1>2, <1>3, <1>4, <1>5, <1>6

LEMMA FewerJobs ==
  ASSUME NEW s \in Seq(Jobs), s # << >>
  PROVE  /\ Tail(s) \in Seq(Jobs) /\ Len(Tail(s)) = Len(s) - 1 /\ Len(s) \in Nat
         /\ DOMAIN Tail(s) = 1..(Len(s) - 1) /\ DOMAIN s = 1..Len(s)
         /\ \A i \in DOMAIN Tail(s) : i + 1 \in DOMAIN s /\ Tail(s)[i] = s[i + 1]
         /\ Head(s) = s[1] /\ Head(s) \in Jobs
         /\ 1 \in DOMAIN s
<1>1. Len(s) \in Nat /\ DOMAIN s = 1..Len(s) /\ Len(s) # 0
  BY LenProperties, EmptySeq
<1>2. /\ Tail(s) \in Seq(Jobs) /\ Len(Tail(s)) = Len(s) - 1 /\ Head(s) \in Jobs
      /\ \A i \in 1..Len(Tail(s)) : Tail(s)[i] = s[i + 1]
  BY HeadTailProperties
<1>3. DOMAIN Tail(s) = 1..(Len(s) - 1)
  BY <1>2, LenProperties
<1>4. Head(s) = s[1]
  BY <1>1
<1> QED
  BY <1>1, <1>2, <1>3, <1>4
-----------------------------------------------------------------------------
(* What the operators on a tab do to its record.                           *)

LEMMA OnCartShape ==
  ASSUME NEW r \in TabRecords, NEW q \in Carts, NEW x, x = OnCart(r, q)
  PROVE  /\ x \in TabRecords
         /\ x.cart = q
         /\ x.moves = r.moves /\ x.page = r.page /\ x.call = r.call /\ x.asked = r.asked
         /\ x.shell = r.shell /\ x.back = r.back /\ x.order = r.order
         /\ \/ /\ r.page # "checkout" \/ q = r.cart
               /\ x.jobs = r.jobs /\ x.phase = r.phase /\ x.hold = r.hold
            \/ /\ r.page = "checkout" /\ q = Empty
               /\ x.phase = "form" /\ x.hold = NoHold
               /\ \E S : x.jobs = Muted(r.jobs, S)
            \/ /\ r.page = "checkout" /\ q # Empty
               /\ x.phase = r.phase /\ x.hold = r.hold
               /\ \E S : x.jobs = Append(Muted(r.jobs, S), Job("pickUp", q))
<1> DEFINE S == {i \in DOMAIN r.jobs : r.jobs[i].kind = "pickUp"}
           dropped == [i \in DOMAIN r.jobs |->
                         IF r.jobs[i].kind = "pickUp"
                           THEN [r.jobs[i] EXCEPT !.live = FALSE] ELSE r.jobs[i]]
           shown == [r EXCEPT !.cart = q, !.jobs = dropped]
<1>0. r.jobs \in Seq(Jobs)
  BY DEF TabRecords
<1>1. dropped = Muted(r.jobs, S)
  BY DEF Muted
<1>2. dropped \in Seq(Jobs)
  BY <1>0, <1>1, MutedJobs
<1>3. Append(dropped, Job("pickUp", q)) \in Seq(Jobs)
  BY <1>2, NewJob, MoreJobs
<1>4. x = IF r.page # "checkout" \/ q = r.cart THEN [r EXCEPT !.cart = q]
          ELSE IF q = Empty THEN [shown EXCEPT !.hold = NoHold, !.phase = "form"]
          ELSE [shown EXCEPT !.jobs = Append(dropped, Job("pickUp", q))]
  BY DEF OnCart
<1> HIDE DEF dropped, S
<1>5. CASE r.page # "checkout" \/ q = r.cart
  BY <1>4, <1>5 DEF TabRecords
<1>6. CASE r.page = "checkout" /\ q # r.cart /\ q = Empty
  <2>1. /\ x \in TabRecords
        /\ x.cart = q /\ x.moves = r.moves /\ x.page = r.page /\ x.call = r.call
        /\ x.asked = r.asked /\ x.shell = r.shell /\ x.back = r.back /\ x.order = r.order
        /\ x.phase = "form" /\ x.hold = NoHold /\ x.jobs = dropped
    BY <1>2, <1>4, <1>6 DEF TabRecords, Refs
  <2> QED
    BY <1>1, <1>6, <2>1
<1>7. CASE r.page = "checkout" /\ q # r.cart /\ q # Empty
  <2>1. /\ x \in TabRecords
        /\ x.cart = q /\ x.moves = r.moves /\ x.page = r.page /\ x.call = r.call
        /\ x.asked = r.asked /\ x.shell = r.shell /\ x.back = r.back /\ x.order = r.order
        /\ x.phase = r.phase /\ x.hold = r.hold
        /\ x.jobs = Append(dropped, Job("pickUp", q))
    BY <1>2, <1>3, <1>4, <1>7 DEF TabRecords, Refs
  <2> QED
    BY <1>1, <1>7, <2>1
<1> QED
  BY <1>5, <1>6, <1>7

\* A cart that changes keeps the invariant of its tab.
LEMMA OnCartKept ==
  ASSUME NEW M, NEW f, NEW r, TabInv(r, M, f), NEW q \in Carts, NEW x, x = OnCart(r, q)
  PROVE  /\ TabInv(x, M, f)
         /\ \/ Len(x.jobs) = Len(r.jobs)
            \/ Len(x.jobs) = Len(r.jobs) + 1 /\ q # Empty
<1>1. r \in TabRecords /\ r.jobs \in Seq(Jobs)
  BY DEF TabInv, TabRecords
<1>2. /\ x \in TabRecords /\ x.cart = q
      /\ x.moves = r.moves /\ x.page = r.page /\ x.call = r.call /\ x.asked = r.asked
      /\ x.shell = r.shell /\ x.back = r.back /\ x.order = r.order
  BY <1>1, OnCartShape
<1>3. OrderInv(x, f) /\ (x.hold \in {r.hold, NoHold} => Known(x, M))
  BY <1>2 DEF TabInv, OrderInv, Known, Aside
<1>4. CASE /\ r.page # "checkout" \/ q = r.cart
           /\ x.jobs = r.jobs /\ x.phase = r.phase /\ x.hold = r.hold
  <2>1. PageInv(x, f) /\ CallInv(x, f)
    BY <1>2, <1>4 DEF TabInv, PageInv, CallInv, Matching
  <2> QED
    BY <1>2, <1>3, <1>4, <2>1 DEF TabInv
<1>5. ASSUME NEW S, r.page = "checkout", q = Empty, x.phase = "form", x.hold = NoHold,
             x.jobs = Muted(r.jobs, S)
      PROVE  TabInv(x, M, f) /\ Len(x.jobs) = Len(r.jobs)
  <2>1. /\ Len(x.jobs) = Len(r.jobs) /\ x.jobs \in Seq(Jobs)
        /\ r.jobs # << >> => 1 \in DOMAIN r.jobs /\ x.jobs[1].kind = r.jobs[1].kind
                              /\ x.jobs[1].lines = r.jobs[1].lines /\ x.jobs # << >>
    BY <1>1, <1>5, MutedJobs, LenProperties, EmptySeq
  <2>2. CallInv(x, f)
    BY <1>2, <2>1 DEF CallInv, TabInv
  <2>3. PageInv(x, f)
    BY <1>2, <1>5 DEF PageInv
  <2> QED
    BY <1>2, <1>3, <1>5, <2>1, <2>2, <2>3 DEF TabInv
<1>6. ASSUME NEW S, r.page = "checkout", q # Empty, x.phase = r.phase, x.hold = r.hold,
             x.jobs = Append(Muted(r.jobs, S), Job("pickUp", q))
      PROVE  TabInv(x, M, f) /\ Len(x.jobs) = Len(r.jobs) + 1
  <2> DEFINE m == Muted(r.jobs, S)
             j == Job("pickUp", q)
  <2>1. /\ m \in Seq(Jobs) /\ Len(m) = Len(r.jobs) /\ DOMAIN m = DOMAIN r.jobs
        /\ \A i \in DOMAIN r.jobs : m[i].kind = r.jobs[i].kind /\ m[i].lines = r.jobs[i].lines
    BY <1>1, MutedJobs
  <2>2. j \in Jobs /\ Awaited(j, q)
    BY NewJob DEF Awaited
  <2> HIDE DEF m, j
  <2>3. x.jobs = Append(m, j)
    BY <1>6 DEF m, j
  <2>4. /\ x.jobs \in Seq(Jobs) /\ Len(x.jobs) = Len(r.jobs) + 1
        /\ DOMAIN x.jobs = 1..(Len(r.jobs) + 1) /\ Len(r.jobs) \in Nat
        /\ x.jobs[Len(r.jobs) + 1] = j /\ x.jobs # << >>
        /\ \A i \in DOMAIN m : x.jobs[i] = m[i]
    BY <2>1, <2>2, <2>3, MoreJobs
  <2>5. r.jobs # << >> => 1 \in DOMAIN r.jobs /\ x.jobs[1] = m[1]
    BY <1>1, <2>1, <2>4, LenProperties, EmptySeq
  <2>6. CallInv(x, f)
    BY <1>2, <2>1, <2>4, <2>5 DEF CallInv, TabInv
  <2>7. Matching(x, f)
    <3>1. Len(r.jobs) + 1 \in DOMAIN x.jobs /\ Awaited(x.jobs[Len(r.jobs) + 1], x.cart)
      BY <1>2, <2>2, <2>4
    <3>2. \A i \in DOMAIN x.jobs : ~(i > Len(r.jobs) + 1)
      BY <2>4
    <3> QED
      BY <3>1, <3>2 DEF Matching
  <2>8. PageInv(x, f)
    BY <1>2, <1>6, <2>7 DEF PageInv, TabInv
  <2> QED
    BY <1>2, <1>3, <1>6, <2>4, <2>6, <2>8 DEF TabInv
<1> QED
  BY <1>1, <1>4, <1>5, <1>6, OnCartShape

\* A tab that left its page: a record of which only these parts matter.
Left(x, r) ==
  /\ x.hold = NoHold /\ x.phase = "form"
  /\ x.jobs = Muted(r.jobs, DOMAIN r.jobs)
  /\ x.call = r.call /\ x.asked = r.asked /\ x.shell = r.shell
  /\ {b.hold : b \in x.back} = {b.hold : b \in r.back}
  /\ x.order.sent = r.order.sent /\ x.order.settled = r.order.settled
  /\ x.order.hold = r.order.hold /\ x.order.cart = r.order.cart

LEMMA LeftKept ==
  ASSUME NEW M, NEW f, NEW r, TabInv(r, M, f), NEW x \in TabRecords, Left(x, r)
  PROVE  TabInv(x, M, f) /\ Len(x.jobs) = Len(r.jobs)
<1>1. r \in TabRecords /\ r.jobs \in Seq(Jobs)
  BY DEF TabInv, TabRecords
<1>2. /\ x.jobs \in Seq(Jobs) /\ Len(x.jobs) = Len(r.jobs) /\ DOMAIN x.jobs = DOMAIN r.jobs
      /\ \A i \in DOMAIN r.jobs : x.jobs[i].kind = r.jobs[i].kind
                                  /\ x.jobs[i].lines = r.jobs[i].lines /\ ~x.jobs[i].live
  BY <1>1, MutedJobs DEF Left
<1>3. r.jobs # << >> => 1 \in DOMAIN r.jobs /\ x.jobs # << >>
  BY <1>1, <1>2, LenProperties, EmptySeq
<1>4. CallInv(x, f)
  BY <1>2, <1>3 DEF CallInv, TabInv, Left
<1>5. PageInv(x, f)
  BY <1>2 DEF PageInv, Left, Matching, Fits
<1>6. OrderInv(x, f) /\ Known(x, M)
  BY DEF OrderInv, Known, Aside, TabInv, Left
<1> QED
  BY <1>2, <1>4, <1>5, <1>6 DEF TabInv

LEMMA UnmountedShape ==
  ASSUME NEW r \in TabRecords, NEW x, x = Unmounted(r)
  PROVE  x \in TabRecords /\ Left(x, r) /\ x.moves = r.moves /\ x.page = r.page /\ x.cart = r.cart
<1> DEFINE muted == [i \in DOMAIN r.jobs |-> [r.jobs[i] EXCEPT !.live = FALSE]]
           less == [r.order EXCEPT !.live = FALSE]
           idle == {[b EXCEPT !.live = FALSE] : b \in r.back}
<1>1. r.jobs \in Seq(Jobs) /\ r.order \in SentOrders /\ r.back \subseteq Backs
  BY DEF TabRecords
<1>2. muted = Muted(r.jobs, DOMAIN r.jobs)
  BY DEF Muted
<1>3. muted \in Seq(Jobs)
  BY <1>1, <1>2, MutedJobs
<1>4. less \in SentOrders /\ less.sent = r.order.sent /\ less.settled = r.order.settled
      /\ less.hold = r.order.hold /\ less.cart = r.order.cart
  BY <1>1 DEF SentOrders
<1>5. x = [r EXCEPT !.phase = "form", !.hold = NoHold, !.back = idle,
                    !.order = less, !.jobs = muted]
  BY DEF Unmounted, TabRecords
<1>7. idle \subseteq Backs /\ {b.hold : b \in idle} = {b.hold : b \in r.back}
  <2>1. \A b \in Backs : [b EXCEPT !.live = FALSE] \in Backs
                         /\ [b EXCEPT !.live = FALSE].hold = b.hold
    BY DEF Backs
  <2> QED
    BY <1>1, <2>1
<1> HIDE DEF muted, less, idle
<1>6. /\ x \in TabRecords
      /\ x.hold = NoHold /\ x.phase = "form" /\ x.jobs = muted
      /\ x.call = r.call /\ x.asked = r.asked /\ x.shell = r.shell /\ x.back = idle
      /\ x.moves = r.moves /\ x.page = r.page /\ x.cart = r.cart
      /\ x.order = less
  BY <1>1, <1>3, <1>4, <1>5, <1>7 DEF TabRecords, Refs
<1> QED
  BY <1>2, <1>4, <1>6, <1>7 DEF Left

\* A pick-up that comes last makes up for everything before it.
LEMMA MountedKept ==
  ASSUME NEW M, NEW f, NEW r, TabInv(r, M, f), NEW x, x = Mounted(r)
  PROVE  /\ TabInv(x, M, f) /\ x.moves = r.moves
         /\ Len(x.jobs) \in {Len(r.jobs), Len(r.jobs) + 1}
<1> DEFINE u == Unmounted(r)
           more == Append(u.jobs, Job("pickUp", r.cart))
<1>1. r \in TabRecords /\ r.cart \in Carts
  BY DEF TabInv, TabRecords
<1>2. u \in TabRecords /\ Left(u, r) /\ u.moves = r.moves /\ u.page = r.page /\ u.cart = r.cart
  BY <1>1, UnmountedShape
<1>3. u.jobs \in Seq(Jobs)
  BY <1>2 DEF TabRecords
<1>4. TabInv(u, M, f) /\ Len(u.jobs) = Len(r.jobs)
  BY <1>2, LeftKept
<1>5. x = [u EXCEPT !.page = "checkout", !.jobs = IF r.cart = Empty THEN u.jobs ELSE more]
  BY DEF Mounted
<1>6. Job("pickUp", r.cart) \in Jobs /\ Awaited(Job("pickUp", r.cart), r.cart)
  BY <1>1, NewJob DEF Awaited
<1>7. /\ more \in Seq(Jobs) /\ Len(more) = Len(u.jobs) + 1 /\ DOMAIN more = 1..(Len(u.jobs) + 1)
      /\ Len(u.jobs) \in Nat /\ Awaited(more[Len(u.jobs) + 1], r.cart)
      /\ more # << >> /\ \A i \in DOMAIN u.jobs : more[i] = u.jobs[i]
      /\ u.jobs # << >> => 1 \in DOMAIN u.jobs
  BY <1>3, <1>6, MoreJobs
<1> HIDE DEF u, more
<1>8. /\ x \in TabRecords /\ x.page = "checkout" /\ x.moves = u.moves /\ x.cart = u.cart
      /\ x.phase = u.phase /\ x.hold = u.hold /\ x.call = u.call /\ x.asked = u.asked
      /\ x.shell = u.shell /\ x.back = u.back /\ x.order = u.order
      /\ x.jobs = IF r.cart = Empty THEN u.jobs ELSE more
  BY <1>2, <1>3, <1>5, <1>7 DEF TabRecords
<1>9. CallInv(x, f)
  BY <1>4, <1>7, <1>8 DEF CallInv, TabInv
<1>10. OrderInv(x, f) /\ Known(x, M)
  BY <1>4, <1>8 DEF OrderInv, Known, Aside, TabInv
<1>11. r.cart # Empty => Matching(x, f)
  <2>1. ASSUME r.cart # Empty
        PROVE  /\ x.jobs = more /\ x.cart = r.cart /\ Len(u.jobs) + 1 \in DOMAIN x.jobs
               /\ \A i \in DOMAIN x.jobs : ~(i > Len(u.jobs) + 1)
    BY <1>2, <1>7, <1>8, <2>1
  <2> QED
    BY <1>7, <2>1 DEF Matching
<1>12. PageInv(x, f)
  BY <1>2, <1>4, <1>8, <1>11 DEF PageInv, TabInv
<1> QED
  BY <1>2, <1>4, <1>7, <1>8, <1>9, <1>10, <1>12 DEF TabInv

\* Giving up the payment phase: what is left waits for its jobs only.
LEMMA ResetKept ==
  ASSUME NEW M, NEW f, NEW r, TabInv(r, M, f), NEW x, x = Reset(r)
  PROVE  TabInv(x, M, f) /\ x.jobs = r.jobs
<1>1. r \in TabRecords
  BY DEF TabInv
<1>2. /\ x \in TabRecords /\ x.hold = NoHold /\ x.phase = "form"
      /\ x.page = r.page /\ x.cart = r.cart /\ x.jobs = r.jobs /\ x.call = r.call
      /\ x.asked = r.asked /\ x.shell = r.shell /\ x.back = r.back /\ x.order = r.order
  BY <1>1 DEF Reset, TabRecords, Refs
<1>3. Matching(r, f) => Matching(x, f)
  BY <1>2 DEF Matching
<1>4. PageInv(x, f)
  BY <1>2, <1>3 DEF PageInv, TabInv
<1> QED
  BY <1>2, <1>4 DEF TabInv, CallInv, OrderInv, Known, Aside

\* The reservations that are made, and their lines, stay.
LEMMA MoreHolds ==
  ASSUME NEW M, NEW f, NEW N, NEW g, M \subseteq N, \A h \in M : g[h] = f[h],
         NEW r, TabInv(r, M, f)
  PROVE  TabInv(r, N, g)
<1>1. Known(r, N)
  BY DEF TabInv, Known, Aside
<1>2. /\ r.hold # NoHold => g[r.hold] = f[r.hold]
      /\ r.asked # NoHold => g[r.asked] = f[r.asked]
      /\ r.order.hold # NoHold => g[r.order.hold] = f[r.order.hold]
  BY DEF TabInv, Known, Aside
<1>3. PageInv(r, g)
  BY <1>2 DEF TabInv, PageInv, Matching
<1>4. CallInv(r, g) /\ OrderInv(r, g)
  BY <1>2 DEF TabInv, CallInv, OrderInv
<1> QED
  BY <1>1, <1>3, <1>4 DEF TabInv

\* What the shell asks, what is given back, and the order on its way are apart
\* from the page and its queue.
LEMMA AsideKept ==
  ASSUME NEW M, NEW f, NEW r, TabInv(r, M, f), NEW x \in TabRecords,
         x.page = r.page, x.cart = r.cart, x.phase = r.phase, x.hold = r.hold,
         x.jobs = r.jobs, x.call = r.call, x.asked = r.asked,
         Aside(x) \subseteq M \cup {NoHold}, OrderInv(x, f)
  PROVE  TabInv(x, M, f)
<1>1. PageInv(x, f) /\ CallInv(x, f)
  BY DEF TabInv, PageInv, CallInv, Matching
<1>2. Known(x, M)
  BY DEF TabInv, Known, Aside
<1> QED
  BY <1>1, <1>2 DEF TabInv

LEMMA AskKept ==
  ASSUME NEW M, NEW f, NEW r, TabInv(r, M, f), r.jobs # << >>,
         NEW op \in {"get", "delete", "post"}, NEW h \in Refs, h \in M \cup {NoHold},
         op = "get" => h # NoHold /\ f[h] = r.jobs[1].lines,
         op = "post" => r.jobs[1].kind = "ensure",
         NEW x, x = Ask(r, op, h)
  PROVE  TabInv(x, M, f) /\ x.jobs = r.jobs
<1>1. r \in TabRecords
  BY DEF TabInv
<1>2. /\ x \in TabRecords /\ x.hold = r.hold /\ x.phase = r.phase
      /\ x.page = r.page /\ x.cart = r.cart /\ x.jobs = r.jobs /\ x.call = op
      /\ x.asked = h /\ x.shell = r.shell /\ x.back = r.back /\ x.order = r.order
  BY <1>1 DEF Ask, TabRecords
<1>3. PageInv(x, f)
  BY <1>2 DEF TabInv, PageInv, Matching
<1>4. CallInv(x, f)
  BY <1>2 DEF CallInv
<1>5. OrderInv(x, f) /\ Known(x, M)
  BY <1>2 DEF TabInv, OrderInv, Known, Aside
<1> QED
  BY <1>2, <1>3, <1>4, <1>5 DEF TabInv

\* The record of a tab whose first job is done, and found h: the page shows it
\* if it waits for it, except when an ensure failed.
Finished(x, r, h) ==
  /\ x \in TabRecords /\ x.jobs = Tail(r.jobs)
  /\ x.page = r.page /\ x.cart = r.cart /\ x.call = "none" /\ x.asked = NoHold
  /\ x.shell = r.shell /\ x.back = r.back /\ x.order = r.order
  /\ \/ /\ ~r.jobs[1].live \/ r.jobs[1].kind = "ensure"
        /\ x.hold = r.hold /\ x.phase = r.phase
     \/ /\ r.jobs[1].live
        /\ x.hold = h /\ x.phase = IF h = NoHold THEN "form" ELSE "payment"

LEMMA DoneFinished ==
  ASSUME NEW r \in TabRecords, r.jobs # << >>, NEW h \in Refs,
         NEW x, x = Done(r, h, FALSE) \/ (x = Done(r, h, TRUE) /\ r.jobs[1].kind = "ensure")
  PROVE  Finished(x, r, h)
<1> DEFINE rest == [r EXCEPT !.jobs = Tail(@), !.call = "none", !.asked = NoHold]
           p == IF h = NoHold THEN "form" ELSE "payment"
<1>1. r.jobs \in Seq(Jobs)
  BY DEF TabRecords
<1>2. Tail(r.jobs) \in Seq(Jobs) /\ Head(r.jobs) = r.jobs[1]
  BY <1>1, FewerJobs
<1>3. /\ rest \in TabRecords /\ rest.jobs = Tail(r.jobs) /\ rest.call = "none"
      /\ rest.asked = NoHold /\ rest.page = r.page /\ rest.cart = r.cart
      /\ rest.shell = r.shell /\ rest.back = r.back /\ rest.order = r.order
      /\ rest.hold = r.hold /\ rest.phase = r.phase
  BY <1>2 DEF TabRecords, Refs
<1>4. \/ x = rest /\ (~r.jobs[1].live \/ r.jobs[1].kind = "ensure")
      \/ x = [rest EXCEPT !.hold = h, !.phase = p] /\ r.jobs[1].live
  BY <1>2 DEF Done
<1> p \in {"form", "payment"}
  OBVIOUS
<1> HIDE DEF rest, p
<1>5. CASE x = rest /\ (~r.jobs[1].live \/ r.jobs[1].kind = "ensure")
  BY <1>3, <1>5 DEF Finished
<1>6. CASE x = [rest EXCEPT !.hold = h, !.phase = p] /\ r.jobs[1].live
  <2>1. /\ x \in TabRecords /\ x.hold = h /\ x.phase = p
        /\ x.jobs = rest.jobs /\ x.call = rest.call /\ x.asked = rest.asked
        /\ x.page = rest.page /\ x.cart = rest.cart /\ x.shell = rest.shell
        /\ x.back = rest.back /\ x.order = rest.order
    BY <1>3, <1>6 DEF TabRecords
  <2> QED
    BY <1>3, <1>6, <2>1 DEF p, Finished
<1> QED
  BY <1>4, <1>5, <1>6

\* What the first job found replaces the hold of the page that waits for it.
LEMMA DoneKept ==
  ASSUME NEW M, NEW f, NEW r, TabInv(r, M, f), r.jobs # << >>,
         NEW h \in Refs, h \in M \cup {NoHold}, h # NoHold => f[h] = r.jobs[1].lines,
         NEW x, Finished(x, r, h)
  PROVE  TabInv(x, M, f) /\ Len(x.jobs) = Len(r.jobs) - 1
<1>1. r \in TabRecords /\ r.jobs \in Seq(Jobs)
  BY DEF TabInv, TabRecords
<1>2. /\ x \in TabRecords /\ x.jobs = Tail(r.jobs)
      /\ x.page = r.page /\ x.cart = r.cart /\ x.call = "none" /\ x.asked = NoHold
      /\ x.shell = r.shell /\ x.back = r.back /\ x.order = r.order
      /\ \/ /\ ~r.jobs[1].live \/ r.jobs[1].kind = "ensure"
            /\ x.hold = r.hold /\ x.phase = r.phase
         \/ /\ r.jobs[1].live
            /\ x.hold = h /\ x.phase = IF h = NoHold THEN "form" ELSE "payment"
  BY DEF Finished
<1>3. /\ Len(x.jobs) = Len(r.jobs) - 1 /\ DOMAIN x.jobs = 1..(Len(r.jobs) - 1)
      /\ DOMAIN r.jobs = 1..Len(r.jobs) /\ Len(r.jobs) \in Nat /\ 1 \in DOMAIN r.jobs
      /\ \A i \in DOMAIN x.jobs : i + 1 \in DOMAIN r.jobs /\ x.jobs[i] = r.jobs[i + 1]
  BY <1>1, <1>2, FewerJobs
<1>4. CallInv(x, f) /\ OrderInv(x, f) /\ Known(x, M)
  BY <1>2 DEF TabInv, CallInv, OrderInv, Known, Aside
<1>5. x.hold = NoHold <=> x.phase = "form"
  BY <1>2 DEF TabInv, PageInv
<1>6. ASSUME x.page # "checkout"
      PROVE  x.hold = NoHold /\ \A i \in DOMAIN x.jobs : ~x.jobs[i].live
  BY <1>2, <1>3, <1>6 DEF TabInv, PageInv
<1>7. ASSUME x.page = "checkout", x.cart # Empty
      PROVE  Matching(x, f)
  <2>1. Matching(r, f)
    BY <1>2, <1>7 DEF TabInv, PageInv
  <2>2. CASE /\ r.hold # NoHold => f[r.hold] = r.cart
             /\ \A j \in DOMAIN r.jobs : Fits(r.jobs[j], r.cart)
    <3>1. \A i \in DOMAIN x.jobs : Fits(x.jobs[i], x.cart)
      BY <1>2, <1>3, <2>2
    <3>2. x.hold # NoHold => f[x.hold] = x.cart
      BY <1>2, <1>3, <2>2 DEF Fits
    <3> QED
      BY <3>1, <3>2 DEF Matching
  <2>3. ASSUME NEW k \in DOMAIN r.jobs, Awaited(r.jobs[k], r.cart),
               \A j \in DOMAIN r.jobs : j > k => Fits(r.jobs[j], r.cart)
        PROVE  Matching(x, f)
    <3>1. CASE k = 1
      <4>1. x.hold = h /\ r.jobs[1].lines = r.cart
        BY <1>2, <2>3, <3>1 DEF Awaited
      <4>2. x.hold # NoHold => f[x.hold] = x.cart
        BY <1>2, <4>1
      <4>3. \A i \in DOMAIN x.jobs : Fits(x.jobs[i], x.cart)
        <5>1. \A i \in DOMAIN x.jobs : i + 1 \in DOMAIN r.jobs /\ i + 1 > k
          BY <1>3, <3>1
        <5> QED
          BY <1>2, <1>3, <2>3, <5>1
      <4> QED
        BY <4>2, <4>3 DEF Matching
    <3>2. CASE k # 1
      <4>1. /\ k - 1 \in DOMAIN x.jobs /\ x.jobs[k - 1] = r.jobs[k]
            /\ \A i \in DOMAIN x.jobs :
                 i > k - 1 => i + 1 \in DOMAIN r.jobs /\ i + 1 > k
        BY <1>3, <3>2
      <4>2. \A i \in DOMAIN x.jobs : i > k - 1 => Fits(x.jobs[i], x.cart)
        BY <1>2, <1>3, <2>3, <4>1
      <4> QED
        BY <1>2, <2>3, <4>1, <4>2 DEF Matching
    <3> QED
      BY <3>1, <3>2
  <2> QED
    BY <2>1, <2>2, <2>3 DEF Matching
<1>8. PageInv(x, f)
  BY <1>5, <1>6, <1>7 DEF PageInv
<1> QED
  BY <1>2, <1>3, <1>4, <1>8 DEF TabInv
-----------------------------------------------------------------------------
(* The invariant of the browser and the server.                            *)

Made == {h \in Holds : holdStatus[h] # "free"}

\* Reservations are numbered as they are made.
ServerInv ==
  /\ advance \in BOOLEAN
  /\ holdStatus \in [Holds -> {"free", "active", "consumed", "cancelled"}]
  /\ held \in [Holds -> Carts]
  /\ overdue \subseteq Holds
  /\ \E n \in Nat : Made = 1..n
  /\ OrderIsTheCart

StorageInv == savedCart \in Carts /\ savedHold \in Made \cup {NoHold}

TabsInv ==
  /\ tab \in [Tabs -> TabRecords]
  /\ \A t \in Tabs : TabInv(tab[t], Made, held) /\ Len(tab[t].jobs) <= MaxJobs + 1

BrowserInv == ServerInv /\ StorageInv /\ TabsInv

LEMMA Sizes ==
  /\ MaxQty \in Nat /\ MaxHolds \in Nat /\ MaxJobs \in Nat /\ MaxMoves \in Nat
  /\ Made \subseteq Refs /\ NoHold \in Refs
  BY StorefrontAssumption DEF Made, Refs

\* A tab with nothing but a cart and a hold its shell asks about.
Fresh(n, page, q, h) ==
  [moves |-> n, page |-> page, cart |-> q, phase |-> "form", hold |-> NoHold,
   jobs |-> << >>, call |-> "none", asked |-> NoHold, shell |-> h,
   back |-> {}, order |-> NoOrder]

LEMMA BlankIsFresh ==
  ASSUME NEW n \in Nat, NEW page \in {"closed", "shop"}, NEW q \in Carts, NEW h \in Refs,
         NEW x, x = [Blank EXCEPT !.moves = n, !.page = page, !.cart = q, !.shell = h]
  PROVE  x = Fresh(n, page, q, h)
  BY DEF Blank, Fresh

LEMMA FreshTab ==
  ASSUME NEW M, NEW f, NEW n \in Nat, NEW page \in {"closed", "shop"}, NEW q \in Carts,
         NEW h \in Refs, h \in M \cup {NoHold}
  PROVE  TabInv(Fresh(n, page, q, h), M, f) /\ Fresh(n, page, q, h).jobs = << >>
<1> DEFINE y == Fresh(n, page, q, h)
<1>1. << >> \in Seq(Jobs) /\ Empty \in Carts /\ NoHold \in Refs
  BY EmptySeq, EmptyIsACart DEF Refs
<1>2. NoOrder \in SentOrders /\ NoOrder.sent = FALSE /\ NoOrder.hold = NoHold
  BY <1>1 DEF NoOrder, SentOrders
<1>3. y \in TabRecords
  BY <1>1, <1>2 DEF TabRecords, Fresh
<1>4. /\ y.page = page /\ y.phase = "form" /\ y.hold = NoHold /\ y.jobs = << >>
      /\ y.call = "none" /\ y.asked = NoHold /\ y.shell = h /\ y.back = {}
      /\ y.order = NoOrder
  BY DEF Fresh
<1> HIDE DEF y
<1>5. PageInv(y, f)
  BY <1>4 DEF PageInv
<1>6. CallInv(y, f) /\ OrderInv(y, f) /\ Known(y, M)
  BY <1>2, <1>4 DEF CallInv, OrderInv, Known, Aside
<1>7. TabInv(y, M, f) /\ y.jobs = << >>
  BY <1>3, <1>4, <1>5, <1>6 DEF TabInv
<1> QED
  BY <1>7 DEF y

LEMMA BrowserInvInit == ASSUME Init PROVE BrowserInv
<1>1. Made = {}
  BY DEF Init, Made
<1>2. ServerInv
  <2>1. Made = 1..0 /\ 0 \in Nat
    BY <1>1
  <2>2. OrderIsTheCart
    BY DEF Init, OrderIsTheCart
  <2> QED
    BY <2>1, <2>2, EmptyIsACart DEF Init, ServerInv
<1>3. StorageInv
  BY DEF Init, StorageInv
<1>4. TabInv(Blank, Made, held) /\ Blank.jobs = << >>
  <2>1. Blank = Fresh(0, "closed", Empty, NoHold)
    BY DEF Blank, Fresh
  <2> QED
    BY <2>1, FreshTab, EmptyIsACart, Sizes
<1>5. Len(<< >>) = 0 /\ MaxJobs \in Nat
  BY Sizes
<1>6. Blank \in TabRecords
  BY <1>4 DEF TabInv
<1>7. TabsInv
  BY <1>4, <1>5, <1>6 DEF Init, TabsInv
<1> QED
  BY <1>2, <1>3, <1>7 DEF BrowserInv

\* One tab changes, and reservations may have been made.
LEMMA OneTab ==
  ASSUME TabsInv, Made \subseteq Made', \A h \in Made : held'[h] = held[h],
         NEW t \in Tabs, NEW x, TabInv(x, Made', held'), Len(x.jobs) <= MaxJobs + 1,
         tab' = [tab EXCEPT ![t] = x]
  PROVE  TabsInv'
<1>1. x \in TabRecords
  BY DEF TabInv
<1>2. tab' \in [Tabs -> TabRecords]
  BY <1>1 DEF TabsInv
<1>3. ASSUME NEW u \in Tabs
      PROVE  TabInv(tab'[u], Made', held') /\ Len(tab'[u].jobs) <= MaxJobs + 1
  <2>1. CASE u = t
    BY <2>1 DEF TabsInv
  <2>2. CASE u # t
    <3>1. tab'[u] = tab[u]
      BY <2>2 DEF TabsInv
    <3>2. TabInv(tab[u], Made, held) /\ Len(tab[u].jobs) <= MaxJobs + 1
      BY DEF TabsInv
    <3>3. TabInv(tab[u], Made', held')
      BY <3>2, MoreHolds
    <3> QED
      BY <3>1, <3>2, <3>3
  <2> QED
    BY <2>1, <2>2
<1> QED
  BY <1>2, <1>3 DEF TabsInv

LEMMA ServerStays ==
  ASSUME ServerInv, UNCHANGED serverVars
  PROVE  ServerInv' /\ Made' = Made /\ held' = held
  BY DEF ServerInv, serverVars, Made, OrderIsTheCart

\* A step of the browser alone.
LEMMA OneTabOnly ==
  ASSUME BrowserInv, UNCHANGED serverVars, StorageInv',
         NEW t \in Tabs, NEW x, TabInv(x, Made, held), Len(x.jobs) <= MaxJobs + 1,
         tab' = [tab EXCEPT ![t] = x]
  PROVE  BrowserInv'
<1>1. ServerInv' /\ Made' = Made /\ held' = held
  BY ServerStays DEF BrowserInv
<1>2. TabInv(x, Made', held')
  BY <1>1
<1>3. TabsInv'
  BY <1>1, <1>2, OneTab DEF BrowserInv
<1> QED
  BY <1>1, <1>3 DEF BrowserInv
-----------------------------------------------------------------------------
(* Pages and carts.                                                        *)

LEMMA LoadKept ==
  ASSUME BrowserInv, NEW t \in Tabs, NEW page \in {"shop", "checkout"}, Load(t, page)
  PROVE  BrowserInv'
<1> DEFINE dead == savedHold \in overdue
           q == IF dead THEN Empty ELSE savedCart
           h == IF dead THEN NoHold ELSE savedHold
           n == tab[t].moves + 1
           fresh == Fresh(n, "shop", q, h)
           y == IF page = "checkout" THEN Mounted(fresh) ELSE fresh
<1>1. q \in Carts /\ h \in Made \cup {NoHold} /\ h \in Refs /\ n \in Nat
  BY EmptyIsACart, Sizes DEF BrowserInv, StorageInv, TabsInv, TabRecords
<1>2. TabInv(fresh, Made, held) /\ fresh.jobs = << >>
  BY <1>1, FreshTab
<1> DEFINE b == [Blank EXCEPT !.moves = n, !.page = "shop", !.cart = q, !.shell = h]
<1> HIDE DEF q, h, n
<1>3. b = fresh
  <2> HIDE DEF fresh, b
  <2> SUFFICES b = Fresh(n, "shop", q, h)
    BY DEF fresh
  <2>1. b = [Blank EXCEPT !.moves = n, !.page = "shop", !.cart = q, !.shell = h]
    BY DEF b
  <2> QED
    BY <1>1, <2>1, BlankIsFresh
<1>4. /\ savedCart' = q /\ savedHold' = h /\ tab' = [tab EXCEPT ![t] = y]
      /\ UNCHANGED serverVars
  BY <1>3 DEF Load, q, h, n
<1> HIDE DEF fresh
<1>5. TabInv(y, Made, held) /\ Len(y.jobs) <= MaxJobs + 1
  <2>1. Len(fresh.jobs) = 0 /\ MaxJobs \in Nat
    BY <1>2, Sizes
  <2> QED
    BY <1>2, <2>1, MountedKept
<1>6. StorageInv'
  BY <1>1, <1>4, ServerStays DEF BrowserInv, StorageInv
<1> HIDE DEF y
<1> QED
  BY <1>4, <1>5, <1>6, OneTabOnly

LEMMA GoToCheckoutKept ==
  ASSUME BrowserInv, NEW t \in Tabs, GoToCheckout(t) PROVE BrowserInv'
<1> DEFINE m == Mounted(tab[t])
           x == [m EXCEPT !.moves = @ + 1]
<1>1. TabInv(tab[t], Made, held) /\ Len(tab[t].jobs) < MaxJobs /\ tab[t].jobs \in Seq(Jobs)
  BY DEF BrowserInv, TabsInv, GoToCheckout, TabRecords
<1>2. TabInv(m, Made, held) /\ Len(m.jobs) \in {Len(tab[t].jobs), Len(tab[t].jobs) + 1}
  BY <1>1, MountedKept
<1> HIDE DEF m
<1>3. m \in TabRecords
  BY <1>2 DEF TabInv
<1>4. /\ x \in TabRecords
      /\ x.page = m.page /\ x.cart = m.cart /\ x.phase = m.phase /\ x.hold = m.hold
      /\ x.jobs = m.jobs /\ x.call = m.call /\ x.asked = m.asked
      /\ x.shell = m.shell /\ x.back = m.back /\ x.order = m.order
  BY <1>3 DEF TabRecords
<1>5. tab' = [tab EXCEPT ![t] = x] /\ UNCHANGED <<serverVars, storageVars>>
  BY DEF GoToCheckout, m
<1> HIDE DEF x
<1>6. TabInv(x, Made, held)
  <2>1. OrderInv(x, held) /\ Aside(x) \subseteq Made \cup {NoHold}
    BY <1>2, <1>4 DEF TabInv, OrderInv, Known, Aside
  <2> QED
    BY <1>2, <1>4, <2>1, AsideKept
<1>7. Len(x.jobs) <= MaxJobs + 1
  BY <1>1, <1>2, <1>4, Sizes, LenProperties
<1>8. StorageInv'
  BY <1>5, ServerStays DEF BrowserInv, StorageInv, storageVars
<1> QED
  BY <1>5, <1>6, <1>7, <1>8, OneTabOnly

LEMMA GoToShopKept ==
  ASSUME BrowserInv, NEW t \in Tabs, GoToShop(t) PROVE BrowserInv'
<1> DEFINE u == Unmounted(tab[t])
           x == [u EXCEPT !.page = "shop"]
<1>1. /\ TabInv(tab[t], Made, held) /\ Len(tab[t].jobs) <= MaxJobs + 1
      /\ tab[t] \in TabRecords
  BY DEF BrowserInv, TabsInv
<1>2. u \in TabRecords /\ Left(u, tab[t])
  BY <1>1, UnmountedShape
<1> HIDE DEF u
<1>3. x \in TabRecords /\ Left(x, tab[t])
  BY <1>2 DEF TabRecords, Left
<1>4. tab' = [tab EXCEPT ![t] = x] /\ UNCHANGED <<serverVars, storageVars>>
  BY DEF GoToShop, u
<1> HIDE DEF x
<1>5. TabInv(x, Made, held) /\ Len(x.jobs) <= MaxJobs + 1
  BY <1>1, <1>3, LeftKept
<1>6. StorageInv'
  BY <1>4, ServerStays DEF BrowserInv, StorageInv, storageVars
<1> QED
  BY <1>4, <1>5, <1>6, OneTabOnly

LEMMA ShellAnsweredKept ==
  ASSUME BrowserInv, NEW t \in Tabs, ShellAnswered(t) PROVE BrowserInv'
<1> DEFINE r == [tab[t] EXCEPT !.shell = NoHold]
           c == OnCart(r, Empty)
<1>1. /\ TabInv(tab[t], Made, held) /\ Len(tab[t].jobs) <= MaxJobs + 1
      /\ tab[t] \in TabRecords
  BY DEF BrowserInv, TabsInv
<1>2. /\ UNCHANGED serverVars
      /\ \/ tab' = [tab EXCEPT ![t] = r] /\ UNCHANGED storageVars
         \/ savedHold' = NoHold /\ savedCart' = Empty /\ tab' = [tab EXCEPT ![t] = c]
  BY DEF ShellAnswered
<1>3. /\ r \in TabRecords
      /\ r.page = tab[t].page /\ r.cart = tab[t].cart /\ r.phase = tab[t].phase
      /\ r.hold = tab[t].hold /\ r.jobs = tab[t].jobs /\ r.call = tab[t].call
      /\ r.asked = tab[t].asked /\ r.shell = NoHold /\ r.back = tab[t].back
      /\ r.order = tab[t].order
  BY <1>1, Sizes DEF TabRecords
<1> HIDE DEF r
<1>4. TabInv(r, Made, held)
  <2>1. OrderInv(r, held) /\ Aside(r) \subseteq Made \cup {NoHold}
    BY <1>1, <1>3 DEF TabInv, OrderInv, Known, Aside
  <2> QED
    BY <1>1, <1>3, <2>1, AsideKept
<1>5. TabInv(c, Made, held) /\ Len(c.jobs) = Len(r.jobs)
  BY <1>4, OnCartKept, EmptyIsACart
<1> HIDE DEF c
<1>6. StorageInv'
  BY <1>2, ServerStays, EmptyIsACart DEF BrowserInv, StorageInv, storageVars
<1> QED
  BY <1>1, <1>2, <1>3, <1>4, <1>5, <1>6, OneTabOnly

LEMMA ChangeCartKept ==
  ASSUME BrowserInv, NEW t \in Tabs, NEW q \in Carts, ChangeCart(t, q) PROVE BrowserInv'
<1> DEFINE c == OnCart(tab[t], q)
           x == [c EXCEPT !.moves = @ + 1]
<1>1. TabInv(tab[t], Made, held) /\ Len(tab[t].jobs) < MaxJobs /\ tab[t].jobs \in Seq(Jobs)
  BY DEF BrowserInv, TabsInv, ChangeCart, TabRecords
<1>2. TabInv(c, Made, held) /\ Len(c.jobs) \in {Len(tab[t].jobs), Len(tab[t].jobs) + 1}
  BY <1>1, OnCartKept
<1> HIDE DEF c
<1>3. c \in TabRecords
  BY <1>2 DEF TabInv
<1>4. /\ x \in TabRecords
      /\ x.page = c.page /\ x.cart = c.cart /\ x.phase = c.phase /\ x.hold = c.hold
      /\ x.jobs = c.jobs /\ x.call = c.call /\ x.asked = c.asked
      /\ x.shell = c.shell /\ x.back = c.back /\ x.order = c.order
  BY <1>3 DEF TabRecords
<1>5. /\ tab' = [tab EXCEPT ![t] = x] /\ UNCHANGED serverVars
      /\ savedCart' = q /\ savedHold' = savedHold
  BY DEF ChangeCart, c
<1> HIDE DEF x
<1>6. TabInv(x, Made, held)
  <2>1. OrderInv(x, held) /\ Aside(x) \subseteq Made \cup {NoHold}
    BY <1>2, <1>4 DEF TabInv, OrderInv, Known, Aside
  <2> QED
    BY <1>2, <1>4, <2>1, AsideKept
<1>7. Len(x.jobs) <= MaxJobs + 1
  BY <1>1, <1>2, <1>4, Sizes, LenProperties
<1>8. StorageInv'
  BY <1>5, ServerStays DEF BrowserInv, StorageInv
<1> QED
  BY <1>5, <1>6, <1>7, <1>8, OneTabOnly

LEMMA CartStepsKept ==
  ASSUME BrowserInv, NEW t \in Tabs, NEW p \in Products, NEW n \in 0..MaxQty,
         AddItem(t, p, n) \/ UpdateQuantity(t, p, n) \/ RemoveItem(t, p)
  PROVE  BrowserInv'
<1> DEFINE Set(k) == [savedCart EXCEPT ![p] = k]
<1>1. savedCart \in [Products -> 0..MaxQty] /\ MaxQty \in Nat
  BY Sizes DEF BrowserInv, StorageInv, Carts
<1>2. ASSUME NEW k \in 0..MaxQty PROVE Set(k) \in Carts
  BY <1>1 DEF Carts
<1>3. CASE AddItem(t, p, n)
  <2> DEFINE k == IF savedCart[p] + n > MaxQty THEN MaxQty ELSE savedCart[p] + n
  <2>1. k \in 0..MaxQty
    BY <1>1
  <2>2. ChangeCart(t, Set(k))
    BY <1>3 DEF AddItem
  <2> QED
    BY <1>2, <2>1, <2>2, ChangeCartKept
<1>4. CASE UpdateQuantity(t, p, n)
  <2>1. ChangeCart(t, Set(n))
    BY <1>4 DEF UpdateQuantity
  <2> QED
    BY <1>2, <2>1, ChangeCartKept
<1>5. CASE RemoveItem(t, p)
  <2>1. ChangeCart(t, Set(0)) /\ 0 \in 0..MaxQty
    BY <1>1, <1>5 DEF RemoveItem
  <2> QED
    BY <1>2, <2>1, ChangeCartKept
<1> QED
  BY <1>3, <1>4, <1>5
-----------------------------------------------------------------------------
(* The queue of reservation calls.                                         *)

\* Cancelling a reservation does not free its number.
LEMMA CancelKept ==
  ASSUME ServerInv, NEW h, Cancel(h), UNCHANGED <<advance, held, overdue, orders>>
  PROVE  ServerInv' /\ Made' = Made
<1>1. /\ holdStatus' \in [Holds -> {"free", "active", "consumed", "cancelled"}]
      /\ \A g \in Holds : holdStatus'[g] = "free" <=> holdStatus[g] = "free"
  BY DEF ServerInv, Cancel
<1>2. Made' = Made
  BY <1>1 DEF Made
<1> QED
  BY <1>1, <1>2 DEF ServerInv, OrderIsTheCart

\* A step in which a reservation may have been cancelled, or been made.
LEMMA OneTabThen ==
  ASSUME BrowserInv, ServerInv', Made \subseteq Made', \A h \in Made : held'[h] = held[h],
         savedCart' = savedCart, savedHold' \in Made' \cup {NoHold},
         NEW t \in Tabs, NEW x, TabInv(x, Made', held'), Len(x.jobs) <= MaxJobs + 1,
         tab' = [tab EXCEPT ![t] = x]
  PROVE  BrowserInv'
<1>1. TabsInv'
  BY OneTab DEF BrowserInv
<1> QED
  BY <1>1 DEF BrowserInv, StorageInv

\* The first job of a tab, and what a call tells about it.
LEMMA FirstJob ==
  ASSUME BrowserInv, NEW t \in Tabs
  PROVE  /\ TabInv(tab[t], Made, held) /\ Len(tab[t].jobs) <= MaxJobs + 1
         /\ tab[t] \in TabRecords /\ tab[t].asked \in Refs
         /\ tab[t].asked \in Made \cup {NoHold}
         /\ tab[t].call # "none" => tab[t].jobs # << >>
         /\ tab[t].jobs # << >> =>
              /\ Head(tab[t].jobs) = tab[t].jobs[1] /\ Len(tab[t].jobs) \in Nat
              /\ tab[t].jobs[1].kind \in {"pickUp", "ensure"} /\ tab[t].jobs[1].lines \in Carts
         /\ tab[t].call = "get" =>
              tab[t].asked # NoHold /\ held[tab[t].asked] = tab[t].jobs[1].lines
         /\ tab[t].call = "post" => tab[t].jobs[1].kind = "ensure"
<1>1. /\ TabInv(tab[t], Made, held) /\ Len(tab[t].jobs) <= MaxJobs + 1
      /\ tab[t] \in TabRecords /\ tab[t].jobs \in Seq(Jobs) /\ tab[t].asked \in Refs
  BY DEF BrowserInv, TabsInv, TabRecords
<1>2. tab[t].jobs # << >> =>
        /\ Head(tab[t].jobs) = tab[t].jobs[1] /\ Len(tab[t].jobs) \in Nat
        /\ tab[t].jobs[1] \in Jobs
  BY <1>1, FewerJobs
<1>3. /\ tab[t].asked \in Made \cup {NoHold}
      /\ tab[t].call # "none" => tab[t].jobs # << >>
      /\ tab[t].call = "get" =>
           tab[t].asked # NoHold /\ held[tab[t].asked] = tab[t].jobs[1].lines
      /\ tab[t].call = "post" => tab[t].jobs[1].kind = "ensure"
  BY <1>1 DEF TabInv, CallInv, Known, Aside
<1> QED
  BY <1>1, <1>2, <1>3 DEF Jobs

\* A job that is done or asks another question keeps its tab.
LEMMA JobKept ==
  ASSUME BrowserInv, NEW t \in Tabs, tab[t].jobs # << >>,
         NEW M, NEW f, TabInv(tab[t], M, f),
         NEW h \in Refs, h \in M \cup {NoHold}, NEW x,
         \/ x = Ask(tab[t], "delete", h)
         \/ x = Ask(tab[t], "get", h) /\ h # NoHold /\ f[h] = tab[t].jobs[1].lines
         \/ x = Ask(tab[t], "post", h) /\ tab[t].jobs[1].kind = "ensure"
         \/ x = Done(tab[t], h, FALSE) /\ (h # NoHold => f[h] = tab[t].jobs[1].lines)
         \/ x = Done(tab[t], NoHold, TRUE) /\ tab[t].jobs[1].kind = "ensure"
  PROVE  TabInv(x, M, f) /\ Len(x.jobs) <= MaxJobs + 1
<1>1. /\ Len(tab[t].jobs) <= MaxJobs + 1 /\ Len(tab[t].jobs) \in Nat /\ MaxJobs \in Nat
      /\ NoHold \in Refs /\ tab[t] \in TabRecords
  BY FirstJob, Sizes
<1>2. CASE x = Ask(tab[t], "delete", h)
  BY <1>1, <1>2, AskKept
<1>3. CASE x = Ask(tab[t], "get", h) /\ h # NoHold /\ f[h] = tab[t].jobs[1].lines
  BY <1>1, <1>3, AskKept
<1>4. CASE x = Ask(tab[t], "post", h) /\ tab[t].jobs[1].kind = "ensure"
  BY <1>1, <1>4, AskKept
<1>5. CASE x = Done(tab[t], h, FALSE) /\ (h # NoHold => f[h] = tab[t].jobs[1].lines)
  <2>1. Finished(x, tab[t], h)
    BY <1>1, <1>5, DoneFinished
  <2>2. h # NoHold => f[h] = tab[t].jobs[1].lines
    BY <1>5
  <2>3. TabInv(x, M, f) /\ Len(x.jobs) = Len(tab[t].jobs) - 1
    BY <2>1, <2>2, DoneKept
  <2> QED
    BY <1>1, <2>3
<1>6. CASE x = Done(tab[t], NoHold, TRUE) /\ tab[t].jobs[1].kind = "ensure"
  <2>1. Finished(x, tab[t], NoHold)
    BY <1>1, <1>6, DoneFinished
  <2>2. TabInv(x, M, f) /\ Len(x.jobs) = Len(tab[t].jobs) - 1
    BY <1>1, <2>1, DoneKept
  <2> QED
    BY <1>1, <2>2
<1> QED
  BY <1>2, <1>3, <1>4, <1>5, <1>6

LEMMA BeginJobKept ==
  ASSUME BrowserInv, NEW t \in Tabs, BeginJob(t) PROVE BrowserInv'
<1> DEFINE r == tab[t]
<1>1. r.jobs # << >> /\ UNCHANGED <<serverVars, storageVars>>
  BY DEF BeginJob
<1>2. /\ TabInv(r, Made, held) /\ Head(r.jobs) = r.jobs[1]
      /\ r.jobs[1].kind \in {"pickUp", "ensure"}
  BY <1>1, FirstJob
<1>3. savedHold \in Made \cup {NoHold} /\ savedHold \in Refs /\ NoHold \in Refs
  BY Sizes DEF BrowserInv, StorageInv
<1>4. StorageInv'
  BY <1>1, ServerStays DEF BrowserInv, StorageInv, storageVars
<1>5. PICK x : /\ tab' = [tab EXCEPT ![t] = x]
               /\ x = IF StoredFits(r.jobs[1].lines) THEN Ask(r, "get", savedHold)
                      ELSE IF savedHold # NoHold THEN Ask(r, "delete", savedHold)
                      ELSE IF r.jobs[1].kind = "ensure" THEN Ask(r, "post", NoHold)
                      ELSE Done(r, NoHold, FALSE)
  BY <1>2 DEF BeginJob
<1> HIDE DEF r
<1>6. CASE StoredFits(r.jobs[1].lines)
  <2>1. x = Ask(r, "get", savedHold) /\ savedHold # NoHold /\ held[savedHold] = r.jobs[1].lines
    BY <1>5, <1>6 DEF StoredFits
  <2> QED
    BY <1>1, <1>2, <1>3, <1>4, <1>5, <2>1, JobKept, OneTabOnly DEF r
<1>7. CASE ~StoredFits(r.jobs[1].lines) /\ savedHold # NoHold
  <2>1. x = Ask(r, "delete", savedHold)
    BY <1>5, <1>7
  <2> QED
    BY <1>1, <1>2, <1>3, <1>4, <1>5, <2>1, JobKept, OneTabOnly DEF r
<1>8. CASE /\ ~StoredFits(r.jobs[1].lines) /\ savedHold = NoHold
           /\ r.jobs[1].kind = "ensure"
  <2>1. x = Ask(r, "post", NoHold)
    BY <1>5, <1>8
  <2> QED
    BY <1>1, <1>2, <1>3, <1>4, <1>5, <1>8, <2>1, JobKept, OneTabOnly DEF r
<1>9. CASE /\ ~StoredFits(r.jobs[1].lines) /\ savedHold = NoHold
           /\ r.jobs[1].kind # "ensure"
  <2>1. x = Done(r, NoHold, FALSE)
    BY <1>5, <1>9
  <2> QED
    BY <1>1, <1>2, <1>3, <1>4, <1>5, <2>1, JobKept, OneTabOnly DEF r
<1> QED
  BY <1>6, <1>7, <1>8, <1>9

LEMMA HoldReadKept ==
  ASSUME BrowserInv, NEW t \in Tabs, HoldRead(t) PROVE BrowserInv'
<1> DEFINE r == tab[t]
<1>1. r.call = "get" /\ UNCHANGED <<serverVars, savedCart>>
  BY DEF HoldRead
<1>2. /\ r.jobs # << >> /\ TabInv(r, Made, held)
      /\ r.asked \in Refs /\ r.asked \in Made \cup {NoHold}
      /\ r.asked # NoHold /\ held[r.asked] = r.jobs[1].lines
  BY <1>1, FirstJob
<1>3. savedHold \in Made \cup {NoHold} /\ NoHold \in Refs
  BY Sizes DEF BrowserInv, StorageInv
<1>4. PICK x : /\ tab' = [tab EXCEPT ![t] = x]
               /\ \/ savedHold' = r.asked /\ x = Done(r, r.asked, FALSE)
                  \/ savedHold' = NoHold /\ x = Done(r, NoHold, FALSE)
                  \/ savedHold' = savedHold /\ x = Ask(r, "delete", r.asked)
  BY DEF HoldRead
<1> HIDE DEF r
<1>5. TabInv(x, Made, held) /\ Len(x.jobs) <= MaxJobs + 1
  BY <1>2, <1>3, <1>4, JobKept DEF r
<1>6. StorageInv'
  BY <1>1, <1>2, <1>3, <1>4, ServerStays DEF BrowserInv, StorageInv
<1> QED
  BY <1>1, <1>4, <1>5, <1>6, OneTabOnly

LEMMA HoldDroppedKept ==
  ASSUME BrowserInv, NEW t \in Tabs, HoldDropped(t) PROVE BrowserInv'
<1> DEFINE r == tab[t]
<1>1. /\ r.call = "delete" /\ Cancel(r.asked) /\ savedHold' = NoHold
      /\ UNCHANGED <<advance, held, overdue, orders, savedCart>>
  BY DEF HoldDropped
<1>2. /\ r.jobs # << >> /\ TabInv(r, Made, held) /\ Head(r.jobs) = r.jobs[1]
      /\ r.jobs[1].kind \in {"pickUp", "ensure"} /\ NoHold \in Refs
  BY <1>1, FirstJob, Sizes
<1>3. ServerInv' /\ Made' = Made
  BY <1>1, CancelKept DEF BrowserInv
<1>4. PICK x : /\ tab' = [tab EXCEPT ![t] = x]
               /\ x = IF r.jobs[1].kind = "pickUp" THEN Done(r, NoHold, FALSE)
                                                 ELSE Ask(r, "post", NoHold)
  BY <1>2 DEF HoldDropped
<1> HIDE DEF r
<1>5. TabInv(x, Made, held) /\ Len(x.jobs) <= MaxJobs + 1
  BY <1>2, <1>4, JobKept DEF r
<1> QED
  BY <1>1, <1>3, <1>4, <1>5, OneTabThen

LEMMA UpTo == ASSUME NEW k \in Nat PROVE IsFiniteSet(1..k) /\ Cardinality(1..k) = k
<1>1. 1 \in Int /\ k \in Int
  OBVIOUS
<1>2. Cardinality(1..k) = IF 1 > k THEN 0 ELSE k - 1 + 1
  BY <1>1, FS_Interval
<1> QED
  BY <1>1, <1>2, FS_Interval

\* A new reservation has a number nobody knows yet.
LEMMA MadeOne ==
  ASSUME ServerInv, NEW h, h = Cardinality({g \in Holds : holdStatus[g] # "free"}) + 1,
         h \in Holds, NEW q \in Carts,
         holdStatus' = [holdStatus EXCEPT ![h] = "active"],
         held' = [held EXCEPT ![h] = q],
         UNCHANGED <<advance, overdue, orders>>
  PROVE  /\ ServerInv' /\ Made \subseteq Made' /\ h \in Made' /\ held'[h] = q
         /\ \A g \in Made : held'[g] = held[g]
<1>1. PICK n \in Nat : Made = 1..n
  BY DEF ServerInv
<1>2. h = n + 1
  BY <1>1, UpTo DEF Made
<1>3. h \notin Made
  BY <1>1, <1>2
<1>4. Made' = Made \cup {h}
  BY DEF Made, ServerInv
<1>5. Made' = 1..(n + 1) /\ n + 1 \in Nat
  BY <1>1, <1>2, <1>4
<1>6. /\ holdStatus' \in [Holds -> {"free", "active", "consumed", "cancelled"}]
      /\ held' \in [Holds -> Carts] /\ held'[h] = q
      /\ \A g \in Made : held'[g] = held[g]
  BY <1>3 DEF ServerInv, Made
<1>7. ServerInv'
  BY <1>5, <1>6 DEF ServerInv, OrderIsTheCart
<1> QED
  BY <1>4, <1>6, <1>7

LEMMA HoldMadeKept ==
  ASSUME BrowserInv, NEW t \in Tabs, HoldMade(t) PROVE BrowserInv'
<1> DEFINE r == tab[t]
           h == Cardinality({g \in Holds : holdStatus[g] # "free"}) + 1
           made == /\ h \in Holds
                   /\ holdStatus' = [holdStatus EXCEPT ![h] = "active"]
                   /\ held' = [held EXCEPT ![h] = Head(r.jobs).lines]
<1>1. /\ r.call = "post" /\ UNCHANGED <<advance, overdue, orders, savedCart>>
      /\ \/ /\ made /\ savedHold' = h
            /\ tab' = [tab EXCEPT ![t] = Done(r, h, FALSE)]
         \/ /\ made \/ UNCHANGED <<holdStatus, held>>
            /\ tab' = [tab EXCEPT ![t] = Done(r, NoHold, TRUE)]
            /\ savedHold' = savedHold
  BY DEF HoldMade
<1>2. /\ r.jobs # << >> /\ TabInv(r, Made, held) /\ Head(r.jobs) = r.jobs[1]
      /\ r.jobs[1].kind = "ensure" /\ r.jobs[1].lines \in Carts /\ NoHold \in Refs
  BY <1>1, FirstJob, Sizes
<1>3. savedHold \in Made \cup {NoHold} /\ ServerInv
  BY DEF BrowserInv, StorageInv
<1>4. ASSUME made
      PROVE  /\ ServerInv' /\ Made \subseteq Made' /\ h \in Made' /\ h \in Refs
             /\ held'[h] = r.jobs[1].lines /\ \A g \in Made : held'[g] = held[g]
    <2>1. /\ ServerInv' /\ Made \subseteq Made' /\ h \in Made'
          /\ held'[h] = r.jobs[1].lines /\ \A g \in Made : held'[g] = held[g]
      BY <1>1, <1>2, <1>3, <1>4, MadeOne
    <2> QED
      BY <1>4, <2>1 DEF Refs
<1>5. ASSUME UNCHANGED <<holdStatus, held>>
      PROVE  ServerInv' /\ Made' = Made /\ held' = held
  BY <1>1, <1>3, <1>5, ServerStays DEF serverVars
<1> HIDE DEF made, r, h
<1>6. CASE made /\ savedHold' = h /\ tab' = [tab EXCEPT ![t] = Done(r, h, FALSE)]
  <2>1. TabInv(r, Made', held')
    BY <1>2, <1>4, <1>6, MoreHolds
  <2> DEFINE x == Done(r, h, FALSE)
  <2>2. /\ x = Done(r, h, FALSE) /\ (h # NoHold => held'[h] = r.jobs[1].lines)
        /\ h \in Refs /\ h \in Made' \cup {NoHold}
    BY <1>4, <1>6
  <2>3. tab' = [tab EXCEPT ![t] = x]
    BY <1>6
  <2> HIDE DEF x
  <2>4. TabInv(x, Made', held') /\ Len(x.jobs) <= MaxJobs + 1
    BY <1>2, <2>1, <2>2, JobKept DEF r
  <2>5. /\ ServerInv' /\ Made \subseteq Made' /\ savedHold' \in Made' \cup {NoHold}
        /\ \A g \in Made : held'[g] = held[g]
    BY <1>4, <1>6
  <2> QED
    BY <1>1, <2>3, <2>4, <2>5, OneTabThen
<1>7. CASE /\ made \/ UNCHANGED <<holdStatus, held>>
           /\ tab' = [tab EXCEPT ![t] = Done(r, NoHold, TRUE)]
           /\ savedHold' = savedHold
  <2>1. ServerInv' /\ Made \subseteq Made' /\ \A g \in Made : held'[g] = held[g]
    BY <1>4, <1>5, <1>7
  <2>2. TabInv(r, Made', held')
    BY <1>2, <2>1, MoreHolds
  <2> DEFINE x == Done(r, NoHold, TRUE)
  <2>3. x = Done(r, NoHold, TRUE) /\ r.jobs[1].kind = "ensure"
    BY <1>2
  <2> HIDE DEF x
  <2>4. TabInv(x, Made', held') /\ Len(x.jobs) <= MaxJobs + 1
    BY <1>2, <2>2, <2>3, JobKept DEF r
  <2> QED
    BY <1>1, <1>3, <1>7, <2>1, <2>4, OneTabThen DEF x
<1> QED
  BY <1>1, <1>6, <1>7
-----------------------------------------------------------------------------
(* The checkout page.                                                      *)

LEMMA StartPaymentKept ==
  ASSUME BrowserInv, NEW t \in Tabs, StartPayment(t) PROVE BrowserInv'
<1> DEFINE r == tab[t]
           j == Job("ensure", r.cart)
           more == Append(r.jobs, j)
           x == [r EXCEPT !.jobs = more]
<1>1. /\ TabInv(r, Made, held) /\ r \in TabRecords /\ r.jobs \in Seq(Jobs) /\ r.cart \in Carts
      /\ MaxJobs \in Nat
  BY Sizes DEF BrowserInv, TabsInv, TabRecords
<1>2. /\ Len(r.jobs) < MaxJobs /\ r.page = "checkout" /\ r.cart # Empty
      /\ tab' = [tab EXCEPT ![t] = x] /\ UNCHANGED <<serverVars, storageVars>>
  BY DEF StartPayment, PayShown, Page
<1>3. j \in Jobs /\ Fits(j, r.cart)
  BY <1>1, NewJob DEF Fits
<1> HIDE DEF r, j
<1>4. /\ more \in Seq(Jobs) /\ Len(more) = Len(r.jobs) + 1 /\ DOMAIN more = 1..(Len(r.jobs) + 1)
      /\ DOMAIN r.jobs = 1..Len(r.jobs) /\ Len(r.jobs) \in Nat
      /\ more[Len(r.jobs) + 1] = j /\ more # << >>
      /\ r.jobs # << >> => 1 \in DOMAIN r.jobs
      /\ \A i \in DOMAIN r.jobs : more[i] = r.jobs[i]
  BY <1>1, <1>3, MoreJobs
<1> HIDE DEF more
<1>5. /\ x \in TabRecords /\ x.jobs = more
      /\ x.page = r.page /\ x.cart = r.cart /\ x.phase = r.phase /\ x.hold = r.hold
      /\ x.call = r.call /\ x.asked = r.asked
      /\ x.shell = r.shell /\ x.back = r.back /\ x.order = r.order
  BY <1>1, <1>4 DEF TabRecords
<1> HIDE DEF x
<1>6. CallInv(x, held) /\ OrderInv(x, held) /\ Known(x, Made)
  BY <1>1, <1>4, <1>5 DEF TabInv, CallInv, OrderInv, Known, Aside
<1>7. \A i \in DOMAIN more : \/ i \in DOMAIN r.jobs /\ more[i] = r.jobs[i]
                            \/ Fits(more[i], r.cart)
  BY <1>3, <1>4
<1>8. Matching(x, held)
  <2>1. Matching(r, held)
    BY <1>1, <1>2 DEF TabInv, PageInv
  <2>2. CASE /\ r.hold # NoHold => held[r.hold] = r.cart
             /\ \A i \in DOMAIN r.jobs : Fits(r.jobs[i], r.cart)
    <3>1. \A i \in DOMAIN x.jobs : Fits(x.jobs[i], x.cart)
      BY <1>5, <1>7, <2>2
    <3> QED
      BY <1>5, <2>2, <3>1 DEF Matching
  <2>3. ASSUME NEW k \in DOMAIN r.jobs, Awaited(r.jobs[k], r.cart),
               \A i \in DOMAIN r.jobs : i > k => Fits(r.jobs[i], r.cart)
        PROVE  Matching(x, held)
    <3>1. k \in DOMAIN x.jobs /\ Awaited(x.jobs[k], x.cart)
      BY <1>4, <1>5, <2>3
    <3>2. \A i \in DOMAIN x.jobs : i > k => Fits(x.jobs[i], x.cart)
      BY <1>5, <1>7, <2>3
    <3> QED
      BY <3>1, <3>2 DEF Matching
  <2> QED
    BY <2>1, <2>2, <2>3 DEF Matching
<1>9. PageInv(x, held)
  BY <1>1, <1>2, <1>5, <1>8 DEF TabInv, PageInv
<1>10. TabInv(x, Made, held) /\ Len(x.jobs) <= MaxJobs + 1
  BY <1>1, <1>2, <1>4, <1>5, <1>6, <1>9 DEF TabInv
<1>11. StorageInv'
  BY <1>2, ServerStays DEF BrowserInv, StorageInv, storageVars
<1> QED
  BY <1>2, <1>10, <1>11, OneTabOnly

\* A step that leaves the page and its queue alone.
LEMMA AsideOnly ==
  ASSUME BrowserInv, NEW t \in Tabs, NEW x \in TabRecords,
         x.page = tab[t].page, x.cart = tab[t].cart, x.phase = tab[t].phase,
         x.hold = tab[t].hold, x.jobs = tab[t].jobs, x.call = tab[t].call,
         x.asked = tab[t].asked,
         Aside(x) \subseteq Made \cup {NoHold}, OrderInv(x, held)
  PROVE  TabInv(x, Made, held) /\ Len(x.jobs) <= MaxJobs + 1
<1>1. TabInv(tab[t], Made, held) /\ Len(tab[t].jobs) <= MaxJobs + 1
  BY FirstJob
<1> QED
  BY <1>1, AsideKept

LEMMA BackToFormKept ==
  ASSUME BrowserInv, NEW t \in Tabs, BackToForm(t) PROVE BrowserInv'
<1> DEFINE r == tab[t]
<1>1. PICK n \in 1..MaxBacks :
        /\ tab' = [tab EXCEPT ![t] =
             [r EXCEPT !.back = @ \cup {[no |-> n, hold |-> r.hold, live |-> TRUE]}]]
        /\ UNCHANGED <<serverVars, storageVars>>
  BY DEF BackToForm, Page
<1> DEFINE b == [no |-> n, hold |-> r.hold, live |-> TRUE]
           x == [r EXCEPT !.back = r.back \cup {b}]
<1>2. TabInv(r, Made, held) /\ r \in TabRecords
  BY FirstJob
<1>3. b \in Backs /\ b.hold = r.hold /\ r.back \subseteq Backs
  BY <1>2 DEF TabRecords, Backs
<1>4. tab' = [tab EXCEPT ![t] = x]
  BY <1>1
<1> HIDE DEF r, b
<1>5. /\ x \in TabRecords /\ x.page = r.page /\ x.cart = r.cart /\ x.phase = r.phase
      /\ x.hold = r.hold /\ x.jobs = r.jobs /\ x.call = r.call /\ x.asked = r.asked
      /\ x.shell = r.shell /\ x.back = r.back \cup {b} /\ x.order = r.order
  BY <1>2, <1>3 DEF TabRecords
<1> HIDE DEF x
<1>6. Aside(x) \subseteq Made \cup {NoHold} /\ OrderInv(x, held)
  BY <1>2, <1>3, <1>5 DEF TabInv, Known, Aside, OrderInv
<1>7. TabInv(x, Made, held) /\ Len(x.jobs) <= MaxJobs + 1
  BY <1>5, <1>6, AsideOnly DEF r
<1>8. StorageInv'
  BY <1>1, ServerStays DEF BrowserInv, StorageInv, storageVars
<1> QED
  BY <1>1, <1>4, <1>7, <1>8, OneTabOnly

LEMMA BackAnsweredKept ==
  ASSUME BrowserInv, NEW t \in Tabs, BackAnswered(t) PROVE BrowserInv'
<1> DEFINE o == tab[t]
<1>1. PICK b \in o.back :
        /\ Cancel(b.hold) /\ savedHold' = NoHold
        /\ UNCHANGED <<advance, held, overdue, orders, savedCart>>
        /\ \/ tab' = [tab EXCEPT ![t] = Reset([o EXCEPT !.back = o.back \ {b}])]
           \/ tab' = [tab EXCEPT ![t] = [o EXCEPT !.back = o.back \ {b}]]
  BY DEF BackAnswered
<1> DEFINE r == [o EXCEPT !.back = o.back \ {b}]
           x == Reset(r)
<1>2. TabInv(o, Made, held) /\ o \in TabRecords /\ o.back \subseteq Backs
  BY FirstJob DEF TabRecords
<1>8. tab' = [tab EXCEPT ![t] = x] \/ tab' = [tab EXCEPT ![t] = r]
  BY <1>1
<1> HIDE DEF o
<1>3. /\ r \in TabRecords /\ r.page = o.page /\ r.cart = o.cart /\ r.phase = o.phase
      /\ r.hold = o.hold /\ r.jobs = o.jobs /\ r.call = o.call /\ r.asked = o.asked
      /\ r.shell = o.shell /\ r.back = o.back \ {b} /\ r.order = o.order
  BY <1>2 DEF TabRecords
<1> HIDE DEF r
<1>4. Aside(r) \subseteq Made \cup {NoHold} /\ OrderInv(r, held)
  BY <1>2, <1>3 DEF TabInv, Known, Aside, OrderInv
<1>5. TabInv(r, Made, held) /\ Len(r.jobs) <= MaxJobs + 1
  BY <1>3, <1>4, AsideOnly DEF o
<1>6. TabInv(x, Made, held) /\ Len(x.jobs) <= MaxJobs + 1
  BY <1>5, ResetKept
<1> HIDE DEF x
<1>7. ServerInv' /\ Made' = Made
  BY <1>1, CancelKept DEF BrowserInv
<1> QED
  BY <1>1, <1>5, <1>6, <1>7, <1>8, OneTabThen

\* An order is sent under the hold of the page: with no job waiting, that is
\* a hold for its cart.
LEMMA SubmitKept ==
  ASSUME BrowserInv, NEW t \in Tabs, Submit(t) PROVE BrowserInv'
<1> DEFINE r == tab[t]
           o == [sent |-> TRUE, answer |-> "none", hold |-> r.hold, cart |-> r.cart,
                 settled |-> r.jobs = << >>, live |-> TRUE]
           x == [r EXCEPT !.order = o]
<1>1. /\ tab' = [tab EXCEPT ![t] = x] /\ UNCHANGED <<serverVars, storageVars>>
      /\ r.page = "checkout" /\ r.cart # Empty
  BY DEF Submit, CanSubmit, Page
<1>2. TabInv(r, Made, held) /\ r \in TabRecords /\ r.hold \in Refs /\ r.cart \in Carts
  BY FirstJob DEF TabRecords
<1> HIDE DEF r
<1>3. o \in SentOrders /\ o.hold = r.hold /\ o.cart = r.cart /\ (o.settled => r.jobs = << >>)
  BY <1>2 DEF SentOrders
<1>4. ASSUME r.jobs = << >>
      PROVE  r.hold = NoHold \/ held[r.hold] = r.cart
  <2>1. Matching(r, held)
    BY <1>1, <1>2 DEF TabInv, PageInv
  <2>2. DOMAIN r.jobs = {}
    BY <1>4
  <2> QED
    BY <2>1, <2>2 DEF Matching
<1> HIDE DEF o
<1>5. /\ x \in TabRecords /\ x.page = r.page /\ x.cart = r.cart /\ x.phase = r.phase
      /\ x.hold = r.hold /\ x.jobs = r.jobs /\ x.call = r.call /\ x.asked = r.asked
      /\ x.shell = r.shell /\ x.back = r.back /\ x.order = o
  BY <1>2, <1>3 DEF TabRecords
<1> HIDE DEF x
<1>6. OrderInv(x, held)
  BY <1>3, <1>4, <1>5 DEF OrderInv
<1>7. Aside(x) \subseteq Made \cup {NoHold}
  BY <1>2, <1>3, <1>5 DEF TabInv, Known, Aside
<1>8. TabInv(x, Made, held) /\ Len(x.jobs) <= MaxJobs + 1
  BY <1>5, <1>6, <1>7, AsideOnly DEF r
<1>9. StorageInv'
  BY <1>1, ServerStays DEF BrowserInv, StorageInv, storageVars
<1> QED
  BY <1>1, <1>8, <1>9, OneTabOnly

LEMMA OrderAnsweredKept ==
  ASSUME BrowserInv, NEW t \in Tabs, OrderAnswered(t) PROVE BrowserInv'
<1> DEFINE b == tab[t]
           r == [b EXCEPT !.order = NoOrder]
           u == Unmounted(r)
           gone == [u EXCEPT !.page = "shop", !.cart = Empty]
           again == Reset(r)
<1>1. TabInv(b, Made, held) /\ b \in TabRecords /\ NoHold \in Refs
  BY FirstJob, Sizes
<1>2. NoOrder \in SentOrders /\ NoOrder.sent = FALSE /\ NoOrder.hold = NoHold
  BY EmptyIsACart, Sizes DEF NoOrder, SentOrders
<1>3. /\ UNCHANGED serverVars
      /\ savedHold' \in {savedHold, NoHold} /\ savedCart' \in {savedCart, Empty}
      /\ \/ tab' = [tab EXCEPT ![t] = gone]
         \/ tab' = [tab EXCEPT ![t] = again]
         \/ tab' = [tab EXCEPT ![t] = r]
  BY DEF OrderAnswered, Page, storageVars
<1> HIDE DEF b
<1>4. /\ r \in TabRecords /\ r.page = b.page /\ r.cart = b.cart /\ r.phase = b.phase
      /\ r.hold = b.hold /\ r.jobs = b.jobs /\ r.call = b.call /\ r.asked = b.asked
      /\ r.shell = b.shell /\ r.back = b.back /\ r.order = NoOrder
  BY <1>1, <1>2 DEF TabRecords
<1> HIDE DEF r
<1>5. Aside(r) \subseteq Made \cup {NoHold} /\ OrderInv(r, held)
  BY <1>1, <1>2, <1>4 DEF TabInv, Known, Aside, OrderInv
<1>6. TabInv(r, Made, held) /\ Len(r.jobs) <= MaxJobs + 1
  BY <1>4, <1>5, AsideOnly DEF b
<1>7. TabInv(again, Made, held) /\ Len(again.jobs) <= MaxJobs + 1
  BY <1>6, ResetKept
<1> HIDE DEF again
<1>8. u \in TabRecords /\ Left(u, r)
  BY <1>4, UnmountedShape
<1> HIDE DEF u
<1>9. gone \in TabRecords /\ Left(gone, r)
  BY <1>8, EmptyIsACart DEF TabRecords, Left
<1> HIDE DEF gone
<1>10. TabInv(gone, Made, held) /\ Len(gone.jobs) <= MaxJobs + 1
  BY <1>6, <1>9, LeftKept
<1>11. StorageInv'
  BY <1>3, ServerStays, EmptyIsACart DEF BrowserInv, StorageInv
<1> QED
  BY <1>3, <1>6, <1>7, <1>10, <1>11, OneTabOnly
-----------------------------------------------------------------------------
(* The server.                                                             *)

\* The server takes the lines of the hold, which are those of a settled order.
LEMMA PlaceOrderKept ==
  ASSUME BrowserInv, NEW t \in Tabs, PlaceOrder(t) PROVE BrowserInv'
<1> DEFINE r == tab[t]
           o == r.order
           byHold == o.hold # NoHold
           new == [id |-> Cardinality(orders), shown |-> o.cart,
                   lines |-> IF byHold THEN held[o.hold] ELSE o.cart,
                   settled |-> o.settled]
<1>1. /\ TabInv(r, Made, held) /\ r \in TabRecords /\ o \in SentOrders
      /\ o.hold \in Made \cup {NoHold}
  BY FirstJob DEF TabInv, Known, Aside, TabRecords
<1>2. o.sent /\ UNCHANGED <<advance, held, overdue, storageVars>>
  BY DEF PlaceOrder
<1>3. ServerInv /\ StorageInv
  BY DEF BrowserInv
<1>4. \/ UNCHANGED <<holdStatus, orders>>
      \/ /\ orders' = orders \cup {new}
         /\ holdStatus' = [h \in Holds |-> IF h = o.hold THEN "consumed" ELSE holdStatus[h]]
  BY DEF PlaceOrder
<1>5. PICK a \in {"gone", "placed", "failed"} : tab' = [tab EXCEPT ![t].order.answer = a]
  BY DEF PlaceOrder
<1> DEFINE p == [o EXCEPT !.answer = a]
           x == [r EXCEPT !.order = p]
<1>6. tab' = [tab EXCEPT ![t] = x]
  BY <1>5
<1> HIDE DEF r, o
<1>7. /\ p \in SentOrders /\ p.sent = o.sent /\ p.settled = o.settled
      /\ p.hold = o.hold /\ p.cart = o.cart
  BY <1>1 DEF SentOrders
<1> HIDE DEF p
<1>8. /\ x \in TabRecords /\ x.page = r.page /\ x.cart = r.cart /\ x.phase = r.phase
      /\ x.hold = r.hold /\ x.jobs = r.jobs /\ x.call = r.call /\ x.asked = r.asked
      /\ x.shell = r.shell /\ x.back = r.back /\ x.order = p
  BY <1>1, <1>7 DEF TabRecords
<1> HIDE DEF x
<1>9. Aside(x) \subseteq Made \cup {NoHold} /\ OrderInv(x, held)
  BY <1>1, <1>7, <1>8 DEF TabInv, Known, Aside, OrderInv, o
<1>10. TabInv(x, Made, held) /\ Len(x.jobs) <= MaxJobs + 1
  BY <1>8, <1>9, AsideOnly DEF r
<1>11. /\ holdStatus' \in [Holds -> {"free", "active", "consumed", "cancelled"}]
       /\ \A h \in Holds : holdStatus'[h] = "free" <=> holdStatus[h] = "free"
  <2>1. holdStatus \in [Holds -> {"free", "active", "consumed", "cancelled"}]
    BY <1>3 DEF ServerInv
  <2>2. \A h \in Holds : h = o.hold => holdStatus[h] # "free"
    BY <1>1 DEF Made, Holds, NoHold
  <2>3. \/ holdStatus' = holdStatus
        \/ holdStatus' = [h \in Holds |-> IF h = o.hold THEN "consumed" ELSE holdStatus[h]]
    BY <1>4
  <2> HIDE DEF new
  <2> QED
    BY <2>1, <2>2, <2>3
<1>12. Made' = Made
  BY <1>11 DEF Made
<1>13. OrderIsTheCart'
  <2>1. OrderInv(r, held)
    BY <1>1 DEF TabInv
  <2>2. o.settled => o.hold = NoHold \/ held[o.hold] = o.cart
    BY <1>2, <2>1 DEF OrderInv, o
  <2>3. new.settled => new.lines = new.shown
    BY <2>2
  <2> HIDE DEF new
  <2> QED
    BY <1>3, <1>4, <2>3 DEF ServerInv, OrderIsTheCart
<1>14. ServerInv'
  BY <1>2, <1>3, <1>11, <1>12, <1>13 DEF ServerInv
<1> QED
  BY <1>2, <1>3, <1>6, <1>10, <1>12, <1>14, OneTabThen DEF storageVars, StorageInv

LEMMA TimeUpKept == ASSUME BrowserInv, NEW h \in Holds, TimeUp(h) PROVE BrowserInv'
<1>1. /\ overdue' = overdue \cup {h}
      /\ UNCHANGED <<advance, holdStatus, held, orders, savedCart, savedHold, tab>>
  BY DEF TimeUp, storageVars
<1>2. Made' = Made
  BY <1>1 DEF Made
<1>3. ServerInv'
  BY <1>1, <1>2 DEF BrowserInv, ServerInv, OrderIsTheCart
<1> QED
  BY <1>1, <1>2, <1>3 DEF BrowserInv, StorageInv, TabsInv
-----------------------------------------------------------------------------
LEMMA BrowserInvNext == ASSUME BrowserInv, [Next]_vars PROVE BrowserInv'
<1>1. CASE BrowserNext
  <2>1. ASSUME NEW t \in Tabs,
               \/ \E page \in {"shop", "checkout"} : Load(t, page)
               \/ GoToCheckout(t) \/ GoToShop(t) \/ ShellAnswered(t)
        PROVE  BrowserInv'
    BY <2>1, LoadKept, GoToCheckoutKept, GoToShopKept, ShellAnsweredKept
  <2>2. 1..MaxQty \subseteq 0..MaxQty /\ 0 \in 0..MaxQty
    BY Sizes
  <2>3. ASSUME NEW t \in Tabs, NEW p \in Products,
               \/ \E n \in 1..MaxQty : AddItem(t, p, n)
               \/ \E n \in 0..MaxQty : UpdateQuantity(t, p, n)
               \/ RemoveItem(t, p)
        PROVE  BrowserInv'
    BY <2>2, <2>3, CartStepsKept
  <2> QED
    BY <1>1, <2>1, <2>3 DEF BrowserNext
<1>2. CASE QueueNext
  BY <1>2, BeginJobKept, HoldReadKept, HoldDroppedKept, HoldMadeKept DEF QueueNext
<1>3. CASE CheckoutNext
  BY <1>3, StartPaymentKept, BackToFormKept, BackAnsweredKept, SubmitKept,
     OrderAnsweredKept DEF CheckoutNext
<1>4. CASE ServerNext
  BY <1>4, PlaceOrderKept, TimeUpKept DEF ServerNext
<1>6. CASE QuoteChanges
  <2>1. /\ advance' \in BOOLEAN
        /\ UNCHANGED <<holdStatus, held, overdue, orders, savedCart, savedHold, tab>>
    BY <1>6 DEF QuoteChanges, storageVars
  <2> QED
    BY <2>1 DEF BrowserInv, ServerInv, StorageInv, TabsInv, Made, OrderIsTheCart
<1>5. CASE UNCHANGED vars
  <2>1. /\ UNCHANGED <<advance, holdStatus, held, overdue, orders>>
        /\ UNCHANGED <<savedCart, savedHold, tab>>
    BY <1>5 DEF vars
  <2> QED
    BY <2>1 DEF BrowserInv, ServerInv, StorageInv, TabsInv, Made, OrderIsTheCart
<1> QED
  BY <1>1, <1>2, <1>3, <1>4, <1>5, <1>6 DEF Next

LEMMA BrowserInvMeans == ASSUME BrowserInv PROVE PaymentMatchesCart /\ OrderIsTheCart /\ TypeOK
<1>1. ASSUME NEW t \in Tabs, tab[t].page = "checkout", tab[t].cart # Empty,
             tab[t].phase = "payment", tab[t].jobs = << >>
      PROVE  tab[t].hold # NoHold /\ held[tab[t].hold] = tab[t].cart
  <2>1. PageInv(tab[t], held)
    BY FirstJob DEF TabInv
  <2>2. Matching(tab[t], held) /\ tab[t].hold # NoHold
    BY <1>1, <2>1 DEF PageInv
  <2>3. DOMAIN tab[t].jobs = {}
    BY <1>1
  <2> QED
    BY <2>2, <2>3 DEF Matching
<1>2. PaymentMatchesCart
  BY <1>1 DEF PaymentMatchesCart
<1>3. TypeOK
  <2>1. ASSUME NEW t \in Tabs
        PROVE  /\ tab[t].page \in {"closed", "shop", "checkout"} /\ tab[t].cart \in Carts
               /\ tab[t].hold \in Holds \cup {NoHold} /\ tab[t].phase \in {"form", "payment"}
               /\ Len(tab[t].jobs) <= MaxJobs + 1
    BY DEF BrowserInv, TabsInv, TabRecords, Refs
  <2> QED
    BY <2>1, Sizes DEF BrowserInv, ServerInv, StorageInv, Refs, TypeOK
<1> QED
  BY <1>2, <1>3 DEF BrowserInv, ServerInv

\* Every step of a tab, of the queue and of the server keeps the invariant.
THEOREM BrowserInvariance == Spec => []BrowserInv
<1>1. Init => BrowserInv
  BY BrowserInvInit
<1>2. BrowserInv /\ [Next]_vars => BrowserInv'
  BY BrowserInvNext
<1> QED
  BY <1>1, <1>2, PTL DEF Spec

\* While a payment is shown and no reservation call waits, the hold of the page
\* is for the cart it shows: OnCart's pick-up always comes last in the queue.
THEOREM PaymentForTheCart == Spec => []PaymentMatchesCart
<1>1. BrowserInv => PaymentMatchesCart
  BY BrowserInvMeans
<1> QED
  BY <1>1, BrowserInvariance, PTL

\* An order sent with no reservation call waiting has exactly the lines its
\* buyer was shown, although the server takes them from the hold.
THEOREM OrderForTheCart == Spec => []OrderIsTheCart
<1>1. BrowserInv => OrderIsTheCart
  BY BrowserInvMeans
<1> QED
  BY <1>1, BrowserInvariance, PTL

\* The types of the browser's state, and the length of the queues.
THEOREM BrowserTypes == Spec => []TypeOK
<1>1. BrowserInv => TypeOK
  BY BrowserInvMeans
<1> QED
  BY <1>1, BrowserInvariance, PTL
-----------------------------------------------------------------------------
(* The form.                                                               *)

(***************************************************************************)
(* The runs of the effect are numbered, and the answer to the last one is  *)
(* for what the page shows; it is on its way, or there is a quote or an    *)
(* error.                                                                  *)
(***************************************************************************)
AsksInv ==
  /\ asks \in Nat
  /\ \A a \in asked : a.run \in Nat /\ a.run <= asks /\ (a.run = asks => a.key = Key)
QuotesInv == AsksInv /\ QuoteOrAnswerDue

\* The district of the form is one of its division, and so is that of the order
\* on its way, which is the division it was quoted for.
DetailsInv ==
  /\ details \in Details /\ remembered \in Details
  /\ details.district \in {"", details.division}
SentInv ==
  sent.is => /\ sent.details \in Details
             /\ sent.details.district = sent.quote.key[1]

\* A run of the effect that has asked for what the page shows.
LEMMA AskedForThis ==
  ASSUME NEW n, n \in asked', n.run = asks', n.key = Key'
  PROVE  QuoteOrAnswerDue'
  BY Zenon DEF QuoteOrAnswerDue

\* Nothing that a quote depends on changes, and no answer comes.
LEMMA QuotesStay ==
  ASSUME QuotesInv, UNCHANGED <<details, basketVars, quoteVars>>
  PROVE  QuotesInv'
<1>1. UNCHANGED <<details, basket, coupon, hold, retry, asks, asked, quoted, quoteError>>
  BY DEF basketVars, quoteVars
<1>2. Key' = Key
  BY <1>1 DEF Key
<1>3. AsksInv'
  BY <1>1, <1>2 DEF QuotesInv, AsksInv
<1>4. QuoteOrAnswerDue'
  BY <1>1, <1>2, Zenon DEF QuotesInv, QuoteOrAnswerDue, QuoteShown
<1> QED
  BY <1>3, <1>4 DEF QuotesInv

\* What the effect does after any change of what it depends on.
LEMMA EffectKept ==
  ASSUME QuotesInv, QuoteEffect
  PROVE  QuotesInv'
<1>1. CASE Key' = Key
  <2>1. UNCHANGED <<asks, asked, quoted, quoteError>>
    BY <1>1 DEF QuoteEffect, quoteVars
  <2>2. AsksInv'
    BY <1>1, <2>1 DEF QuotesInv, AsksInv
  <2>3. QuoteOrAnswerDue'
    BY <1>1, <2>1, Zenon DEF QuotesInv, QuoteOrAnswerDue, QuoteShown
  <2> QED
    BY <2>2, <2>3 DEF QuotesInv
<1>2. CASE Key' # Key
  <2> DEFINE n == [run |-> asks', key |-> Key']
  <2>1. /\ asks' = asks + 1 /\ asks \in Nat
        /\ asked' = {a \in asked : a.run = asks} \cup {n}
    BY <1>2 DEF QuoteEffect, QuotesInv, AsksInv
  <2>2. n.run = asks' /\ n.key = Key' /\ n \in asked'
    BY <2>1
  <2>3. \A a \in asked' : a = n \/ a.run = asks
    BY <2>1
  <2> HIDE DEF n
  <2>4. QuoteOrAnswerDue'
    BY <2>2, AskedForThis
  <2>5. AsksInv'
    BY <2>1, <2>2, <2>3 DEF AsksInv
  <2> QED
    BY <2>4, <2>5 DEF QuotesInv
<1> QED
  BY <1>1, <1>2

\* An answer: to the last run, or to another one.
LEMMA AnswerKept ==
  ASSUME QuotesInv, QuoteAnswered
  PROVE  QuotesInv'
<1>1. PICK a \in asked :
        /\ asked' = asked \ {a} /\ asks' = asks
        /\ \/ a.run # asks /\ UNCHANGED <<quoted, quoteError>>
           \/ a.run = asks /\ \E adv \in BOOLEAN : quoted' = [key |-> a.key, advance |-> adv]
           \/ a.run = asks /\ quoteError' = TRUE
        /\ UNCHANGED <<details, basket, coupon, hold, retry>>
  BY DEF QuoteAnswered, basketVars
<1>2. Key' = Key
  BY <1>1 DEF Key
<1>3. AsksInv'
  BY <1>1, <1>2 DEF QuotesInv, AsksInv
<1>4. ASSUME a.run # asks, UNCHANGED <<quoted, quoteError>>
      PROVE  QuoteOrAnswerDue'
  <2>1. ASSUME NEW b \in asked, b.run = asks, b.key = Key
        PROVE  QuoteOrAnswerDue'
    <3>1. b \in asked' /\ b.run = asks' /\ b.key = Key'
      BY <1>1, <1>2, <1>4, <2>1
    <3> QED
      BY <3>1, AskedForThis
  <2>2. CASE QuoteShown \/ quoteError
    BY <1>2, <1>4, <2>2, Zenon DEF QuoteOrAnswerDue, QuoteShown
  <2> QED
    BY <2>1, <2>2, Zenon DEF QuotesInv, QuoteOrAnswerDue
<1>5. ASSUME a.run = asks, NEW adv \in BOOLEAN, quoted' = [key |-> a.key, advance |-> adv]
      PROVE  QuoteOrAnswerDue'
  <2>1. quoted'.key = Key'
    BY <1>2, <1>5 DEF QuotesInv, AsksInv
  <2> QED
    BY <2>1, Zenon DEF QuoteOrAnswerDue, QuoteShown
<1>6. ASSUME quoteError' = TRUE
      PROVE  QuoteOrAnswerDue'
  BY <1>6, Zenon DEF QuoteOrAnswerDue
<1>7. QuoteOrAnswerDue'
  BY <1>1, <1>4, <1>5, <1>6, Zenon
<1> QED
  BY <1>3, <1>7 DEF QuotesInv

\* A page that is mounted asks for its first quote.
LEMMA MountedAsks ==
  ASSUME asks' = 1, asked' = {[run |-> 1, key |-> Key']}
  PROVE  QuotesInv'
<1> DEFINE n == [run |-> 1, key |-> Key']
<1>1. n \in asked' /\ n.run = asks' /\ n.key = Key' /\ n.run = 1
  BY DEF n
<1>2. \A a \in asked' : a = n
  BY DEF n
<1> HIDE DEF n
<1>3. QuoteOrAnswerDue'
  BY <1>1, AskedForThis
<1>4. AsksInv'
  BY <1>1, <1>2 DEF AsksInv
<1> QED
  BY <1>3, <1>4 DEF QuotesInv

\* A stored district of another division is dropped.
LEMMA LoadedDetails ==
  ASSUME NEW d \in Details
  PROVE  /\ LoadBuyerDetails(d) \in Details
         /\ LoadBuyerDetails(d).district \in {"", LoadBuyerDetails(d).division}
  BY DEF LoadBuyerDetails, Details

\* The four ways in which a step of the form meets its quotes.
LEMMA FormSteps ==
  ASSUME FormNext
  PROVE  \/ QuoteEffect \/ QuoteAnswered \/ Remount
         \/ UNCHANGED <<details, basketVars, quoteVars>>
<1>1. CASE \E v \in {""} \cup Buyers : EnterContact(v)
  BY <1>1 DEF EnterContact, Enter
<1>2. CASE \E v \in {""} \cup Divisions : PickDivision(v) \/ PickDistrict(v)
  BY <1>2 DEF PickDivision, PickDistrict, Enter
<1>3. CASE \E v \in {"", "ok"} : EnterAddress(v)
  BY <1>3 DEF EnterAddress, Enter
<1>4. CASE ForgetMe \/ RemoveCoupon \/ RetryQuote \/ \E c \in Coupons : ApplyCoupon(c)
  BY <1>4 DEF ForgetMe, RemoveCoupon, RetryQuote, ApplyCoupon
<1>5. CASE QuoteAnswered \/ OrderPlaced \/ OrderFailed \/ SendOrder
  BY <1>5 DEF OrderPlaced, OrderFailed, SendOrder
<1>6. CASE OpenPayment \/ LeavePayment \/ CartChanged \/ HoldGone \/ OrderRefused
  BY <1>6 DEF OpenPayment, LeavePayment, CartChanged, HoldGone, OrderRefused, ResetPayment
<1>7. CASE MethodsLoaded \/ Declare \/ PickReceipt \/ RemoveReceipt \/ ReceiptUploaded
  BY <1>7 DEF MethodsLoaded, Declare, PickReceipt, RemoveReceipt, ReceiptUploaded,
              ChangeProof
<1> QED
  BY <1>1, <1>2, <1>3, <1>4, <1>5, <1>6, <1>7 DEF FormNext

LEMMA QuotesNext == ASSUME QuotesInv, [FormNext]_formVars PROVE QuotesInv'
<1>1. CASE QuoteEffect
  BY <1>1, EffectKept
<1>2. CASE QuoteAnswered
  BY <1>2, AnswerKept
<1>3. CASE Remount
  BY <1>3, MountedAsks DEF Remount
<1>4. CASE UNCHANGED <<details, basketVars, quoteVars>>
  BY <1>4, QuotesStay
<1>5. CASE UNCHANGED formVars
  BY <1>5, QuotesStay DEF formVars
<1> QED
  BY <1>1, <1>2, <1>3, <1>4, <1>5, FormSteps

\* A field that gets a value it may have.
LEMMA EnterKept ==
  ASSUME DetailsInv, NEW d \in Details, d.district \in {"", d.division}, Enter(d)
  PROVE  DetailsInv' /\ sent' = sent
  BY DEF Enter, DetailsInv

\* The order takes the details of the form, under the quote for their division.
LEMMA SendKept ==
  ASSUME DetailsInv, SendOrder
  PROVE  DetailsInv' /\ SentInv'
<1>1. /\ quoted.key = Key /\ Key[1] = details.division /\ details.district # ""
      /\ UNCHANGED <<details, remembered>>
  BY DEF SendOrder, CanPlace, QuoteShown, Key, Valid
<1>2. sent'.details = details /\ sent'.quote = quoted
  BY DEF SendOrder
<1> QED
  BY <1>1, <1>2 DEF DetailsInv, SentInv

LEMMA DetailsNext ==
  ASSUME DetailsInv, SentInv, [FormNext]_formVars
  PROVE  DetailsInv' /\ SentInv'
<1>1. details \in Details /\ details.district \in {"", details.division}
  BY DEF DetailsInv
<1>2. ASSUME NEW v \in {""} \cup Buyers, EnterContact(v)
      PROVE  DetailsInv' /\ SentInv'
  <2> DEFINE d == [details EXCEPT !.contact = v]
  <2>1. d \in Details /\ d.district \in {"", d.division} /\ Enter(d)
    BY <1>1, <1>2 DEF Details, EnterContact
  <2> QED
    BY <2>1, EnterKept DEF SentInv
<1>3. ASSUME NEW v \in {""} \cup Divisions, PickDivision(v) \/ PickDistrict(v)
      PROVE  DetailsInv' /\ SentInv'
  <2> DEFINE d == [details EXCEPT !.division = v, !.district = ""]
             e == [details EXCEPT !.district = v]
  <2>1. /\ d \in Details /\ d.district = ""
        /\ e \in Details /\ e.district = v /\ e.division = details.division
    BY <1>1 DEF Details
  <2>2. Enter(d) \/ (Enter(e) /\ v \in {"", details.division})
    BY <1>3 DEF PickDivision, PickDistrict
  <2> HIDE DEF d, e
  <2> QED
    BY <2>1, <2>2, EnterKept DEF SentInv
<1>4. ASSUME NEW v \in {"", "ok"}, EnterAddress(v)
      PROVE  DetailsInv' /\ SentInv'
  <2> DEFINE d == [details EXCEPT !.address = v]
  <2>1. d \in Details /\ d.district \in {"", d.division} /\ Enter(d)
    BY <1>1, <1>4 DEF Details, EnterAddress
  <2> QED
    BY <2>1, EnterKept DEF SentInv
<1>5. CASE ForgetMe
  <2>1. NoDetails \in Details /\ NoDetails.district = ""
    BY DEF NoDetails, Details
  <2> QED
    BY <1>5, <2>1 DEF ForgetMe, DetailsInv, SentInv
<1>6. CASE SendOrder
  BY <1>6, SendKept
<1>7. CASE OrderPlaced
  <2>1. remembered' \in Details /\ details' = LoadBuyerDetails(remembered')
    BY <1>7 DEF OrderPlaced, Remount, SentInv
  <2>2. DetailsInv'
    BY <2>1, LoadedDetails DEF DetailsInv
  <2>3. ~sent'.is
    BY <1>7 DEF OrderPlaced, Remount, NoneSent
  <2> QED
    BY <2>2, <2>3 DEF SentInv
<1>8. CASE OrderRefused \/ OrderFailed
  <2>1. UNCHANGED <<details, remembered>> /\ ~sent'.is
    BY <1>8 DEF OrderRefused, OrderFailed, ResetPayment, NoneSent
  <2> QED
    BY <2>1 DEF DetailsInv, SentInv
<1>9. CASE UNCHANGED <<details, remembered, sent>>
  BY <1>9 DEF DetailsInv, SentInv
<1>10. CASE RemoveCoupon \/ RetryQuote \/ QuoteAnswered \/ \E c \in Coupons : ApplyCoupon(c)
  BY <1>9, <1>10 DEF RemoveCoupon, RetryQuote, ApplyCoupon, QuoteAnswered
<1>11. CASE OpenPayment \/ LeavePayment \/ CartChanged \/ HoldGone \/ MethodsLoaded
  BY <1>9, <1>11 DEF OpenPayment, LeavePayment, CartChanged, HoldGone, MethodsLoaded,
                     ResetPayment
<1>12. CASE Declare \/ PickReceipt \/ RemoveReceipt \/ ReceiptUploaded
  BY <1>9, <1>12 DEF Declare, PickReceipt, RemoveReceipt, ReceiptUploaded, ChangeProof
<1>13. CASE UNCHANGED formVars
  BY <1>9, <1>13 DEF formVars
<1> QED
  BY <1>2, <1>3, <1>4, <1>5, <1>6, <1>7, <1>8, <1>10, <1>11, <1>12, <1>13 DEF FormNext

\* A page that shows neither a quote for what is on it nor an error waits for
\* an answer that will count (the quote effect of the checkout page), whatever
\* changed, and in whatever order the answers come.
THEOREM NoQuoteInVain == FormSpec => []QuoteOrAnswerDue
<1>1. FormInit => QuotesInv
  <2> SUFFICES ASSUME FormInit PROVE QuotesInv
    OBVIOUS
  <2> DEFINE n == [run |-> 1, key |-> Key]
  <2>1. asks = 1 /\ asked = {n}
    BY DEF FormInit
  <2>2. n.run = 1 /\ n.key = Key /\ n \in asked /\ \A a \in asked : a = n
    BY <2>1
  <2> HIDE DEF n
  <2>3. AsksInv
    BY <2>1, <2>2 DEF AsksInv
  <2>4. \E a \in asked : a.run = asks /\ a.key = Key
    BY <2>1, <2>2
  <2> QED
    BY <2>3, <2>4, Zenon DEF QuotesInv, QuoteOrAnswerDue
<1>2. QuotesInv /\ [FormNext]_formVars => QuotesInv'
  BY QuotesNext
<1>3. QuotesInv => QuoteOrAnswerDue
  BY DEF QuotesInv
<1> QED
  BY <1>1, <1>2, <1>3, PTL DEF FormSpec

\* The district an order goes to lies in the division its delivery was quoted
\* for (loadBuyerDetails and the two lists of the form), whatever pair the
\* device remembers.
THEOREM DeliveredThere == FormSpec => []DeliveredWhereQuoted
<1>1. FormInit => DetailsInv /\ SentInv
  <2> SUFFICES ASSUME FormInit PROVE DetailsInv /\ SentInv
    OBVIOUS
  <2>1. NoDetails \in Details
    BY DEF NoDetails, Details
  <2>2. remembered \in Details /\ details = LoadBuyerDetails(remembered)
    BY <2>1 DEF FormInit
  <2>3. ~sent.is
    BY DEF FormInit, NoneSent
  <2> QED
    BY <2>2, <2>3, LoadedDetails DEF DetailsInv, SentInv
<1>2. DetailsInv /\ SentInv /\ [FormNext]_formVars => DetailsInv' /\ SentInv'
  BY DetailsNext
<1>3. SentInv => DeliveredWhereQuoted
  BY DEF SentInv, DeliveredWhereQuoted
<1> QED
  BY <1>1, <1>2, <1>3, PTL DEF FormSpec
===============================================================================
