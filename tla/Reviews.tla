------------------------------ MODULE Reviews ------------------------------
(***************************************************************************)
(* Reviews: buyers leave them for the lines of a delivered order, from the *)
(* order-lookup page in several tabs, and the seller replies on the        *)
(* reviews page, which filters and sorts the copy it has loaded while      *)
(* replies are typed and sent.                                             *)
(*                                                                         *)
(* A text of a reply is named by the review it is meant for.               *)
(***************************************************************************)
EXTENDS Naturals, Sequences, FiniteSets

CONSTANTS
  OrderLines,  \* the products of an order
  Forms,       \* forms for a review, in the tabs with the order-lookup page
  LineOf,      \* the line each is for
  Stars,       \* ratings
  MaxMoves     \* bound on what the seller does to the list and its rows

NoText == "no text"
AllStars == 0
NoForm == [step |-> "form"]

ASSUME ReviewAssumption ==
  /\ Stars \subseteq Nat \ {AllStars} /\ MaxMoves \in Nat
  /\ NoText \notin OrderLines
  /\ LineOf \in [Forms -> OrderLines]

VARIABLES
  reviews,    \* the reviews that were made, oldest first
  replies,    \* the seller's reply to the review of each line
  leave,      \* how far each form is
  view,       \* the seller's page: its copy of the reviews, and its filters
  drafts,     \* the editor of each row of the page
  posts,      \* replies on their way
  moves       \* moves so far

buyerVars == <<reviews, leave>>
sellerVars == <<view, drafts, posts, moves>>
reviewVars == <<buyerVars, replies, sellerVars>>

ReviewInit ==
  /\ reviews = << >>
  /\ replies = [l \in OrderLines |-> NoText]
  /\ leave = [f \in Forms |-> NoForm]
  /\ view = [list |-> << >>, status |-> "all", stars |-> AllStars, sort |-> "newest"]
  /\ drafts = << >> /\ posts = {} /\ moves = 0
-----------------------------------------------------------------------------
(* The buyers.                                                             *)

Reviewed(l) == \E i \in DOMAIN reviews : reviews[i].line = l

SetForm(f, to) == leave' = [leave EXCEPT ![f] = to]

\* The order is looked up again: an empty form, which does not know whether the
\* line was reviewed.
LookUpAgain(f) ==
  /\ SetForm(f, NoForm)
  /\ UNCHANGED <<reviews, replies, sellerVars>>

\* "Submit review" needs a rating; it is off until the answer.
SubmitReview(f) ==
  /\ leave[f] = NoForm
  /\ \E n \in Stars : SetForm(f, [step |-> "sent", stars |-> n])
  /\ UNCHANGED <<reviews, replies, sellerVars>>

\* CreateReview looks at the order, whose delivery may have been undone, and at
\* the review of the line first.
CheckReview(f) ==
  /\ leave[f].step = "sent"
  /\ \/ ~Reviewed(LineOf[f]) /\ SetForm(f, [step |-> "passed", stars |-> leave[f].stars])
     \/ SetForm(f, NoForm)
  /\ UNCHANGED <<reviews, replies, sellerVars>>

\* Bug for ThanksAreMeant: that there is a review already is no error.
InsertReviewForgiving(f) ==
  /\ leave[f].step = "passed"
  /\ reviews' = IF Reviewed(LineOf[f]) THEN reviews
                ELSE Append(reviews, [line |-> LineOf[f], stars |-> leave[f].stars])
  /\ \/ SetForm(f, [step |-> "thanks", stars |-> leave[f].stars])
     \/ SetForm(f, NoForm)
  /\ UNCHANGED <<replies, sellerVars>>

\* The order line is UNIQUE in product_reviews.  The answer may be lost.
InsertReview(f) ==
  /\ leave[f].step = "passed"
  /\ \/ /\ ~Reviewed(LineOf[f])
        /\ reviews' = Append(reviews, [line |-> LineOf[f], stars |-> leave[f].stars])
        /\ \/ SetForm(f, [step |-> "thanks", stars |-> leave[f].stars])
           \/ SetForm(f, NoForm)
     \/ /\ Reviewed(LineOf[f])
        /\ SetForm(f, NoForm)
        /\ UNCHANGED reviews
  /\ UNCHANGED <<replies, sellerVars>>
-----------------------------------------------------------------------------
(* The seller's page.                                                      *)

Matches(v, r) ==
  /\ v.status = "needs_reply" => r.reply = NoText
  /\ v.status = "replied" => r.reply # NoText
  /\ v.stars \in {AllStars, r.stars}

\* The order of two reviews of the list, which is the newest first as loaded.
Before(v, i, j) ==
  CASE v.sort = "newest"  -> i < j
    [] v.sort = "oldest"  -> j < i
    [] v.sort = "lowest"  -> \/ v.list[i].stars < v.list[j].stars
                             \/ v.list[i].stars = v.list[j].stars /\ i < j
    [] v.sort = "highest" -> \/ v.list[i].stars > v.list[j].stars
                             \/ v.list[i].stars = v.list[j].stars /\ i < j

\* The reviews that are shown, by their places in the list, and the row that
\* each has got by the sorting.
filtered(v) == {i \in DOMAIN v.list : Matches(v, v.list[i])}
RowOf(v, i) == Cardinality({j \in filtered(v) : Before(v, j, i)}) + 1

\* Bug for RepliesWhereTyped: the rows are keyed by their position.
RowKeyByPosition(r, k) == k

\* The rows are keyed by the review.
RowKey(r, k) == r.line

KeyOf(v, i) == RowKey(v.list[i], RowOf(v, i))

\* The rows with the page drawn as v: a row that was there keeps its editor, a
\* new one starts with the reply.
Redraw(v) ==
  LET at(q) == CHOOSE i \in filtered(v) : KeyOf(v, i) = q
  IN /\ view' = v
     /\ drafts' = [q \in {KeyOf(v, i) : i \in filtered(v)} |->
                    IF q \in DOMAIN drafts THEN drafts[q]
                    ELSE [text |-> v.list[at(q)].reply, editing |-> FALSE]]

Move == moves < MaxMoves /\ moves' = moves + 1

\* The list is loaded: at first, when the network comes back, and
\* after a reply.
LoadReviews ==
  /\ Redraw([view EXCEPT !.list =
       [i \in DOMAIN reviews |->
          LET r == reviews[Len(reviews) + 1 - i]
          IN [line |-> r.line, stars |-> r.stars, reply |-> replies[r.line]]]])
  /\ UNCHANGED <<buyerVars, replies, posts, moves>>

\* The filters and the sort order of the filter bar.
Filter(status, stars, sort) ==
  /\ Move
  /\ Redraw([view EXCEPT !.status = status, !.stars = stars, !.sort = sort])
  /\ UNCHANGED <<buyerVars, replies, posts>>

PickStatus == \E s \in {"all", "needs_reply", "replied"} : Filter(s, view.stars, view.sort)
\* A click on the chosen one takes it back.
PickStars == \E n \in Stars : Filter(view.status, IF view.stars = n THEN AllStars ELSE n, view.sort)
PickSort == \E o \in {"newest", "oldest", "lowest", "highest"} : Filter(view.status, view.stars, o)

LowRated(r) == r.stars <= 2

\* The callouts and the bars of the summary, which are off when they count none.
JumpToNeedsReply ==
  /\ \E i \in DOMAIN view.list : view.list[i].reply = NoText
  /\ Filter("needs_reply", AllStars, view.sort)

JumpToLow ==
  /\ \E i \in DOMAIN view.list : LowRated(view.list[i])
  /\ Filter("all", AllStars, "lowest")

PickRating ==
  \E i \in DOMAIN view.list : Filter("all", view.list[i].stars, view.sort)

\* Offered when nothing matches.
ClearFilters ==
  /\ view.list # << >> /\ filtered(view) = {}
  /\ Filter("all", AllStars, view.sort)

\* The review at a place of the list, with the editor of its row.
Row(i) == view.list[i]
Editor(i) == drafts[KeyOf(view, i)]
SetEditor(i, e) == drafts' = [drafts EXCEPT ![KeyOf(view, i)] = e]
EditorShown(i) == Editor(i).editing \/ Row(i).reply = NoText

\* A reply is typed.
TypeReply(i) ==
  /\ Move /\ EditorShown(i)
  /\ SetEditor(i, [Editor(i) EXCEPT !.text = Row(i).line])
  /\ UNCHANGED <<buyerVars, replies, view, posts>>

\* A suggestion, made for the rating and the buyer of the row, fills the editor.
TakeSuggestion(i) ==
  /\ Move /\ EditorShown(i)
  /\ SetEditor(i, [Editor(i) EXCEPT !.text = Row(i).line])
  /\ UNCHANGED <<buyerVars, replies, view, posts>>

\* "Edit" starts with the reply that is shown; so does "Cancel" end.
EditReply(i) ==
  /\ Move /\ Row(i).reply # NoText /\ ~Editor(i).editing
  /\ SetEditor(i, [text |-> Row(i).reply, editing |-> TRUE])
  /\ UNCHANGED <<buyerVars, replies, view, posts>>

CancelEdit(i) ==
  /\ Editor(i).editing
  /\ SetEditor(i, [text |-> Row(i).reply, editing |-> FALSE])
  /\ UNCHANGED <<buyerVars, replies, view, posts, moves>>

\* "Send reply", for the review the row shows; not an empty one.
SendReply(i) ==
  /\ EditorShown(i) /\ Editor(i).text # NoText
  /\ LET key == KeyOf(view, i)
     IN /\ \A p \in posts : p.key # key
        /\ posts' = posts \cup {[key |-> key, to |-> Row(i).line, text |-> Editor(i).text]}
  /\ UNCHANGED <<buyerVars, replies, view, drafts, moves>>

\* The answer closes the editor if its row is still there; the list is loaded
\* after it.  The request or the answer may be lost.
ReplyAnswered ==
  \E p \in posts :
    /\ posts' = posts \ {p}
    /\ replies' \in {replies, [replies EXCEPT ![p.to] = p.text]}
    /\ \/ UNCHANGED drafts
       \/ /\ replies'[p.to] = p.text /\ p.key \in DOMAIN drafts
          /\ drafts' = [drafts EXCEPT ![p.key].editing = FALSE]
    /\ UNCHANGED <<buyerVars, view, moves>>
-----------------------------------------------------------------------------
ReviewNext ==
  \/ \E f \in Forms :
       LookUpAgain(f) \/ SubmitReview(f) \/ CheckReview(f) \/ InsertReview(f)
  \/ LoadReviews
  \/ PickStatus \/ PickStars \/ PickSort
  \/ JumpToNeedsReply \/ JumpToLow \/ PickRating \/ ClearFilters
  \/ \E i \in filtered(view) :
       TypeReply(i) \/ TakeSuggestion(i) \/ EditReply(i) \/ CancelEdit(i) \/ SendReply(i)
  \/ ReplyAnswered

ReviewSpec == ReviewInit /\ [][ReviewNext]_reviewVars
-----------------------------------------------------------------------------
(* Properties.                                                             *)

\* A buyer is thanked for a review only when the one review of that line is
\* his: not when another tab's came first, and not with another rating, although
\* two tabs may pass the check of CreateReview together and a lost answer makes
\* the buyer try again.
ThanksAreMeant ==
  \A f \in Forms :
    leave[f].step = "thanks" =>
      \E i \in DOMAIN reviews :
        /\ reviews[i] = [line |-> LineOf[f], stars |-> leave[f].stars]
        /\ \A j \in DOMAIN reviews : reviews[j].line = LineOf[f] => i = j

\* A reply is published under the review it was typed for, however the list is
\* loaded, filtered and sorted between the typing and the sending (the keys of
\* the rows).
RepliesWhereTyped == \A l \in OrderLines : replies[l] \in {NoText, l}
=============================================================================
