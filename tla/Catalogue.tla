----------------------------- MODULE Catalogue -----------------------------
(***************************************************************************)
(* The products and categories of a shop, edited in several tabs of the    *)
(* dashboard: a form for a product is filled from the copy its tab has     *)
(* loaded, and saving sends every field of the form, which the server      *)
(* reads into the row it has found and writes back as a whole.             *)
(*                                                                         *)
(* Of a product's fields the category and whether it is active are kept;   *)
(* a form can be given any of the categories its tab has loaded.  Stock    *)
(* and price are modelled in Checkout.                                     *)
(***************************************************************************)
EXTENDS Naturals, FiniteSets

CONSTANTS
  Listings,    \* ids of products
  Categories,  \* ids of categories
  Editors,     \* tabs
  MaxChanges   \* bound on the requests

ASSUME CatalogueAssumption == MaxChanges \in Nat

NoListing == [there |-> FALSE]
NoCategory == "no category"

VARIABLES
  listings,    \* the products
  idsUsed,     \* the ids that were given to products and categories
  cats,        \* the categories
  copyOf,      \* the product that each tab has loaded into its form
  catsOn,      \* the categories it has loaded
  changes,     \* the requests
  changed      \* how many there were

catalogueVars == <<listings, idsUsed, cats, copyOf, catsOn, changes, changed>>

NoCopy == [id |-> "none"]

CatalogueInit ==
  /\ listings = [g \in Listings |-> NoListing] /\ idsUsed = {} /\ cats = {}
  /\ copyOf = [t \in Editors |-> NoCopy] /\ catsOn = [t \in Editors |-> {}]
  /\ changes = {} /\ changed = 0

There(g) == listings[g] # NoListing
-----------------------------------------------------------------------------
(* The dashboard.                                                          *)

\* The form of a product is filled with what is loaded, when it is opened,
\* when the network comes back, and after "Archive".
LoadProduct(t, g) ==
  /\ There(g)
  /\ copyOf' = [copyOf EXCEPT ![t] = [id |-> g, of |-> listings[g]]]
  /\ UNCHANGED <<listings, idsUsed, cats, catsOn, changes, changed>>

LoadCategories(t) ==
  /\ catsOn' = [catsOn EXCEPT ![t] = cats]
  /\ UNCHANGED <<listings, idsUsed, cats, copyOf, changes, changed>>

AskEdit(e) ==
  /\ changed < MaxChanges /\ changed' = changed + 1
  /\ changes' = changes \cup {e}
  /\ UNCHANGED <<listings, idsUsed, cats, copyOf, catsOn>>

\* "Save" is off until the answer.
Busy(t) == \E e \in changes : e.op \in {"create", "update"} /\ e.tab = t

AskCreate(t) ==
  /\ copyOf[t] = NoCopy /\ ~Busy(t)
  /\ \E c \in catsOn[t] \cup {NoCategory}, a \in BOOLEAN :
       AskEdit([op |-> "create", tab |-> t, category |-> c, active |-> a, step |-> "sent"])

\* The form keeps the category of the product, whether it is listed or not.
AskUpdate(t) ==
  /\ copyOf[t] # NoCopy /\ ~Busy(t)
  /\ \E c \in catsOn[t] \cup {NoCategory, copyOf[t].of.category}, a \in BOOLEAN :
       AskEdit([op |-> "update", tab |-> t, on |-> copyOf[t].id,
                category |-> c, active |-> a, step |-> "sent"])

\* The button is there while the copy is not archived.
AskArchive(t) ==
  /\ copyOf[t] # NoCopy /\ ~copyOf[t].of.archived
  /\ AskEdit([op |-> "archive", tab |-> t, on |-> copyOf[t].id])

AskDeleteProduct(t) ==
  /\ copyOf[t] # NoCopy
  /\ AskEdit([op |-> "delete", tab |-> t, on |-> copyOf[t].id])

AskCategory(t) == AskEdit([op |-> "category", tab |-> t])

AskDeleteCategory(t) ==
  \E c \in catsOn[t] : AskEdit([op |-> "uncategory", tab |-> t, on |-> c])
-----------------------------------------------------------------------------
(* The server.                                                             *)

Served(e) == changes' = changes \ {e}
Goes(e, to) == changes' = (changes \ {e}) \cup {to}

\* The form of a product that was saved is left.
Left(t) == copyOf' = [copyOf EXCEPT ![t] = NoCopy]

\* verifyCategoryInShop, which CreateProduct calls first.
CheckCategory(e) ==
  /\ e.op = "create" /\ e.step = "sent"
  /\ e.category \in cats \cup {NoCategory}
  /\ Goes(e, [e EXCEPT !.step = "checked"])
  /\ UNCHANGED <<listings, idsUsed, cats, copyOf, catsOn, changed>>

\* The product must have a category that is there, if any.
CreateProduct(e) ==
  /\ e.op = "create" /\ e.step = "checked"
  /\ e.category \in cats \cup {NoCategory}
  /\ \E g \in Listings \ idsUsed :
       /\ listings' = [listings EXCEPT ![g] =
            [there |-> TRUE, category |-> e.category, active |-> e.active, archived |-> FALSE]]
       /\ idsUsed' = idsUsed \cup {g}
       /\ \/ copyOf' = [copyOf EXCEPT ![e.tab] = [id |-> g, of |-> listings'[g]]]
          \/ UNCHANGED copyOf
  /\ Served(e)
  /\ UNCHANGED <<cats, catsOn, changed>>

\* FindByID: UpdateProduct starts with the row as it is and sets the fields of
\* the form, once it has checked the category, if it is given.
ReadProduct(e) ==
  /\ e.op = "update" /\ e.step = "sent" /\ There(e.on)
  /\ Goes(e, [op |-> "update", tab |-> e.tab, on |-> e.on, step |-> "read",
              row |-> [listings[e.on] EXCEPT !.category = e.category, !.active = e.active]])
  /\ UNCHANGED <<listings, idsUsed, cats, copyOf, catsOn, changed>>

VerifyCategory(e) ==
  /\ e.op = "update" /\ e.step = "read"
  /\ e.row.category \in cats \cup {NoCategory}
  /\ Goes(e, [e EXCEPT !.step = "checked"])
  /\ UNCHANGED <<listings, idsUsed, cats, copyOf, catsOn, changed>>

\* Bug for ArchivedStaysArchived: the row that was read is written back.
UpdateWholeRow(e) ==
  /\ e.op = "update" /\ e.step = "checked" /\ There(e.on)
  /\ e.row.category \in cats \cup {NoCategory}
  /\ listings' = [listings EXCEPT ![e.on] = e.row]
  /\ Served(e)
  /\ Left(e.tab) \/ UNCHANGED copyOf
  /\ UNCHANGED <<idsUsed, cats, catsOn, changed>>

\* The row is written, but for is_archived; its category is a foreign key.
UpdateProduct(e) ==
  /\ e.op = "update" /\ e.step = "checked" /\ There(e.on)
  /\ e.row.category \in cats \cup {NoCategory}
  /\ listings' = [listings EXCEPT ![e.on].category = e.row.category, ![e.on].active = e.row.active]
  /\ Served(e)
  /\ Left(e.tab) \/ UNCHANGED copyOf
  /\ UNCHANGED <<idsUsed, cats, catsOn, changed>>

ArchiveProduct(e) ==
  /\ e.op = "archive" /\ There(e.on)
  /\ listings' = [listings EXCEPT ![e.on].archived = TRUE]
  /\ Served(e)
  /\ UNCHANGED <<idsUsed, cats, copyOf, catsOn, changed>>

DeleteProduct(e) ==
  /\ e.op = "delete" /\ There(e.on)
  /\ listings' = [listings EXCEPT ![e.on] = NoListing]
  /\ Served(e)
  /\ Left(e.tab) \/ UNCHANGED copyOf
  /\ UNCHANGED <<idsUsed, cats, catsOn, changed>>

CreateCategory(e) ==
  /\ e.op = "category"
  /\ \E c \in Categories \ idsUsed : cats' = cats \cup {c} /\ idsUsed' = idsUsed \cup {c}
  /\ Served(e)
  /\ UNCHANGED <<listings, copyOf, catsOn, changed>>

\* ON DELETE SET NULL: the products of the category have none then.
DeleteCategory(e) ==
  /\ e.op = "uncategory" /\ e.on \in cats
  /\ cats' = cats \ {e.on}
  /\ listings' = [g \in Listings |->
                    IF There(g) /\ listings[g].category = e.on
                      THEN [listings[g] EXCEPT !.category = NoCategory]
                      ELSE listings[g]]
  /\ Served(e)
  /\ UNCHANGED <<idsUsed, copyOf, catsOn, changed>>

\* A check fails, the row is not there, a product that was sold is not deleted,
\* or the database fails: the form stays.
EditFails(e) ==
  /\ Served(e)
  /\ UNCHANGED <<listings, idsUsed, cats, copyOf, catsOn, changed>>

\* The seller leaves the form.
Leave(t) ==
  /\ ~Busy(t) /\ Left(t)
  /\ UNCHANGED <<listings, idsUsed, cats, catsOn, changes, changed>>
-----------------------------------------------------------------------------
CatalogueNext ==
  \/ \E t \in Editors :
       \/ \E g \in Listings : LoadProduct(t, g)
       \/ LoadCategories(t) \/ AskCreate(t) \/ AskUpdate(t) \/ AskArchive(t)
       \/ AskDeleteProduct(t) \/ AskCategory(t) \/ AskDeleteCategory(t) \/ Leave(t)
  \/ \E e \in changes :
       \/ CheckCategory(e) \/ CreateProduct(e) \/ ReadProduct(e) \/ VerifyCategory(e)
       \/ UpdateProduct(e) \/ ArchiveProduct(e) \/ DeleteProduct(e)
       \/ CreateCategory(e) \/ DeleteCategory(e) \/ EditFails(e)

CatalogueSpec == CatalogueInit /\ [][CatalogueNext]_catalogueVars
-----------------------------------------------------------------------------
(***************************************************************************)
(* There is no way back from the archive: a save that read the product     *)
(* before it was archived, in another tab or by a slower request, does not *)
(* bring it back to the shop.                                              *)
(***************************************************************************)
ArchivedStaysArchived ==
  [][\A g \in Listings : There(g) /\ listings[g].archived =>
       listings'[g] = NoListing \/ listings'[g].archived]_catalogueVars
=============================================================================
