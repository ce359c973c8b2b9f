---------------------------- MODULE CheckoutForm ----------------------------
(***************************************************************************)
(* The form of the checkout page: the buyer's details and what the device  *)
(* remembers of them, the quote the page asks for whenever they change,    *)
(* the proof of an advance payment, and the order that is sent.  The cart  *)
(* and the hold are Storefront's: here they only change.                   *)
(*                                                                         *)
(* A name with a phone number is one value; "" stands for every value of a *)
(* field that validate refuses.                                            *)
(***************************************************************************)
EXTENDS Naturals

CONSTANTS
  Buyers,     \* names and phone numbers that pass validate
  Divisions,  \* divisions of the country, each with one district here
  Coupons,    \* codes a buyer may type
  MaxEdits    \* bound on what the buyer, the cart and the hold change

ASSUME FormAssumption ==
  /\ "" \notin Buyers \cup Divisions \cup Coupons
  /\ MaxEdits \in Nat

\* A district is named by its division.
Details == [contact : {""} \cup Buyers, division : {""} \cup Divisions,
            district : {""} \cup Divisions, address : {"", "ok"}]
NoDetails == [contact |-> "", division |-> "", district |-> "", address |-> ""]
ProofParts == {"method", "declared", "receipt"}
NoQuote == [key |-> << >>, advance |-> FALSE]
NoneSent == [is |-> FALSE]

VARIABLES
  details,     \* the fields of the form
  remembered,  \* localStorage: the details of the last order
  basket,      \* which version of the cart the page shows
  coupon,      \* the code that was applied
  hold,        \* the reservation of the payment phase, 0 in the form phase
  retry,       \* how often the buyer has asked for a quote again
  asks,        \* how often the effect that asks for a quote has run
  asked,       \* the requests for a quote that are on their way
  quoted,      \* the last quote that was accepted
  quoteError,  \* is there an error in the place of the quote
  methods,     \* payment methods of the shop: "loading", "none" or "some"
  proof,       \* the parts of the proof of payment that are there
  uploading,   \* is a receipt on its way
  sent,        \* the order on its way, if any
  edits        \* changes so far

basketVars == <<basket, coupon, hold, retry>>
quoteVars == <<asks, asked, quoted, quoteError>>
proofVars == <<methods, proof, uploading>>
formVars == <<details, remembered, basketVars, quoteVars, proofVars,
              sent, edits>>

Key == <<details.division, details.contact, basket, coupon, hold, retry>>

Edit == edits < MaxEdits /\ edits' = edits + 1
-----------------------------------------------------------------------------
(* Mounting the page.                                                      *)

\* Bug for DeliveredWhereQuoted: what the device remembers is taken as it is.
LoadBuyerDetailsAsStored(stored) == stored

\* A stored district that is not one of the stored division is dropped.
LoadBuyerDetails(stored) ==
  IF stored.district = stored.division THEN stored
                                       ELSE [stored EXCEPT !.district = ""]

\* The device may remember a buyer from an older version of the site, with a
\* district that is not one of the division any more.
FormInit ==
  /\ remembered \in {NoDetails} \cup
       {d \in Details : "" \notin {d.contact, d.division, d.district, d.address}}
  /\ details = LoadBuyerDetails(remembered)
  /\ basket = 1 /\ coupon = "" /\ hold = 0 /\ retry = 0
  /\ asks = 1 /\ asked = {[run |-> 1, key |-> Key]}
  /\ quoted = NoQuote /\ quoteError = FALSE
  /\ methods = "loading" /\ proof = {} /\ uploading = FALSE
  /\ sent = NoneSent
  /\ edits = 0

\* Another visit of the page, on the same device.
Remount ==
  /\ details' = LoadBuyerDetails(remembered')
  /\ basket' = 1 /\ coupon' = "" /\ hold' = 0 /\ retry' = 0
  /\ asks' = 1 /\ asked' = {[run |-> 1, key |-> Key']}
  /\ quoted' = NoQuote /\ quoteError' = FALSE
  /\ methods' = "loading" /\ proof' = {} /\ uploading' = FALSE
  /\ sent' = NoneSent
-----------------------------------------------------------------------------
(* The quote.                                                              *)

\* The effect runs when the key has changed: the answer to its last run will
\* be dropped, the error is cleared, and the quote is asked for.  Of the requests
\* whose answers will be dropped only the last is kept.
QuoteEffect ==
  IF Key' = Key THEN UNCHANGED quoteVars
  ELSE /\ asks' = asks + 1
       /\ asked' = {a \in asked : a.run = asks} \cup {[run |-> asks', key |-> Key']}
       /\ quoteError' = FALSE
       /\ UNCHANGED quoted

\* There is a quote for what the page shows now.
QuoteShown == quoted.key = Key

\* Bug for QuoteOrAnswerDue: an answer counts whichever run of the effect asked.
QuoteAnsweredLate ==
  \E a \in asked :
    /\ asked' = asked \ {a}
    /\ \/ /\ \E advance \in BOOLEAN : quoted' = [key |-> a.key, advance |-> advance]
          /\ UNCHANGED quoteError
       \/ /\ quoteError' = TRUE
          /\ UNCHANGED quoted
    /\ UNCHANGED <<details, remembered, basketVars, asks, proofVars,
                   sent, edits>>

\* Only the answer to the last run counts: a quote, which may ask for the
\* delivery charge in advance, or an error.
QuoteAnswered ==
  \E a \in asked :
    /\ asked' = asked \ {a}
    /\ \/ /\ a.run # asks
          /\ UNCHANGED <<quoted, quoteError>>
       \/ /\ a.run = asks
          /\ \E advance \in BOOLEAN : quoted' = [key |-> a.key, advance |-> advance]
          /\ UNCHANGED quoteError
       \/ /\ a.run = asks
          /\ quoteError' = TRUE
          /\ UNCHANGED quoted
    /\ UNCHANGED <<details, remembered, basketVars, asks, proofVars,
                   sent, edits>>

\* Apply a code (even the one that is there), remove it, or ask again.
ApplyCoupon(c) ==
  /\ Edit /\ ~sent.is
  /\ coupon' = c /\ retry' = retry + 1
  /\ UNCHANGED <<details, basket, hold>>
  /\ QuoteEffect
  /\ UNCHANGED <<remembered, proofVars, sent>>

RemoveCoupon ==
  /\ Edit /\ ~sent.is /\ coupon # ""
  /\ coupon' = ""
  /\ UNCHANGED <<details, basket, hold, retry>>
  /\ QuoteEffect
  /\ UNCHANGED <<remembered, proofVars, sent>>

RetryQuote ==
  /\ Edit /\ quoteError
  /\ retry' = retry + 1
  /\ UNCHANGED <<details, basket, coupon, hold>>
  /\ QuoteEffect
  /\ UNCHANGED <<remembered, proofVars, sent>>
-----------------------------------------------------------------------------
(* The buyer's details.                                                    *)

\* validate, whose messages are left out.
Valid == \A f \in {"contact", "division", "district", "address"} : details[f] # ""

\* A field gets another value.
Enter(d) ==
  /\ Edit /\ d # details
  /\ details' = d
  /\ UNCHANGED basketVars
  /\ QuoteEffect
  /\ UNCHANGED <<remembered, proofVars, sent>>

EnterContact(v) == Enter([details EXCEPT !.contact = v])
EnterAddress(v) == Enter([details EXCEPT !.address = v])

\* Another division empties the district.
PickDivision(v) ==
  Enter([details EXCEPT !.division = v, !.district = ""])

\* The list is disabled without a division and has the districts of that one.
PickDistrict(v) ==
  /\ details.division # ""
  /\ v \in {"", details.division}
  /\ Enter([details EXCEPT !.district = v])

\* "Not you? Clear".
ForgetMe ==
  /\ Edit
  /\ remembered' = NoDetails
  /\ details' = NoDetails
  /\ UNCHANGED basketVars
  /\ QuoteEffect
  /\ UNCHANGED <<proofVars, sent>>
-----------------------------------------------------------------------------
(* The payment phase.                                                      *)

AdvanceRequired == QuoteShown /\ quoted.advance

\* "Pay delivery fee": a complete form, at least one payment method, and then a
\* hold from ensureReservation, which may refuse it.
OpenPayment ==
  /\ AdvanceRequired /\ hold = 0
  /\ Edit /\ Valid /\ methods = "some"
  /\ hold' = edits'
  /\ proof' = proof \cup {"method"}
  /\ UNCHANGED <<details, basket, coupon, retry>>
  /\ QuoteEffect
  /\ UNCHANGED <<remembered, methods, uploading, sent>>

\* The hold and the proof are given up; the method stays chosen.
ResetPayment ==
  /\ hold' = 0
  /\ proof' = proof \cap {"method"}
  /\ UNCHANGED <<details, basket, coupon, retry>>
  /\ QuoteEffect

\* "Edit cart" and "Restart".
LeavePayment ==
  /\ Edit /\ hold # 0
  /\ ResetPayment
  /\ UNCHANGED <<remembered, methods, uploading, sent>>

\* The cart changes in the drawer, and a pick-up for the new cart finds no hold.
\* Neither touches the proof.
CartChanged ==
  /\ Edit
  /\ basket' = 3 - basket
  /\ UNCHANGED <<details, coupon, hold, retry>>
  /\ QuoteEffect
  /\ UNCHANGED <<remembered, proofVars, sent>>

HoldGone ==
  /\ Edit /\ hold # 0
  /\ hold' = 0
  /\ UNCHANGED <<details, basket, coupon, retry>>
  /\ QuoteEffect
  /\ UNCHANGED <<remembered, proofVars, sent>>

\* The methods of the shop are there; the only one is chosen at once.  A call
\* that fails leaves none.
MethodsLoaded ==
  /\ methods = "loading"
  /\ \/ methods' \in {"none", "some"} /\ UNCHANGED proof
     \/ methods' = "some" /\ proof' = proof \cup {"method"}
  /\ UNCHANGED <<details, remembered, basketVars, quoteVars, uploading,
                 sent, edits>>

ProofShown == AdvanceRequired /\ hold # 0

ChangeProof(p) ==
  /\ proof' = p
  /\ UNCHANGED <<details, remembered, basketVars, quoteVars, methods,
                 sent, edits>>

\* The transaction id, and the tick that the money was sent.
Declare ==
  /\ ProofShown
  /\ ChangeProof(proof \cup {"declared"}) \/ ChangeProof(proof \ {"declared"})
  /\ UNCHANGED uploading

RemoveReceipt ==
  /\ ProofShown /\ "receipt" \in proof
  /\ ChangeProof(proof \ {"receipt"})
  /\ UNCHANGED uploading

PickReceipt ==
  /\ ProofShown /\ "receipt" \notin proof /\ ~uploading
  /\ uploading' = TRUE
  /\ ChangeProof(proof)

\* The answer is used whatever the page shows by now.
ReceiptUploaded ==
  /\ uploading
  /\ uploading' = FALSE
  /\ ChangeProof(proof \cup {"receipt"}) \/ ChangeProof(proof)
-----------------------------------------------------------------------------
(* The order.                                                              *)

CanPlace == QuoteShown /\ (quoted.advance => hold # 0 /\ proof = ProofParts)

SendOrder ==
  /\ CanPlace /\ ~sent.is /\ Valid
  /\ sent' = [is |-> TRUE, details |-> details, key |-> Key, quote |-> quoted,
              hold |-> hold, proof |-> proof]
  /\ UNCHANGED <<details, remembered, basketVars, quoteVars, proofVars, edits>>

\* Accepted: the details are remembered and the page is left; the buyer may be
\* back for another order.
OrderPlaced ==
  /\ sent.is /\ Edit
  /\ remembered' = sent.details
  /\ Remount

\* The hold is gone: start again.
OrderRefused ==
  /\ sent.is /\ Edit
  /\ sent' = NoneSent
  /\ ResetPayment
  /\ UNCHANGED <<remembered, methods, uploading>>

\* An error is shown, which may hide that the order was accepted.
OrderFailed ==
  /\ sent.is
  /\ sent' = NoneSent
  /\ UNCHANGED <<details, remembered, basketVars, quoteVars, proofVars, edits>>
-----------------------------------------------------------------------------
FormNext ==
  \/ \E v \in {""} \cup Buyers : EnterContact(v)
  \/ \E v \in {""} \cup Divisions : PickDivision(v) \/ PickDistrict(v)
  \/ \E v \in {"", "ok"} : EnterAddress(v)
  \/ ForgetMe
  \/ \E c \in Coupons : ApplyCoupon(c)
  \/ RemoveCoupon \/ RetryQuote \/ QuoteAnswered
  \/ OpenPayment \/ LeavePayment \/ CartChanged \/ HoldGone
  \/ MethodsLoaded \/ Declare
  \/ PickReceipt \/ RemoveReceipt \/ ReceiptUploaded
  \/ SendOrder \/ OrderPlaced \/ OrderRefused \/ OrderFailed

FormSpec == FormInit /\ [][FormNext]_formVars
-----------------------------------------------------------------------------
(* Properties.                                                             *)

\* A page that shows neither a quote for what is on it nor an error waits for an
\* answer that will count: however the fields, the cart, the coupon and the hold
\* changed while answers were on their way, and in whatever order these come,
\* none of them takes the place of a newer one.
QuoteOrAnswerDue ==
  \/ QuoteShown \/ quoteError
  \/ \E a \in asked : a.run = asks /\ a.key = Key

\* The district an order goes to lies in the division its delivery was quoted
\* for, also for a buyer whose device remembers the two from an older list, and
\* after any changes of either field.
DeliveredWhereQuoted ==
  sent.is => sent.details.district = sent.quote.key[1]
=============================================================================
