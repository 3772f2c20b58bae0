------------------------- MODULE BuyerLifecycleProofs -------------------------
(****************************************************************************)
(* The invariants of BuyerLifecycle for any sets of cards, mailboxes,       *)
(* suppliers, salespeople and instants.                                     *)
(*                                                                          *)
(* A handler reads and writes one buyer at a time (Generate and Send each   *)
(* of theirs), so the argument is about one card: Moves lists what a        *)
(* handler may make of a row and its mailbox, NextMoves says that no action *)
(* does anything else, MoveOK that a move preserves RowOK, the inductive    *)
(* invariant of one card, and MoveKept that it keeps what the action        *)
(* properties promise.  IsolationProofs uses the same moves for requests.   *)
(****************************************************************************)
EXTENDS BuyerLifecycle, TLAPS

(* The five invariants, of one row r whose mailbox is a.  They need one    *)
(* another: a review may reject a card only because no auto-approved card  *)
(* is pending with a mailbox, and no pending card is without one.          *)
RowOK(r, a) ==
    /\ (a # None) <=> (r.EmailStatus # "NotAuthorized")
    /\ a # None => r.Stage = "Submitted"
    /\ r.Stage # "Submitted" => /\ r.ReviewStatus = "Pending"
                                /\ r.SupplierStatus = "Unprocessed"
    /\ r.Stage = "Submitted" /\ a = None => r.ReviewStatus = "Approved"
    /\ r.AutoApprove /\ a # None => r.ReviewStatus = "Approved"
    /\ r.Stage = "NotSent" => r.CardSentAt = None /\ r.SaleId = None
    /\ r.Stage \in {"NotSent", "Sent"} => r.CardUsedAt = None
    /\ r.Stage = "Sent" \/ r.SaleId # None => r.CardSentAt # None
    /\ r.Stage = "Submitted" => r.CardUsedAt # None

CardOK(b) ==
    /\ RowOK(row[b], account[b])
    /\ b \notin cards => account[b] = None

CardsOK == TypeOK /\ \A b \in Buyers : CardOK(b)

----------------------------------------------------------------------------
(* What the handlers make of card b: its row becomes y. *)

Enters(b, y) ==
    /\ b \notin cards
    /\ \E saleId \in Sales \cup {None}, autoApprove \in BOOLEAN, now \in Times :
          y = NewCard(saleId, autoApprove, now)

IsSent(b, y) ==
    /\ IsSendTarget(row[b])
    /\ \E saleId \in Sales \cup {None}, action \in AutoApproveAction, now \in Times :
          y = AfterSend(row[b], saleId, action, now)

Edits(b, y) ==
    \/ Present(b) /\ row[b].Stage = "Sent" /\ y = AfterVerify(row[b])
    \/ Present(b) /\ y = AfterDelete(row[b])
    \/ \E saleId \in Sales : CanSalesDeleteBuyer(row[b], saleId) /\ y = AfterDelete(row[b])
    \/ \E status \in SupplierProcessingStatus :
          /\ \/ CanAdminSetStatus(row[b])
             \/ \E s \in Suppliers : CanSupplierSetStatus(row[b], assignment[b], s)
          /\ y = AfterSetStatus(row[b], status)
    \/ IsReviewable(row[b]) /\ y = AfterReview(row[b], "Rejected")
    \/ /\ account[b] # None /\ row[b].EmailStatus = "Authorized"
       /\ y = AfterMarkAbnormal(row[b])

Approves(b, y) == IsReviewable(row[b]) /\ y = AfterReview(row[b], "Approved")

Unbinds(b, y) ==
    /\ Present(b)
    /\ \/ ResolveBuyerMailAction(row[b]).ChangeEmail /\ y = AfterChangeEmail(row[b])
       \/ ResolveBuyerMailAction(row[b]).ClearAuth /\ y = AfterClearAuth(row[b])

Binds(b, y, m, now) ==
    /\ Present(b)
    /\ account[b] # None /\ account[b] # m => ResolveBuyerMailAction(row[b]).ChangeEmail
    /\ y = AfterCallback(row[b], account[b] # m, now)

(* All of them, with the mailbox a that the card has then.                 *)
Moves(b, y, a) ==
    \/ /\ y = row[b] \/ Enters(b, y) \/ IsSent(b, y) \/ Edits(b, y) \/ Approves(b, y)
       /\ a = account[b]
    \/ Unbinds(b, y) /\ a = None
    \/ \E m \in Mailboxes, now \in Times : Binds(b, y, m, now) /\ a = m

----------------------------------------------------------------------------
(* Each transform of BuyerRules, under the guard of its handler. *)

LEMMA NewCardOK ==
    ASSUME NEW saleId \in Sales \cup {None}, NEW auto \in BOOLEAN,
           NEW now \in Times \cup {None}, saleId # None => now \in Times
    PROVE  /\ NewCard(saleId, auto, now) \in Buyer
           /\ RowOK(NewCard(saleId, auto, now), None)
BY NullIsNoValue DEF NewCard, Buyer, RowOK, BuyerStage, EmailAuthorizationStatus,
                     ReviewStatus, SupplierProcessingStatus

LEMMA AfterSendOK ==
    ASSUME NEW r \in Buyer, NEW a \in Mailboxes \cup {None}, RowOK(r, a),
           NEW saleId \in Sales \cup {None}, NEW action \in AutoApproveAction,
           NEW now \in Times, IsSendTarget(r)
    PROVE  /\ AfterSend(r, saleId, action, now) \in Buyer
           /\ RowOK(AfterSend(r, saleId, action, now), a)
BY NullIsNoValue DEF AfterSend, IsSendTarget, Buyer, RowOK, BuyerStage

LEMMA AfterVerifyOK ==
    ASSUME NEW r \in Buyer, NEW a \in Mailboxes \cup {None}, RowOK(r, a), r.Stage = "Sent"
    PROVE  AfterVerify(r) \in Buyer /\ RowOK(AfterVerify(r), a)
BY DEF AfterVerify, Buyer, RowOK, BuyerStage

LEMMA AfterChangeEmailOK ==
    ASSUME NEW r \in Buyer, NEW a \in Mailboxes \cup {None}, RowOK(r, a),
           ResolveBuyerMailAction(r).ChangeEmail
    PROVE  AfterChangeEmail(r) \in Buyer /\ RowOK(AfterChangeEmail(r), None)
BY DEF AfterChangeEmail, ResolveBuyerMailAction, Buyer, RowOK, BuyerStage,
       EmailAuthorizationStatus, ReviewStatus, SupplierProcessingStatus

LEMMA AfterClearAuthOK ==
    ASSUME NEW r \in Buyer, NEW a \in Mailboxes \cup {None}, RowOK(r, a),
           ResolveBuyerMailAction(r).ClearAuth
    PROVE  AfterClearAuth(r) \in Buyer /\ RowOK(AfterClearAuth(r), None)
BY DEF AfterClearAuth, AfterChangeEmail, ResolveBuyerMailAction, Buyer, RowOK, BuyerStage,
       EmailAuthorizationStatus, ReviewStatus, SupplierProcessingStatus

LEMMA AfterCallbackOK ==
    ASSUME NEW r \in Buyer, NEW a \in Mailboxes \cup {None}, RowOK(r, a),
           NEW m \in Mailboxes, NEW now \in Times
    PROVE  /\ AfterCallback(r, a # m, now) \in Buyer
           /\ RowOK(AfterCallback(r, a # m, now), m)
<1>1. PICK new \in BOOLEAN : new = (a # m)
  OBVIOUS
<1>2. PICK y : y = AfterCallback(r, new, now)
  OBVIOUS
<1>3. y \in Buyer
  <2>1. PICK used \in Times \cup {None}, email \in EmailAuthorizationStatus,
             review \in ReviewStatus :
          y = [r EXCEPT !.Stage = "Submitted", !.CardUsedAt = used,
                        !.EmailStatus = email, !.ReviewStatus = review]
    <3>1. /\ (IF r.CardUsedAt = None THEN now ELSE r.CardUsedAt) \in Times \cup {None}
          /\ (IF new \/ r.EmailStatus = "Abnormal" THEN "Authorized" ELSE r.EmailStatus)
                \in EmailAuthorizationStatus
          /\ (IF ~new THEN r.ReviewStatus ELSE IF r.AutoApprove THEN "Approved" ELSE "Pending")
                \in ReviewStatus
      BY DEF Buyer, EmailAuthorizationStatus, ReviewStatus
    <3>2. QED
      BY <1>2, <3>1, Zenon DEF AfterCallback
  <2>2. QED
    BY <2>1 DEF Buyer, BuyerStage
<1>4. /\ y.Stage = "Submitted"
      /\ y.CardUsedAt = IF r.CardUsedAt = None THEN now ELSE r.CardUsedAt
      /\ y.EmailStatus = IF new \/ r.EmailStatus = "Abnormal" THEN "Authorized"
                                                              ELSE r.EmailStatus
      /\ y.ReviewStatus = IF ~new THEN r.ReviewStatus
                          ELSE IF r.AutoApprove THEN "Approved" ELSE "Pending"
      /\ y.AutoApprove = r.AutoApprove /\ y.SaleId = r.SaleId /\ y.CardSentAt = r.CardSentAt
  BY <1>2 DEF AfterCallback, Buyer
<1>5. m # None /\ now # None
  BY NullIsNoValue, NullIsNoId
<1>6. y.EmailStatus # "NotAuthorized"
  BY <1>1, <1>4, <1>5 DEF RowOK
<1>7. y.AutoApprove => y.ReviewStatus = "Approved"
  BY <1>1, <1>4, <1>5 DEF RowOK
<1>8. y.CardUsedAt # None
  BY <1>4, <1>5
<1>9. RowOK(y, m)
  BY <1>4, <1>5, <1>6, <1>7, <1>8 DEF RowOK
<1> QED BY <1>1, <1>2, <1>3, <1>9

LEMMA AfterReviewOK ==
    ASSUME NEW r \in Buyer, NEW a \in Mailboxes \cup {None}, RowOK(r, a),
           IsReviewable(r), NEW decision \in {"Approved", "Rejected"}
    PROVE  AfterReview(r, decision) \in Buyer /\ RowOK(AfterReview(r, decision), a)
BY DEF AfterReview, IsReviewable, Buyer, RowOK, ReviewStatus

LEMMA AfterSetStatusOK ==
    ASSUME NEW r \in Buyer, NEW a \in Mailboxes \cup {None}, RowOK(r, a),
           r.ReviewStatus = "Approved", NEW status \in SupplierProcessingStatus
    PROVE  AfterSetStatus(r, status) \in Buyer /\ RowOK(AfterSetStatus(r, status), a)
BY DEF AfterSetStatus, Buyer, RowOK

LEMMA AfterMarkAbnormalOK ==
    ASSUME NEW r \in Buyer, NEW a \in Mailboxes \cup {None}, RowOK(r, a),
           r.EmailStatus = "Authorized"
    PROVE  AfterMarkAbnormal(r) \in Buyer /\ RowOK(AfterMarkAbnormal(r), a)
BY DEF AfterMarkAbnormal, Buyer, RowOK, EmailAuthorizationStatus

LEMMA AfterDeleteOK ==
    ASSUME NEW r \in Buyer, NEW a \in Mailboxes \cup {None}, RowOK(r, a)
    PROVE  AfterDelete(r) \in Buyer /\ RowOK(AfterDelete(r), a)
BY DEF AfterDelete, Buyer, RowOK

----------------------------------------------------------------------------
(* A move leaves a card well formed.                                       *)
LEMMA MoveOK ==
    ASSUME NEW b \in Buyers, row[b] \in Buyer, account[b] \in Mailboxes \cup {None},
           CardOK(b), NEW y, NEW a, Moves(b, y, a)
    PROVE  /\ y \in Buyer /\ a \in Mailboxes \cup {None}
           /\ RowOK(y, a)
<1> PICK r : r = row[b]
  OBVIOUS
<1> PICK m0 : m0 = account[b]
  OBVIOUS
<1>0. r \in Buyer /\ m0 \in Mailboxes \cup {None} /\ RowOK(r, m0)
  BY DEF CardOK
<1>1. CASE y = r /\ a = m0
  BY <1>0, <1>1
<1>2. CASE Enters(b, y) /\ a = m0
  <2>1. a = None
    BY <1>2 DEF Enters, CardOK
  <2>2. QED
    BY <1>2, <2>1, NewCardOK DEF Enters
<1>3. CASE IsSent(b, y) /\ a = m0
  BY <1>0, <1>3, AfterSendOK DEF IsSent
<1>4. CASE Edits(b, y) /\ a = m0
  BY <1>0, <1>4, AfterVerifyOK, AfterDeleteOK, AfterSetStatusOK, AfterReviewOK,
     AfterMarkAbnormalOK
     DEF Edits, CanAdminSetStatus, CanSupplierSetStatus, CanSupplierViewBuyer
<1>5. CASE Approves(b, y) /\ a = m0
  BY <1>0, <1>5, AfterReviewOK DEF Approves
<1>6. CASE Unbinds(b, y) /\ a = None
  BY <1>0, <1>6, AfterChangeEmailOK, AfterClearAuthOK DEF Unbinds
<1>7. ASSUME NEW m \in Mailboxes, NEW now \in Times, Binds(b, y, m, now), a = m
      PROVE  y \in Buyer /\ a \in Mailboxes \cup {None} /\ RowOK(y, a)
  BY <1>0, <1>7, AfterCallbackOK DEF Binds
<1>8. QED
  BY <1>1, <1>2, <1>3, <1>4, <1>5, <1>6, <1>7 DEF Moves

----------------------------------------------------------------------------
(* No action does anything to a card but move it. *)

LEMMA CardKeyStepMoves ==
    ASSUME TypeOK, CardKeyStep, NEW b \in Buyers
    PROVE  Moves(b, row'[b], account'[b])
<1> PICK saleId \in Sales \cup {None}, now \in Times :
            \/ \E S \in SUBSET Buyers, autoApprove \in BOOLEAN :
                   Generate(S, saleId, autoApprove, now)
            \/ \E ids \in SUBSET Buyers, action \in AutoApproveAction :
                   Send(ids, saleId, action, now)
  BY DEF CardKeyStep
<1>1. ASSUME NEW S \in SUBSET Buyers, NEW autoApprove \in BOOLEAN,
             Generate(S, saleId, autoApprove, now)
      PROVE  Moves(b, row'[b], account'[b])
  BY <1>1 DEF Generate, Moves, Enters
<1>2. ASSUME NEW ids \in SUBSET Buyers, NEW action \in AutoApproveAction,
             Send(ids, saleId, action, now)
      PROVE  Moves(b, row'[b], account'[b])
  <2>1. account'[b] = account[b]
    BY <1>2 DEF Send
  <2>2. CASE b \in ids \cap cards /\ IsSendTarget(row[b])
    <3>1. row'[b] = AfterSend(row[b], saleId, action, now)
      BY <1>2, <2>2 DEF Send
    <3>2. QED
      BY <2>1, <2>2, <3>1 DEF Moves, IsSent
  <2>3. CASE ~(b \in ids \cap cards /\ IsSendTarget(row[b]))
    BY <1>2, <2>1, <2>3 DEF Send, Moves
  <2>4. QED
    BY <2>2, <2>3
<1>3. QED
  BY <1>1, <1>2

LEMMA HandlerMoves ==
    ASSUME TypeOK, NEW b \in Buyers, BuyerStep(b) \/ AdminStep(b) \/ OthersStep(b)
    PROVE  Moves(b, row'[b], account'[b])
<1> DEFINE moved == Moves(b, row'[b], account'[b])
<1>0. row \in [Buyers -> Buyer] /\ account \in [Buyers -> Mailboxes \cup {None}]
  BY DEF TypeOK
<1>1. ASSUME BuyerStep(b) PROVE moved
  <2>1. CASE Verify(b)
    BY <1>0, <2>1 DEF Verify, Moves, Edits
  <2>2. CASE ChangeEmail(b) \/ ClearAuth(b)
    BY <1>0, <2>2 DEF ChangeEmail, ClearAuth, Moves, Unbinds
  <2>3. ASSUME NEW m \in Mailboxes, NEW now \in Times, Callback(b, m, now) PROVE moved
    BY <1>0, <2>3 DEF Callback, Moves, Binds
  <2>4. QED
    BY <1>1, <2>1, <2>2, <2>3 DEF BuyerStep
<1>2. ASSUME AdminStep(b) PROVE moved
  <2>1. CASE DeleteCardKey(b) \/ DeleteBuyer(b)
    BY <1>0, <2>1 DEF DeleteCardKey, DeleteBuyer, Moves, Edits
  <2>2. ASSUME NEW decision \in {"Approved", "Rejected"}, Review(b, decision) PROVE moved
    BY <1>0, <2>2 DEF Review, Moves, Edits, Approves
  <2>3. ASSUME NEW supplierId \in Suppliers \cup {None}, AssignSupplier(b, supplierId)
        PROVE  moved
    BY <2>3 DEF AssignSupplier, Moves
  <2>4. ASSUME NEW status \in SupplierProcessingStatus, AdminSetStatus(b, status) PROVE moved
    BY <1>0, <2>4 DEF AdminSetStatus, Moves, Edits
  <2>5. QED
    BY <1>2, <2>1, <2>2, <2>3, <2>4 DEF AdminStep
<1>3. ASSUME OthersStep(b) PROVE moved
  <2>1. ASSUME NEW saleId \in Sales, SalesDelete(b, saleId) PROVE moved
    BY <1>0, <2>1 DEF SalesDelete, Moves, Edits
  <2>2. ASSUME NEW s \in Suppliers, NEW status \in SupplierProcessingStatus,
               SupplierSetStatus(b, s, status)
        PROVE  moved
    BY <1>0, <2>2 DEF SupplierSetStatus, Moves, Edits
  <2>3. CASE MarkAbnormal(b)
    BY <1>0, <2>3 DEF MarkAbnormal, Moves, Edits
  <2>4. QED
    BY <1>3, <2>1, <2>2, <2>3 DEF OthersStep
<1>4. QED
  BY <1>1, <1>2, <1>3

(* A handler of one buyer leaves the others alone. *)
LEMMA OthersUntouched ==
    ASSUME TypeOK, NEW b \in Buyers, NEW c \in Buyers, c # b,
           BuyerStep(c) \/ AdminStep(c) \/ OthersStep(c)
    PROVE  row'[b] = row[b] /\ account'[b] = account[b]
BY DEF BuyerStep, AdminStep, OthersStep, Verify, ChangeEmail, ClearAuth, Callback,
       DeleteCardKey, DeleteBuyer, Review, AssignSupplier, AdminSetStatus,
       SalesDelete, SupplierSetStatus, MarkAbnormal, TypeOK

LEMMA NextMoves ==
    ASSUME TypeOK, [Next]_vars, NEW b \in Buyers
    PROVE  Moves(b, row'[b], account'[b])
<1>1. CASE CardKeyStep
  BY <1>1, CardKeyStepMoves
<1>2. ASSUME NEW c \in Buyers, BuyerStep(c) \/ AdminStep(c) \/ OthersStep(c)
      PROVE  Moves(b, row'[b], account'[b])
  <2>1. CASE c = b
    BY <1>2, <2>1, HandlerMoves
  <2>2. CASE c # b
    BY <1>2, <2>2, OthersUntouched DEF Moves
  <2>3. QED
    BY <2>1, <2>2
<1>3. CASE UNCHANGED <<row, account>>
  BY <1>3 DEF Moves
<1>4. QED
  BY <1>1, <1>2, <1>3 DEF Next, SetActive, vars

(* Auto-assignment writes one supplier, or nothing. *)
LEMMA AutoAssignType ==
    ASSUME TypeOK, NEW b \in cards, AutoAssignSingleSupplier(b)
    PROVE  assignment' \in [Buyers -> Suppliers \cup {None}]
<1>1. CASE assignment[b] = None /\ \E s \in Suppliers : active = {s}
  <2>1. (CHOOSE s \in Suppliers : active = {s}) \in Suppliers
    BY <1>1
  <2>2. QED
    BY <1>1, <2>1 DEF TypeOK, AutoAssignSingleSupplier
<1>2. CASE ~(assignment[b] = None /\ \E s \in Suppliers : active = {s})
  BY <1>2 DEF TypeOK, AutoAssignSingleSupplier
<1>3. QED
  BY <1>1, <1>2

(* What a step keeps beside the cards' rows and mailboxes.                 *)
LEMMA NextShape ==
    ASSUME TypeOK, [Next]_vars
    PROVE  /\ cards \subseteq cards' /\ cards' \subseteq Buyers
           /\ row' = [b \in Buyers |-> row'[b]]
           /\ account' = [b \in Buyers |-> account'[b]]
           /\ assignment' \in [Buyers -> Suppliers \cup {None}]
           /\ active' \subseteq Suppliers
<1> USE DEF TypeOK
<1>1. CASE CardKeyStep
  BY <1>1 DEF CardKeyStep, Generate, Send
<1>2. ASSUME NEW c \in Buyers, BuyerStep(c) \/ AdminStep(c) \/ OthersStep(c)
      PROVE  /\ cards' = cards /\ active' = active
             /\ row' = [b \in Buyers |-> row'[b]]
             /\ account' = [b \in Buyers |-> account'[b]]
             /\ assignment' \in [Buyers -> Suppliers \cup {None}]
  <2>1. CASE BuyerStep(c)
    BY <2>1, AutoAssignType
       DEF BuyerStep, Verify, ChangeEmail, ClearAuth, Callback, Present
  <2>2. CASE AdminStep(c)
    BY <2>2, AutoAssignType
       DEF AdminStep, DeleteCardKey, DeleteBuyer, Review, AssignSupplier, AdminSetStatus
  <2>3. CASE OthersStep(c)
    BY <2>3 DEF OthersStep, SalesDelete, SupplierSetStatus, MarkAbnormal
  <2>4. QED
    BY <1>2, <2>1, <2>2, <2>3
<1>3. CASE \E s \in Suppliers, isActive \in BOOLEAN : SetActive(s, isActive)
  BY <1>3 DEF SetActive
<1>4. CASE UNCHANGED vars
  BY <1>4 DEF vars
<1>5. QED
  BY <1>1, <1>2, <1>3, <1>4 DEF Next

----------------------------------------------------------------------------
LEMMA InitCardsOK == Init => CardsOK
<1> SUFFICES ASSUME Init PROVE CardsOK
  OBVIOUS
<1>1. /\ NewCard(None, FALSE, None) \in Buyer
      /\ RowOK(NewCard(None, FALSE, None), None)
  BY NewCardOK
<1>2. QED
  BY <1>1 DEF Init, CardsOK, CardOK, TypeOK

LEMMA NextCardsOK == CardsOK /\ [Next]_vars => CardsOK'
<1> SUFFICES ASSUME CardsOK, [Next]_vars PROVE CardsOK'
  OBVIOUS
<1>0. TypeOK
  BY DEF CardsOK
<1>1. ASSUME NEW b \in Buyers
      PROVE  /\ row'[b] \in Buyer /\ account'[b] \in Mailboxes \cup {None}
             /\ RowOK(row'[b], account'[b])
  BY <1>0, NextMoves, MoveOK DEF CardsOK, TypeOK
<1>2. ASSUME NEW b \in Buyers, b \notin cards'
      PROVE  account'[b] = None
  <2>1. b \notin cards /\ account[b] = None
    BY <1>0, <1>2, NextShape DEF CardsOK, CardOK
  <2>2. Moves(b, row'[b], account'[b])
    BY <1>0, NextMoves
  <2>3. QED
    BY <2>1, <2>2 DEF Moves, Binds, Present
<1>3. TypeOK'
  BY <1>0, <1>1, NextShape DEF TypeOK
<1>4. QED
  BY <1>1, <1>2, <1>3 DEF CardsOK, CardOK

(* The inductive invariant holds in every reachable state. *)
THEOREM CardsInvariance == Spec => []CardsOK
<1>1. Init => CardsOK
  BY InitCardsOK
<1>2. CardsOK /\ [Next]_vars => CardsOK'
  BY NextCardsOK
<1>3. QED
  BY <1>1, <1>2, PTL DEF Spec

----------------------------------------------------------------------------
(* Every column, mailbox and assignment holds a value of its type. *)
THEOREM CardsTyped == Spec => []TypeOK
<1>1. CardsOK => TypeOK
  BY DEF CardsOK
<1>2. QED
  BY <1>1, CardsInvariance, PTL

(* EmailStatus tells exactly when a mailbox is bound, and only a submitted *)
(* card has one: what CanSupplierViewBuyer lets a supplier open is there.  *)
THEOREM MailboxStatusAgree == Spec => []MailboxMatchesStatus
<1>1. CardsOK => MailboxMatchesStatus
  BY DEF CardsOK, CardOK, RowOK, MailboxMatchesStatus
<1>2. QED
  BY <1>1, CardsInvariance, PTL

(* No card starts a new cycle with anything of the last one. *)
THEOREM FreshCycle == Spec => []UnsubmittedIsFresh
<1>1. CardsOK => UnsubmittedIsFresh
  BY DEF CardsOK, CardOK, RowOK, UnsubmittedIsFresh, TypeOK
<1>2. QED
  BY <1>1, CardsInvariance, PTL

(* No submitted card without a mailbox waits for a review or is rejected. *)
THEOREM ClearedWasApproved == Spec => []UnboundSubmittedIsApproved
<1>1. CardsOK => UnboundSubmittedIsApproved
  BY DEF CardsOK, CardOK, RowOK, UnboundSubmittedIsApproved
<1>2. QED
  BY <1>1, CardsInvariance, PTL

(* An auto-approved card with a mailbox is approved, after any re-binding. *)
THEOREM AutoApproved == Spec => []AutoApproveIsSticky
<1>1. CardsOK => AutoApproveIsSticky
  BY DEF CardsOK, CardOK, RowOK, AutoApproveIsSticky
<1>2. QED
  BY <1>1, CardsInvariance, PTL

(* The dates and the salesperson of a card agree with its stage. *)
THEOREM StageHistory == Spec => []HistoryMatchesStage
<1>1. CardsOK => HistoryMatchesStage
  BY DEF CardsOK, CardOK, RowOK, HistoryMatchesStage
<1>2. QED
  BY <1>1, CardsInvariance, PTL

----------------------------------------------------------------------------
(* The action properties: what one step may never do to one buyer. *)

LockedKept(b) ==
    IsLocked(b) => /\ account'[b] = account[b]
                   /\ row'[b].Stage = "Submitted"
                   /\ row'[b].ReviewStatus = "Approved"

ApprovalKept(b) ==
    /\ row[b].ReviewStatus = "Approved" /\ row'[b].ReviewStatus = "Approved"
    /\ ~row[b].AutoApprove
    => account'[b] \in {account[b], None}

HistoryKept(b) ==
    b \in cards =>
        /\ b \in cards'
        /\ row[b].IsDeleted => row'[b].IsDeleted
        /\ row[b].CardSentAt # None => row'[b].CardSentAt = row[b].CardSentAt
        /\ row[b].CardUsedAt # None => row'[b].CardUsedAt = row[b].CardUsedAt
        /\ row[b].Stage # "NotSent" => row'[b].SaleId = row[b].SaleId
        /\ row'[b].Stage = "NotSent" => row[b].Stage = "NotSent"
        /\ row'[b].Stage = "Sent" => row[b].Stage \in {"NotSent", "Sent"}

(* The state that PendingIsUnprocessed forbids.                            *)
WaitsUnreset(b) == row[b].ReviewStatus = "Pending" /\ row[b].SupplierStatus # "Unprocessed"

OnlyRebound(b) ==
    WaitsUnreset(b)' /\ ~WaitsUnreset(b) =>
        /\ row'[b].SupplierStatus = row[b].SupplierStatus
        /\ ~row[b].AutoApprove
        /\ \E m \in Mailboxes, now \in Times :
              Binds(b, row'[b], m, now) /\ account[b] # m /\ account'[b] = m

BuyerKept(b) == LockedKept(b) /\ ApprovalKept(b) /\ HistoryKept(b) /\ OnlyRebound(b)

(* A move keeps what the card had.                                         *)
LEMMA MoveKept ==
    ASSUME NEW b \in Buyers, row[b] \in Buyer, CardOK(b),
           Moves(b, row'[b], account'[b]), cards \subseteq cards'
    PROVE  BuyerKept(b)
<1> USE DEF BuyerKept, LockedKept, ApprovalKept, HistoryKept, OnlyRebound, WaitsUnreset
<1>0. row[b] \in Buyer /\ RowOK(row[b], account[b])
  BY DEF CardOK
<1>1. CASE row'[b] = row[b] /\ account'[b] = account[b]
  BY <1>0, <1>1 DEF IsLocked, RowOK
<1>2. CASE Enters(b, row'[b]) /\ account'[b] = account[b]
  BY <1>2 DEF Enters, NewCard, CardOK, IsLocked, Present
<1>3. CASE IsSent(b, row'[b]) /\ account'[b] = account[b]
  <2>1. PICK saleId \in Sales \cup {None}, action \in AutoApproveAction, now \in Times :
           row'[b] = AfterSend(row[b], saleId, action, now)
    BY <1>3 DEF IsSent
  <2>2. QED
    BY <1>0, <1>3, <2>1 DEF IsSent, AfterSend, IsSendTarget, IsLocked, RowOK, Buyer
<1>4. CASE Edits(b, row'[b]) /\ account'[b] = account[b]
  <2>1. CASE row[b].Stage = "Sent" /\ row'[b] = AfterVerify(row[b])
    BY <1>0, <1>4, <2>1 DEF AfterVerify, IsLocked, RowOK, Buyer
  <2>2. CASE row'[b] = AfterDelete(row[b])
    BY <1>0, <1>4, <2>2 DEF AfterDelete, IsLocked, RowOK, Buyer
  <2>3. ASSUME NEW status \in SupplierProcessingStatus, row[b].ReviewStatus = "Approved",
               row'[b] = AfterSetStatus(row[b], status)
        PROVE  BuyerKept(b)
    BY <1>0, <1>4, <2>3 DEF AfterSetStatus, IsLocked, RowOK, Buyer
  <2>4. CASE IsReviewable(row[b]) /\ row'[b] = AfterReview(row[b], "Rejected")
    BY <1>0, <1>4, <2>4 DEF IsReviewable, AfterReview, IsLocked, RowOK, Buyer
  <2>5. CASE row'[b] = AfterMarkAbnormal(row[b])
    BY <1>0, <1>4, <2>5 DEF AfterMarkAbnormal, IsLocked, RowOK, Buyer
  <2>6. QED
    BY <1>4, <2>1, <2>2, <2>3, <2>4, <2>5
       DEF Edits, CanAdminSetStatus, CanSupplierSetStatus, CanSupplierViewBuyer
<1>5. CASE Approves(b, row'[b]) /\ account'[b] = account[b]
  BY <1>0, <1>5 DEF Approves, IsReviewable, AfterReview, IsLocked, RowOK, Buyer
<1>6. CASE Unbinds(b, row'[b]) /\ account'[b] = None
  <2>1. CASE ResolveBuyerMailAction(row[b]).ChangeEmail /\ row'[b] = AfterChangeEmail(row[b])
    BY <1>0, <1>6, <2>1
       DEF AfterChangeEmail, ResolveBuyerMailAction, IsLocked, RowOK, Buyer
  <2>2. CASE ResolveBuyerMailAction(row[b]).ClearAuth /\ row'[b] = AfterClearAuth(row[b])
    <3>1. /\ row[b].Stage = "Submitted"
          /\ row[b].ReviewStatus = "Approved" => row[b].SupplierStatus = "Completed"
      BY <2>2 DEF ResolveBuyerMailAction
    <3>2. \/ row'[b] = AfterChangeEmail(row[b])
          \/ row'[b] = [row[b] EXCEPT !.EmailStatus = "NotAuthorized"]
      BY <2>2 DEF AfterClearAuth
    <3>3. LockedKept(b)
      BY <3>1 DEF IsLocked
    <3>4. HistoryKept(b)
      BY <1>0, <3>1, <3>2 DEF AfterChangeEmail, Buyer
    <3>5. OnlyRebound(b)
      BY <1>0, <3>2 DEF AfterChangeEmail, Buyer
    <3>6. QED
      BY <1>6, <3>3, <3>4, <3>5
  <2>3. QED
    BY <1>6, <2>1, <2>2 DEF Unbinds
<1>7. ASSUME NEW m \in Mailboxes, NEW now \in Times, Binds(b, row'[b], m, now),
             account'[b] = m
      PROVE  BuyerKept(b)
  <2>1. /\ row'[b] = AfterCallback(row[b], account[b] # m, now)
        /\ account[b] # None /\ account[b] # m => ResolveBuyerMailAction(row[b]).ChangeEmail
    BY <1>7 DEF Binds
  <2>2. row'[b].Stage = "Submitted" /\ row'[b].SaleId = row[b].SaleId
    BY <1>0, <2>1 DEF AfterCallback, Buyer
  <2>3. LockedKept(b)
    <3>1. SUFFICES ASSUME IsLocked(b)
                   PROVE  /\ account'[b] = account[b]
                          /\ row'[b].Stage = "Submitted"
                          /\ row'[b].ReviewStatus = "Approved"
      BY DEF LockedKept
    <3>2. account[b] # None /\ ~ResolveBuyerMailAction(row[b]).ChangeEmail
      BY <1>0, <3>1 DEF RowOK, IsLocked, ResolveBuyerMailAction
    <3>3. account[b] = m
      BY <2>1, <3>2
    <3>4. row'[b].ReviewStatus = row[b].ReviewStatus
      BY <1>0, <2>1, <3>3 DEF AfterCallback, Buyer
    <3>5. QED
      BY <1>7, <2>2, <3>1, <3>3, <3>4 DEF IsLocked
  <2>4. ApprovalKept(b)
    BY <1>0, <1>7, <2>1 DEF AfterCallback, Buyer
  <2>5. HistoryKept(b)
    BY <1>0, <2>1, <2>2 DEF AfterCallback, Buyer
  <2>6. OnlyRebound(b)
    <3>1. /\ row'[b].SupplierStatus = row[b].SupplierStatus
          /\ account[b] = m => row'[b].ReviewStatus = row[b].ReviewStatus
          /\ account[b] # m /\ row[b].AutoApprove => row'[b].ReviewStatus = "Approved"
      BY <1>0, <2>1 DEF AfterCallback, Buyer
    <3>2. QED
      BY <1>7, <3>1
  <2>7. QED
    BY <2>3, <2>4, <2>5, <2>6
<1>8. QED
  BY <1>1, <1>2, <1>3, <1>4, <1>5, <1>6, <1>7 DEF Moves

LEMMA NextKept ==
    ASSUME CardsOK, [Next]_vars, NEW b \in Buyers
    PROVE  BuyerKept(b)
<1>1. TypeOK /\ row[b] \in Buyer /\ CardOK(b)
  BY DEF CardsOK, TypeOK
<1>2. QED
  BY <1>1, NextMoves, NextShape, MoveKept

(* While a supplier works on a buyer nothing takes its mailbox away, swaps *)
(* it or withdraws the approval.                                           *)
THEOREM LockedMailbox == Spec => LockedMailboxIsKept
<1>1. CardsOK /\ [Next]_vars =>
        [\A b \in Buyers : IsLocked(b) =>
            /\ account'[b] = account[b]
            /\ row'[b].Stage = "Submitted"
            /\ row'[b].ReviewStatus = "Approved"]_vars
  BY NextKept DEF BuyerKept, LockedKept
<1>2. QED
  BY <1>1, CardsInvariance, PTL DEF Spec, LockedMailboxIsKept

(* An administrator's approval is never inherited by another mailbox. *)
THEOREM ApprovalMailbox == Spec => ApprovalCoversMailbox
<1>1. CardsOK /\ [Next]_vars =>
        [\A b \in Buyers :
            /\ row[b].ReviewStatus = "Approved" /\ row'[b].ReviewStatus = "Approved"
            /\ ~row[b].AutoApprove
            => account'[b] \in {account[b], None}]_vars
  BY NextKept DEF BuyerKept, ApprovalKept
<1>2. QED
  BY <1>1, CardsInvariance, PTL DEF Spec, ApprovalCoversMailbox

(* A card is sent once, first used once and deleted for good. *)
THEOREM CardHistory == Spec => CardHistoryIsKept
<1>1. CardsOK /\ [Next]_vars =>
        [\A b \in cards :
            /\ b \in cards'
            /\ row[b].IsDeleted => row'[b].IsDeleted
            /\ row[b].CardSentAt # None => row'[b].CardSentAt = row[b].CardSentAt
            /\ row[b].CardUsedAt # None => row'[b].CardUsedAt = row[b].CardUsedAt
            /\ row[b].Stage # "NotSent" => row'[b].SaleId = row[b].SaleId
            /\ row'[b].Stage = "NotSent" => row[b].Stage = "NotSent"
            /\ row'[b].Stage = "Sent" => row[b].Stage \in {"NotSent", "Sent"}]_vars
  BY NextKept DEF BuyerKept, HistoryKept, CardsOK, TypeOK
<1>2. QED
  BY <1>1, CardsInvariance, PTL DEF Spec, CardHistoryIsKept

(* The one way into the state that the design rules out (a buyer who waits *)
(* for review with a supplier status of an earlier mailbox): a callback    *)
(* binds another mailbox to a card that is not auto-approved, and keeps    *)
(* the status it finds.                                                    *)
THEOREM Unreset == Spec => [][\A b \in Buyers : OnlyRebound(b)]_vars
<1>1. CardsOK /\ [Next]_vars => [\A b \in Buyers : OnlyRebound(b)]_vars
  BY NextKept DEF BuyerKept
<1>2. QED
  BY <1>1, CardsInvariance, PTL DEF Spec
=============================================================================
