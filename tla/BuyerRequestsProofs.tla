------------------------- MODULE BuyerRequestsProofs -------------------------
(****************************************************************************)
(* The invariants of BuyerRequests for any sets of cards, mailboxes,        *)
(* suppliers, salespeople and instants, any handlers, and any number of     *)
(* overlapping requests.                                                    *)
(*                                                                          *)
(* A save writes the columns that a request changed in a row it read long   *)
(* ago.  The argument is that the facts of a row (sent, used, deleted, out  *)
(* of stock) are never undone: a change computed from a good row that has   *)
(* since only gained facts (Kept) still is a good change (ChangesGood), and *)
(* merging it yields a good row that kept its facts (MergeGood).  So the    *)
(* invariant relates each pending change to the row as it is now.           *)
(****************************************************************************)
EXTENDS BuyerRequests, Naturals, TLAPS

(* y has every fact of x.                                                  *)
Kept(x, y) ==
    /\ x.IsDeleted => y.IsDeleted
    /\ x.Stage # "NotSent" => y.Stage # "NotSent"
    /\ x.CardSentAt # None => y.CardSentAt # None
    /\ x.CardUsedAt # None => y.CardUsedAt # None

Got(x) ==
    \/ x.Stage = "Submitted"
    \/ x.ReviewStatus \in {"Approved", "Rejected"}
    \/ x.SupplierStatus \in {"Failed", "Completed"}
    \/ x.EmailStatus \in {"Authorized", "Abnormal"}

GoodRow(x) ==
    /\ x \in Buyer
    /\ Got(x) => x.CardUsedAt # None
    /\ x.Stage = "NotSent" => /\ x.CardSentAt = None
                              /\ x.SaleId = None
                              /\ x.CardUsedAt = None
    /\ x.Stage = "Sent" \/ x.SaleId # None => x.CardSentAt # None

(* What a pending change ch may be while its row is x.                     *)
GoodChange(ch, x) ==
    /\ ch.Stage # "NotSent" /\ ch.IsDeleted # FALSE
    /\ ch.CardSentAt # None /\ ch.CardUsedAt # None
    /\ Got(ch) => x.CardUsedAt # None \/ ch.CardUsedAt # Same
    /\ ch.CardSentAt # Same \/ ch.SaleId # Same \/ ch.CardUsedAt # Same
          => x.Stage # "NotSent" \/ ch.Stage # Same
    /\ ch.Stage = "Sent" \/ ch.SaleId \notin {Same, None}
          => x.CardSentAt # None \/ ch.CardSentAt # Same

(* A card that has no row yet.                                             *)
Blank(x) ==
    /\ x.Stage = "NotSent" /\ x.CardSentAt = None /\ x.CardUsedAt = None
    /\ ~x.IsDeleted

Request ==
    [ phase : Phase, buyer : Buyers \cup {None}, loaded : Buyer \cup {None},
      insert : SUBSET Buyers, changes : [Buyers -> Change],
      account : AccountStatement, assignment : AssignmentStatement ]

(* What a request holds, whatever the state.                               *)
Shape(r) ==
    /\ r \in Request
    /\ r.phase \in AccountPhases \/ r.account.op # "none" => r.buyer \in Buyers
    /\ r.phase # "save" => r.assignment.op = "none"
    /\ r.phase \in {"supplier", "existing"} \/ r.assignment.op \in {"update", "delete"}
          => r.account = NoStatement
    /\ r.account.op \in {"insert"} \cup Updates => r.account.value \in Mailboxes
    /\ \A b \in r.insert : GoodRow(r.changes[b])

(* What it holds of the rows as they are now.                              *)
Grounded(r) ==
    /\ r.buyer \in cards \cup {None}
    /\ r.buyer \notin r.insert
    /\ \A b \in Buyers \ r.insert : GoodChange(r.changes[b], row[b])
    /\ \A b \in Buyers \ (cards \cup r.insert) : r.changes[b] = NoChange
    /\ r.phase = "provider" => GoodRow(r.loaded) /\ Kept(r.loaded, row[r.buyer])
    /\ r.account.op \in {"insert", "update"} =>
          /\ r.buyer \in Buyers
          /\ row[r.buyer].CardUsedAt # None \/ r.changes[r.buyer].CardUsedAt # Same

RowsOK ==
    /\ \A b \in Buyers : GoodRow(row[b])
    /\ \A b \in Buyers : account[b] # None => row[b].CardUsedAt # None
    /\ \A b \in Buyers \ cards : Blank(row[b])

IInv ==
    /\ TypeOK
    /\ token \in [Buyers -> Mailboxes \cup {None}]
    /\ req \in [Requests -> Request]
    /\ RowsOK
    /\ \A q \in Requests : Shape(req[q]) /\ Grounded(req[q])

----------------------------------------------------------------------------
(* Changes and Merge, column by column. *)

LEMMA ChangesAre ==
    ASSUME NEW x \in Buyer, NEW y \in Buyer
    PROVE  /\ Changes(x, y) \in Change
           /\ Changes(x, y).Stage = IF y.Stage = x.Stage THEN Same ELSE y.Stage
           /\ Changes(x, y).CardSentAt = IF y.CardSentAt = x.CardSentAt THEN Same ELSE y.CardSentAt
           /\ Changes(x, y).SaleId = IF y.SaleId = x.SaleId THEN Same ELSE y.SaleId
           /\ Changes(x, y).EmailStatus =
                  IF y.EmailStatus = x.EmailStatus THEN Same ELSE y.EmailStatus
           /\ Changes(x, y).ReviewStatus =
                  IF y.ReviewStatus = x.ReviewStatus THEN Same ELSE y.ReviewStatus
           /\ Changes(x, y).SupplierStatus =
                  IF y.SupplierStatus = x.SupplierStatus THEN Same ELSE y.SupplierStatus
           /\ Changes(x, y).IsDeleted = IF y.IsDeleted = x.IsDeleted THEN Same ELSE y.IsDeleted
           /\ Changes(x, y).CardUsedAt = IF y.CardUsedAt = x.CardUsedAt THEN Same ELSE y.CardUsedAt
  BY DEF Changes, Buyer, Change

LEMMA MergeIs ==
    ASSUME NEW x \in Buyer, NEW ch \in Change
    PROVE  /\ Merge(x, ch) \in Buyer
           /\ Merge(x, ch).Stage = IF ch.Stage = Same THEN x.Stage ELSE ch.Stage
           /\ Merge(x, ch).CardSentAt = IF ch.CardSentAt = Same THEN x.CardSentAt ELSE ch.CardSentAt
           /\ Merge(x, ch).SaleId = IF ch.SaleId = Same THEN x.SaleId ELSE ch.SaleId
           /\ Merge(x, ch).EmailStatus =
                  IF ch.EmailStatus = Same THEN x.EmailStatus ELSE ch.EmailStatus
           /\ Merge(x, ch).ReviewStatus =
                  IF ch.ReviewStatus = Same THEN x.ReviewStatus ELSE ch.ReviewStatus
           /\ Merge(x, ch).SupplierStatus =
                  IF ch.SupplierStatus = Same THEN x.SupplierStatus ELSE ch.SupplierStatus
           /\ Merge(x, ch).IsDeleted = IF ch.IsDeleted = Same THEN x.IsDeleted ELSE ch.IsDeleted
           /\ Merge(x, ch).CardUsedAt = IF ch.CardUsedAt = Same THEN x.CardUsedAt ELSE ch.CardUsedAt
  BY DEF Merge, Buyer, Change

LEMMA NoChangeIs ==
    /\ NoChange \in Change
    /\ \A x \in Buyer : Merge(x, NoChange) = x /\ GoodChange(NoChange, x)
  <1>1. NoChange = [ Stage |-> Same, AutoApprove |-> Same, CardSentAt |-> Same, SaleId |-> Same,
                     EmailStatus |-> Same, ReviewStatus |-> Same, SupplierStatus |-> Same,
                     IsDeleted |-> Same, CardUsedAt |-> Same ]
    BY DEF NoChange, NewCard
  <1>2. NoChange \in Change
    BY <1>1 DEF Change
  <1>3. ASSUME NEW x \in Buyer PROVE Merge(x, NoChange) = x
    BY <1>1 DEF Merge, Buyer
  <1>4. ASSUME NEW x \in Buyer PROVE GoodChange(NoChange, x)
    BY <1>1, SameIsNoValue
       DEF GoodChange, Got, BuyerStage, EmailAuthorizationStatus, ReviewStatus,
           SupplierProcessingStatus
  <1>5. QED
    BY <1>2, <1>3, <1>4

(* A new row is written whole.                                             *)
LEMMA RowIsAChange ==
    ASSUME NEW y \in Buyer
    PROVE  y \in Change /\ \A x \in Buyer : Merge(x, y) = y
  <1>1. y \in Change
    BY DEF Buyer, Change
  <1>2. ASSUME NEW x \in Buyer PROVE Merge(x, y) = y
    BY SameIsNoValue DEF Merge, Buyer
  <1>3. QED
    BY <1>1, <1>2

LEMMA ChangesGood ==
    ASSUME NEW x, NEW y, NEW z, GoodRow(x), GoodRow(y), GoodRow(z), Kept(x, y), Kept(x, z)
    PROVE  Changes(x, y) \in Change /\ GoodChange(Changes(x, y), z)
  <1>0. x \in Buyer /\ y \in Buyer /\ z \in Buyer
    BY DEF GoodRow
  <1>1. PICK ch : ch = Changes(x, y)
    OBVIOUS
  <1>2. /\ ch.Stage = IF y.Stage = x.Stage THEN Same ELSE y.Stage
        /\ ch.CardSentAt = IF y.CardSentAt = x.CardSentAt THEN Same ELSE y.CardSentAt
        /\ ch.SaleId = IF y.SaleId = x.SaleId THEN Same ELSE y.SaleId
        /\ ch.CardUsedAt = IF y.CardUsedAt = x.CardUsedAt THEN Same ELSE y.CardUsedAt
    BY <1>0, <1>1, ChangesAre
  <1>3. /\ y.Stage # Same /\ y.CardSentAt # Same /\ y.SaleId # Same /\ y.CardUsedAt # Same
        /\ Same \notin {"NotSent", "Sent", None}
    BY <1>0, SameIsNoValue DEF Buyer, BuyerStage
  <1>4. ch.Stage # "NotSent" /\ ch.CardSentAt # None /\ ch.CardUsedAt # None
    BY <1>2, <1>3 DEF Kept
  <1>5. ch.IsDeleted # FALSE
    <2>1. ch.IsDeleted = IF y.IsDeleted = x.IsDeleted THEN Same ELSE y.IsDeleted
      BY <1>0, <1>1, ChangesAre
    <2>2. x.IsDeleted \in BOOLEAN /\ y.IsDeleted \in BOOLEAN /\ Same # FALSE
      BY <1>0, SameIsNoValue DEF Buyer
    <2>3. QED
      BY <2>1, <2>2 DEF Kept
  <1>6. Got(ch) => z.CardUsedAt # None \/ ch.CardUsedAt # Same
    <2>1. Got(ch) => Got(y)
      BY <1>0, <1>1, ChangesAre, SameIsNoValue
         DEF Got, BuyerStage, EmailAuthorizationStatus, ReviewStatus, SupplierProcessingStatus
    <2>2. QED
      BY <1>2, <1>3, <2>1 DEF GoodRow, Kept
  <1>7. ch.CardSentAt # Same \/ ch.SaleId # Same \/ ch.CardUsedAt # Same
          => z.Stage # "NotSent" \/ ch.Stage # Same
    BY <1>2, <1>3 DEF GoodRow, Kept
  <1>8. ch.Stage = "Sent" \/ ch.SaleId \notin {Same, None}
          => z.CardSentAt # None \/ ch.CardSentAt # Same
    BY <1>2, <1>3 DEF GoodRow, Kept
  <1>9. QED
    BY <1>0, <1>1, <1>4, <1>5, <1>6, <1>7, <1>8, ChangesAre DEF GoodChange

LEMMA MergeGood ==
    ASSUME NEW x, NEW ch \in Change, GoodRow(x), GoodChange(ch, x)
    PROVE  GoodRow(Merge(x, ch)) /\ Kept(x, Merge(x, ch))
  <1>0. x \in Buyer
    BY DEF GoodRow
  <1>1. PICK y : y = Merge(x, ch)
    OBVIOUS
  <1>2. /\ y.Stage = IF ch.Stage = Same THEN x.Stage ELSE ch.Stage
        /\ y.CardSentAt = IF ch.CardSentAt = Same THEN x.CardSentAt ELSE ch.CardSentAt
        /\ y.SaleId = IF ch.SaleId = Same THEN x.SaleId ELSE ch.SaleId
        /\ y.CardUsedAt = IF ch.CardUsedAt = Same THEN x.CardUsedAt ELSE ch.CardUsedAt
    BY <1>0, <1>1, MergeIs
  <1>3. Kept(x, y)
    <2>1. x.IsDeleted => y.IsDeleted
      <3>1. y.IsDeleted = IF ch.IsDeleted = Same THEN x.IsDeleted ELSE ch.IsDeleted
        BY <1>0, <1>1, MergeIs
      <3>2. ch.IsDeleted \in BOOLEAN \cup {Same} /\ ch.IsDeleted # FALSE
        BY DEF Change, GoodChange
      <3>3. QED
        BY <3>1, <3>2
    <2>2. QED
      BY <1>2, <2>1 DEF Kept, GoodChange
  <1>4. Got(y) => y.CardUsedAt # None
    <2>1. Got(y) => Got(x) \/ Got(ch)
      BY <1>0, <1>1, MergeIs DEF Got
    <2>2. QED
      BY <1>2, <2>1 DEF GoodRow, GoodChange
  <1>5. y.Stage = "NotSent" => y.CardSentAt = None /\ y.SaleId = None /\ y.CardUsedAt = None
    BY <1>2 DEF GoodRow, GoodChange
  <1>6. y.Stage = "Sent" \/ y.SaleId # None => y.CardSentAt # None
    BY <1>2 DEF GoodRow, GoodChange
  <1>7. QED
    BY <1>0, <1>1, <1>3, <1>4, <1>5, <1>6, MergeIs DEF GoodRow

(* A change stays good while its row only gains facts.                     *)
LEMMA GoodChangeStays ==
    ASSUME NEW ch, NEW x, NEW y, GoodChange(ch, x), Kept(x, y)
    PROVE  GoodChange(ch, y)
  BY DEF GoodChange, Kept

LEMMA KeptTwice ==
    ASSUME NEW x, NEW y, NEW z, Kept(x, y), Kept(y, z)
    PROVE  Kept(x, z)
  BY DEF Kept

----------------------------------------------------------------------------
(* Each transform of BuyerRules, under the guard of its handler. *)

LEMMA NewCardGood ==
    ASSUME NEW saleId \in Sales \cup {None}, NEW auto \in BOOLEAN,
           NEW now \in Times \cup {None}, saleId # None => now \in Times
    PROVE  GoodRow(NewCard(saleId, auto, now)) /\ Blank(NewCard(None, auto, now))
  BY NullIsNoValue DEF NewCard, GoodRow, Blank, Got, Buyer, BuyerStage, EmailAuthorizationStatus,
                       ReviewStatus, SupplierProcessingStatus

LEMMA SendGood ==
    ASSUME NEW x, GoodRow(x), IsSendTarget(x), NEW saleId \in Sales \cup {None},
           NEW action \in AutoApproveAction, NEW now \in Times
    PROVE  GoodRow(AfterSend(x, saleId, action, now)) /\ Kept(x, AfterSend(x, saleId, action, now))
  BY NullIsNoValue DEF AfterSend, IsSendTarget, GoodRow, Kept, Got, Buyer, BuyerStage

LEMMA VerifyGood ==
    ASSUME NEW x, GoodRow(x), x.Stage = "Sent"
    PROVE  GoodRow(AfterVerify(x)) /\ Kept(x, AfterVerify(x))
  BY DEF AfterVerify, GoodRow, Kept, Got, Buyer, BuyerStage

LEMMA ChangeEmailGood ==
    ASSUME NEW x, GoodRow(x), x.Stage # "NotSent" \/ Got(x)
    PROVE  GoodRow(AfterChangeEmail(x)) /\ Kept(x, AfterChangeEmail(x))
  BY DEF AfterChangeEmail, GoodRow, Kept, Got, Buyer, BuyerStage, EmailAuthorizationStatus,
         ReviewStatus, SupplierProcessingStatus

LEMMA ClearAuthGood ==
    ASSUME NEW x, GoodRow(x), x.Stage # "NotSent" \/ Got(x)
    PROVE  GoodRow(AfterClearAuth(x)) /\ Kept(x, AfterClearAuth(x))
  <1>1. CASE x.ReviewStatus = "Approved" /\ x.SupplierStatus = "Completed"
    BY <1>1 DEF AfterClearAuth, GoodRow, Kept, Got, Buyer, EmailAuthorizationStatus
  <1>2. CASE ~(x.ReviewStatus = "Approved" /\ x.SupplierStatus = "Completed")
    BY <1>2, ChangeEmailGood DEF AfterClearAuth
  <1>3. QED
    BY <1>1, <1>2

LEMMA CallbackGood ==
    ASSUME NEW x, GoodRow(x), NEW isNew \in BOOLEAN, NEW now \in Times
    PROVE  /\ GoodRow(AfterCallback(x, isNew, now)) /\ Kept(x, AfterCallback(x, isNew, now))
           /\ AfterCallback(x, isNew, now).CardUsedAt # None
  <1>1. PICK y : y = AfterCallback(x, isNew, now)
    OBVIOUS
  <1>2. x \in Buyer
    BY DEF GoodRow
  <1>3. y \in Buyer
    <2>1. PICK used \in Times \cup {None}, email \in EmailAuthorizationStatus,
               review \in ReviewStatus :
            y = [x EXCEPT !.Stage = "Submitted", !.CardUsedAt = used,
                          !.EmailStatus = email, !.ReviewStatus = review]
      <3>1. /\ (IF x.CardUsedAt = None THEN now ELSE x.CardUsedAt) \in Times \cup {None}
            /\ (IF isNew \/ x.EmailStatus = "Abnormal" THEN "Authorized" ELSE x.EmailStatus)
                  \in EmailAuthorizationStatus
            /\ (IF ~isNew THEN x.ReviewStatus
                 ELSE IF x.AutoApprove THEN "Approved" ELSE "Pending") \in ReviewStatus
        BY <1>2 DEF Buyer, EmailAuthorizationStatus, ReviewStatus
      <3>2. QED
        BY <1>1, <3>1, Zenon DEF AfterCallback
    <2>2. QED
      BY <1>2, <2>1 DEF Buyer, BuyerStage
  <1>4. /\ y.Stage = "Submitted" /\ y.IsDeleted = x.IsDeleted
        /\ y.CardUsedAt = IF x.CardUsedAt = None THEN now ELSE x.CardUsedAt
        /\ y.SaleId = x.SaleId /\ y.CardSentAt = x.CardSentAt
    BY <1>1, <1>2 DEF AfterCallback, Buyer
  <1>5. y.CardUsedAt # None
    BY <1>4, NullIsNoValue
  <1>6. GoodRow(y)
    BY <1>3, <1>4, <1>5 DEF GoodRow
  <1>7. Kept(x, y)
    BY <1>4, <1>5 DEF Kept
  <1>8. QED
    BY <1>1, <1>5, <1>6, <1>7

LEMMA ReviewGood ==
    ASSUME NEW x, GoodRow(x), IsReviewable(x), NEW decision \in {"Approved", "Rejected"}
    PROVE  GoodRow(AfterReview(x, decision)) /\ Kept(x, AfterReview(x, decision))
  BY DEF AfterReview, IsReviewable, GoodRow, Kept, Got, Buyer, ReviewStatus

LEMMA SetStatusGood ==
    ASSUME NEW x, GoodRow(x), x.ReviewStatus = "Approved", NEW status \in SupplierProcessingStatus
    PROVE  GoodRow(AfterSetStatus(x, status)) /\ Kept(x, AfterSetStatus(x, status))
  BY DEF AfterSetStatus, GoodRow, Kept, Got, Buyer

LEMMA MarkAbnormalGood ==
    ASSUME NEW x, GoodRow(x), x.EmailStatus = "Authorized"
    PROVE  GoodRow(AfterMarkAbnormal(x)) /\ Kept(x, AfterMarkAbnormal(x))
  BY DEF AfterMarkAbnormal, GoodRow, Kept, Got, Buyer, EmailAuthorizationStatus

LEMMA DeleteGood ==
    ASSUME NEW x, GoodRow(x)
    PROVE  GoodRow(AfterDelete(x)) /\ Kept(x, AfterDelete(x))
  BY DEF AfterDelete, GoodRow, Kept, Got, Buyer

----------------------------------------------------------------------------
(* Steps that only change what one request holds. *)

LEMMA RequestSteps ==
    ASSUME IInv, NEW q \in Requests, NEW r, Shape(r), Grounded(r),
           req' = [req EXCEPT ![q] = r], UNCHANGED <<vars, token>>
    PROVE  IInv'
  <1>1. \A p \in Requests : req'[p] = IF p = q THEN r ELSE req[p]
    BY DEF IInv
  <1>2. UNCHANGED <<cards, row, account, assignment, active, token>>
    BY DEF vars
  <1>3. TypeOK' /\ token' \in [Buyers -> Mailboxes \cup {None}] /\ RowsOK'
    BY <1>2 DEF IInv, TypeOK, RowsOK
  <1>4. req' \in [Requests -> Request]
    BY DEF IInv, Shape
  <1>5. ASSUME NEW p \in Requests PROVE (Shape(req[p]) /\ Grounded(req[p]))'
    <2>1. PICK s : s = req'[p]
      OBVIOUS
    <2>2. Shape(s) /\ Grounded(s)
      BY <1>1, <2>1 DEF IInv
    <2>3. Grounded(s)'
      BY <1>2, <2>2 DEF Grounded
    <2>4. QED
      BY <2>1, <2>2, <2>3 DEF Shape, Grounded
  <1>6. QED
    BY <1>3, <1>4, <1>5 DEF IInv

LEMMA IdleIs == Idle \in Request /\ Shape(Idle)
  <1>1. NoStatement \in AccountStatement /\ NoStatement \in AssignmentStatement
    BY DEF NoStatement, AccountStatement, AssignmentStatement, Updates
  <1>2. Idle \in Request
    BY <1>1, NoChangeIs DEF Idle, Request, Phase
  <1>3. QED
    BY <1>2 DEF Shape, Idle, AccountPhases, NoStatement, Updates

LEMMA IdleGrounded == ASSUME IInv PROVE Grounded(Idle)
  BY NoChangeIs DEF IInv, RowsOK, GoodRow, Grounded, Idle, NoStatement

(* A request that has nothing but the changed row of b in hand.            *)
LEMMA ChangingOK ==
    ASSUME IInv, NEW b \in cards, NEW y, GoodRow(y), Kept(row[b], y),
           NEW phase \in {"save", "account", "assignment"}
    PROVE  Shape(Changing(b, y, phase)) /\ Grounded(Changing(b, y, phase))
  <1>1. PICK ch : ch = Changes(row[b], y)
    OBVIOUS
  <1>2. PICK r : r = Changing(b, y, phase)
    OBVIOUS
  <1>3. b \in Buyers /\ GoodRow(row[b])
    BY DEF IInv, TypeOK, RowsOK
  <1>4. ch \in Change /\ GoodChange(ch, row[b])
    BY <1>1, <1>3, ChangesGood DEF Kept
  <1>5. r = [Idle EXCEPT !.phase = phase, !.buyer = b, !.changes[b] = ch]
    BY <1>1, <1>2 DEF Changing
  <1>6. /\ r \in Request
        /\ r.phase = phase /\ r.buyer = b /\ r.insert = {}
        /\ r.account = NoStatement /\ r.assignment = NoStatement
        /\ r.changes = [Idle.changes EXCEPT ![b] = ch]
    BY <1>3, <1>4, <1>5, IdleIs DEF Idle, Request, Phase
  <1>7. \A c \in Buyers : r.changes[c] = IF c = b THEN ch ELSE NoChange
    BY <1>6 DEF Idle
  <1>8. Shape(r)
    BY <1>3, <1>6 DEF Shape, AccountPhases, NoStatement, Updates
  <1>9. Grounded(r)
    BY <1>3, <1>4, <1>6, <1>7, NoChangeIs DEF IInv, RowsOK, GoodRow, Grounded, NoStatement
  <1>10. QED
    BY <1>2, <1>8, <1>9

LEMMA BeginChanging ==
    ASSUME IInv, NEW q \in Requests, NEW b \in cards, NEW y, GoodRow(y), Kept(row[b], y),
           NEW phase \in {"save", "account", "assignment"},
           req' = [req EXCEPT ![q] = Changing(b, y, phase)], UNCHANGED <<vars, token>>
    PROVE  IInv'
  BY ChangingOK, RequestSteps

LEMMA RowIsGood ==
    ASSUME IInv, NEW b \in cards
    PROVE  b \in Buyers /\ GoodRow(row[b])
  BY DEF IInv, TypeOK, RowsOK

LEMMA GenerateOK ==
    ASSUME IInv, NEW q \in Requests, NEW S \in SUBSET Buyers, NEW saleId \in Sales \cup {None},
           NEW autoApprove \in BOOLEAN, NEW now \in Times,
           BeginGenerate(q, S, saleId, autoApprove, now), UNCHANGED <<vars, token>>
    PROVE  IInv'
  <1>1. PICK card : card = NewCard(saleId, autoApprove, now)
    OBVIOUS
  <1> DEFINE ch == [b \in Buyers |-> IF b \in S THEN card ELSE NoChange]
             r == [Idle EXCEPT !.phase = "save", !.insert = S, !.changes = ch]
  <1>2. GoodRow(card) /\ card \in Buyer /\ card \in Change
    BY <1>1, NewCardGood, RowIsAChange DEF GoodRow
  <1>3. req' = [req EXCEPT ![q] = r]
    BY <1>1 DEF BeginGenerate, Begin
  <1>4. ch \in [Buyers -> Change]
    BY <1>2, NoChangeIs
  <1>5. /\ r \in Request
        /\ r.phase = "save" /\ r.buyer = None /\ r.insert = S /\ r.changes = ch
        /\ r.account = NoStatement /\ r.assignment = NoStatement
    BY <1>4, IdleIs DEF Idle, Request, Phase
  <1> HIDE DEF r
  <1>6. Shape(r)
    BY <1>2, <1>5 DEF Shape, AccountPhases, NoStatement, Updates
  <1>7. Grounded(r)
    BY <1>5, NoChangeIs, NullIsNoId DEF IInv, RowsOK, GoodRow, Grounded, NoStatement
  <1>8. QED
    BY <1>3, <1>6, <1>7, RequestSteps

LEMMA SendOK ==
    ASSUME IInv, NEW q \in Requests, NEW ids \in SUBSET Buyers, NEW saleId \in Sales \cup {None},
           NEW action \in AutoApproveAction, NEW now \in Times,
           BeginSend(q, ids, saleId, action, now), UNCHANGED <<vars, token>>
    PROVE  IInv'
  <1> DEFINE targets == {b \in ids \cap cards : IsSendTarget(row[b])}
             ch == [b \in Buyers |->
                       IF b \in targets
                       THEN Changes(row[b], AfterSend(row[b], saleId, action, now)) ELSE NoChange]
             r == [Idle EXCEPT !.phase = "save", !.changes = ch]
  <1>1. req' = [req EXCEPT ![q] = r]
    BY DEF BeginSend, Begin
  <1>2. ASSUME NEW b \in targets
        PROVE  /\ b \in cards
               /\ Changes(row[b], AfterSend(row[b], saleId, action, now)) \in Change
               /\ GoodChange(Changes(row[b], AfterSend(row[b], saleId, action, now)), row[b])
    <2>1. GoodRow(row[b]) /\ IsSendTarget(row[b])
      BY RowIsGood
    <2>2. Kept(row[b], row[b])
      BY DEF Kept
    <2>3. QED
      BY <2>1, <2>2, SendGood, ChangesGood
  <1>3. ch \in [Buyers -> Change]
    BY <1>2, NoChangeIs
  <1>4. \A b \in Buyers : GoodChange(ch[b], row[b]) /\ (b \notin cards => ch[b] = NoChange)
    BY <1>2, NoChangeIs DEF IInv, RowsOK, GoodRow
  <1> HIDE DEF ch
  <1>5. /\ r \in Request
        /\ r.phase = "save" /\ r.buyer = None /\ r.insert = {} /\ r.changes = ch
        /\ r.account = NoStatement /\ r.assignment = NoStatement
    BY <1>3, IdleIs DEF Idle, Request, Phase
  <1> HIDE DEF r
  <1>6. Shape(r)
    BY <1>5 DEF Shape, AccountPhases, NoStatement, Updates
  <1>7. Grounded(r)
    BY <1>4, <1>5 DEF Grounded, NoStatement
  <1>8. QED
    BY <1>1, <1>6, <1>7, RequestSteps

LEMMA CallbackBegins ==
    ASSUME IInv, NEW q \in Requests, NEW b \in Buyers, BeginCallback(q, b), UNCHANGED <<vars, token>>
    PROVE  IInv'
  <1> DEFINE r == [Idle EXCEPT !.phase = "provider", !.buyer = b, !.loaded = row[b]]
  <1>1. b \in cards /\ GoodRow(row[b]) /\ req' = [req EXCEPT ![q] = r]
    BY RowIsGood DEF BeginCallback, Present, Begin
  <1>2. /\ r \in Request
        /\ r.phase = "provider" /\ r.buyer = b /\ r.loaded = row[b] /\ r.insert = {}
        /\ r.changes = Idle.changes /\ r.account = NoStatement /\ r.assignment = NoStatement
    BY <1>1, IdleIs DEF Idle, Request, Phase, GoodRow
  <1> HIDE DEF r
  <1>3. Shape(r)
    BY <1>2 DEF Shape, NoStatement, Updates
  <1>4. Grounded(r)
    BY <1>1, <1>2, IdleGrounded DEF Grounded, Idle, NoStatement, Kept
  <1>5. QED
    BY <1>1, <1>3, <1>4, RequestSteps

(* A request that has a buyer, and nothing to write yet.                   *)
LEMMA WaitingOK ==
    ASSUME IInv, NEW r \in Request, r.phase \in {"supplier", "existing", "fetch"},
           r.buyer \in cards, r.insert = {}, r.changes = Idle.changes,
           r.account = NoStatement, r.assignment.op = "none"
    PROVE  Shape(r) /\ Grounded(r)
  <1>1. r.buyer \in Buyers
    BY RowIsGood
  <1>2. Shape(r)
    BY <1>1 DEF Shape, NoStatement, Updates
  <1>3. Grounded(r)
    BY IdleGrounded DEF Grounded, Idle, NoStatement
  <1>4. QED
    BY <1>2, <1>3

LEMMA CardKeysBegin ==
    ASSUME IInv, NEW q \in Requests, BeginCardKeys(q), UNCHANGED <<vars, token>>
    PROVE  IInv'
  BY GenerateOK, SendOK DEF BeginCardKeys

LEMMA ByBuyerBegins ==
    ASSUME IInv, NEW q \in Requests, NEW b \in Buyers, BeginByBuyer(q, b), UNCHANGED <<vars, token>>
    PROVE  IInv'
  <1>1. CASE BeginVerify(q, b)
    BY <1>1, RowIsGood, VerifyGood, BeginChanging DEF BeginVerify, Begin, Present
  <1>2. CASE BeginChangeEmail(q, b)
    <2>1. b \in cards /\ GoodRow(row[b]) /\ (row[b].Stage # "NotSent" \/ Got(row[b]))
      BY <1>2, RowIsGood DEF BeginChangeEmail, Present, ResolveBuyerMailAction, Got
    <2>2. QED
      BY <1>2, <2>1, ChangeEmailGood, BeginChanging DEF BeginChangeEmail, Begin
  <1>3. CASE BeginClearAuth(q, b)
    <2>1. b \in cards /\ GoodRow(row[b]) /\ (row[b].Stage # "NotSent" \/ Got(row[b]))
      BY <1>3, RowIsGood DEF BeginClearAuth, Present, ResolveBuyerMailAction, Got
    <2>2. QED
      BY <1>3, <2>1, ClearAuthGood, BeginChanging DEF BeginClearAuth, Begin
  <1>4. CASE BeginCallback(q, b)
    BY <1>4, CallbackBegins
  <1>5. QED
    BY <1>1, <1>2, <1>3, <1>4 DEF BeginByBuyer

LEMMA DeleteOK ==
    ASSUME IInv, NEW q \in Requests, NEW b \in cards, UNCHANGED <<vars, token>>,
           Begin(q, Changing(b, AfterDelete(row[b]), "save"))
    PROVE  IInv'
  BY RowIsGood, DeleteGood, BeginChanging DEF Begin

LEMMA StatusOK ==
    ASSUME IInv, NEW q \in Requests, NEW b \in cards, NEW status \in SupplierProcessingStatus,
           row[b].ReviewStatus = "Approved", UNCHANGED <<vars, token>>,
           Begin(q, Changing(b, AfterSetStatus(row[b], status), "save"))
    PROVE  IInv'
  BY RowIsGood, SetStatusGood, BeginChanging DEF Begin

LEMMA ByAdminBegins ==
    ASSUME IInv, NEW q \in Requests, NEW b \in Buyers, BeginByAdmin(q, b), UNCHANGED <<vars, token>>
    PROVE  IInv'
  <1>1. CASE BeginDelete(q, b)
    BY <1>1, DeleteOK DEF BeginDelete, Present
  <1>2. ASSUME NEW decision \in {"Approved", "Rejected"}, BeginReview(q, b, decision)
        PROVE  IInv'
    BY <1>2, RowIsGood, ReviewGood, BeginChanging DEF BeginReview, Begin
  <1>3. ASSUME NEW s \in Suppliers \cup {None}, BeginAssignSupplier(q, b, s)
        PROVE  IInv'
    <2> DEFINE phase == IF s = None THEN "existing" ELSE "supplier"
               r == [Idle EXCEPT !.phase = phase, !.buyer = b, !.assignment.value = s]
    <2>1. b \in cards /\ req' = [req EXCEPT ![q] = r]
      BY <1>3 DEF BeginAssignSupplier, Present, Begin
    <2>2. /\ r \in Request
          /\ r.phase = phase /\ r.buyer = b /\ r.insert = {} /\ r.changes = Idle.changes
          /\ r.account = NoStatement /\ r.assignment.op = "none"
      <3>1. PICK stmt : stmt = [NoStatement EXCEPT !.value = s]
        OBVIOUS
      <3>2. stmt \in AssignmentStatement /\ stmt.op = "none"
        BY <3>1 DEF NoStatement, AccountStatement, AssignmentStatement, Updates
      <3>3. r = [Idle EXCEPT !.phase = phase, !.buyer = b, !.assignment = stmt]
        BY <3>1 DEF Idle
      <3>4. Idle \in Request /\ phase \in Phase
        BY IdleIs DEF Phase
      <3> HIDE DEF phase
      <3>5. r \in Request
        BY <3>2, <3>3, <3>4 DEF Request
      <3>6. QED
        BY <3>2, <3>3, <3>5 DEF Idle
    <2>3. Shape(r) /\ Grounded(r)
      BY <2>1, <2>2, WaitingOK
    <2>4. QED
      BY <2>1, <2>3, RequestSteps
  <1>4. ASSUME NEW status \in SupplierProcessingStatus, BeginAdminSetStatus(q, b, status)
        PROVE  IInv'
    BY <1>4, StatusOK DEF BeginAdminSetStatus, CanAdminSetStatus
  <1>5. QED
    BY <1>1, <1>2, <1>3, <1>4 DEF BeginByAdmin

LEMMA ByOthersBegins ==
    ASSUME IInv, NEW q \in Requests, NEW b \in Buyers, BeginByOthers(q, b), UNCHANGED <<vars, token>>
    PROVE  IInv'
  <1>1. ASSUME NEW saleId \in Sales, BeginSalesDelete(q, b, saleId)
        PROVE  IInv'
    BY <1>1, DeleteOK DEF BeginSalesDelete
  <1>2. ASSUME NEW s \in Suppliers, NEW status \in SupplierProcessingStatus,
               BeginSupplierSetStatus(q, b, s, status)
        PROVE  IInv'
    BY <1>2, StatusOK DEF BeginSupplierSetStatus, CanSupplierSetStatus, CanSupplierViewBuyer
  <1>3. CASE BeginPoll(q, b)
    <2> DEFINE r == [Idle EXCEPT !.phase = "fetch", !.buyer = b]
    <2>1. b \in cards /\ req' = [req EXCEPT ![q] = r]
      BY <1>3 DEF BeginPoll, Begin
    <2>2. /\ r \in Request
          /\ r.phase = "fetch" /\ r.buyer = b /\ r.insert = {} /\ r.changes = Idle.changes
          /\ r.account = NoStatement /\ r.assignment.op = "none"
      BY <2>1, IdleIs DEF Idle, Request, Phase, NoStatement
    <2>3. Shape(r) /\ Grounded(r)
      BY <2>1, <2>2, WaitingOK
    <2>4. QED
      BY <2>1, <2>3, RequestSteps
  <1>4. QED
    BY <1>1, <1>2, <1>3 DEF BeginByOthers

LEMMA BeginOK == ASSUME IInv, NEW q \in Requests, BeginRequest(q) PROVE IInv'
  BY CardKeysBegin, ByBuyerBegins, ByAdminBegins, ByOthersBegins DEF BeginRequest

----------------------------------------------------------------------------
(* Steps of a request that runs, without the save. *)

LEMMA RequestIs ==
    ASSUME IInv, NEW q \in Requests
    PROVE  req[q] \in Request /\ Shape(req[q]) /\ Grounded(req[q])
  BY DEF IInv

LEMMA ReadAccountOK ==
    ASSUME IInv, NEW q \in Requests, ReadAccount(q), UNCHANGED <<vars, token>>
    PROVE  IInv'
  <1>1. PICK old : old = req[q]
    OBVIOUS
  <1>2. PICK op \in {"none", "delete"} :
            req' = [req EXCEPT ![q] = [old EXCEPT !.phase = "save", !.account.op = op]]
    BY <1>1 DEF ReadAccount, Continue
  <1> DEFINE r == [old EXCEPT !.phase = "save", !.account.op = op]
  <1>3. /\ old \in Request /\ Shape(old) /\ Grounded(old)
        /\ old.phase = "account"
    BY <1>1, RequestIs DEF ReadAccount, Continue
  <1>4. /\ r \in Request
        /\ r.phase = "save" /\ r.buyer = old.buyer /\ r.insert = old.insert
        /\ r.changes = old.changes /\ r.assignment = old.assignment /\ r.account.op = op
    BY <1>3 DEF Request, Phase, AccountStatement, AssignmentStatement, Updates
  <1> HIDE DEF r
  <1>5. Shape(r)
    BY <1>3, <1>4 DEF Shape, AccountPhases, Updates
  <1>6. Grounded(r)
    BY <1>3, <1>4 DEF Grounded
  <1>7. QED
    BY <1>2, <1>5, <1>6, RequestSteps DEF r

LEMMA ReadAssignmentOK ==
    ASSUME IInv, NEW q \in Requests, ReadAssignment(q), UNCHANGED <<vars, token>>
    PROVE  IInv'
  <1>1. PICK old : old = req[q]
    OBVIOUS
  <1>2. PICK phase \in {"suppliers", "save"} :
            req' = [req EXCEPT ![q] = [old EXCEPT !.phase = phase]]
    BY <1>1 DEF ReadAssignment, Continue
  <1> DEFINE r == [old EXCEPT !.phase = phase]
  <1>3. /\ old \in Request /\ Shape(old) /\ Grounded(old)
        /\ old.phase = "assignment"
    BY <1>1, RequestIs DEF ReadAssignment, Continue
  <1>4. /\ r \in Request
        /\ r.phase = phase /\ r.buyer = old.buyer /\ r.insert = old.insert
        /\ r.changes = old.changes /\ r.assignment = old.assignment /\ r.account = old.account
    BY <1>3 DEF Request, Phase
  <1> HIDE DEF r
  <1>5. Shape(r)
    BY <1>3, <1>4 DEF Shape, AccountPhases
  <1>6. Grounded(r)
    BY <1>3, <1>4 DEF Grounded
  <1>7. QED
    BY <1>2, <1>5, <1>6, RequestSteps DEF r

LEMMA ReadSuppliersOK ==
    ASSUME IInv, NEW q \in Requests, ReadSuppliers(q), UNCHANGED <<vars, token>>
    PROVE  IInv'
  <1>1. PICK old : old = req[q]
    OBVIOUS
  <1>2. PICK stmt \in AssignmentStatement :
            /\ stmt.op \in {"none", "insert"}
            /\ req' = [req EXCEPT ![q] = [old EXCEPT !.phase = "save", !.assignment = stmt]]
    BY <1>1 DEF ReadSuppliers, Continue, NoStatement, AccountStatement, AssignmentStatement, Updates
  <1> DEFINE r == [old EXCEPT !.phase = "save", !.assignment = stmt]
  <1>3. /\ old \in Request /\ Shape(old) /\ Grounded(old)
        /\ old.phase = "suppliers"
    BY <1>1, RequestIs DEF ReadSuppliers, Continue
  <1>4. /\ r \in Request
        /\ r.phase = "save" /\ r.buyer = old.buyer /\ r.insert = old.insert
        /\ r.changes = old.changes /\ r.assignment = stmt /\ r.account = old.account
    BY <1>3 DEF Request, Phase
  <1> HIDE DEF r
  <1>5. Shape(r)
    BY <1>2, <1>3, <1>4 DEF Shape, AccountPhases
  <1>6. Grounded(r)
    BY <1>3, <1>4 DEF Grounded
  <1>7. QED
    BY <1>2, <1>5, <1>6, RequestSteps DEF r

LEMMA IdleSteps ==
    ASSUME IInv, NEW q \in Requests, req' = [req EXCEPT ![q] = Idle], UNCHANGED <<vars, token>>
    PROVE  IInv'
  BY IdleIs, IdleGrounded, RequestSteps

LEMMA ReadSupplierOK ==
    ASSUME IInv, NEW q \in Requests, ReadSupplier(q), UNCHANGED <<vars, token>>
    PROVE  IInv'
  <1>1. PICK old : old = req[q]
    OBVIOUS
  <1> DEFINE r == [old EXCEPT !.phase = "existing"]
  <1>2. req' = [req EXCEPT ![q] = r] \/ req' = [req EXCEPT ![q] = Idle]
    BY <1>1 DEF ReadSupplier, Continue
  <1>3. /\ old \in Request /\ Shape(old) /\ Grounded(old)
        /\ old.phase = "supplier"
    BY <1>1, RequestIs DEF ReadSupplier, Continue
  <1>4. /\ r \in Request
        /\ r.phase = "existing" /\ r.buyer = old.buyer /\ r.insert = old.insert
        /\ r.changes = old.changes /\ r.assignment = old.assignment /\ r.account = old.account
    BY <1>3 DEF Request, Phase
  <1> HIDE DEF r
  <1>5. Shape(r)
    BY <1>3, <1>4 DEF Shape, AccountPhases
  <1>6. Grounded(r)
    BY <1>3, <1>4 DEF Grounded
  <1>7. QED
    BY <1>2, <1>5, <1>6, RequestSteps, IdleSteps

LEMMA ReadExistingAssignmentOK ==
    ASSUME IInv, NEW q \in Requests, ReadExistingAssignment(q), UNCHANGED <<vars, token>>
    PROVE  IInv'
  <1>1. PICK old : old = req[q]
    OBVIOUS
  <1>2. \/ \E op \in {"insert", "delete", "update"} :
               req' = [req EXCEPT ![q] = [old EXCEPT !.phase = "save", !.assignment.op = op]]
        \/ req' = [req EXCEPT ![q] = Idle]
    BY <1>1 DEF ReadExistingAssignment, Continue
  <1>3. /\ old \in Request /\ Shape(old) /\ Grounded(old)
        /\ old.phase = "existing"
    BY <1>1, RequestIs DEF ReadExistingAssignment, Continue
  <1>4. ASSUME NEW op \in {"insert", "delete", "update"},
               req' = [req EXCEPT ![q] = [old EXCEPT !.phase = "save", !.assignment.op = op]]
        PROVE  IInv'
    <2> DEFINE r == [old EXCEPT !.phase = "save", !.assignment.op = op]
    <2>1. /\ r \in Request
          /\ r.phase = "save" /\ r.buyer = old.buyer /\ r.insert = old.insert
          /\ r.changes = old.changes /\ r.account = old.account
      BY <1>3 DEF Request, Phase, AccountStatement, AssignmentStatement, Updates
    <2> HIDE DEF r
    <2>2. Shape(r)
      BY <1>3, <2>1 DEF Shape, AccountPhases
    <2>3. Grounded(r)
      BY <1>3, <2>1 DEF Grounded
    <2>4. QED
      BY <1>4, <2>2, <2>3, RequestSteps DEF r
  <1>5. QED
    BY <1>2, <1>4, IdleSteps

LEMMA FetchRefusedOK ==
    ASSUME IInv, NEW q \in Requests, FetchRefused(q), UNCHANGED <<vars, token>>
    PROVE  IInv'
  <1>1. PICK b : b = req[q].buyer
    OBVIOUS
  <1>2. b \in Buyers /\ b \in cards
    BY <1>1, RequestIs, NullIsNoId DEF FetchRefused, Continue, Shape, AccountPhases, Grounded
  <1>3. CASE row[b].EmailStatus = "Authorized"
    BY <1>1, <1>2, <1>3, RowIsGood, MarkAbnormalGood, BeginChanging DEF FetchRefused, Continue
  <1>4. CASE row[b].EmailStatus # "Authorized"
    BY <1>1, <1>4, IdleSteps DEF FetchRefused, Continue
  <1>5. QED
    BY <1>3, <1>4

(* The statement of a callback leaves the mailbox the provider answered     *)
(* with, if the row still is as the callback read it.                      *)
LEMMA BindingBinds ==
    ASSUME NEW existing \in Mailboxes \cup {None}, NEW m \in Mailboxes, NEW stmt,
           stmt = [op |-> Binding(existing, m), value |-> m]
    PROVE  /\ stmt \in AccountStatement
           /\ stmt.op \in {"insert"} \cup Updates
           /\ stmt.op = "refresh" => existing = m
           /\ Applied(stmt, existing) = m
  <1>1. m \in Providers \X Addresses /\ m # None
    BY MailboxesArePairs, NullIsNoId
  <1>2. CASE existing \in {None, m}
    BY <1>1, <1>2 DEF Binding, Updates, AccountStatement, Applied
  <1>3. CASE existing \notin {None, m}
    <2>1. existing \in Providers \X Addresses
      BY <1>3, MailboxesArePairs
    <2>2. CASE existing[1] = m[1]
      <3>1. stmt.op = "updateEmail"
        BY <1>1, <1>3, <2>1, <2>2 DEF Binding
      <3>2. QED
        BY <1>1, <2>1, <2>2, <3>1 DEF Updates, AccountStatement, Applied
    <2>3. CASE existing[1] # m[1] /\ existing[2] = m[2]
      <3>1. stmt.op = "updateProvider"
        BY <1>1, <1>3, <2>1, <2>3 DEF Binding
      <3>2. QED
        BY <1>1, <2>1, <2>3, <3>1 DEF Updates, AccountStatement, Applied
    <2>4. CASE existing[1] # m[1] /\ existing[2] # m[2]
      <3>1. stmt.op = "update"
        BY <1>1, <1>3, <2>1, <2>4 DEF Binding
      <3>2. QED
        BY <3>1 DEF Updates, AccountStatement, Applied
    <2>5. QED
      BY <2>2, <2>3, <2>4
  <1>4. QED
    BY <1>2, <1>3

LEMMA CompleteAuthorizationOK ==
    ASSUME IInv, NEW q \in Requests, NEW m \in Mailboxes, NEW now \in Times,
           CompleteAuthorization(q, m, now), UNCHANGED <<vars, token>>
    PROVE  IInv'
  <1>1. PICK b : b = req[q].buyer
    OBVIOUS
  <1>2. PICK x : x = req[q].loaded
    OBVIOUS
  <1>3. (account[b] # m) \in BOOLEAN
    OBVIOUS
  <1>4. PICK y : y = AfterCallback(x, account[b] # m, now)
    OBVIOUS
  <1>5. PICK ch : ch = Changes(x, y)
    OBVIOUS
  <1>6. /\ b \in Buyers /\ b \in cards /\ GoodRow(x) /\ Kept(x, row[b]) /\ GoodRow(row[b])
        /\ req[q].phase = "provider"
    <2>1. req[q].phase = "provider" /\ Shape(req[q]) /\ Grounded(req[q])
      BY RequestIs DEF CompleteAuthorization, Continue
    <2>2. QED
      BY <1>1, <1>2, <2>1, RowIsGood, NullIsNoId DEF Shape, AccountPhases, Grounded
  <1>7. GoodRow(y) /\ Kept(x, y) /\ y.CardUsedAt # None
    BY <1>3, <1>4, <1>6, CallbackGood
  <1>8. ch \in Change /\ GoodChange(ch, row[b])
    BY <1>5, <1>6, <1>7, ChangesGood
  <1>9. row[b].CardUsedAt # None \/ ch.CardUsedAt # Same
    <2>1. ch.CardUsedAt = IF y.CardUsedAt = x.CardUsedAt THEN Same ELSE y.CardUsedAt
      BY <1>5, <1>6, <1>7, ChangesAre DEF GoodRow
    <2>2. y.CardUsedAt # Same
      BY <1>7, SameIsNoValue DEF GoodRow, Buyer
    <2>3. QED
      BY <1>6, <1>7, <2>1, <2>2 DEF Kept
  <1>10. PICK op : op = Binding(account[b], m)
    OBVIOUS
  <1>11. PICK phase : phase = IF account[b] # m /\ x.AutoApprove THEN "assignment" ELSE "save"
    OBVIOUS
  <1>12. op \in {"insert"} \cup Updates /\ phase \in {"assignment", "save"}
    BY <1>10, <1>11 DEF Binding, Updates
  <1>13. \/ req' = [req EXCEPT ![q] = [Idle EXCEPT !.phase = phase, !.buyer = b, !.changes[b] = ch,
                                                  !.account = [op |-> op, value |-> m]]]
         \/ req' = [req EXCEPT ![q] = Idle]
    BY <1>1, <1>2, <1>4, <1>5, <1>10, <1>11 DEF CompleteAuthorization, Continue
  <1>14. ASSUME req' = [req EXCEPT ![q] = [Idle EXCEPT !.phase = phase, !.buyer = b, !.changes[b] = ch,
                                                       !.account = [op |-> op, value |-> m]]]
         PROVE  IInv'
    <2> DEFINE r == [Idle EXCEPT !.phase = phase, !.buyer = b, !.changes[b] = ch,
                                 !.account = [op |-> op, value |-> m]]
    <2>1. /\ r \in Request
          /\ r.phase = phase /\ r.buyer = b /\ r.insert = {}
          /\ r.changes = [Idle.changes EXCEPT ![b] = ch]
          /\ r.account = [op |-> op, value |-> m] /\ r.assignment = NoStatement
      BY <1>6, <1>8, <1>12, IdleIs DEF Idle, Request, Phase, AccountStatement, AssignmentStatement, Updates
    <2> HIDE DEF r
    <2>2. \A c \in Buyers : r.changes[c] = IF c = b THEN ch ELSE NoChange
      BY <2>1 DEF Idle
    <2>3. Shape(r)
      BY <1>6, <1>12, <2>1 DEF Shape, AccountPhases, NoStatement
    <2>4. Grounded(r)
      BY <1>6, <1>8, <1>9, <1>12, <2>1, <2>2, NoChangeIs DEF IInv, RowsOK, GoodRow, Grounded
    <2>5. QED
      BY <1>14, <2>3, <2>4, RequestSteps DEF r
  <1>15. QED
    BY <1>13, <1>14, IdleSteps

----------------------------------------------------------------------------
(* The save. *)

RowsKept ==
    /\ cards \subseteq cards'
    /\ \A b \in Buyers : Kept(row[b], row'[b])

LEMMA GroundedStays ==
    ASSUME IInv, RowsKept, NEW r, Shape(r), Grounded(r)
    PROVE  Grounded(r)'
  <1>1. r.buyer \in cards => r.buyer \in Buyers
    BY DEF IInv, TypeOK
  <1>2. \A b \in Buyers \ r.insert : GoodChange(r.changes[b], row'[b])
    BY GoodChangeStays DEF Grounded, RowsKept
  <1>3. r.phase = "provider" => GoodRow(r.loaded) /\ Kept(r.loaded, row'[r.buyer])
    BY <1>1, KeptTwice DEF Grounded, Shape, AccountPhases, RowsKept
  <1>4. r.account.op \in {"insert", "update"} =>
            /\ r.buyer \in Buyers
            /\ row'[r.buyer].CardUsedAt # None \/ r.changes[r.buyer].CardUsedAt # Same
    BY DEF Grounded, RowsKept, Kept
  <1>5. QED
    BY <1>2, <1>3, <1>4 DEF Grounded, RowsKept

(* A lost statement is all that another request notices.                   *)
LEMMA LoseRowIs ==
    ASSUME NEW r \in Request, NEW b, NEW table \in {"account", "assignment"}, NEW deleted \in BOOLEAN
    PROVE  LET s == LoseRow(r, b, table, deleted)
           IN  /\ s \in Request
               /\ s.phase = r.phase /\ s.buyer = r.buyer /\ s.loaded = r.loaded
               /\ s.insert = r.insert /\ s.changes = r.changes
               /\ s.account.op \in {r.account.op, "lost"} /\ s.account.value = r.account.value
               /\ s.assignment.op \in {r.assignment.op, "lost"}
               /\ r.account.op = "none" => s.account = r.account
               /\ r.assignment.op = "none" => s.assignment = r.assignment
  <1>1. CASE deleted /\ r.buyer = b /\ r[table].op \in Updates \cup {"delete"}
    <2>1. CASE table = "account"
      BY <1>1, <2>1 DEF LoseRow, Request, AccountStatement, AssignmentStatement, Updates
    <2>2. CASE table = "assignment"
      BY <1>1, <2>2 DEF LoseRow, Request, AccountStatement, AssignmentStatement, Updates
    <2>3. QED
      BY <2>1, <2>2
  <1>2. CASE ~(deleted /\ r.buyer = b /\ r[table].op \in Updates \cup {"delete"})
    BY <1>2 DEF LoseRow
  <1>3. QED
    BY <1>1, <1>2

LEMMA LoseRowsOK ==
    ASSUME NEW r, Shape(r), Grounded(r), NEW b, NEW d1 \in BOOLEAN, NEW d2 \in BOOLEAN
    PROVE  LET s == LoseRow(LoseRow(r, b, "account", d1), b, "assignment", d2)
           IN  Shape(s) /\ Grounded(s)
  <1>1. PICK t : t = LoseRow(r, b, "account", d1)
    OBVIOUS
  <1>2. PICK s : s = LoseRow(t, b, "assignment", d2)
    OBVIOUS
  <1>3. r \in Request
    BY DEF Shape
  <1>4. /\ t \in Request
        /\ t.phase = r.phase /\ t.buyer = r.buyer /\ t.loaded = r.loaded
        /\ t.insert = r.insert /\ t.changes = r.changes
        /\ t.account.op \in {r.account.op, "lost"} /\ t.account.value = r.account.value
        /\ t.assignment.op \in {r.assignment.op, "lost"}
        /\ r.account.op = "none" => t.account = r.account
        /\ r.assignment.op = "none" => t.assignment = r.assignment
    BY <1>1, <1>3, LoseRowIs
  <1>5. /\ s \in Request
        /\ s.phase = t.phase /\ s.buyer = t.buyer /\ s.loaded = t.loaded
        /\ s.insert = t.insert /\ s.changes = t.changes
        /\ s.account.op \in {t.account.op, "lost"} /\ s.account.value = t.account.value
        /\ s.assignment.op \in {t.assignment.op, "lost"}
        /\ t.account.op = "none" => s.account = t.account
        /\ t.assignment.op = "none" => s.assignment = t.assignment
    BY <1>2, <1>4, LoseRowIs
  <1>6. Shape(s)
    BY <1>4, <1>5 DEF Shape, NoStatement, Updates
  <1>7. Grounded(s)
    BY <1>4, <1>5 DEF Grounded
  <1>8. QED
    BY <1>1, <1>2, <1>6, <1>7

(* What a save leaves of the row of c.                                     *)
LEMMA SaveRows ==
    ASSUME IInv, NEW q \in Requests, SaveChanges(q)
    PROVE  /\ RowsKept
           /\ \A c \in Buyers : GoodRow(row'[c])
           /\ \A c \in Buyers \ cards' : Blank(row'[c])
           /\ cards' \subseteq Buyers
  <1>1. PICK r : r = req[q]
    OBVIOUS
  <1>2. /\ r \in Request /\ Shape(r) /\ Grounded(r)
        /\ r.insert \subseteq Buyers /\ r.changes \in [Buyers -> Change]
    BY <1>1, RequestIs DEF Request
  <1>3. /\ cards' = cards \cup r.insert /\ r.insert \cap cards = {}
        /\ \A c \in Buyers : row'[c] = Merge(row[c], r.changes[c])
    BY <1>1 DEF SaveChanges, CanSave
  <1>4. ASSUME NEW c \in Buyers
        PROVE  GoodRow(row'[c]) /\ Kept(row[c], row'[c])
    <2>1. GoodRow(row[c])
      BY DEF IInv, RowsOK
    <2>2. CASE c \in r.insert
      <3>1. row'[c] = r.changes[c] /\ GoodRow(r.changes[c])
        BY <1>2, <1>3, <2>1, <2>2, RowIsAChange DEF Shape, GoodRow
      <3>2. Blank(row[c])
        BY <1>3, <2>2 DEF IInv, RowsOK
      <3>3. QED
        BY <3>1, <3>2 DEF Blank, Kept
    <2>3. CASE c \notin r.insert
      <3>1. r.changes[c] \in Change /\ GoodChange(r.changes[c], row[c])
        BY <1>2, <2>3 DEF Grounded
      <3>2. QED
        BY <1>3, <2>1, <3>1, MergeGood
    <2>4. QED
      BY <2>2, <2>3
  <1>5. ASSUME NEW c \in Buyers \ cards'
        PROVE  Blank(row'[c])
    <2>1. c \notin cards /\ c \notin r.insert
      BY <1>3
    <2>2. r.changes[c] = NoChange /\ Blank(row[c]) /\ row[c] \in Buyer
      BY <1>2, <2>1 DEF Grounded, IInv, RowsOK, GoodRow
    <2>3. QED
      BY <1>3, <2>2, NoChangeIs
  <1>6. QED
    BY <1>2, <1>3, <1>4, <1>5 DEF RowsKept, IInv, TypeOK

LEMMA SaveAccounts ==
    ASSUME IInv, NEW q \in Requests, SaveChanges(q)
    PROVE  /\ \A c \in Buyers : account'[c] # None => row'[c].CardUsedAt # None
           /\ account' \in [Buyers -> Mailboxes \cup {None}]
           /\ token' \in [Buyers -> Mailboxes \cup {None}]
           /\ assignment' \in [Buyers -> Suppliers \cup {None}]
  <1>1. PICK r : r = req[q]
    OBVIOUS
  <1>2. /\ r \in Request /\ Shape(r) /\ Grounded(r)
        /\ r.changes \in [Buyers -> Change]
        /\ r.account \in AccountStatement /\ r.assignment \in AssignmentStatement
    BY <1>1, RequestIs DEF Request
  <1>3. /\ account \in [Buyers -> Mailboxes \cup {None}]
        /\ assignment \in [Buyers -> Suppliers \cup {None}]
        /\ token \in [Buyers -> Mailboxes \cup {None}]
        /\ r.account.op # "none" => Applicable(r.account, account[r.buyer])
    BY <1>1 DEF IInv, TypeOK, SaveChanges, CanSave
  <1>4. /\ account' = [c \in Buyers |-> IF c = r.buyer THEN Applied(r.account, account[c])
                                                      ELSE account[c]]
        /\ assignment' = [c \in Buyers |-> IF c = r.buyer THEN Applied(r.assignment, assignment[c])
                                                         ELSE assignment[c]]
        /\ token' = [c \in Buyers |-> IF c = r.buyer THEN TokenAfter(r.account, token[c])
                                                     ELSE token[c]]
        /\ \A c \in Buyers : row'[c] = Merge(row[c], r.changes[c])
    BY <1>1 DEF SaveChanges
  <1>5. ASSUME NEW c \in Buyers
        PROVE  /\ account'[c] \in Mailboxes \cup {None}
               /\ assignment'[c] \in Suppliers \cup {None}
               /\ token'[c] \in Mailboxes \cup {None}
    <2>1. assignment'[c] \in Suppliers \cup {None} /\ token'[c] \in Mailboxes \cup {None}
      BY <1>2, <1>3, <1>4 DEF Applied, TokenAfter, AccountStatement, AssignmentStatement, Updates
    <2>2. CASE c = r.buyer /\ r.account.op \in {"updateProvider", "updateEmail"}
      <3>1. account[c] # None /\ r.account.value \in Mailboxes
        BY <1>2, <1>3, <2>2 DEF Applicable, Shape, Updates
      <3>2. account[c] \in Providers \X Addresses /\ r.account.value \in Providers \X Addresses
        BY <1>3, <3>1, MailboxesArePairs
      <3>3. account'[c] \in Providers \X Addresses
        BY <1>4, <2>2, <3>2 DEF Applied
      <3>4. QED
        BY <2>1, <3>3, MailboxesArePairs
    <2>3. CASE ~(c = r.buyer /\ r.account.op \in {"updateProvider", "updateEmail"})
      BY <1>2, <1>3, <1>4, <2>1, <2>3 DEF Applied, AccountStatement, Updates
    <2>4. QED
      BY <2>2, <2>3
  <1>6. ASSUME NEW c \in Buyers, account'[c] # None
        PROVE  row'[c].CardUsedAt # None
    <2>1. CASE account[c] # None
      BY <2>1, SaveRows DEF IInv, RowsOK, RowsKept, Kept
    <2>2. CASE account[c] = None
      <3>1. c = r.buyer /\ r.account.op \in {"insert", "update"}
        BY <1>2, <1>3, <1>4, <1>6, <2>2 DEF Applied, Applicable, AccountStatement, Updates
      <3>2. /\ row[c].CardUsedAt # None \/ r.changes[c].CardUsedAt # Same
            /\ c \notin r.insert
        BY <1>2, <3>1 DEF Grounded
      <3>3. r.changes[c] \in Change /\ r.changes[c].CardUsedAt # None
        BY <1>2, <3>2 DEF Grounded, GoodChange
      <3>4. row[c] \in Buyer
        BY DEF IInv, RowsOK, GoodRow
      <3>5. QED
        BY <1>4, <3>2, <3>3, <3>4, MergeIs
    <2>3. QED
      BY <2>1, <2>2
  <1>7. QED
    BY <1>4, <1>5, <1>6

LEMMA SaveChangesOK == ASSUME IInv, NEW q \in Requests, SaveChanges(q) PROVE IInv'
  <1>1. RowsOK'
    BY SaveRows, SaveAccounts DEF RowsOK
  <1>2. TypeOK' /\ token' \in [Buyers -> Mailboxes \cup {None}]
    <2>1. row' = [c \in Buyers |-> Merge(row[c], req[q].changes[c])] /\ active' = active
      BY DEF SaveChanges
    <2>2. row' \in [Buyers -> Buyer]
      BY <2>1, SaveRows DEF GoodRow
    <2>3. QED
      BY <2>1, <2>2, SaveRows, SaveAccounts DEF IInv, TypeOK
  <1>3. ASSUME NEW p \in Requests
        PROVE  Shape(req'[p]) /\ Grounded(req'[p])
    <2>1. CASE p = q
      BY <2>1, IdleIs, IdleGrounded DEF SaveChanges
    <2>2. CASE p # q
      BY <2>2, RequestIs, LoseRowsOK DEF SaveChanges
    <2>3. QED
      BY <2>1, <2>2
  <1>4. req' \in [Requests -> Request]
    BY <1>3 DEF SaveChanges, Shape
  <1>5. ASSUME NEW p \in Requests
        PROVE  (Shape(req[p]) /\ Grounded(req[p]))'
    <2>1. PICK s : s = req'[p]
      OBVIOUS
    <2>2. Grounded(s)'
      BY <1>3, <2>1, SaveRows, GroundedStays
    <2>3. QED
      BY <1>3, <2>1, <2>2 DEF Shape, Grounded
  <1>6. QED
    BY <1>1, <1>2, <1>4, <1>5 DEF IInv

----------------------------------------------------------------------------
LEMMA InitOK == ASSUME InitRequests PROVE IInv
  <1>1. PICK card : card = NewCard(None, FALSE, None)
    OBVIOUS
  <1>2. GoodRow(card) /\ Blank(card)
    BY <1>1, NewCardGood
  <1>3. /\ cards = {} /\ active = Suppliers
        /\ row = [b \in Buyers |-> card]
        /\ account = [b \in Buyers |-> None] /\ assignment = [b \in Buyers |-> None]
        /\ token = [b \in Buyers |-> None] /\ req = [q \in Requests |-> Idle]
    BY <1>1 DEF InitRequests, Init
  <1>4. TypeOK /\ token \in [Buyers -> Mailboxes \cup {None}]
    BY <1>2, <1>3 DEF TypeOK, GoodRow
  <1>5. RowsOK
    BY <1>2, <1>3 DEF RowsOK
  <1>6. Grounded(Idle)
    BY <1>2, <1>3, NoChangeIs DEF Grounded, Idle, NoStatement, GoodRow
  <1>7. QED
    BY <1>3, <1>4, <1>5, <1>6, IdleIs DEF IInv

LEMMA ProceedOK == ASSUME IInv, NEW q \in Requests, Proceed(q) PROVE IInv'
  BY ReadAccountOK, ReadAssignmentOK, ReadSuppliersOK, ReadSupplierOK, ReadExistingAssignmentOK,
     SaveChangesOK, IdleSteps DEF Proceed, SaveFails, Continue

LEMMA ToggleOK == ASSUME IInv, NEW q \in Requests, ToggleSupplier(q) PROVE IInv'
  <1>1. /\ UNCHANGED <<cards, row, account, assignment, token, req>>
        /\ active' \subseteq active \cup Suppliers
    BY DEF ToggleSupplier, SetActive
  <1>2. TypeOK' /\ RowsOK'
    BY <1>1 DEF IInv, TypeOK, RowsOK
  <1>3. QED
    BY <1>1, <1>2 DEF IInv, Shape, Grounded

LEMMA StutterOK == ASSUME IInv, UNCHANGED allVars PROVE IInv'
  BY DEF allVars, vars, IInv, TypeOK, RowsOK, Shape, Grounded

LEMMA NextOK == ASSUME IInv, [NextRequests]_allVars PROVE IInv'
  BY BeginOK, ProceedOK, CompleteAuthorizationOK, FetchRefusedOK, IdleSteps, ToggleOK, StutterOK
     DEF NextRequests, ProviderAnswers, Abort

(* The inductive invariant: rows are good, and every pending change is good *)
(* for its row as it is now.                                               *)
THEOREM Invariance == SpecRequests => []IInv
  BY InitOK, NextOK, PTL DEF SpecRequests

(* Rows, statements and pending changes keep their types.                  *)
THEOREM TypeCorrect == SpecRequests => []TypeOKRequests
  <1>1. IInv => TypeOKRequests
    <2> SUFFICES ASSUME IInv PROVE TypeOKRequests
      OBVIOUS
    <2>1. ASSUME NEW q \in Requests, req[q].phase = "provider"
          PROVE  req[q].loaded \in Buyer
      BY <2>1, RequestIs DEF Grounded, GoodRow
    <2>2. QED
      BY <2>1 DEF IInv, TypeOKRequests, Shape, Request
  <1>2. QED
    BY <1>1, Invariance, PTL

(* Nothing submitted, reviewed, processed, authorized or bound lacks its    *)
(* first-use date, whatever handlers overlap.                              *)
THEOREM Used == SpecRequests => []UsedBeforeReview
  <1>1. IInv => UsedBeforeReview
    <2> SUFFICES ASSUME IInv, NEW b \in Buyers
                 PROVE  (\/ row[b].Stage = "Submitted"
                         \/ row[b].ReviewStatus # "Pending"
                         \/ row[b].SupplierStatus # "Unprocessed"
                         \/ row[b].EmailStatus # "NotAuthorized"
                         \/ account[b] # None) => row[b].CardUsedAt # None
      BY DEF UsedBeforeReview
    <2>1. GoodRow(row[b]) /\ (account[b] # None => row[b].CardUsedAt # None)
      BY DEF IInv, RowsOK
    <2>2. QED
      BY <2>1 DEF GoodRow, Got, Buyer, BuyerStage, EmailAuthorizationStatus, ReviewStatus,
                  SupplierProcessingStatus
  <1>2. QED
    BY <1>1, Invariance, PTL

(* Slow saves neither return a card to stock nor leave one in stock that    *)
(* was sent, given away or used.                                           *)
THEOREM Stock == SpecRequests => []StockIsFresh
  <1>1. IInv => StockIsFresh
    BY DEF IInv, RowsOK, GoodRow, StockIsFresh
  <1>2. QED
    BY <1>1, Invariance, PTL

(* No save undoes a card's place, its deletion, its sending or its use,     *)
(* however old the row it was computed from.                               *)
THEOREM Facts == SpecRequests => FactsAreKept
  <1>1. ASSUME IInv, [NextRequests]_allVars
        PROVE  RowsKept
    <2>1. UNCHANGED <<cards, row>> => RowsKept
      BY DEF RowsKept, Kept
    <2>2. UNCHANGED <<cards, row>> \/ \E q \in Requests : SaveChanges(q)
      BY <1>1 DEF NextRequests, allVars, vars, BeginRequest, Proceed, SaveFails, ProviderAnswers,
                  Abort, ToggleSupplier, SetActive
    <2>3. QED
      BY <1>1, <2>1, <2>2, SaveRows
  <1>2. IInv /\ RowsKept => \A b \in cards :
            /\ b \in cards'
            /\ row[b].IsDeleted => row'[b].IsDeleted
            /\ row[b].Stage # "NotSent" => row'[b].Stage # "NotSent"
            /\ row[b].CardSentAt # None => row'[b].CardSentAt # None
            /\ row[b].CardUsedAt # None => row'[b].CardUsedAt # None
    BY DEF RowsKept, Kept, IInv, TypeOK
  <1>3. QED
    BY <1>1, <1>2, Invariance, PTL DEF SpecRequests, FactsAreKept

(* Only the save of an AssignSupplier replaces or removes an assignment.    *)
THEOREM Overrides == SpecRequests => AutoAssignNeverOverrides
  <1>1. ASSUME IInv, [NextRequests]_allVars, NEW b \in Buyers,
               assignment[b] # None, assignment'[b] # assignment[b]
        PROVE  \E q \in Requests : req[q].buyer = b /\ SavesAssignSupplier(q)
    <2>1. PICK q \in Requests : SaveChanges(q)
      BY <1>1 DEF NextRequests, allVars, vars, BeginRequest, Proceed, SaveFails, ProviderAnswers,
                  Abort, ToggleSupplier, SetActive
    <2>2. PICK r : r = req[q]
      OBVIOUS
    <2>3. /\ r.phase = "save" /\ r.assignment \in AssignmentStatement /\ Shape(r)
          /\ r.assignment.op # "none" => Applicable(r.assignment, assignment[r.buyer])
          /\ assignment'[b] = IF b = r.buyer THEN Applied(r.assignment, assignment[b])
                                             ELSE assignment[b]
          /\ req'[q] = Idle
      BY <1>1, <2>1, <2>2, RequestIs DEF SaveChanges, CanSave, Request
    <2>4. r.buyer = b /\ r.assignment.op \in {"update", "delete"}
      BY <1>1, <2>3 DEF Applied, Applicable, AccountStatement, AssignmentStatement, Updates
    <2>5. QED
      BY <2>2, <2>3, <2>4 DEF SavesAssignSupplier, Shape
  <1>2. IInv /\ [NextRequests]_allVars => \A b \in Buyers :
            assignment[b] # None /\ assignment'[b] # assignment[b]
            => \E q \in Requests : req[q].buyer = b /\ SavesAssignSupplier(q)
    BY <1>1
  <1>3. QED
    BY <1>2, Invariance, PTL DEF SpecRequests, AutoAssignNeverOverrides

(* A removal that saves its rows leaves no account behind: if the account   *)
(* it read is gone, its DELETE takes the save back.  A step that changes a  *)
(* row is a save that could be made (CanSave), and a request that ended in  *)
(* it is the one that saved, because no save idles another request.         *)
THEOREM WholeRemoval == SpecRequests => RemovalIsWhole
  <1>1. ASSUME IInv, [NextRequests]_allVars, NEW q \in Requests,
               req[q].phase = "save", req'[q] = Idle,
               req[q].account.op \in {"delete", "lost"}, row' # row
        PROVE  account'[req[q].buyer] = None
    <2>1. PICK p \in Requests : SaveChanges(p)
      BY <1>1 DEF NextRequests, allVars, vars, BeginRequest, Proceed, SaveFails, ProviderAnswers,
                  Abort, ToggleSupplier, SetActive
    <2>2. CASE p # q
      <3>1. PICK o \in Request : o = req[q]
        BY <1>1, RequestIs
      <3>2. PICK b : b = req[p].buyer
        OBVIOUS
      <3>3. PICK d1 \in BOOLEAN : d1 = (req[p].account.op = "delete")
        OBVIOUS
      <3>4. PICK d2 \in BOOLEAN : d2 = (req[p].assignment.op = "delete")
        OBVIOUS
      <3>5. PICK t : t = LoseRow(o, b, "account", d1)
        OBVIOUS
      <3>6. PICK s : s = LoseRow(t, b, "assignment", d2)
        OBVIOUS
      <3>7. req'[q] = s
        BY <2>1, <2>2, <3>1, <3>2, <3>3, <3>4, <3>5, <3>6 DEF SaveChanges
      <3>8. t \in Request /\ t.phase = o.phase
        BY <3>5, LoseRowIs
      <3>9. s.phase = t.phase
        BY <3>6, <3>8, LoseRowIs
      <3>10. QED
        BY <1>1, <3>1, <3>7, <3>8, <3>9 DEF Idle
    <2>3. CASE p = q
      <3>1. PICK r : r = req[q]
        OBVIOUS
      <3>2. /\ Shape(r) /\ Grounded(r) /\ r.account.op \in {"delete", "lost"}
            /\ Applicable(r.account, account[r.buyer])
            /\ account' = [c \in Buyers |-> IF c = r.buyer THEN Applied(r.account, account[c])
                                                          ELSE account[c]]
        BY <1>1, <2>1, <2>3, <3>1, RequestIs DEF SaveChanges, CanSave
      <3>3. r.account.op = "delete"
        BY <3>2 DEF Applicable
      <3>4. r.buyer \in Buyers
        BY <3>2, <3>3 DEF Shape
      <3>5. QED
        BY <3>1, <3>2, <3>3, <3>4 DEF Applied
    <2>4. QED
      BY <2>2, <2>3
  <1>2. IInv /\ [NextRequests]_allVars => \A q \in Requests :
            /\ req[q].phase = "save" /\ req'[q] = Idle
            /\ req[q].account.op \in {"delete", "lost"}
            /\ row' # row
            => account'[req[q].buyer] = None
    BY <1>1
  <1>3. QED
    BY <1>2, Invariance, PTL DEF SpecRequests, RemovalIsWhole

----------------------------------------------------------------------------
(* How a request ends: the reads, awaits and saves still before it, at most. *)
StepsLeft(phase) ==
    CASE phase = "idle" -> 0
      [] phase = "save" -> 1
      [] phase \in {"account", "existing", "suppliers", "fetch"} -> 2
      [] phase \in {"supplier", "assignment"} -> 3
      [] phase = "provider" -> 4

LEMMA Continued ==
    ASSUME IInv, NEW q \in Requests, NEW phase, NEW r, Continue(q, phase, r)
    PROVE  req[q].phase = phase /\ req'[q] = r
  BY DEF Continue, IInv

(* Every step of its own brings a request nearer to its end.               *)
LEMMA OwnSteps ==
    ASSUME IInv, NEW q \in Requests, Proceed(q) \/ ProviderAnswers(q)
    PROVE  StepsLeft(req'[q].phase) < StepsLeft(req[q].phase)
  <1> DEFINE Nearer == StepsLeft(req'[q].phase) < StepsLeft(req[q].phase)
  <1>1. PICK old : old = req[q]
    OBVIOUS
  <1>2. old \in Request
    BY <1>1, RequestIs
  <1>3. CASE ReadAccount(q)
    <2>1. PICK op, r : /\ r = [old EXCEPT !.phase = "save", !.account.op = op]
                       /\ Continue(q, "account", r)
      BY <1>1, <1>3, Zenon DEF ReadAccount
    <2>2. req[q].phase = "account" /\ req'[q].phase = "save"
      <3>1. r.phase = "save"
        BY <1>2, <2>1 DEF Request
      <3>2. QED
        BY <2>1, <3>1, Continued
    <2>3. QED
      BY <2>2 DEF StepsLeft
  <1>4. CASE ReadAssignment(q)
    <2>1. PICK phase \in {"suppliers", "save"} :
              Continue(q, "assignment", [old EXCEPT !.phase = phase])
      BY <1>1, <1>4 DEF ReadAssignment
    <2>2. req[q].phase = "assignment" /\ req'[q].phase = phase
      BY <1>2, <2>1, Continued DEF Request
    <2>3. QED
      BY <2>1, <2>2 DEF StepsLeft
  <1>5. CASE ReadSuppliers(q)
    <2>1. PICK stmt, r : /\ r = [old EXCEPT !.phase = "save", !.assignment = stmt]
                         /\ Continue(q, "suppliers", r)
      BY <1>1, <1>5, Zenon DEF ReadSuppliers
    <2>2. req[q].phase = "suppliers" /\ req'[q].phase = "save"
      <3>1. r.phase = "save"
        BY <1>2, <2>1 DEF Request
      <3>2. QED
        BY <2>1, <3>1, Continued
    <2>3. QED
      BY <2>2 DEF StepsLeft
  <1>6. CASE ReadSupplier(q)
    <2>1. \/ Continue(q, "supplier", [old EXCEPT !.phase = "existing"])
          \/ Continue(q, "supplier", Idle)
      BY <1>1, <1>6 DEF ReadSupplier
    <2>2. req[q].phase = "supplier" /\ req'[q].phase \in {"existing", "idle"}
      BY <1>2, <2>1, Continued DEF Request, Idle
    <2>3. QED
      BY <2>2 DEF StepsLeft
  <1>7. CASE ReadExistingAssignment(q)
    <2>1. PICK op, r : /\ r \in {Idle, [old EXCEPT !.phase = "save", !.assignment.op = op]}
                       /\ Continue(q, "existing", r)
      BY <1>1, <1>7 DEF ReadExistingAssignment
    <2>2. req[q].phase = "existing" /\ req'[q].phase \in {"save", "idle"}
      <3>1. CASE r = Idle
        BY <2>1, <3>1, Continued DEF Idle
      <3>2. CASE r = [old EXCEPT !.phase = "save", !.assignment.op = op]
        <4>1. r.phase = "save"
          BY <1>2, <3>2 DEF Request
        <4>2. QED
          BY <2>1, <4>1, Continued
      <3>3. QED
        BY <2>1, <3>1, <3>2
    <2>3. QED
      BY <2>2 DEF StepsLeft
  <1>8. CASE SaveChanges(q) \/ SaveFails(q)
    <2>1. req[q].phase = "save" /\ req'[q] = Idle
      BY <1>8, Continued DEF SaveChanges, SaveFails, IInv
    <2>2. QED
      BY <2>1 DEF StepsLeft, Idle
  <1>9. ASSUME NEW m \in Mailboxes, NEW now \in Times, CompleteAuthorization(q, m, now)
        PROVE  Nearer
    <2>1. PICK b : b = req[q].buyer
      OBVIOUS
    <2>2. PICK ch : ch = Changes(req[q].loaded,
                                 AfterCallback(req[q].loaded, account[b] # m, now))
      OBVIOUS
    <2>3. PICK stmt : stmt = [op |-> Binding(account[b], m), value |-> m]
      OBVIOUS
    <2>4. PICK phase \in {"assignment", "save"} :
              phase = IF account[b] # m /\ req[q].loaded.AutoApprove
                      THEN "assignment" ELSE "save"
      OBVIOUS
    <2>5. PICK r : r = [Idle EXCEPT !.phase = phase, !.buyer = b, !.changes[b] = ch,
                                    !.account = stmt]
      OBVIOUS
    <2>6. Continue(q, "provider", r) \/ Continue(q, "provider", Idle)
      BY <1>9, <2>1, <2>2, <2>3, <2>4, <2>5 DEF CompleteAuthorization
    <2>7. r.phase = phase
      BY <2>5 DEF Idle
    <2>8. req[q].phase = "provider" /\ req'[q].phase \in {"assignment", "save", "idle"}
      BY <2>6, <2>7, Continued DEF Idle
    <2>9. QED
      BY <2>8 DEF StepsLeft
  <1>10. CASE FetchRefused(q)
    <2>1. PICK b, y : \/ Continue(q, "fetch", Changing(b, y, "save"))
                      \/ Continue(q, "fetch", Idle)
      BY <1>10 DEF FetchRefused
    <2>2. Changing(b, y, "save").phase = "save"
      BY DEF Changing, Idle
    <2>3. req[q].phase = "fetch" /\ req'[q].phase \in {"save", "idle"}
      BY <2>1, <2>2, Continued DEF Idle
    <2>4. QED
      BY <2>3 DEF StepsLeft
  <1>11. QED
    BY <1>3, <1>4, <1>5, <1>6, <1>7, <1>8, <1>9, <1>10 DEF Proceed, ProviderAnswers

(* And no step of another request moves it, whatever that one deletes.     *)
LEMMA OthersSteps ==
    ASSUME IInv, NEW p \in Requests, NEW q \in Requests, p # q,
           \/ BeginRequest(p) \/ Proceed(p) \/ ProviderAnswers(p) \/ Abort(p)
           \/ ToggleSupplier(p)
    PROVE  req'[q].phase = req[q].phase
  <1>1. CASE SaveChanges(p)
    <2>1. PICK b, d1, d2 :
              /\ b = req[p].buyer
              /\ d1 = (req[p].account.op = "delete") /\ d2 = (req[p].assignment.op = "delete")
      OBVIOUS
    <2>2. d1 \in BOOLEAN /\ d2 \in BOOLEAN
      BY <2>1
    <2>3. req'[q] = LoseRow(LoseRow(req[q], b, "account", d1), b, "assignment", d2)
      BY <1>1, <2>1 DEF SaveChanges
    <2>4. PICK s : s = LoseRow(req[q], b, "account", d1)
      OBVIOUS
    <2>5. s \in Request /\ s.phase = req[q].phase
      BY <2>2, <2>4, RequestIs, LoseRowIs
    <2>6. LoseRow(s, b, "assignment", d2).phase = s.phase
      BY <2>2, <2>5, LoseRowIs
    <2>7. QED
      BY <2>3, <2>4, <2>5, <2>6
  <1>2. CASE BeginRequest(p)
    <2> USE DEF Begin, IInv
    <2>1. CASE BeginCardKeys(p)
      BY <2>1 DEF BeginCardKeys, BeginGenerate, BeginSend
    <2>2. ASSUME NEW b \in Buyers, BeginByBuyer(p, b) PROVE req'[q] = req[q]
      BY <2>2 DEF BeginByBuyer, BeginVerify, BeginChangeEmail, BeginClearAuth, BeginCallback
    <2>3. ASSUME NEW b \in Buyers, BeginByAdmin(p, b) PROVE req'[q] = req[q]
      BY <2>3 DEF BeginByAdmin, BeginDelete, BeginReview, BeginAssignSupplier,
                  BeginAdminSetStatus
    <2>4. ASSUME NEW b \in Buyers, BeginByOthers(p, b) PROVE req'[q] = req[q]
      BY <2>4 DEF BeginByOthers, BeginSalesDelete, BeginSupplierSetStatus, BeginPoll
    <2>5. QED
      BY <1>2, <2>1, <2>2, <2>3, <2>4 DEF BeginRequest
  <1>3. ASSUME NEW phase, NEW r, Continue(p, phase, r) PROVE req'[q] = req[q]
    BY <1>3 DEF Continue, IInv
  <1>4. CASE ProviderAnswers(p)
    BY <1>3, <1>4 DEF ProviderAnswers, CompleteAuthorization, FetchRefused
  <1>5. CASE Abort(p) \/ ToggleSupplier(p)
    BY <1>5 DEF Abort, ToggleSupplier, IInv
  <1>6. CASE Proceed(p) /\ ~SaveChanges(p)
    BY <1>3, <1>6 DEF Proceed, SaveFails, ReadAccount, ReadAssignment, ReadSuppliers,
                      ReadSupplier, ReadExistingAssignment
  <1>7. QED
    BY <1>1, <1>2, <1>4, <1>5, <1>6

GoesForward(q) ==
    Proceed(q) \/ ProviderAnswers(q) => StepsLeft(req'[q].phase) < StepsLeft(req[q].phase)

GoesByItself(q) ==
    req[q].phase # "idle" /\ req'[q].phase # req[q].phase
        => Proceed(q) \/ ProviderAnswers(q) \/ Abort(q)

(* A request only goes forward, by steps of its own, whatever the others   *)
(* do to the rows it holds: it has at most four steps after its first,     *)
(* and no save is tried twice.  With the fairness of FairSpecRequests this *)
(* is why every request ends (RequestsEnd).                                *)
THEOREM Advances ==
    SpecRequests => [][\A q \in Requests : GoesForward(q) /\ GoesByItself(q)]_allVars
  <1>1. ASSUME IInv, NextRequests, NEW q \in Requests PROVE GoesByItself(q)
    <2>1. PICK p \in Requests : \/ BeginRequest(p) \/ Proceed(p) \/ ProviderAnswers(p)
                                \/ Abort(p) \/ ToggleSupplier(p)
      BY <1>1 DEF NextRequests
    <2>2. CASE p # q
      BY <1>1, <2>1, <2>2, OthersSteps DEF GoesByItself
    <2>3. CASE p = q
      <3>1. BeginRequest(q) \/ ToggleSupplier(q) => req[q].phase = "idle"
        BY DEF BeginRequest, BeginCardKeys, BeginGenerate, BeginSend, BeginByBuyer, BeginVerify,
               BeginChangeEmail, BeginClearAuth, BeginCallback, BeginByAdmin, BeginDelete,
               BeginReview, BeginAssignSupplier, BeginAdminSetStatus, BeginByOthers,
               BeginSalesDelete, BeginSupplierSetStatus, BeginPoll, Begin, ToggleSupplier
      <3>2. QED
        BY <2>1, <2>3, <3>1 DEF GoesByItself
    <2>4. QED
      BY <2>2, <2>3
  <1>2. ASSUME IInv, [NextRequests]_allVars, NEW q \in Requests
        PROVE  GoesForward(q) /\ GoesByItself(q)
    <2>1. GoesForward(q)
      BY <1>2, OwnSteps DEF GoesForward
    <2>2. GoesByItself(q)
      BY <1>1, <1>2 DEF allVars, GoesByItself
    <2>3. QED
      BY <2>1, <2>2
  <1>3. IInv /\ [NextRequests]_allVars =>
            [\A q \in Requests : GoesForward(q) /\ GoesByItself(q)]_allVars
    BY <1>2
  <1>4. QED
    BY <1>3, Invariance, PTL DEF SpecRequests

----------------------------------------------------------------------------
(* One supplier, and nobody assigns by hand: a change that approves is on   *)
(* its way to an assignment, or has one.                                   *)
SoleSupplier ==
    /\ \E p \in Suppliers : Suppliers = {p}
    /\ Handlers \cap {"SetActive", "AssignSupplier"} = {}

OnItsWay(r) ==
    /\ r.phase \notin {"supplier", "existing"}
    /\ r.assignment.op \in {"none", "insert"}
    /\ r.assignment.op = "insert" => r.assignment.value \in Suppliers
    /\ \A b \in Buyers : r.changes[b].ReviewStatus = "Approved" =>
          /\ r.buyer = b
          /\ \/ r.phase \in {"assignment", "suppliers"}
             \/ assignment[b] \in Suppliers
             \/ r.assignment.op = "insert"

AssignedOK ==
    /\ active = Suppliers
    /\ \A b \in Buyers : row[b].ReviewStatus = "Approved" => assignment[b] \in Suppliers
    /\ \A q \in Requests : OnItsWay(req[q])

LEMMA WaySteps ==
    ASSUME IInv, AssignedOK, NEW q \in Requests, NEW r, OnItsWay(r),
           req' = [req EXCEPT ![q] = r], UNCHANGED <<vars, token>>
    PROVE  AssignedOK'
  <1>1. /\ \A p \in Requests : req'[p] = IF p = q THEN r ELSE req[p]
        /\ UNCHANGED <<row, assignment, active>>
    BY DEF IInv, vars
  <1>2. ASSUME NEW p \in Requests PROVE OnItsWay(req[p])'
    <2>1. PICK s : s = req'[p]
      OBVIOUS
    <2>2. OnItsWay(s)
      BY <1>1, <2>1 DEF AssignedOK
    <2>3. QED
      BY <1>1, <2>1, <2>2 DEF OnItsWay
  <1>3. QED
    BY <1>1, <1>2 DEF AssignedOK

LEMMA NoChangeApproves == NoChange.ReviewStatus # "Approved"
  BY SameIsNoValue DEF NoChange, NewCard, ReviewStatus

LEMMA IdleOnItsWay == OnItsWay(Idle)
  BY NoChangeApproves DEF OnItsWay, Idle, NoStatement

(* A handler that does not approve.                                        *)
LEMMA NotApproving ==
    ASSUME NEW x, NEW y, GoodRow(x), GoodRow(y), y.ReviewStatus \in {x.ReviewStatus, "Pending"}
    PROVE  Changes(x, y).ReviewStatus # "Approved"
  BY ChangesAre, SameIsNoValue DEF GoodRow, ReviewStatus

LEMMA ChangingOnItsWay ==
    ASSUME NEW b \in Buyers, NEW y, NEW phase \in {"save", "account", "assignment"},
           Changes(row[b], y).ReviewStatus = "Approved" => phase = "assignment"
    PROVE  OnItsWay(Changing(b, y, phase))
  <1>1. PICK ch : ch = Changes(row[b], y)
    OBVIOUS
  <1>2. PICK r : r = [Idle EXCEPT !.phase = phase, !.buyer = b, !.changes[b] = ch]
    OBVIOUS
  <1>3. /\ r.phase = phase /\ r.buyer = b /\ r.assignment.op = "none"
        /\ \A c \in Buyers : r.changes[c] = IF c = b THEN ch ELSE NoChange
    BY <1>2 DEF Idle, NoStatement
  <1>4. OnItsWay(r)
    BY <1>1, <1>3, NoChangeApproves DEF OnItsWay
  <1>5. QED
    BY <1>1, <1>2, <1>4 DEF Changing

LEMMA WayBegins ==
    ASSUME IInv, AssignedOK, NEW q \in Requests, NEW b \in cards, NEW y, GoodRow(y),
           y.ReviewStatus \in {row[b].ReviewStatus, "Pending"}, NEW phase \in {"save", "account"},
           req' = [req EXCEPT ![q] = Changing(b, y, phase)], UNCHANGED <<vars, token>>
    PROVE  AssignedOK'
  BY RowIsGood, NotApproving, ChangingOnItsWay, WaySteps

LEMMA WayCardKeys ==
    ASSUME IInv, AssignedOK, NEW q \in Requests, BeginCardKeys(q), UNCHANGED <<vars, token>>
    PROVE  AssignedOK'
  <1>1. PICK r : /\ req' = [req EXCEPT ![q] = r]
                 /\ r.phase = "save" /\ r.assignment.op = "none"
                 /\ \A b \in Buyers : r.changes[b].ReviewStatus # "Approved"
    <2>1. ASSUME NEW S \in SUBSET Buyers, NEW saleId \in Sales \cup {None}, NEW auto \in BOOLEAN,
                 NEW now \in Times, BeginGenerate(q, S, saleId, auto, now)
          PROVE  \E r : /\ req' = [req EXCEPT ![q] = r]
                        /\ r.phase = "save" /\ r.assignment.op = "none"
                        /\ \A b \in Buyers : r.changes[b].ReviewStatus # "Approved"
      <3>1. PICK card : card = NewCard(saleId, auto, now)
        OBVIOUS
      <3> DEFINE s == [Idle EXCEPT !.phase = "save", !.insert = S,
                           !.changes = [b \in Buyers |-> IF b \in S THEN card ELSE NoChange]]
      <3>2. card.ReviewStatus # "Approved"
        BY <3>1 DEF NewCard
      <3>3. /\ s.phase = "save" /\ s.assignment.op = "none"
            /\ \A b \in Buyers : s.changes[b].ReviewStatus # "Approved"
        BY <3>2, NoChangeApproves DEF Idle, NoStatement
      <3>4. req' = [req EXCEPT ![q] = s]
        BY <2>1, <3>1 DEF BeginGenerate, Begin
      <3>5. QED
        BY <3>3, <3>4
    <2>2. ASSUME NEW ids \in SUBSET Buyers, NEW saleId \in Sales \cup {None},
                 NEW action \in AutoApproveAction, NEW now \in Times,
                 BeginSend(q, ids, saleId, action, now)
          PROVE  \E r : /\ req' = [req EXCEPT ![q] = r]
                        /\ r.phase = "save" /\ r.assignment.op = "none"
                        /\ \A b \in Buyers : r.changes[b].ReviewStatus # "Approved"
      <3> DEFINE targets == {b \in ids \cap cards : IsSendTarget(row[b])}
                 ch == [b \in Buyers |->
                           IF b \in targets
                           THEN Changes(row[b], AfterSend(row[b], saleId, action, now)) ELSE NoChange]
                 s == [Idle EXCEPT !.phase = "save", !.changes = ch]
      <3>1. ASSUME NEW b \in targets
            PROVE  Changes(row[b], AfterSend(row[b], saleId, action, now)).ReviewStatus # "Approved"
        <4>1. GoodRow(row[b]) /\ IsSendTarget(row[b])
          BY RowIsGood
        <4>2. AfterSend(row[b], saleId, action, now).ReviewStatus = row[b].ReviewStatus
          BY <4>1 DEF AfterSend, GoodRow, Buyer
        <4>3. QED
          BY <4>1, <4>2, SendGood, NotApproving
      <3>2. \A b \in Buyers : ch[b].ReviewStatus # "Approved"
        BY <3>1, NoChangeApproves
      <3> HIDE DEF ch
      <3>3. s.phase = "save" /\ s.assignment.op = "none" /\ s.changes = ch
        BY DEF Idle, NoStatement
      <3>4. req' = [req EXCEPT ![q] = s]
        BY <2>2 DEF BeginSend, Begin, ch
      <3>5. QED
        BY <3>2, <3>3, <3>4
    <2>3. QED
      BY <2>1, <2>2 DEF BeginCardKeys
  <1>2. OnItsWay(r)
    BY <1>1 DEF OnItsWay
  <1>3. QED
    BY <1>1, <1>2, WaySteps

LEMMA WayByBuyer ==
    ASSUME IInv, AssignedOK, NEW q \in Requests, NEW b \in Buyers, BeginByBuyer(q, b),
           UNCHANGED <<vars, token>>
    PROVE  AssignedOK'
  <1>1. b \in cards /\ GoodRow(row[b])
    BY RowIsGood DEF BeginByBuyer, BeginVerify, BeginChangeEmail, BeginClearAuth, BeginCallback, Present
  <1>2. CASE BeginVerify(q, b)
    <2>1. GoodRow(AfterVerify(row[b])) /\ AfterVerify(row[b]).ReviewStatus = row[b].ReviewStatus
      BY <1>1, <1>2, VerifyGood DEF BeginVerify, AfterVerify, GoodRow, Buyer
    <2>2. QED
      BY <1>1, <1>2, <2>1, WayBegins DEF BeginVerify, Begin
  <1>3. CASE BeginChangeEmail(q, b)
    <2>1. row[b].Stage # "NotSent" \/ Got(row[b])
      BY <1>3 DEF BeginChangeEmail, ResolveBuyerMailAction, Got
    <2>2. GoodRow(AfterChangeEmail(row[b])) /\ AfterChangeEmail(row[b]).ReviewStatus = "Pending"
      BY <1>1, <2>1, ChangeEmailGood DEF AfterChangeEmail, GoodRow, Buyer
    <2>3. QED
      BY <1>1, <1>3, <2>2, WayBegins DEF BeginChangeEmail, Begin
  <1>4. CASE BeginClearAuth(q, b)
    <2>1. row[b].Stage # "NotSent" \/ Got(row[b])
      BY <1>4 DEF BeginClearAuth, ResolveBuyerMailAction, Got
    <2>2. GoodRow(AfterClearAuth(row[b]))
      BY <1>1, <2>1, ClearAuthGood
    <2>3. AfterClearAuth(row[b]).ReviewStatus \in {row[b].ReviewStatus, "Pending"}
      BY <1>1 DEF AfterClearAuth, AfterChangeEmail, GoodRow, Buyer
    <2>4. QED
      BY <1>1, <1>4, <2>2, <2>3, WayBegins DEF BeginClearAuth, Begin
  <1>5. CASE BeginCallback(q, b)
    <2> DEFINE r == [Idle EXCEPT !.phase = "provider", !.buyer = b, !.loaded = row[b]]
    <2>1. r.phase = "provider" /\ r.changes = Idle.changes /\ r.assignment = NoStatement
      BY DEF Idle
    <2> HIDE DEF r
    <2>2. OnItsWay(r)
      BY <2>1, NoChangeApproves DEF OnItsWay, Idle, NoStatement
    <2>3. QED
      BY <1>5, <2>2, WaySteps DEF BeginCallback, Begin, r
  <1>6. QED
    BY <1>2, <1>3, <1>4, <1>5 DEF BeginByBuyer

LEMMA WayDelete ==
    ASSUME IInv, AssignedOK, NEW q \in Requests, NEW b \in cards, UNCHANGED <<vars, token>>,
           Begin(q, Changing(b, AfterDelete(row[b]), "save"))
    PROVE  AssignedOK'
  <1>1. GoodRow(AfterDelete(row[b])) /\ AfterDelete(row[b]).ReviewStatus = row[b].ReviewStatus
    BY RowIsGood, DeleteGood DEF AfterDelete, GoodRow, Buyer
  <1>2. QED
    BY <1>1, WayBegins DEF Begin

LEMMA WayStatus ==
    ASSUME IInv, AssignedOK, NEW q \in Requests, NEW b \in cards,
           NEW status \in SupplierProcessingStatus, row[b].ReviewStatus = "Approved",
           UNCHANGED <<vars, token>>,
           Begin(q, Changing(b, AfterSetStatus(row[b], status), "save"))
    PROVE  AssignedOK'
  <1>1. /\ GoodRow(AfterSetStatus(row[b], status))
        /\ AfterSetStatus(row[b], status).ReviewStatus = row[b].ReviewStatus
    BY RowIsGood, SetStatusGood DEF AfterSetStatus, GoodRow, Buyer
  <1>2. QED
    BY <1>1, WayBegins DEF Begin

LEMMA WayByAdmin ==
    ASSUME IInv, SoleSupplier, AssignedOK, NEW q \in Requests, NEW b \in Buyers, BeginByAdmin(q, b),
           UNCHANGED <<vars, token>>
    PROVE  AssignedOK'
  <1>1. CASE BeginDelete(q, b)
    BY <1>1, WayDelete DEF BeginDelete, Present
  <1>2. ASSUME NEW decision \in {"Approved", "Rejected"}, BeginReview(q, b, decision)
        PROVE  AssignedOK'
    <2>1. CASE decision = "Approved"
      BY <1>2, <2>1, ChangingOnItsWay, WaySteps DEF BeginReview, Begin
    <2>2. CASE decision = "Rejected"
      <3>1. PICK y : y = AfterReview(row[b], decision)
        OBVIOUS
      <3>2. GoodRow(row[b]) /\ GoodRow(y) /\ y.ReviewStatus = "Rejected"
        BY <1>2, <2>2, <3>1, RowIsGood, ReviewGood DEF BeginReview, AfterReview, GoodRow, Buyer
      <3>3. Changes(row[b], y).ReviewStatus # "Approved"
        BY <3>2, ChangesAre, SameIsNoValue DEF GoodRow, ReviewStatus
      <3>4. QED
        BY <1>2, <2>2, <3>1, <3>3, ChangingOnItsWay, WaySteps DEF BeginReview, Begin
    <2>3. QED
      BY <2>1, <2>2
  <1>3. ASSUME NEW status \in SupplierProcessingStatus, BeginAdminSetStatus(q, b, status)
        PROVE  AssignedOK'
    BY <1>3, WayStatus DEF BeginAdminSetStatus, CanAdminSetStatus
  <1>4. QED
    BY <1>1, <1>2, <1>3 DEF BeginByAdmin, SoleSupplier

LEMMA WayByOthers ==
    ASSUME IInv, AssignedOK, NEW q \in Requests, NEW b \in Buyers, BeginByOthers(q, b),
           UNCHANGED <<vars, token>>
    PROVE  AssignedOK'
  <1>1. ASSUME NEW saleId \in Sales, BeginSalesDelete(q, b, saleId)
        PROVE  AssignedOK'
    BY <1>1, WayDelete DEF BeginSalesDelete
  <1>2. ASSUME NEW s \in Suppliers, NEW status \in SupplierProcessingStatus,
               BeginSupplierSetStatus(q, b, s, status)
        PROVE  AssignedOK'
    BY <1>2, WayStatus DEF BeginSupplierSetStatus, CanSupplierSetStatus, CanSupplierViewBuyer
  <1>3. CASE BeginPoll(q, b)
    <2> DEFINE r == [Idle EXCEPT !.phase = "fetch", !.buyer = b]
    <2>1. r.phase = "fetch" /\ r.changes = Idle.changes /\ r.assignment = NoStatement
      BY DEF Idle
    <2> HIDE DEF r
    <2>2. OnItsWay(r)
      BY <2>1, NoChangeApproves DEF OnItsWay, Idle, NoStatement
    <2>3. QED
      BY <1>3, <2>2, WaySteps DEF BeginPoll, Begin, r
  <1>4. QED
    BY <1>1, <1>2, <1>3 DEF BeginByOthers

(* The reads of the auto-assignment find an assignment, or the sole         *)
(* supplier.                                                               *)
LEMMA WayReads ==
    ASSUME IInv, SoleSupplier, AssignedOK, NEW q \in Requests, UNCHANGED <<vars, token>>,
           \/ ReadAccount(q) \/ ReadAssignment(q) \/ ReadSuppliers(q)
           \/ ReadSupplier(q) \/ ReadExistingAssignment(q)
    PROVE  AssignedOK'
  <1>1. PICK old : old = req[q]
    OBVIOUS
  <1>2. old \in Request /\ Shape(old) /\ OnItsWay(old)
    BY <1>1, RequestIs DEF AssignedOK
  <1>3. ~ReadSupplier(q) /\ ~ReadExistingAssignment(q)
    BY <1>1, <1>2 DEF ReadSupplier, ReadExistingAssignment, Continue, OnItsWay
  <1>4. CASE ReadAccount(q)
    <2>1. PICK op \in {"none", "delete"} :
              /\ req' = [req EXCEPT ![q] = [old EXCEPT !.phase = "save", !.account.op = op]]
              /\ old.phase = "account"
      BY <1>1, <1>4 DEF ReadAccount, Continue
    <2> DEFINE r == [old EXCEPT !.phase = "save", !.account.op = op]
    <2>2. /\ r.phase = "save" /\ r.buyer = old.buyer
          /\ r.changes = old.changes /\ r.assignment = old.assignment
      BY <1>2 DEF Request
    <2> HIDE DEF r
    <2>3. OnItsWay(r)
      BY <1>2, <2>1, <2>2 DEF OnItsWay
    <2>4. QED
      BY <2>1, <2>3, WaySteps DEF r
  <1>5. CASE ReadAssignment(q)
    <2>1. PICK phase \in {"suppliers", "save"} :
              /\ req' = [req EXCEPT ![q] = [old EXCEPT !.phase = phase]]
              /\ old.phase = "assignment"
              /\ phase = "save" => assignment[old.buyer] # None
      BY <1>1, <1>5 DEF ReadAssignment, Continue
    <2> DEFINE r == [old EXCEPT !.phase = phase]
    <2>2. /\ r.phase = phase /\ r.buyer = old.buyer
          /\ r.changes = old.changes /\ r.assignment = old.assignment
      BY <1>2 DEF Request
    <2> HIDE DEF r
    <2>3. phase = "save" => assignment[old.buyer] \in Suppliers
      BY <1>2, <2>1 DEF IInv, TypeOK, Shape, AccountPhases
    <2>4. OnItsWay(r)
      BY <1>2, <2>1, <2>2, <2>3 DEF OnItsWay
    <2>5. QED
      BY <2>1, <2>4, WaySteps DEF r
  <1>6. CASE ReadSuppliers(q)
    <2>1. PICK p \in Suppliers : active = {p}
      BY DEF SoleSupplier, AssignedOK
    <2>2. /\ req' = [req EXCEPT ![q] = [old EXCEPT !.phase = "save",
                                            !.assignment = [op |-> "insert", value |-> p]]]
          /\ old.phase = "suppliers"
      BY <1>1, <1>6, <2>1, NullIsNoId DEF ReadSuppliers, Continue
    <2> DEFINE r == [old EXCEPT !.phase = "save", !.assignment = [op |-> "insert", value |-> p]]
    <2>3. /\ r.phase = "save" /\ r.buyer = old.buyer
          /\ r.changes = old.changes /\ r.assignment = [op |-> "insert", value |-> p]
      BY <1>2 DEF Request
    <2> HIDE DEF r
    <2>4. OnItsWay(r)
      BY <1>2, <2>3 DEF OnItsWay
    <2>5. QED
      BY <2>2, <2>4, WaySteps DEF r
  <1>7. QED
    BY <1>3, <1>4, <1>5, <1>6

LEMMA WayEnds ==
    ASSUME IInv, AssignedOK, NEW q \in Requests, req' = [req EXCEPT ![q] = Idle],
           UNCHANGED <<vars, token>>
    PROVE  AssignedOK'
  BY IdleOnItsWay, WaySteps

LEMMA WayFetchRefused ==
    ASSUME IInv, AssignedOK, NEW q \in Requests, FetchRefused(q), UNCHANGED <<vars, token>>
    PROVE  AssignedOK'
  <1>1. PICK b : b = req[q].buyer
    OBVIOUS
  <1>2. b \in cards
    BY <1>1, RequestIs, NullIsNoId DEF FetchRefused, Continue, Shape, AccountPhases, Grounded
  <1>3. CASE row[b].EmailStatus = "Authorized"
    <2>1. /\ GoodRow(AfterMarkAbnormal(row[b]))
          /\ AfterMarkAbnormal(row[b]).ReviewStatus = row[b].ReviewStatus
      BY <1>2, <1>3, RowIsGood, MarkAbnormalGood DEF AfterMarkAbnormal, GoodRow, Buyer
    <2>2. QED
      BY <1>1, <1>2, <1>3, <2>1, WayBegins DEF FetchRefused, Continue
  <1>4. CASE row[b].EmailStatus # "Authorized"
    BY <1>1, <1>4, WayEnds DEF FetchRefused, Continue
  <1>5. QED
    BY <1>3, <1>4

LEMMA WayCallback ==
    ASSUME IInv, AssignedOK, NEW q \in Requests, NEW m \in Mailboxes, NEW now \in Times,
           CompleteAuthorization(q, m, now), UNCHANGED <<vars, token>>
    PROVE  AssignedOK'
  <1>1. PICK b : b = req[q].buyer
    OBVIOUS
  <1>2. PICK x : x = req[q].loaded
    OBVIOUS
  <1>3. (account[b] # m) \in BOOLEAN
    OBVIOUS
  <1>4. PICK y : y = AfterCallback(x, account[b] # m, now)
    OBVIOUS
  <1>5. PICK ch : ch = Changes(x, y)
    OBVIOUS
  <1>6. GoodRow(x)
    BY <1>2, RequestIs DEF CompleteAuthorization, Continue, Grounded
  <1>7. GoodRow(y)
    BY <1>3, <1>4, <1>6, CallbackGood
  <1>8. PICK phase : phase = IF account[b] # m /\ x.AutoApprove THEN "assignment" ELSE "save"
    OBVIOUS
  <1>9. ch.ReviewStatus = "Approved" => phase = "assignment"
    <2>1. CASE account[b] # m /\ x.AutoApprove
      BY <1>8, <2>1
    <2>2. CASE ~(account[b] # m /\ x.AutoApprove)
      <3>1. y.ReviewStatus \in {x.ReviewStatus, "Pending"}
        BY <1>4, <1>6, <2>2 DEF AfterCallback, GoodRow, Buyer
      <3>2. QED
        BY <1>5, <1>6, <1>7, <3>1, NotApproving
    <2>3. QED
      BY <2>1, <2>2
  <1>10. PICK op : op = Binding(account[b], m)
    OBVIOUS
  <1> DEFINE r == [Idle EXCEPT !.phase = phase, !.buyer = b, !.changes[b] = ch,
                               !.account = [op |-> op, value |-> m]]
  <1>11. req' = [req EXCEPT ![q] = r] \/ req' = [req EXCEPT ![q] = Idle]
    BY <1>1, <1>2, <1>4, <1>5, <1>8, <1>10 DEF CompleteAuthorization, Continue
  <1>12. /\ r.phase = phase /\ r.buyer = b /\ r.assignment = NoStatement
         /\ \A c \in Buyers : r.changes[c] = IF c = b THEN ch ELSE NoChange
    BY DEF Idle
  <1>13. phase \in {"assignment", "save"}
    BY <1>8
  <1> HIDE DEF r
  <1>14. OnItsWay(r)
    BY <1>9, <1>12, <1>13, NoChangeApproves DEF OnItsWay, NoStatement
  <1>15. QED
    BY <1>11, <1>14, WaySteps, WayEnds

LEMMA WaySaves ==
    ASSUME IInv, AssignedOK, NEW q \in Requests, SaveChanges(q)
    PROVE  AssignedOK'
  <1>1. PICK r : r = req[q]
    OBVIOUS
  <1>2. /\ r \in Request /\ Shape(r) /\ Grounded(r) /\ OnItsWay(r) /\ r.phase = "save"
        /\ r.changes \in [Buyers -> Change]
    BY <1>1, RequestIs DEF AssignedOK, SaveChanges, Request
  <1>3. /\ \A c \in Buyers : row'[c] = Merge(row[c], r.changes[c])
        /\ \A c \in Buyers : assignment'[c] = IF c = r.buyer
                                               THEN Applied(r.assignment, assignment[c])
                                               ELSE assignment[c]
        /\ active' = active
    BY <1>1 DEF SaveChanges
  <1>4. \A c \in Buyers :
            /\ assignment[c] \in Suppliers => assignment'[c] \in Suppliers
            /\ c = r.buyer /\ r.assignment.op = "insert" => assignment'[c] \in Suppliers
    BY <1>2, <1>3 DEF OnItsWay, Applied
  <1>5. ASSUME NEW c \in Buyers, row'[c].ReviewStatus = "Approved"
        PROVE  assignment'[c] \in Suppliers
    <2>1. row[c] \in Buyer /\ r.changes[c] \in Change
      BY <1>2 DEF IInv, RowsOK, GoodRow
    <2>2. row[c].ReviewStatus = "Approved" \/ r.changes[c].ReviewStatus = "Approved"
      BY <1>3, <1>5, <2>1, MergeIs
    <2>3. QED
      BY <1>2, <1>4, <2>2 DEF AssignedOK, OnItsWay
  <1>6. ASSUME NEW p \in Requests
        PROVE  OnItsWay(req[p])'
    <2>1. PICK s : s = req'[p]
      OBVIOUS
    <2>2. CASE p = q
      <3>1. s = Idle
        BY <2>1, <2>2 DEF SaveChanges
      <3>2. \A c \in Buyers : s.changes[c].ReviewStatus # "Approved"
        BY <3>1, NoChangeApproves DEF Idle
      <3>3. QED
        BY <2>1, <3>1, <3>2 DEF OnItsWay, Idle, NoStatement
    <2>3. CASE p # q
      <3>1. PICK o : o = req[p]
        OBVIOUS
      <3>2. o \in Request /\ OnItsWay(o)
        BY <3>1, RequestIs DEF AssignedOK
      <3>3. PICK d1 \in BOOLEAN : d1 = (r.account.op = "delete")
        OBVIOUS
      <3>4. PICK d2 \in BOOLEAN : d2 = (r.assignment.op = "delete")
        OBVIOUS
      <3>5. PICK t : t = LoseRow(o, r.buyer, "account", d1)
        OBVIOUS
      <3>6. /\ t \in Request /\ t.phase = o.phase /\ t.buyer = o.buyer /\ t.changes = o.changes
        BY <3>2, <3>5, LoseRowIs
      <3>7. t.assignment = o.assignment
        BY <3>2, <3>5 DEF LoseRow, Request
      <3>8. LoseRow(t, r.buyer, "assignment", d2) = t
        BY <3>2, <3>7 DEF LoseRow, OnItsWay, Updates
      <3>9. s = t
        BY <1>1, <2>1, <2>3, <3>1, <3>3, <3>4, <3>5, <3>8 DEF SaveChanges
      <3>10. /\ s.phase = o.phase /\ s.buyer = o.buyer
             /\ s.changes = o.changes /\ s.assignment = o.assignment
        BY <3>6, <3>7, <3>9
      <3>11. \A c \in Buyers : s.changes[c].ReviewStatus = "Approved" =>
                /\ s.buyer = c
                /\ \/ s.phase \in {"assignment", "suppliers"}
                   \/ assignment'[c] \in Suppliers
                   \/ s.assignment.op = "insert"
        BY <1>4, <3>2, <3>10 DEF OnItsWay
      <3>12. QED
        BY <2>1, <3>2, <3>10, <3>11 DEF OnItsWay
    <2>4. QED
      BY <2>2, <2>3
  <1>7. QED
    BY <1>3, <1>5, <1>6 DEF AssignedOK

LEMMA WayNext ==
    ASSUME IInv, SoleSupplier, AssignedOK, [NextRequests]_allVars
    PROVE  AssignedOK'
  <1>1. CASE UNCHANGED allVars
    BY <1>1 DEF allVars, vars, AssignedOK, OnItsWay
  <1>2. ASSUME NEW q \in Requests, BeginRequest(q)
        PROVE  AssignedOK'
    BY <1>2, WayCardKeys, WayByBuyer, WayByAdmin, WayByOthers DEF BeginRequest
  <1>3. ASSUME NEW q \in Requests, Proceed(q)
        PROVE  AssignedOK'
    BY <1>3, WayReads, WaySaves, WayEnds DEF Proceed, SaveFails, Continue
  <1>4. ASSUME NEW q \in Requests, ProviderAnswers(q) \/ Abort(q)
        PROVE  AssignedOK'
    BY <1>4, WayCallback, WayFetchRefused, WayEnds DEF ProviderAnswers, Abort
  <1>5. ASSUME NEW q \in Requests
        PROVE  ~ToggleSupplier(q)
    BY DEF ToggleSupplier, SoleSupplier
  <1>6. QED
    BY <1>1, <1>2, <1>3, <1>4, <1>5 DEF NextRequests

LEMMA WayInit == ASSUME InitRequests PROVE AssignedOK
  <1>1. NewCard(None, FALSE, None).ReviewStatus # "Approved"
    BY DEF NewCard
  <1>2. QED
    BY <1>1, IdleOnItsWay DEF InitRequests, Init, AssignedOK

(* While one supplier is all there is and nobody assigns by hand, approvals *)
(* that overlap never leave a buyer approved and unassigned.               *)
THEOREM Assigned == SpecRequests => []ApprovedIsAssigned
  <1>1. InitRequests => (SoleSupplier => AssignedOK)
    BY WayInit
  <1>2. IInv /\ (SoleSupplier => AssignedOK) /\ [NextRequests]_allVars => (SoleSupplier => AssignedOK)'
    BY WayNext DEF SoleSupplier
  <1>3. (SoleSupplier => AssignedOK) => ApprovedIsAssigned
    BY DEF SoleSupplier, AssignedOK, ApprovedIsAssigned
  <1>4. QED
    BY <1>1, <1>2, <1>3, Invariance, PTL DEF SpecRequests
=============================================================================
