---------------------------- MODULE IsolationProofs ----------------------------
(****************************************************************************)
(* What overlapping requests do to different cards does not meet, for any   *)
(* sets of cards, mailboxes, suppliers, salespeople and instants:           *)
(*   - a card that no two requests have in hand together is as the serial   *)
(*     handlers leave it (OverlapsStay), whatever happens to others;        *)
(*   - requests of which no two have a card in common implement             *)
(*     BuyerLifecycle (Isolation), if the suppliers they have looked at     *)
(*     stay as they are: a supplier disabled between the look and the save  *)
(*     is assigned all the same, which no serial handler does;              *)
(*   - and of requests that do meet, a save whose cards no other request    *)
(*     has changed since it took them in hand does what its handler does    *)
(*     alone (Untouched).                                                   *)
(*                                                                          *)
(* The argument: nobody else writes the cards of a request, so what it has  *)
(* read of them is still so.  Plan(r) says what the request r goes on to do *)
(* to the rows as they are now; it depends on the cards of r and on active  *)
(* alone (PlanOfCards), and once r is about to save, its plan is an action  *)
(* of BuyerLifecycle (SaveIsNext).  CardPlan(r, b) is the part of it that   *)
(* is about card b: it depends on b alone (CardPlanStands), and the save is *)
(* one of the moves of BuyerLifecycleProofs (CardSaves).                    *)
(****************************************************************************)
EXTENDS BuyerRequestsProofs, BuyerLifecycleProofs, Overlaps

(* No two requests under way have card b in common;                        *)
ApartOn(b) ==
    \A p, q \in Requests : b \in CardsOf(req[p]) /\ b \in CardsOf(req[q]) => p = q

(* nor any card.                                                           *)
Apart == \A b \in Buyers : ApartOn(b)

(* No supplier is switched on or off between the look a request has taken  *)
(* at the suppliers and its save.                                          *)
SuppliersStand ==
    [][ active' # active =>
            \A q \in Requests : req[q].phase \notin {"existing", "save"} ]_allVars

OneSlot == \A p, q \in Requests : p = q

----------------------------------------------------------------------------
(* What the writes collected in a request amount to. *)

(* The row of b becomes y, and no other row changes.                       *)
Writes(r, b, y) ==
    /\ b \in cards /\ r.buyer = b /\ r.insert = {}
    /\ Merge(row[b], r.changes[b]) = y
    /\ \A c \in Buyers \ {b} : r.changes[c] = NoChange

NoAccount(r) == r.account.op = "none"

NoAssignment(r) == r.assignment.op = "none"

Fresh(b, m) == account[b] # m /\ row[b].AutoApprove

(* An approval, by a review or by a callback, before its assignment.       *)
Approving(r, b, y) ==
    \/ Approves(b, y) /\ NoAccount(r)
    \/ \E m \in Mailboxes, now \in Times :
          Binds(b, y, m, now) /\ Fresh(b, m) /\ Applied(r.account, account[b]) = m

AutoAssigns(r, b) ==
    Applied(r.assignment, assignment[b]) =
        IF assignment[b] = None /\ \E s \in Suppliers : active = {s}
        THEN CHOOSE s \in Suppliers : active = {s} ELSE assignment[b]

----------------------------------------------------------------------------
(* Plans, by what the request waits for. *)

EditPlan(r) ==
    \E b \in Buyers, y \in Buyer :
        Writes(r, b, y) /\ Edits(b, y) /\ NoAccount(r) /\ NoAssignment(r)

UnbindPlan(r) ==
    \E b \in Buyers, y \in Buyer :
        /\ Writes(r, b, y) /\ Unbinds(b, y) /\ NoAssignment(r)
        /\ r.phase = "account" => NoAccount(r)
        /\ r.phase = "save" => Applied(r.account, account[b]) = None

ApprovePlan(r) ==
    \E b \in Buyers, y \in Buyer :
        /\ Writes(r, b, y) /\ Approving(r, b, y)
        /\ IF r.phase = "save" THEN AutoAssigns(r, b) ELSE NoAssignment(r)
        /\ r.phase = "suppliers" => assignment[b] = None

BindPlan(r) ==
    \E b \in Buyers, y \in Buyer, m \in Mailboxes, now \in Times :
        /\ Writes(r, b, y) /\ Binds(b, y, m, now) /\ ~Fresh(b, m)
        /\ Applied(r.account, account[b]) = m /\ NoAssignment(r)

AssignPlan(r) ==
    \E b \in Buyers :
        /\ Writes(r, b, row[b]) /\ Present(b) /\ NoAccount(r)
        /\ r.assignment.value \in Suppliers \cup {None}
        /\ r.phase # "supplier" /\ r.assignment.value # None => r.assignment.value \in active
        /\ r.phase = "save" => Applied(r.assignment, assignment[b]) = r.assignment.value

GeneratePlan(r) ==
    \E S \in SUBSET Buyers, saleId \in Sales \cup {None}, autoApprove \in BOOLEAN, now \in Times :
        /\ S # {} /\ S \cap cards = {} /\ r.buyer = None /\ r.insert = S
        /\ \A c \in Buyers : r.changes[c] = IF c \in S THEN NewCard(saleId, autoApprove, now)
                                                     ELSE NoChange
        /\ NoAccount(r) /\ NoAssignment(r)

SendPlan(r) ==
    \E targets \in SUBSET Buyers, saleId \in Sales \cup {None}, action \in AutoApproveAction,
       now \in Times :
        /\ targets # {} /\ targets \subseteq cards /\ r.buyer = None /\ r.insert = {}
        /\ \A c \in targets : /\ IsSendTarget(row[c])
                              /\ Merge(row[c], r.changes[c]) =
                                     AfterSend(row[c], saleId, action, now)
        /\ \A c \in Buyers \ targets : r.changes[c] = NoChange
        /\ NoAccount(r) /\ NoAssignment(r)

CallbackPlan(r) ==
    \E b \in Buyers : Writes(r, b, row[b]) /\ Present(b) /\ r.loaded = row[b]

PollPlan(r) == \E b \in Buyers : Writes(r, b, row[b]) /\ account[b] # None

(* The token that the save writes opens the mailbox that it leaves.        *)
Opens(r, b) ==
    r.account.op \in {"insert"} \cup Updates =>
        b \in Buyers /\ r.account.value = Applied(r.account, account[b])

Plan(r) ==
    /\ Opens(r, r.buyer)
    /\ \/ r.phase = "idle"
       \/ r.phase = "provider" /\ CallbackPlan(r)
       \/ r.phase = "fetch" /\ PollPlan(r)
       \/ r.phase = "account" /\ UnbindPlan(r)
       \/ r.phase \in {"assignment", "suppliers"} /\ ApprovePlan(r)
       \/ r.phase \in {"supplier", "existing"} /\ AssignPlan(r)
       \/ /\ r.phase = "save"
          /\ \/ EditPlan(r) \/ UnbindPlan(r) \/ ApprovePlan(r) \/ BindPlan(r)
             \/ AssignPlan(r) \/ GeneratePlan(r) \/ SendPlan(r)

Planned == \A q \in Requests : Plan(req[q])

----------------------------------------------------------------------------
(* Writing the changes over the row they were computed from gives the row  *)
(* they were computed to.                                                  *)
LEMMA MergeChanges ==
    ASSUME NEW x \in Buyer, NEW y \in Buyer
    PROVE  Merge(x, Changes(x, y)) = y
  <1>1. PICK ch : ch = Changes(x, y)
    OBVIOUS
  <1>2. DOMAIN x = DOMAIN y
    BY DEF Buyer
  <1>3. ch = [c \in DOMAIN x |-> IF y[c] = x[c] THEN Same ELSE y[c]]
    BY <1>1 DEF Changes
  <1>4. \A c \in DOMAIN y : y[c] # Same
    <2>1. /\ y.Stage # Same /\ y.AutoApprove # Same /\ y.CardSentAt # Same
          /\ y.SaleId # Same /\ y.EmailStatus # Same /\ y.ReviewStatus # Same
          /\ y.SupplierStatus # Same /\ y.IsDeleted # Same /\ y.CardUsedAt # Same
      BY SameIsNoValue DEF Buyer
    <2>2. DOMAIN y = {"Stage", "AutoApprove", "CardSentAt", "SaleId", "EmailStatus",
                      "ReviewStatus", "SupplierStatus", "IsDeleted", "CardUsedAt"}
      BY DEF Buyer
    <2>3. QED
      BY <2>1, <2>2
  <1>5. ASSUME NEW c \in DOMAIN x
        PROVE  (IF ch[c] = Same THEN x[c] ELSE ch[c]) = y[c]
    <2>1. ch[c] = IF y[c] = x[c] THEN Same ELSE y[c]
      BY <1>3
    <2>2. y[c] # Same
      BY <1>2, <1>4
    <2>3. QED
      BY <2>1, <2>2
  <1>6. Merge(x, ch) = [c \in DOMAIN x |-> IF ch[c] = Same THEN x[c] ELSE ch[c]]
    BY DEF Merge
  <1>7. y = [c \in DOMAIN y |-> y[c]]
    BY DEF Buyer
  <1>8. QED
    BY <1>1, <1>2, <1>5, <1>6, <1>7

(* A request that wrote the one row it has in hand.                        *)
LEMMA OneRowWrites ==
    ASSUME IInv, NEW b \in cards, NEW y \in Buyer, NEW r,
           r.buyer = b, r.insert = {},
           r.changes = [Idle.changes EXCEPT ![b] = Changes(row[b], y)]
    PROVE  Writes(r, b, y)
  <1>1. /\ b \in Buyers /\ \A c \in Buyers : row[c] \in Buyer
    BY DEF IInv, TypeOK
  <1>2. \A c \in Buyers : r.changes[c] = IF c = b THEN Changes(row[b], y) ELSE NoChange
    BY <1>1 DEF Idle
  <1>3. Merge(row[b], r.changes[b]) = y
    BY <1>1, <1>2, MergeChanges
  <1>4. QED
    BY <1>1, <1>2, <1>3 DEF Writes

(* A request that has changed nothing yet.                                 *)
LEMMA WritesNothing ==
    ASSUME IInv, NEW b \in cards, NEW r,
           r.buyer = b, r.insert = {}, r.changes = Idle.changes
    PROVE  Writes(r, b, row[b])
  BY NoChangeIs DEF Idle, Writes, IInv, TypeOK

LEMMA ChangingWrites ==
    ASSUME IInv, NEW b \in cards, NEW y \in Buyer, NEW phase
    PROVE  LET r == Changing(b, y, phase)
           IN  /\ r.phase = phase /\ r.account.op = "none"
               /\ Writes(r, b, y) /\ NoAccount(r) /\ NoAssignment(r)
  <1>1. PICK r : r = Changing(b, y, phase)
    OBVIOUS
  <1>2. /\ r.phase = phase /\ r.buyer = b /\ r.insert = {}
        /\ r.account = NoStatement /\ r.assignment = NoStatement
        /\ r.changes = [Idle.changes EXCEPT ![b] = Changes(row[b], y)]
    BY <1>1 DEF Changing, Idle
  <1>3. Writes(r, b, y)
    BY <1>2, OneRowWrites
  <1>4. QED
    BY <1>1, <1>2, <1>3 DEF NoAccount, NoAssignment, NoStatement

----------------------------------------------------------------------------
(* The plan a request begins with. *)

LEMMA IdlePlans == Plan(Idle)
  BY DEF Plan, Idle, NoStatement, Opens, Updates

LEMMA EditBegins ==
    ASSUME IInv, NEW b \in cards, NEW y \in Buyer, Edits(b, y)
    PROVE  Plan(Changing(b, y, "save"))
  <1>1. PICK r : r = Changing(b, y, "save")
    OBVIOUS
  <1>2. /\ r.phase = "save" /\ r.account.op = "none"
        /\ Writes(r, b, y) /\ NoAccount(r) /\ NoAssignment(r)
    BY <1>1, ChangingWrites
  <1>3. b \in Buyers
    BY DEF IInv, TypeOK
  <1>4. EditPlan(r)
    BY <1>2, <1>3 DEF EditPlan
  <1>5. QED
    BY <1>1, <1>2, <1>4 DEF Plan, Opens, Updates

LEMMA UnbindBegins ==
    ASSUME IInv, NEW b \in cards, NEW y \in Buyer, Unbinds(b, y)
    PROVE  Plan(Changing(b, y, "account"))
  <1>1. PICK r : r = Changing(b, y, "account")
    OBVIOUS
  <1>2. /\ r.phase = "account" /\ r.account.op = "none"
        /\ Writes(r, b, y) /\ NoAccount(r) /\ NoAssignment(r)
    BY <1>1, ChangingWrites
  <1>3. b \in Buyers
    BY DEF IInv, TypeOK
  <1>4. UnbindPlan(r)
    BY <1>2, <1>3 DEF UnbindPlan
  <1>5. QED
    BY <1>1, <1>2, <1>4 DEF Plan, Opens, Updates

LEMMA ApproveBegins ==
    ASSUME IInv, NEW b \in cards, NEW y \in Buyer, Approves(b, y)
    PROVE  Plan(Changing(b, y, "assignment"))
  <1>1. PICK r : r = Changing(b, y, "assignment")
    OBVIOUS
  <1>2. /\ r.phase = "assignment" /\ r.account.op = "none"
        /\ Writes(r, b, y) /\ NoAccount(r) /\ NoAssignment(r)
    BY <1>1, ChangingWrites
  <1>3. b \in Buyers
    BY DEF IInv, TypeOK
  <1>4. ApprovePlan(r)
    BY <1>2, <1>3 DEF ApprovePlan, Approving
  <1>5. QED
    BY <1>1, <1>2, <1>4 DEF Plan, Opens, Updates

LEMMA GeneratePlans ==
    ASSUME IInv, NEW q \in Requests, NEW S \in SUBSET Buyers, NEW saleId \in Sales \cup {None},
           NEW autoApprove \in BOOLEAN, NEW now \in Times,
           BeginGenerate(q, S, saleId, autoApprove, now)
    PROVE  \E r : Plan(r) /\ req' = [req EXCEPT ![q] = r]
  <1>1. PICK card : card = NewCard(saleId, autoApprove, now)
    OBVIOUS
  <1> DEFINE ch == [b \in Buyers |-> IF b \in S THEN card ELSE NoChange]
  <1>2. PICK r : r = [Idle EXCEPT !.phase = "save", !.insert = S, !.changes = ch]
    BY Zenon
  <1>3. req' = [req EXCEPT ![q] = r] /\ S # {} /\ S \cap cards = {}
    BY <1>1, <1>2 DEF BeginGenerate, Begin
  <1>4. card \in Buyer /\ \A c \in Buyers : row[c] \in Buyer
    BY <1>1, NewCardGood DEF GoodRow, IInv, TypeOK
  <1>5. /\ r.phase = "save" /\ r.buyer = None /\ r.insert = S /\ r.changes = ch
        /\ r.account = NoStatement /\ r.assignment = NoStatement
    BY <1>2 DEF Idle
  <1>6. \A c \in Buyers : r.changes[c] = IF c \in S THEN card ELSE NoChange
    BY <1>5
  <1>7. r.account.op = "none" /\ NoAccount(r) /\ NoAssignment(r)
    BY <1>5 DEF NoAccount, NoAssignment, NoStatement
  <1>8. GeneratePlan(r)
    BY <1>1, <1>3, <1>5, <1>6, <1>7 DEF GeneratePlan
  <1>9. Plan(r)
    BY <1>5, <1>7, <1>8 DEF Plan, Opens, Updates
  <1>10. QED
    BY <1>3, <1>9

LEMMA SendPlans ==
    ASSUME IInv, NEW q \in Requests, NEW ids \in SUBSET Buyers, NEW saleId \in Sales \cup {None},
           NEW action \in AutoApproveAction, NEW now \in Times,
           BeginSend(q, ids, saleId, action, now)
    PROVE  \E r : Plan(r) /\ req' = [req EXCEPT ![q] = r]
  <1> DEFINE targets == {b \in ids \cap cards : IsSendTarget(row[b])}
             ch == [b \in Buyers |->
                       IF b \in targets
                       THEN Changes(row[b], AfterSend(row[b], saleId, action, now)) ELSE NoChange]
  <1>1. PICK r : r = [Idle EXCEPT !.phase = "save", !.changes = ch]
    BY Zenon
  <1>2. req' = [req EXCEPT ![q] = r] /\ targets # {}
    BY <1>1 DEF BeginSend, Begin
  <1>3. /\ r.phase = "save" /\ r.buyer = None /\ r.insert = {} /\ r.changes = ch
        /\ r.account = NoStatement /\ r.assignment = NoStatement
    BY <1>1 DEF Idle
  <1>4. ASSUME NEW c \in targets
        PROVE  Merge(row[c], r.changes[c]) = AfterSend(row[c], saleId, action, now)
    <2>1. row[c] \in Buyer /\ GoodRow(row[c])
      BY DEF IInv, TypeOK, RowsOK
    <2>2. AfterSend(row[c], saleId, action, now) \in Buyer
      BY <2>1, SendGood DEF GoodRow
    <2>3. r.changes[c] = Changes(row[c], AfterSend(row[c], saleId, action, now))
      BY <1>3
    <2>4. QED
      BY <2>1, <2>2, <2>3, MergeChanges
  <1>5. r.account.op = "none" /\ NoAccount(r) /\ NoAssignment(r)
    BY <1>3 DEF NoAccount, NoAssignment, NoStatement
  <1>6. /\ targets \in SUBSET Buyers /\ targets \subseteq cards
        /\ \A c \in targets : /\ IsSendTarget(row[c])
                              /\ Merge(row[c], r.changes[c]) =
                                     AfterSend(row[c], saleId, action, now)
        /\ \A c \in Buyers \ targets : r.changes[c] = NoChange
    BY <1>3, <1>4
  <1> HIDE DEF targets, ch
  <1>7. SendPlan(r)
    BY <1>2, <1>3, <1>5, <1>6 DEF SendPlan
  <1>8. Plan(r)
    BY <1>3, <1>5, <1>7 DEF Plan, Opens, Updates
  <1>9. QED
    BY <1>2, <1>8

LEMMA MayStartOver ==
    ASSUME NEW x, \/ ResolveBuyerMailAction(x).ChangeEmail
                  \/ ResolveBuyerMailAction(x).ClearAuth
    PROVE  x.Stage # "NotSent" \/ Got(x)
  BY DEF ResolveBuyerMailAction, Got

LEMMA ByBuyerPlans ==
    ASSUME IInv, NEW q \in Requests, NEW b \in Buyers, BeginByBuyer(q, b)
    PROVE  \E r : Plan(r) /\ req' = [req EXCEPT ![q] = r]
  <1>1. CASE BeginVerify(q, b)
    <2>1. Edits(b, AfterVerify(row[b])) /\ b \in cards
      BY <1>1 DEF BeginVerify, Edits, Present
    <2>2. AfterVerify(row[b]) \in Buyer
      BY <1>1, <2>1, RowIsGood, VerifyGood DEF BeginVerify, GoodRow
    <2>3. QED
      BY <1>1, <2>1, <2>2, EditBegins DEF BeginVerify, Begin
  <1>2. CASE BeginChangeEmail(q, b)
    <2>1. Unbinds(b, AfterChangeEmail(row[b])) /\ b \in cards
      BY <1>2 DEF BeginChangeEmail, Unbinds, Present
    <2>2. AfterChangeEmail(row[b]) \in Buyer
      BY <1>2, <2>1, RowIsGood, MayStartOver, ChangeEmailGood DEF BeginChangeEmail, GoodRow
    <2>3. QED
      BY <1>2, <2>1, <2>2, UnbindBegins DEF BeginChangeEmail, Begin
  <1>3. CASE BeginClearAuth(q, b)
    <2>1. Unbinds(b, AfterClearAuth(row[b])) /\ b \in cards
      BY <1>3 DEF BeginClearAuth, Unbinds, Present
    <2>2. AfterClearAuth(row[b]) \in Buyer
      BY <1>3, <2>1, RowIsGood, MayStartOver, ClearAuthGood DEF BeginClearAuth, GoodRow
    <2>3. QED
      BY <1>3, <2>1, <2>2, UnbindBegins DEF BeginClearAuth, Begin
  <1>4. CASE BeginCallback(q, b)
    <2>1. PICK r : r = [Idle EXCEPT !.phase = "provider", !.buyer = b, !.loaded = row[b]]
      BY Zenon
    <2>2. /\ r.phase = "provider" /\ r.buyer = b /\ r.loaded = row[b] /\ r.account.op = "none"
          /\ r.insert = {} /\ r.changes = Idle.changes
      BY <2>1 DEF Idle, NoStatement
    <2>3. Present(b) /\ Writes(r, b, row[b])
      BY <1>4, <2>2, WritesNothing DEF BeginCallback, Present
    <2>4. Plan(r)
      BY <2>2, <2>3 DEF Plan, CallbackPlan, Opens, Updates
    <2>5. QED
      BY <1>4, <2>1, <2>4 DEF BeginCallback, Begin
  <1>5. QED
    BY <1>1, <1>2, <1>3, <1>4 DEF BeginByBuyer

LEMMA DeleteStatusBuyer ==
    ASSUME IInv, NEW b \in Buyers, NEW status \in SupplierProcessingStatus
    PROVE  /\ AfterDelete(row[b]) \in Buyer /\ AfterSetStatus(row[b], status) \in Buyer
           /\ AfterMarkAbnormal(row[b]) \in Buyer
           /\ AfterReview(row[b], "Approved") \in Buyer
           /\ AfterReview(row[b], "Rejected") \in Buyer
  <1>1. PICK x \in Buyer : x = row[b]
    BY DEF IInv, TypeOK
  <1>2. AfterDelete(x) \in Buyer
    BY DEF AfterDelete, Buyer
  <1>3. AfterSetStatus(x, status) \in Buyer
    BY DEF AfterSetStatus, Buyer
  <1>4. AfterMarkAbnormal(x) \in Buyer
    BY DEF AfterMarkAbnormal, Buyer, EmailAuthorizationStatus
  <1>5. AfterReview(x, "Approved") \in Buyer /\ AfterReview(x, "Rejected") \in Buyer
    BY DEF AfterReview, Buyer, ReviewStatus
  <1>6. QED
    BY <1>1, <1>2, <1>3, <1>4, <1>5

LEMMA ByAdminPlans ==
    ASSUME IInv, NEW q \in Requests, NEW b \in Buyers, BeginByAdmin(q, b)
    PROVE  \E r : Plan(r) /\ req' = [req EXCEPT ![q] = r]
  <1>0. "Failed" \in SupplierProcessingStatus
    BY DEF SupplierProcessingStatus
  <1>1. CASE BeginDelete(q, b)
    <2>1. Edits(b, AfterDelete(row[b])) /\ b \in cards
      BY <1>1 DEF BeginDelete, Edits, Present
    <2>2. QED
      BY <1>0, <1>1, <2>1, DeleteStatusBuyer, EditBegins DEF BeginDelete, Begin
  <1>2. CASE BeginReview(q, b, "Approved")
    <2>1. Approves(b, AfterReview(row[b], "Approved")) /\ b \in cards
      BY <1>2 DEF BeginReview, Approves
    <2>2. QED
      BY <1>0, <1>2, <2>1, DeleteStatusBuyer, ApproveBegins DEF BeginReview, Begin
  <1>3. CASE BeginReview(q, b, "Rejected")
    <2>1. Edits(b, AfterReview(row[b], "Rejected")) /\ b \in cards
      BY <1>3 DEF BeginReview, Edits
    <2>2. QED
      BY <1>0, <1>3, <2>1, DeleteStatusBuyer, EditBegins DEF BeginReview, Begin
  <1>4. ASSUME NEW supplierId \in Suppliers \cup {None}, BeginAssignSupplier(q, b, supplierId)
        PROVE  \E r : Plan(r) /\ req' = [req EXCEPT ![q] = r]
    <2>1. PICK r : r = [Idle EXCEPT !.phase = IF supplierId = None THEN "existing" ELSE "supplier",
                                    !.buyer = b, !.assignment.value = supplierId]
      BY Zenon
    <2>2. /\ r.phase = (IF supplierId = None THEN "existing" ELSE "supplier")
          /\ r.buyer = b /\ r.insert = {} /\ r.changes = Idle.changes
          /\ r.account = NoStatement /\ r.assignment.value = supplierId
      BY <2>1 DEF Idle, NoStatement
    <2>4. Present(b) /\ Writes(r, b, row[b])
      BY <1>4, <2>2, WritesNothing DEF BeginAssignSupplier, Present
    <2>5. AssignPlan(r)
      BY <2>2, <2>4 DEF AssignPlan, NoAccount, NoStatement
    <2>6. Plan(r)
      BY <2>2, <2>5 DEF Plan, NoStatement, Opens, Updates
    <2>7. QED
      BY <1>4, <2>1, <2>6 DEF BeginAssignSupplier, Begin
  <1>5. ASSUME NEW status \in SupplierProcessingStatus, BeginAdminSetStatus(q, b, status)
        PROVE  \E r : Plan(r) /\ req' = [req EXCEPT ![q] = r]
    <2>1. Edits(b, AfterSetStatus(row[b], status)) /\ b \in cards
      BY <1>5 DEF BeginAdminSetStatus, Edits
    <2>2. QED
      BY <1>5, <2>1, DeleteStatusBuyer, EditBegins DEF BeginAdminSetStatus, Begin
  <1>6. QED
    BY <1>1, <1>2, <1>3, <1>4, <1>5 DEF BeginByAdmin

LEMMA ByOthersPlans ==
    ASSUME IInv, NEW q \in Requests, NEW b \in Buyers, BeginByOthers(q, b)
    PROVE  \E r : Plan(r) /\ req' = [req EXCEPT ![q] = r]
  <1>0. "Failed" \in SupplierProcessingStatus
    BY DEF SupplierProcessingStatus
  <1>1. ASSUME NEW saleId \in Sales, BeginSalesDelete(q, b, saleId)
        PROVE  \E r : Plan(r) /\ req' = [req EXCEPT ![q] = r]
    <2>1. Edits(b, AfterDelete(row[b])) /\ b \in cards
      BY <1>1 DEF BeginSalesDelete, Edits
    <2>2. QED
      BY <1>0, <1>1, <2>1, DeleteStatusBuyer, EditBegins DEF BeginSalesDelete, Begin
  <1>2. ASSUME NEW s \in Suppliers, NEW status \in SupplierProcessingStatus,
               BeginSupplierSetStatus(q, b, s, status)
        PROVE  \E r : Plan(r) /\ req' = [req EXCEPT ![q] = r]
    <2>1. Edits(b, AfterSetStatus(row[b], status)) /\ b \in cards
      BY <1>2 DEF BeginSupplierSetStatus, Edits
    <2>2. QED
      BY <1>2, <2>1, DeleteStatusBuyer, EditBegins DEF BeginSupplierSetStatus, Begin
  <1>3. CASE BeginPoll(q, b)
    <2>1. PICK r : r = [Idle EXCEPT !.phase = "fetch", !.buyer = b]
      OBVIOUS
    <2>2. /\ r.phase = "fetch" /\ r.buyer = b /\ r.account.op = "none"
          /\ r.insert = {} /\ r.changes = Idle.changes
      BY <2>1 DEF Idle, NoStatement
    <2>3. account[b] # None /\ Writes(r, b, row[b])
      BY <1>3, <2>2, WritesNothing DEF BeginPoll
    <2>4. Plan(r)
      BY <2>2, <2>3 DEF Plan, PollPlan, Opens, Updates
    <2>5. QED
      BY <1>3, <2>1, <2>4 DEF BeginPoll, Begin
  <1>4. QED
    BY <1>1, <1>2, <1>3 DEF BeginByOthers

LEMMA BeginPlans ==
    ASSUME IInv, NEW q \in Requests, BeginRequest(q)
    PROVE  \E r : Plan(r) /\ req' = [req EXCEPT ![q] = r]
  <1>1. CASE BeginCardKeys(q)
    <2>1. PICK saleId \in Sales \cup {None}, now \in Times :
             \/ \E S \in SUBSET Buyers, autoApprove \in BOOLEAN :
                   BeginGenerate(q, S, saleId, autoApprove, now)
             \/ \E ids \in SUBSET Buyers, action \in AutoApproveAction :
                   BeginSend(q, ids, saleId, action, now)
      BY <1>1 DEF BeginCardKeys
    <2>2. ASSUME NEW S \in SUBSET Buyers, NEW autoApprove \in BOOLEAN,
                 BeginGenerate(q, S, saleId, autoApprove, now)
          PROVE  \E r : Plan(r) /\ req' = [req EXCEPT ![q] = r]
      BY <2>2, GeneratePlans
    <2>3. ASSUME NEW ids \in SUBSET Buyers, NEW action \in AutoApproveAction,
                 BeginSend(q, ids, saleId, action, now)
          PROVE  \E r : Plan(r) /\ req' = [req EXCEPT ![q] = r]
      BY <2>3, SendPlans
    <2>4. QED
      BY <2>1, <2>2, <2>3
  <1>2. ASSUME NEW b \in Buyers,
               BeginByBuyer(q, b) \/ BeginByAdmin(q, b) \/ BeginByOthers(q, b)
        PROVE  \E r : Plan(r) /\ req' = [req EXCEPT ![q] = r]
    BY <1>2, ByBuyerPlans, ByAdminPlans, ByOthersPlans
  <1>3. QED
    BY <1>1, <1>2 DEF BeginRequest

----------------------------------------------------------------------------
(* How a plan goes on. *)

LEMMA RequestPlans ==
    ASSUME Planned, IInv, NEW q \in Requests
    PROVE  \E r \in Request : r = req[q] /\ Plan(r) /\ Shape(r)
  BY DEF Planned, IInv

LEMMA ReadAccountPlans ==
    ASSUME IInv, NEW q \in Requests, Plan(req[q]), ReadAccount(q)
    PROVE  \E r : Plan(r) /\ req' = [req EXCEPT ![q] = r]
  <1>1. PICK s \in Request : s = req[q] /\ Plan(s)
    BY DEF IInv
  <1>2. s.phase = "account" /\ UnbindPlan(s)
    BY <1>1 DEF ReadAccount, Continue, Plan
  <1>3. PICK op : op = IF account[s.buyer] = None THEN "none" ELSE "delete"
    OBVIOUS
  <1>4. PICK r : r = [s EXCEPT !.phase = "save", !.account.op = op]
    BY Zenon
  <1>5. /\ r.phase = "save" /\ r.account.op = op /\ r.buyer = s.buyer
        /\ r.insert = s.insert /\ r.changes = s.changes /\ r.assignment = s.assignment
    BY <1>4 DEF Request, AccountStatement
  <1>6. PICK b \in Buyers, y \in Buyer :
           Writes(s, b, y) /\ Unbinds(b, y) /\ NoAssignment(s)
    BY <1>2 DEF UnbindPlan
  <1>7. Applied(r.account, account[b]) = None
    BY <1>3, <1>5, <1>6 DEF Applied, Writes
  <1>8. Writes(r, b, y) /\ NoAssignment(r)
    BY <1>5, <1>6 DEF Writes, NoAssignment
  <1>9. UnbindPlan(r)
    BY <1>5, <1>6, <1>7, <1>8 DEF UnbindPlan
  <1>10. Plan(r)
    BY <1>3, <1>5, <1>9 DEF Plan, Opens, Updates
  <1>11. QED
    BY <1>1, <1>3, <1>4, <1>10 DEF ReadAccount, Continue

(* The next read of an approval.                                           *)
LEMMA ApproveGoesOn ==
    ASSUME NEW s, NEW r, Plan(s), ApprovePlan(s), s.phase \in {"assignment", "suppliers"},
           r.phase \in {"suppliers", "save"},
           r.buyer = s.buyer, r.insert = s.insert, r.changes = s.changes,
           r.account = s.account,
           r.phase = "save" => AutoAssigns(r, s.buyer),
           r.phase = "suppliers" => NoAssignment(r) /\ assignment[s.buyer] = None
    PROVE  Plan(r)
  <1>1. PICK b \in Buyers, y \in Buyer : Writes(s, b, y) /\ Approving(s, b, y)
    BY DEF ApprovePlan
  <1>2. Writes(r, b, y) /\ Approving(r, b, y) /\ s.buyer = b
    BY <1>1 DEF Writes, Approving, NoAccount
  <1>3. ApprovePlan(r)
    BY <1>2 DEF ApprovePlan
  <1>4. Opens(r, r.buyer)
    BY DEF Plan, Opens
  <1>5. QED
    BY <1>3, <1>4 DEF Plan

LEMMA ReadAssignmentPlans ==
    ASSUME IInv, NEW q \in Requests, Plan(req[q]), ReadAssignment(q)
    PROVE  \E r : Plan(r) /\ req' = [req EXCEPT ![q] = r]
  <1>1. PICK s \in Request : s = req[q] /\ Plan(s)
    BY DEF IInv
  <1>2. s.phase = "assignment" /\ ApprovePlan(s)
    BY <1>1 DEF ReadAssignment, Continue, Plan
  <1>3. PICK phase : phase = IF assignment[s.buyer] = None THEN "suppliers" ELSE "save"
    OBVIOUS
  <1>4. PICK r : r = [s EXCEPT !.phase = phase]
    BY Zenon
  <1>5. /\ r.phase = phase /\ r.buyer = s.buyer /\ r.insert = s.insert
        /\ r.changes = s.changes /\ r.account = s.account /\ r.assignment = s.assignment
    BY <1>4 DEF Request
  <1>6. NoAssignment(s)
    BY <1>2 DEF ApprovePlan
  <1>7. NoAssignment(r) /\ Applied(r.assignment, assignment[s.buyer]) = assignment[s.buyer]
    BY <1>5, <1>6 DEF NoAssignment, Applied
  <1>8. phase = "save" => AutoAssigns(r, s.buyer)
    BY <1>3, <1>7 DEF AutoAssigns
  <1>9. Plan(r)
    BY <1>1, <1>2, <1>3, <1>5, <1>7, <1>8, ApproveGoesOn
  <1>10. QED
    BY <1>1, <1>3, <1>4, <1>9 DEF ReadAssignment, Continue

LEMMA ReadSuppliersPlans ==
    ASSUME IInv, NEW q \in Requests, Plan(req[q]), ReadSuppliers(q)
    PROVE  \E r : Plan(r) /\ req' = [req EXCEPT ![q] = r]
  <1>1. PICK s \in Request : s = req[q] /\ Plan(s)
    BY DEF IInv
  <1>2. s.phase = "suppliers" /\ ApprovePlan(s)
    BY <1>1 DEF ReadSuppliers, Continue, Plan
  <1>3. PICK sole \in {p \in Suppliers : active = {p}} \cup {None} :
           /\ sole = None => ~ \E p \in Suppliers : active = {p}
           /\ req' = [req EXCEPT ![q] = [req[q] EXCEPT !.phase = "save",
                         !.assignment = IF sole = None THEN NoStatement
                                        ELSE [op |-> "insert", value |-> sole]]]
    BY DEF ReadSuppliers, Continue
  <1>4. PICK stmt : stmt = IF sole = None THEN NoStatement ELSE [op |-> "insert", value |-> sole]
    BY Zenon
  <1>5. PICK r : r = [s EXCEPT !.phase = "save", !.assignment = stmt]
    BY Zenon
  <1>6. /\ r.phase = "save" /\ r.buyer = s.buyer /\ r.insert = s.insert
        /\ r.changes = s.changes /\ r.account = s.account /\ r.assignment = stmt
    BY <1>5 DEF Request
  <1>7. assignment[s.buyer] = None
    BY <1>2 DEF ApprovePlan, Writes
  <1>8. AutoAssigns(r, s.buyer)
    <2>1. CASE sole = None
      BY <1>3, <1>4, <1>6, <1>7, <2>1 DEF AutoAssigns, Applied, NoStatement
    <2>2. CASE sole # None
      <3>1. sole \in Suppliers /\ active = {sole}
        BY <1>3, <2>2
      <3>2. (CHOOSE p \in Suppliers : active = {p}) = sole
        BY <3>1
      <3>3. Applied(r.assignment, assignment[s.buyer]) = sole
        BY <1>4, <1>6, <2>2 DEF Applied
      <3>4. QED
        BY <1>7, <3>1, <3>2, <3>3 DEF AutoAssigns
    <2>3. QED
      BY <2>1, <2>2
  <1>9. Plan(r)
    BY <1>1, <1>2, <1>6, <1>8, ApproveGoesOn
  <1>10. QED
    BY <1>1, <1>3, <1>4, <1>5, <1>9

LEMMA ReadSupplierPlans ==
    ASSUME IInv, NEW q \in Requests, Plan(req[q]), ReadSupplier(q)
    PROVE  \E r : Plan(r) /\ req' = [req EXCEPT ![q] = r]
  <1>1. PICK s \in Request : s = req[q] /\ Plan(s)
    BY DEF IInv
  <1>2. s.phase = "supplier" /\ AssignPlan(s)
    BY <1>1 DEF ReadSupplier, Continue, Plan
  <1>3. CASE s.assignment.value \notin active
    BY <1>1, <1>3, IdlePlans DEF ReadSupplier, Continue
  <1>4. CASE s.assignment.value \in active
    <2>1. PICK r : r = [s EXCEPT !.phase = "existing"]
      BY Zenon
    <2>2. /\ r.phase = "existing" /\ r.buyer = s.buyer /\ r.insert = s.insert
          /\ r.changes = s.changes /\ r.account = s.account /\ r.assignment = s.assignment
      BY <2>1 DEF Request
    <2>3. PICK b \in Buyers :
             /\ Writes(s, b, row[b]) /\ Present(b) /\ NoAccount(s)
             /\ s.assignment.value \in Suppliers \cup {None}
      BY <1>2 DEF AssignPlan
    <2>4. Writes(r, b, row[b]) /\ NoAccount(r)
      BY <2>2, <2>3 DEF Writes, NoAccount
    <2>5. AssignPlan(r)
      BY <1>4, <2>2, <2>3, <2>4 DEF AssignPlan
    <2>6. Plan(r)
      BY <2>2, <2>4, <2>5 DEF Plan, NoAccount, Opens, Updates
    <2>7. QED
      BY <1>1, <1>4, <2>1, <2>6 DEF ReadSupplier, Continue
  <1>5. QED
    BY <1>3, <1>4

LEMMA ReadExistingAssignmentPlans ==
    ASSUME IInv, NEW q \in Requests, Plan(req[q]), ReadExistingAssignment(q)
    PROVE  \E r : Plan(r) /\ req' = [req EXCEPT ![q] = r]
  <1>1. PICK s \in Request : s = req[q] /\ Plan(s)
    BY DEF IInv
  <1>2. s.phase = "existing" /\ AssignPlan(s)
    BY <1>1 DEF ReadExistingAssignment, Continue, Plan
  <1>3. PICK wanted : wanted = s.assignment.value
    OBVIOUS
  <1>4. PICK op : op = IF assignment[s.buyer] = wanted THEN "none"
                       ELSE CASE assignment[s.buyer] = None -> "insert"
                              [] wanted = None -> "delete"
                              [] OTHER -> "update"
    BY Zenon
  <1>5. req' = [req EXCEPT ![q] = IF op = "none" THEN Idle
                                  ELSE [s EXCEPT !.phase = "save", !.assignment.op = op]]
    BY <1>1, <1>3, <1>4 DEF ReadExistingAssignment, Continue
  <1>6. CASE op = "none"
    BY <1>5, <1>6, IdlePlans
  <1>7. CASE op # "none"
    <2>1. PICK r : r = [s EXCEPT !.phase = "save", !.assignment.op = op]
      BY Zenon
    <2>2. /\ r.phase = "save" /\ r.buyer = s.buyer /\ r.insert = s.insert
          /\ r.changes = s.changes /\ r.account = s.account
          /\ r.assignment.op = op /\ r.assignment.value = wanted
      BY <1>3, <2>1 DEF Request, AssignmentStatement
    <2>3. PICK b \in Buyers :
             /\ Writes(s, b, row[b]) /\ Present(b) /\ NoAccount(s)
             /\ wanted \in Suppliers \cup {None} /\ (wanted # None => wanted \in active)
      BY <1>2, <1>3 DEF AssignPlan
    <2>4. Writes(r, b, row[b]) /\ NoAccount(r)
      BY <2>2, <2>3 DEF Writes, NoAccount
    <2>5. Applied(r.assignment, assignment[b]) = wanted
      BY <1>4, <1>7, <2>2, <2>3 DEF Applied, Writes
    <2>6. AssignPlan(r)
      BY <2>2, <2>3, <2>4, <2>5 DEF AssignPlan
    <2>7. Plan(r)
      BY <2>2, <2>4, <2>6 DEF Plan, NoAccount, Opens, Updates
    <2>8. QED
      BY <1>5, <1>7, <2>1, <2>7
  <1>8. QED
    BY <1>6, <1>7

LEMMA FetchRefusedPlans ==
    ASSUME IInv, NEW q \in Requests, Plan(req[q]), FetchRefused(q)
    PROVE  \E r : Plan(r) /\ req' = [req EXCEPT ![q] = r]
  <1>1. PICK s \in Request : s = req[q] /\ Plan(s)
    BY DEF IInv
  <1>2. PICK b : b = s.buyer
    OBVIOUS
  <1>3. b \in cards /\ b \in Buyers /\ account[b] # None
    BY <1>1, <1>2 DEF FetchRefused, Continue, Plan, PollPlan, Writes
  <1>4. CASE row[b].EmailStatus # "Authorized"
    BY <1>1, <1>2, <1>4, IdlePlans DEF FetchRefused, Continue
  <1>5. CASE row[b].EmailStatus = "Authorized"
    <2>1. AfterMarkAbnormal(row[b]) \in Buyer
      BY <1>3, <1>5, RowIsGood, MarkAbnormalGood DEF GoodRow
    <2>2. Edits(b, AfterMarkAbnormal(row[b]))
      BY <1>3, <1>5 DEF Edits
    <2>3. Plan(Changing(b, AfterMarkAbnormal(row[b]), "save"))
      BY <1>3, <2>1, <2>2, EditBegins
    <2>4. QED
      BY <1>1, <1>2, <1>5, <2>3 DEF FetchRefused, Continue
  <1>6. QED
    BY <1>4, <1>5

LEMMA CallbackPlans ==
    ASSUME IInv, NEW q \in Requests, Plan(req[q]), NEW m \in Mailboxes, NEW now \in Times,
           CompleteAuthorization(q, m, now)
    PROVE  \E r : Plan(r) /\ req' = [req EXCEPT ![q] = r]
  <1>1. PICK s \in Request : s = req[q] /\ Plan(s)
    BY DEF IInv
  <1>2. PICK b : b = s.buyer
    OBVIOUS
  <1>3. Present(b) /\ s.loaded = row[b] /\ b \in cards /\ b \in Buyers /\ row[b] \in Buyer
    BY <1>1, <1>2 DEF CompleteAuthorization, Continue, Plan, CallbackPlan, Writes, IInv, TypeOK
  <1>4. PICK new \in BOOLEAN : new = (account[b] # m)
    OBVIOUS
  <1>5. PICK y : y = AfterCallback(row[b], new, now)
    OBVIOUS
  <1>6. y \in Buyer
    BY <1>3, <1>5, RowIsGood, CallbackGood DEF GoodRow
  <1>7. PICK refused \in BOOLEAN :
          refused = (account[b] # None /\ new /\ ~ResolveBuyerMailAction(row[b]).ChangeEmail)
    OBVIOUS
  <1>8. PICK phase : phase = IF new /\ row[b].AutoApprove THEN "assignment" ELSE "save"
    OBVIOUS
  <1>9. PICK stmt : stmt = [op |-> Binding(account[b], m), value |-> m]
    BY Zenon
  <1>10. PICK r : r = [Idle EXCEPT !.phase = phase, !.buyer = b,
                          !.changes[b] = Changes(row[b], y), !.account = stmt]
    BY Zenon
  <1>11. req' = [req EXCEPT ![q] = IF refused THEN Idle ELSE r]
    BY <1>1, <1>2, <1>3, <1>4, <1>5, <1>7, <1>8, <1>9, <1>10
       DEF CompleteAuthorization, Continue
  <1>12. CASE refused
    BY <1>11, <1>12, IdlePlans
  <1>13. CASE ~refused
    <2>1. /\ r.phase = phase /\ r.buyer = b /\ r.insert = {} /\ r.account = stmt
          /\ r.changes = [Idle.changes EXCEPT ![b] = Changes(row[b], y)]
          /\ r.assignment = NoStatement
      BY <1>10 DEF Idle
    <2>2. Writes(r, b, y)
      BY <1>3, <1>6, <2>1, OneRowWrites
    <2>3. Binds(b, y, m, now)
      BY <1>3, <1>4, <1>5, <1>7, <1>13 DEF Binds
    <2>4. NoAssignment(r)
      BY <2>1 DEF NoAssignment, NoStatement
    <2>5. account[b] \in Mailboxes \cup {None}
      BY <1>3 DEF IInv, TypeOK
    <2>6. Applied(r.account, account[b]) = m /\ Opens(r, r.buyer)
      BY <1>3, <1>9, <2>1, <2>5, BindingBinds DEF Opens
    <2>7. Fresh(b, m) <=> (new /\ row[b].AutoApprove)
      BY <1>4 DEF Fresh
    <2>8. CASE Fresh(b, m)
      <3>1. r.phase = "assignment"
        BY <1>8, <2>1, <2>7, <2>8
      <3>2. Approving(r, b, y)
        BY <2>3, <2>6, <2>8 DEF Approving
      <3>3. ApprovePlan(r)
        BY <1>3, <1>6, <2>2, <2>4, <3>1, <3>2 DEF ApprovePlan
      <3>4. QED
        BY <1>11, <1>13, <2>6, <3>1, <3>3 DEF Plan
    <2>9. CASE ~Fresh(b, m)
      <3>1. r.phase = "save"
        BY <1>8, <2>1, <2>7, <2>9
      <3>2. BindPlan(r)
        BY <1>3, <1>6, <2>2, <2>3, <2>4, <2>6, <2>9 DEF BindPlan
      <3>3. QED
        BY <1>11, <1>13, <2>6, <3>1, <3>2 DEF Plan
    <2>10. QED
      BY <2>8, <2>9
  <1>14. QED
    BY <1>12, <1>13

----------------------------------------------------------------------------
(* A save carries out its plan. *)

LEMMA SaveWrites ==
    ASSUME IInv, NEW q \in Requests, SaveChanges(q), NEW r, r = req[q],
           NEW b, NEW y, Writes(r, b, y)
    PROVE  /\ cards' = cards /\ active' = active
           /\ row' = [row EXCEPT ![b] = y]
           /\ account' = [account EXCEPT ![b] = Applied(r.account, account[b])]
           /\ assignment' = [assignment EXCEPT ![b] = Applied(r.assignment, assignment[b])]
  <1>1. r.insert = {} /\ r.buyer = b
    BY DEF Writes
  <1>2. /\ row \in [Buyers -> Buyer] /\ account \in [Buyers -> Mailboxes \cup {None}]
        /\ assignment \in [Buyers -> Suppliers \cup {None}]
    BY DEF IInv, TypeOK
  <1>3. cards' = cards /\ active' = active
    BY <1>1 DEF SaveChanges
  <1>4. \A c \in Buyers : Merge(row[c], r.changes[c]) = IF c = b THEN y ELSE row[c]
    BY <1>2, NoChangeIs DEF Writes
  <1>5. row' = [row EXCEPT ![b] = y]
    BY <1>2, <1>4 DEF SaveChanges
  <1>6. account' = [account EXCEPT ![b] = Applied(r.account, account[b])]
    BY <1>1, <1>2 DEF SaveChanges
  <1>7. assignment' = [assignment EXCEPT ![b] = Applied(r.assignment, assignment[b])]
    BY <1>1, <1>2 DEF SaveChanges
  <1>8. QED
    BY <1>3, <1>5, <1>6, <1>7

LEMMA SaveKeeps ==
    ASSUME IInv, NEW q \in Requests, SaveChanges(q), NEW r, r = req[q]
    PROVE  /\ NoAccount(r) => account' = account
           /\ NoAssignment(r) => assignment' = assignment
  <1>1. /\ account \in [Buyers -> Mailboxes \cup {None}]
        /\ assignment \in [Buyers -> Suppliers \cup {None}]
    BY DEF IInv, TypeOK
  <1>2. NoAccount(r) => account' = account
    BY <1>1 DEF SaveChanges, NoAccount, Applied
  <1>3. NoAssignment(r) => assignment' = assignment
    BY <1>1 DEF SaveChanges, NoAssignment, Applied
  <1>4. QED
    BY <1>2, <1>3

LEMMA SavesEdit ==
    ASSUME IInv, NEW q \in Requests, SaveChanges(q), NEW r, r = req[q], EditPlan(r)
    PROVE  Next
  <1>1. PICK b \in Buyers, y \in Buyer :
           Writes(r, b, y) /\ Edits(b, y) /\ NoAccount(r) /\ NoAssignment(r)
    BY DEF EditPlan
  <1>2. b \in cards /\ cards' = cards /\ active' = active /\ row' = [row EXCEPT ![b] = y]
    BY <1>1, SaveWrites DEF Writes
  <1>3. account' = account /\ assignment' = assignment
    BY <1>1, SaveKeeps
  <1>4. row \in [Buyers -> Buyer]
    BY DEF IInv, TypeOK
  <1>5. CASE Present(b) /\ row[b].Stage = "Sent" /\ y = AfterVerify(row[b])
    BY <1>2, <1>3, <1>4, <1>5 DEF Verify, BuyerStep, Next
  <1>6. CASE Present(b) /\ y = AfterDelete(row[b])
    BY <1>2, <1>3, <1>4, <1>6 DEF DeleteBuyer, AdminStep, Next
  <1>7. ASSUME NEW saleId \in Sales, CanSalesDeleteBuyer(row[b], saleId), y = AfterDelete(row[b])
        PROVE  Next
    BY <1>2, <1>3, <1>4, <1>7 DEF SalesDelete, OthersStep, Next
  <1>8. ASSUME NEW status \in SupplierProcessingStatus, CanAdminSetStatus(row[b]),
               y = AfterSetStatus(row[b], status)
        PROVE  Next
    BY <1>2, <1>3, <1>4, <1>8 DEF AdminSetStatus, AdminStep, Next
  <1>9. ASSUME NEW status \in SupplierProcessingStatus, NEW s \in Suppliers,
               CanSupplierSetStatus(row[b], assignment[b], s), y = AfterSetStatus(row[b], status)
        PROVE  Next
    BY <1>2, <1>3, <1>4, <1>9 DEF SupplierSetStatus, OthersStep, Next
  <1>10. CASE IsReviewable(row[b]) /\ y = AfterReview(row[b], "Rejected")
    BY <1>2, <1>3, <1>4, <1>10 DEF Review, AdminStep, Next
  <1>11. CASE /\ account[b] # None /\ row[b].EmailStatus = "Authorized"
              /\ y = AfterMarkAbnormal(row[b])
    BY <1>2, <1>3, <1>4, <1>11 DEF MarkAbnormal, OthersStep, Next
  <1>12. QED
    BY <1>1, <1>5, <1>6, <1>7, <1>8, <1>9, <1>10, <1>11 DEF Edits

LEMMA SavesUnbind ==
    ASSUME IInv, NEW q \in Requests, SaveChanges(q), NEW r, r = req[q], UnbindPlan(r)
    PROVE  Next
  <1>1. PICK b \in Buyers, y \in Buyer :
           /\ Writes(r, b, y) /\ Unbinds(b, y) /\ NoAssignment(r)
           /\ Applied(r.account, account[b]) = None
    BY DEF UnbindPlan, SaveChanges
  <1>2. /\ cards' = cards /\ active' = active /\ row' = [row EXCEPT ![b] = y]
        /\ account' = [account EXCEPT ![b] = None]
    <2>1. /\ cards' = cards /\ active' = active /\ row' = [row EXCEPT ![b] = y]
          /\ account' = [account EXCEPT ![b] = Applied(r.account, account[b])]
          /\ assignment' = [assignment EXCEPT ![b] = Applied(r.assignment, assignment[b])]
      BY <1>1, SaveWrites DEF Writes
    <2>2. QED
      BY <1>1, <2>1
  <1>3. assignment' = assignment
    BY <1>1, SaveKeeps
  <1>4. row \in [Buyers -> Buyer]
    BY DEF IInv, TypeOK
  <1>5. ChangeEmail(b) \/ ClearAuth(b)
    BY <1>1, <1>2, <1>3, <1>4 DEF Unbinds, ChangeEmail, ClearAuth
  <1>6. QED
    BY <1>5 DEF BuyerStep, Next

LEMMA SavesApproval ==
    ASSUME IInv, NEW q \in Requests, SaveChanges(q), NEW r, r = req[q], ApprovePlan(r)
    PROVE  Next
  <1>1. PICK b \in Buyers, y \in Buyer :
           Writes(r, b, y) /\ Approving(r, b, y) /\ AutoAssigns(r, b)
    BY DEF ApprovePlan, SaveChanges
  <1>2. /\ b \in cards /\ cards' = cards /\ active' = active /\ row' = [row EXCEPT ![b] = y]
        /\ account' = [account EXCEPT ![b] = Applied(r.account, account[b])]
        /\ assignment' = [assignment EXCEPT ![b] = Applied(r.assignment, assignment[b])]
    BY <1>1, SaveWrites DEF Writes
  <1>3. /\ row \in [Buyers -> Buyer] /\ assignment \in [Buyers -> Suppliers \cup {None}]
    BY DEF IInv, TypeOK
  <1>4. AutoAssignSingleSupplier(b)
    BY <1>1, <1>2, <1>3 DEF AutoAssigns, AutoAssignSingleSupplier
  <1>5. CASE Approves(b, y) /\ NoAccount(r)
    <2>1. account' = account
      BY <1>5, SaveKeeps
    <2>2. Review(b, "Approved")
      BY <1>2, <1>3, <1>4, <1>5, <2>1 DEF Approves, Review
    <2>3. QED
      BY <2>2 DEF AdminStep, Next
  <1>6. ASSUME NEW m \in Mailboxes, NEW now \in Times, Binds(b, y, m, now), Fresh(b, m),
               Applied(r.account, account[b]) = m
        PROVE  Next
    <2>1. Callback(b, m, now)
      BY <1>2, <1>3, <1>4, <1>6 DEF Binds, Fresh, Callback
    <2>2. QED
      BY <2>1 DEF BuyerStep, Next
  <1>7. QED
    BY <1>1, <1>5, <1>6 DEF Approving

LEMMA SavesBind ==
    ASSUME IInv, NEW q \in Requests, SaveChanges(q), NEW r, r = req[q], BindPlan(r)
    PROVE  Next
  <1>1. PICK b \in Buyers, y \in Buyer, m \in Mailboxes, now \in Times :
           /\ Writes(r, b, y) /\ Binds(b, y, m, now) /\ ~Fresh(b, m)
           /\ Applied(r.account, account[b]) = m /\ NoAssignment(r)
    BY DEF BindPlan
  <1>2. /\ cards' = cards /\ active' = active /\ row' = [row EXCEPT ![b] = y]
        /\ account' = [account EXCEPT ![b] = m]
    <2>1. /\ cards' = cards /\ active' = active /\ row' = [row EXCEPT ![b] = y]
          /\ account' = [account EXCEPT ![b] = Applied(r.account, account[b])]
          /\ assignment' = [assignment EXCEPT ![b] = Applied(r.assignment, assignment[b])]
      BY <1>1, SaveWrites DEF Writes
    <2>2. QED
      BY <1>1, <2>1
  <1>3. assignment' = assignment
    BY <1>1, SaveKeeps
  <1>4. row \in [Buyers -> Buyer]
    BY DEF IInv, TypeOK
  <1>5. Callback(b, m, now)
    BY <1>1, <1>2, <1>3, <1>4 DEF Binds, Fresh, Callback
  <1>6. QED
    BY <1>5 DEF BuyerStep, Next

LEMMA SavesAssignment ==
    ASSUME IInv, NEW q \in Requests, SaveChanges(q), NEW r, r = req[q], AssignPlan(r)
    PROVE  Next
  <1>1. PICK b \in Buyers, supplierId \in Suppliers \cup {None} :
           /\ Writes(r, b, row[b]) /\ Present(b) /\ NoAccount(r)
           /\ supplierId # None => supplierId \in active
           /\ Applied(r.assignment, assignment[b]) = supplierId
    BY DEF AssignPlan, SaveChanges
  <1>2. /\ cards' = cards /\ active' = active /\ row' = [row EXCEPT ![b] = row[b]]
        /\ assignment' = [assignment EXCEPT ![b] = supplierId]
    <2>1. PICK y : y = row[b]
      OBVIOUS
    <2>2. Writes(r, b, y)
      BY <1>1, <2>1
    <2>3. /\ cards' = cards /\ active' = active /\ row' = [row EXCEPT ![b] = y]
          /\ account' = [account EXCEPT ![b] = Applied(r.account, account[b])]
          /\ assignment' = [assignment EXCEPT ![b] = Applied(r.assignment, assignment[b])]
      BY <2>2, SaveWrites DEF Writes
    <2>4. QED
      BY <1>1, <2>1, <2>3
  <1>3. account' = account
    BY <1>1, SaveKeeps
  <1>4. row' = row
    BY <1>2 DEF IInv, TypeOK
  <1>5. AssignSupplier(b, supplierId)
    BY <1>1, <1>2, <1>3, <1>4 DEF AssignSupplier
  <1>6. QED
    BY <1>5 DEF AdminStep, Next

LEMMA SavesGeneration ==
    ASSUME IInv, NEW q \in Requests, SaveChanges(q), NEW r, r = req[q], GeneratePlan(r)
    PROVE  Next
  <1>1. PICK S \in SUBSET Buyers, saleId \in Sales \cup {None}, autoApprove \in BOOLEAN,
             now \in Times :
           /\ S # {} /\ S \cap cards = {} /\ r.insert = S
           /\ \A c \in Buyers : r.changes[c] = IF c \in S THEN NewCard(saleId, autoApprove, now)
                                                        ELSE NoChange
           /\ NoAccount(r) /\ NoAssignment(r)
    BY DEF GeneratePlan
  <1>2. account' = account /\ assignment' = assignment
    BY <1>1, SaveKeeps
  <1> DEFINE card == NewCard(saleId, autoApprove, now)
  <1>3. card \in Buyer /\ \A c \in Buyers : row[c] \in Buyer
    BY NewCardGood DEF GoodRow, IInv, TypeOK
  <1> HIDE DEF card
  <1>4. \A c \in Buyers : Merge(row[c], r.changes[c]) = IF c \in S THEN card ELSE row[c]
    BY <1>1, <1>3, RowIsAChange, NoChangeIs DEF card
  <1>5. row' = [b \in Buyers |-> IF b \in S THEN NewCard(saleId, autoApprove, now) ELSE row[b]]
    BY <1>4 DEF SaveChanges, card
  <1>6. Generate(S, saleId, autoApprove, now)
    BY <1>1, <1>2, <1>5 DEF SaveChanges, Generate
  <1>7. QED
    BY <1>6 DEF CardKeyStep, Next

LEMMA SavesSending ==
    ASSUME IInv, NEW q \in Requests, SaveChanges(q), NEW r, r = req[q], SendPlan(r)
    PROVE  Next
  <1>1. PICK targets \in SUBSET Buyers, saleId \in Sales \cup {None},
             action \in AutoApproveAction, now \in Times :
           /\ targets # {} /\ targets \subseteq cards /\ r.insert = {}
           /\ \A c \in targets : /\ IsSendTarget(row[c])
                                 /\ Merge(row[c], r.changes[c]) =
                                        AfterSend(row[c], saleId, action, now)
           /\ \A c \in Buyers \ targets : r.changes[c] = NoChange
           /\ NoAccount(r) /\ NoAssignment(r)
    BY DEF SendPlan
  <1>2. account' = account /\ assignment' = assignment
    BY <1>1, SaveKeeps
  <1>3. \A c \in Buyers \ targets : Merge(row[c], r.changes[c]) = row[c]
    BY <1>1, NoChangeIs DEF IInv, TypeOK
  <1>4. row' = [b \in Buyers |-> IF b \in targets THEN AfterSend(row[b], saleId, action, now)
                                                  ELSE row[b]]
    BY <1>1, <1>3 DEF SaveChanges
  <1>5. {b \in targets \cap cards : IsSendTarget(row[b])} = targets
    BY <1>1
  <1>6. Send(targets, saleId, action, now)
    BY <1>1, <1>2, <1>4, <1>5 DEF SaveChanges, Send
  <1>7. QED
    BY <1>6 DEF CardKeyStep, Next

LEMMA SaveIsNext ==
    ASSUME IInv, NEW q \in Requests, Plan(req[q]), SaveChanges(q)
    PROVE  Next
  <1>1. PICK r : r = req[q]
    OBVIOUS
  <1>2. Plan(r) /\ r.phase = "save"
    BY <1>1 DEF SaveChanges
  <1>3. \/ EditPlan(r) \/ UnbindPlan(r) \/ ApprovePlan(r) \/ BindPlan(r)
        \/ AssignPlan(r) \/ GeneratePlan(r) \/ SendPlan(r)
    BY <1>2 DEF Plan
  <1>4. QED
    BY <1>1, <1>3, SavesEdit, SavesUnbind, SavesApproval, SavesBind, SavesAssignment,
       SavesGeneration, SavesSending

----------------------------------------------------------------------------
(* The plan of a request stands while its cards, and the suppliers it has   *)
(* looked at, are left alone.                                              *)

LEMMA PlanOfCards ==
    ASSUME IInv, NEW r \in Request, Plan(r),
           cards \subseteq cards', r.insert \cap cards' = r.insert \cap cards,
           \A b \in CardsOf(r) : /\ row'[b] = row[b] /\ account'[b] = account[b]
                                 /\ assignment'[b] = assignment[b],
           r.phase \in {"existing", "save"} => active' = active
    PROVE  Plan(r)'
  <1>0. cards \subseteq Buyers /\ None \notin Buyers
    BY NullIsNoId DEF IInv, TypeOK
  <1>1. ASSUME NEW b \in Buyers, r.buyer = b
        PROVE  /\ row'[b] = row[b] /\ account'[b] = account[b] /\ assignment'[b] = assignment[b]
               /\ b \in cards => b \in cards'
    BY <1>0, <1>1 DEF CardsOf
  <1>2. ASSUME NEW b \in Buyers, NEW y, Writes(r, b, y)
        PROVE  /\ Writes(r, b, y)' /\ b \in cards /\ b \in cards'
               /\ row'[b] = row[b] /\ account'[b] = account[b] /\ assignment'[b] = assignment[b]
    BY <1>1, <1>2 DEF Writes
  <1>3. EditPlan(r) => EditPlan(r)'
    BY <1>2 DEF EditPlan, Edits, NoAccount, NoAssignment, Present
  <1>4. UnbindPlan(r) => UnbindPlan(r)'
    BY <1>2 DEF UnbindPlan, Unbinds, NoAccount, NoAssignment, Present
  <1>5. ApprovePlan(r) => ApprovePlan(r)'
    BY <1>2 DEF ApprovePlan, Approving, Approves, Binds, Fresh, AutoAssigns,
                NoAccount, NoAssignment, Present
  <1>6. BindPlan(r) => BindPlan(r)'
    BY <1>2 DEF BindPlan, Binds, Fresh, NoAssignment, Present
  <1>7. AssignPlan(r) /\ r.phase \in {"supplier", "existing", "save"} => AssignPlan(r)'
    BY <1>2 DEF AssignPlan, NoAccount, Present
  <1>8. GeneratePlan(r) => GeneratePlan(r)'
    BY DEF GeneratePlan, NoAccount, NoAssignment
  <1>9. SendPlan(r) => SendPlan(r)'
    <2> SUFFICES ASSUME SendPlan(r) PROVE SendPlan(r)'
      OBVIOUS
    <2>1. PICK targets \in SUBSET Buyers, saleId \in Sales \cup {None},
               action \in AutoApproveAction, now \in Times :
             /\ targets # {} /\ targets \subseteq cards /\ r.buyer = None /\ r.insert = {}
             /\ \A c \in targets : /\ IsSendTarget(row[c])
                                   /\ Merge(row[c], r.changes[c]) =
                                          AfterSend(row[c], saleId, action, now)
             /\ \A c \in Buyers \ targets : r.changes[c] = NoChange
             /\ NoAccount(r) /\ NoAssignment(r)
      BY DEF SendPlan
    <2>2. ASSUME NEW c \in targets PROVE row'[c] = row[c]
      <3>1. row[c] \in Buyer
        BY DEF IInv, TypeOK
      <3>2. row[c].Stage = "NotSent" /\ AfterSend(row[c], saleId, action, now).Stage = "Sent"
        BY <2>1, <3>1 DEF IsSendTarget, AfterSend, Buyer
      <3>3. r.changes[c] # NoChange
        BY <2>1, <3>1, <3>2, NoChangeIs
      <3>4. c \in CardsOf(r)
        BY <3>3 DEF CardsOf
      <3>5. QED
        BY <3>4
    <2>3. QED
      BY <2>1, <2>2 DEF SendPlan, NoAccount, NoAssignment
  <1>10. CallbackPlan(r) => CallbackPlan(r)'
    BY <1>2 DEF CallbackPlan, Present
  <1>11. PollPlan(r) => PollPlan(r)'
    BY <1>2 DEF PollPlan
  <1>12. Opens(r, r.buyer)'
    BY <1>1 DEF Plan, Opens, Applied
  <1>13. QED
    BY <1>3, <1>4, <1>5, <1>6, <1>7, <1>8, <1>9, <1>10, <1>11, <1>12 DEF Plan

LEMMA PlanIsOfRows ==
    ASSUME IInv, NEW r \in Request, Plan(r), UNCHANGED vars
    PROVE  Plan(r)'
  <1>1. UNCHANGED <<cards, row, account, assignment, active>>
    BY DEF vars
  <1>2. QED
    BY <1>1, PlanOfCards

LEMMA PlanStays ==
    ASSUME IInv, Planned, NEW q \in Requests, NEW r, Plan(r), req' = [req EXCEPT ![q] = r],
           IInv', UNCHANGED vars
    PROVE  Planned'
  <1>1. ASSUME NEW p \in Requests PROVE Plan(req[p])'
    <2>1. PICK s : s = req'[p]
      OBVIOUS
    <2>2. s \in Request
      BY <2>1 DEF IInv
    <2>3. Plan(s)
      BY <2>1 DEF Planned, IInv
    <2>4. Plan(s)'
      BY <2>2, <2>3, PlanIsOfRows
    <2>5. QED
      BY <2>1, <2>4
  <1>2. QED
    BY <1>1 DEF Planned

(* A request without a buyer writes no account and no assignment.          *)
LEMMA NobodysStatements ==
    ASSUME IInv, NEW r, Plan(r), r.phase = "save", r.buyer \notin Buyers
    PROVE  NoAccount(r) /\ NoAssignment(r)
  <1>1. ~UnbindPlan(r) /\ ~ApprovePlan(r) /\ ~BindPlan(r) /\ ~AssignPlan(r)
    BY DEF UnbindPlan, ApprovePlan, BindPlan, AssignPlan, Writes
  <1>2. EditPlan(r) \/ GeneratePlan(r) \/ SendPlan(r)
    BY <1>1 DEF Plan
  <1>3. QED
    BY <1>2 DEF EditPlan, GeneratePlan, SendPlan

(* The save of one request leaves the cards of every other one alone, and  *)
(* takes no row away under its statements.                                 *)
LEMMA SaveSpares ==
    ASSUME Apart, IInv, Planned, NEW q \in Requests, SaveChanges(q),
           NEW p \in Requests, p # q
    PROVE  /\ req'[p] = req[p] /\ active' = active
           /\ cards \subseteq cards'
           /\ req[p].insert \cap cards' = req[p].insert \cap cards
           /\ \A b \in CardsOf(req[p]) : /\ row'[b] = row[b] /\ account'[b] = account[b]
                                          /\ assignment'[b] = assignment[b]
  <1>1. PICK r \in Request : r = req[q] /\ Plan(r) /\ r.phase = "save"
    BY RequestPlans DEF SaveChanges
  <1>2. PICK s \in Request : s = req[p]
    BY DEF IInv
  <1>4. r.buyer \in Buyers \cup {None} /\ s.buyer \in Buyers \cup {None}
    BY DEF Request
  <1>3. CardsOf(r) \cap CardsOf(s) = {} /\ None \notin Buyers
    <2>1. CardsOf(r) \subseteq Buyers
      BY <1>4 DEF CardsOf, Request
    <2>2. QED
      BY <1>1, <1>2, <2>1, NullIsNoId DEF Apart, ApartOn
  <1>5. cards' = cards \cup r.insert /\ active' = active
    BY <1>1 DEF SaveChanges
  <1>6. s.insert \cap r.insert = {}
    BY <1>3 DEF CardsOf
  <1>7. ASSUME NEW b \in CardsOf(s)
        PROVE  row'[b] = row[b] /\ account'[b] = account[b] /\ assignment'[b] = assignment[b]
    <2>1. b \in Buyers /\ row[b] \in Buyer
      BY <1>4 DEF CardsOf, Request, IInv, TypeOK
    <2>2. r.changes[b] = NoChange /\ b # r.buyer
      BY <1>3, <2>1 DEF CardsOf
    <2>3. row'[b] = Merge(row[b], r.changes[b])
      BY <1>1, <2>1 DEF SaveChanges
    <2>4. QED
      BY <1>1, <2>1, <2>2, <2>3, NoChangeIs DEF SaveChanges
  <1>8. req'[p] = LoseRow(LoseRow(s, r.buyer, "account", r.account.op = "delete"),
                          r.buyer, "assignment", r.assignment.op = "delete")
    BY <1>1, <1>2 DEF SaveChanges
  <1>9. CASE r.buyer \in Buyers
    <2>1. s.buyer # r.buyer
      BY <1>3, <1>9 DEF CardsOf
    <2>2. LoseRow(s, r.buyer, "account", r.account.op = "delete") = s
      BY <2>1 DEF LoseRow
    <2>3. LoseRow(s, r.buyer, "assignment", r.assignment.op = "delete") = s
      BY <2>1 DEF LoseRow
    <2>4. QED
      BY <1>2, <1>5, <1>6, <1>7, <1>8, <2>2, <2>3
  <1>10. CASE r.buyer \notin Buyers
    <2>1. r.account.op = "none" /\ r.assignment.op = "none"
      BY <1>1, <1>10, NobodysStatements DEF NoAccount, NoAssignment
    <2>2. LoseRow(s, r.buyer, "account", r.account.op = "delete") = s
      BY <2>1 DEF LoseRow
    <2>3. LoseRow(s, r.buyer, "assignment", r.assignment.op = "delete") = s
      BY <2>1 DEF LoseRow
    <2>4. QED
      BY <1>2, <1>5, <1>6, <1>7, <1>8, <2>2, <2>3
  <1>11. QED
    BY <1>9, <1>10

Standing == active' # active => \A q \in Requests : req[q].phase \notin {"existing", "save"}

LEMMA PlannedNext ==
    ASSUME Apart, IInv, IInv', Planned, Standing, NextRequests
    PROVE  Planned' /\ (Next \/ UNCHANGED vars)
  <1>1. PICK q \in Requests : \/ BeginRequest(q) \/ Proceed(q) \/ ProviderAnswers(q)
                              \/ Abort(q) \/ ToggleSupplier(q)
    BY DEF NextRequests
  <1>0. Plan(req[q])
    BY DEF Planned
  <1>2. CASE BeginRequest(q)
    BY <1>2, BeginPlans, PlanStays DEF BeginRequest
  <1>3. CASE /\ \/ ReadAccount(q) \/ ReadAssignment(q) \/ ReadSuppliers(q)
                \/ ReadSupplier(q) \/ ReadExistingAssignment(q)
             /\ UNCHANGED <<vars, token>>
    BY <1>0, <1>3, ReadAccountPlans, ReadAssignmentPlans, ReadSuppliersPlans, ReadSupplierPlans,
       ReadExistingAssignmentPlans, PlanStays
  <1>4. CASE SaveFails(q) \/ Abort(q)
    BY <1>4, IdlePlans, PlanStays DEF SaveFails, Abort, Continue
  <1>5. CASE SaveChanges(q)
    <2>1. ASSUME NEW p \in Requests PROVE Plan(req[p])'
      <3>1. CASE p = q
        <4>1. req'[p] = Idle
          BY <1>5, <3>1 DEF SaveChanges
        <4>2. QED
          BY <4>1 DEF Plan, Idle, NoStatement, Opens, Updates
      <3>2. CASE p # q
        <4>1. PICK s \in Request : s = req[p] /\ Plan(s)
          BY RequestPlans
        <4>2. Plan(s)'
          BY <1>5, <3>2, <4>1, SaveSpares, PlanOfCards
        <4>3. req'[p] = s
          BY <1>5, <3>2, <4>1, SaveSpares
        <4>4. QED
          BY <4>2, <4>3
      <3>3. QED
        BY <3>1, <3>2
    <2>2. QED
      BY <1>0, <1>5, <2>1, SaveIsNext DEF Planned
  <1>6. CASE ProviderAnswers(q)
    BY <1>0, <1>6, CallbackPlans, FetchRefusedPlans, PlanStays DEF ProviderAnswers
  <1>7. CASE ToggleSupplier(q)
    <2>1. UNCHANGED <<cards, row, account, assignment, req>>
      BY <1>7 DEF ToggleSupplier, SetActive
    <2>2. ASSUME NEW p \in Requests PROVE Plan(req[p])'
      <3>1. PICK s \in Request : s = req[p] /\ Plan(s)
        BY RequestPlans
      <3>2. s.phase \in {"existing", "save"} => active' = active
        BY <3>1 DEF Standing
      <3>3. Plan(s)'
        BY <2>1, <3>1, <3>2, PlanOfCards
      <3>4. QED
        BY <2>1, <3>1, <3>3
    <2>3. Next
      BY <1>7 DEF ToggleSupplier, Next
    <2>4. QED
      BY <2>2, <2>3 DEF Planned
  <1>8. QED
    BY <1>1, <1>2, <1>3, <1>4, <1>5, <1>6, <1>7 DEF Proceed

LEMMA PlannedSteps ==
    ASSUME Apart, IInv, IInv', Planned, Standing, [NextRequests]_allVars
    PROVE  Planned'
  <1>1. CASE NextRequests
    BY <1>1, PlannedNext
  <1>2. CASE UNCHANGED allVars
    <2>1. UNCHANGED vars /\ req' = req
      BY <1>2 DEF allVars
    <2>2. ASSUME NEW p \in Requests PROVE Plan(req[p])'
      <3>1. PICK r \in Request : r = req[p] /\ Plan(r)
        BY RequestPlans
      <3>2. Plan(r)'
        BY <2>1, <3>1, PlanIsOfRows
      <3>3. QED
        BY <2>1, <3>1, <3>2
    <2>3. QED
      BY <2>2 DEF Planned
  <1>3. QED
    BY <1>1, <1>2

----------------------------------------------------------------------------
(* One card.  While the requests that have it in hand do not overlap, what  *)
(* happens to it is what the handlers make of it one at a time, whatever    *)
(* overlaps on other cards and whoever switches suppliers.                  *)

Outcome(r, b, y) ==
    \/ (y = row[b] \/ Edits(b, y) \/ Approves(b, y)) /\ NoAccount(r)
    \/ Unbinds(b, y) /\ Applied(r.account, account[b]) = None
    \/ \E m \in Mailboxes, now \in Times :
          Binds(b, y, m, now) /\ Applied(r.account, account[b]) = m

(* What is going to happen to the buyer that the request is about,         *)
OwnPlan(r, b) ==
    /\ r.buyer = b
    /\ Opens(r, b)
    /\ \/ r.phase = "provider" /\ CallbackPlan(r)
       \/ r.phase = "fetch" /\ PollPlan(r)
       \/ /\ r.phase = "account"
          /\ \E y \in Buyer : Writes(r, b, y) /\ Unbinds(b, y) /\ NoAccount(r)
       \/ /\ r.phase \in {"assignment", "suppliers", "supplier", "existing", "save"}
          /\ \E y \in Buyer : Writes(r, b, y) /\ Outcome(r, b, y)

(* and to one card of many.                                                *)
BatchPlan(r, b) ==
    /\ r.buyer # b /\ r.phase = "save"
    /\ \E y \in Buyer : Merge(row[b], r.changes[b]) = y /\ (Enters(b, y) \/ IsSent(b, y))

CardPlan(r, b) == r.phase = "idle" \/ OwnPlan(r, b) \/ BatchPlan(r, b)

CardPlanned(b) == \A q \in Requests : b \in CardsOf(req[q]) => CardPlan(req[q], b)

(* A plan is one for each of the cards.                                    *)
LEMMA PlanOfCard ==
    ASSUME IInv, NEW r, Plan(r), NEW b \in Buyers, b \in CardsOf(r)
    PROVE  CardPlan(r, b)
  <1>0. ASSUME NEW c \in Buyers, NEW y, Writes(r, c, y)
        PROVE  c = b /\ r.buyer = b
    BY <1>0 DEF Writes, CardsOf
  <1>1. r.buyer = b => Opens(r, b)
    BY DEF Plan
  <1>2. CASE r.phase \in {"idle", "provider", "fetch"}
    BY <1>0, <1>1, <1>2 DEF Plan, CardPlan, OwnPlan, CallbackPlan, PollPlan
  <1>3. CASE r.phase = "account"
    <2>1. UnbindPlan(r)
      BY <1>3 DEF Plan
    <2>2. QED
      BY <1>0, <1>1, <1>3, <2>1 DEF CardPlan, OwnPlan, UnbindPlan
  <1>4. CASE r.phase \in {"assignment", "suppliers", "supplier", "existing"}
    <2>1. ApprovePlan(r) \/ AssignPlan(r)
      BY <1>4 DEF Plan
    <2>2. \E y \in Buyer : Writes(r, b, y) /\ Outcome(r, b, y)
      BY <1>0, <2>1 DEF ApprovePlan, Approving, AssignPlan, Outcome, IInv, TypeOK
    <2>3. QED
      BY <1>0, <1>1, <1>4, <2>2 DEF CardPlan, OwnPlan, Writes
  <1>5. CASE r.phase = "save"
    <2>1. CASE EditPlan(r) \/ UnbindPlan(r) \/ ApprovePlan(r) \/ BindPlan(r) \/ AssignPlan(r)
      <3>1. \E y \in Buyer : Writes(r, b, y) /\ Outcome(r, b, y)
        BY <1>0, <1>5, <2>1
           DEF EditPlan, UnbindPlan, ApprovePlan, Approving, BindPlan, AssignPlan, Outcome,
               IInv, TypeOK
      <3>2. QED
        BY <1>0, <1>1, <1>5, <3>1 DEF CardPlan, OwnPlan, Writes
    <2>2. CASE GeneratePlan(r)
      <3>1. PICK S \in SUBSET Buyers, saleId \in Sales \cup {None}, autoApprove \in BOOLEAN,
                 now \in Times :
               /\ S \cap cards = {} /\ r.buyer = None /\ r.insert = S
               /\ \A c \in Buyers : r.changes[c] = IF c \in S
                                                   THEN NewCard(saleId, autoApprove, now)
                                                   ELSE NoChange
        BY <2>2 DEF GeneratePlan
      <3>2. b \in S
        BY <3>1 DEF CardsOf
      <3>3. PICK y : y = NewCard(saleId, autoApprove, now)
        OBVIOUS
      <3>4. y \in Buyer /\ row[b] \in Buyer
        BY <3>3, NewCardGood DEF GoodRow, IInv, TypeOK
      <3>5. Merge(row[b], r.changes[b]) = y
        BY <3>1, <3>2, <3>3, <3>4, RowIsAChange
      <3>6. Enters(b, y)
        BY <3>1, <3>2, <3>3 DEF Enters
      <3>7. QED
        BY <1>5, <3>1, <3>4, <3>5, <3>6, NullIsNoId DEF CardPlan, BatchPlan
    <2>3. CASE SendPlan(r)
      <3>1. PICK targets \in SUBSET Buyers, saleId \in Sales \cup {None},
                 action \in AutoApproveAction, now \in Times :
               /\ targets # {} /\ targets \subseteq cards /\ r.buyer = None /\ r.insert = {}
               /\ \A c \in targets : /\ IsSendTarget(row[c])
                                     /\ Merge(row[c], r.changes[c]) =
                                            AfterSend(row[c], saleId, action, now)
               /\ \A c \in Buyers \ targets : r.changes[c] = NoChange
               /\ NoAccount(r) /\ NoAssignment(r)
        BY <2>3 DEF SendPlan
      <3>2. b \in targets
        BY <3>1 DEF CardsOf
      <3>3. PICK y : y = AfterSend(row[b], saleId, action, now)
        OBVIOUS
      <3>4. y \in Buyer
        BY <3>1, <3>2, <3>3, RowIsGood, SendGood DEF GoodRow
      <3>5. Merge(row[b], r.changes[b]) = y /\ IsSent(b, y)
        BY <3>1, <3>2, <3>3 DEF IsSent
      <3>6. QED
        BY <1>5, <3>1, <3>4, <3>5, NullIsNoId DEF CardPlan, BatchPlan
    <2>4. QED
      BY <1>5, <2>1, <2>2, <2>3 DEF Plan
  <1>6. QED
    BY <1>2, <1>3, <1>4, <1>5 DEF Plan

(* It stands while its card is left alone.                                 *)
LEMMA CardPlanStands ==
    ASSUME NEW r, NEW b \in Buyers, CardPlan(r, b),
           row'[b] = row[b], account'[b] = account[b], assignment'[b] = assignment[b],
           b \in cards' <=> b \in cards
    PROVE  CardPlan(r, b)'
  <1>1. ASSUME NEW y PROVE Writes(r, b, y) => Writes(r, b, y)'
    BY DEF Writes
  <1>2. CASE BatchPlan(r, b)
    BY <1>2 DEF CardPlan, BatchPlan, Enters, IsSent
  <1>3. CASE OwnPlan(r, b)
    <2>1. ASSUME NEW y
          PROVE  /\ Unbinds(b, y) => Unbinds(b, y)'
                 /\ Outcome(r, b, y) => Outcome(r, b, y)'
      <3>1. Present(b)' <=> Present(b)
        BY DEF Present
      <3>2. Unbinds(b, y) => Unbinds(b, y)'
        BY <3>1 DEF Unbinds
      <3>3. (y = row[b] => y = row'[b]) /\ (Approves(b, y) => Approves(b, y)')
        BY DEF Approves
      <3>4. Edits(b, y) => Edits(b, y)'
        BY <3>1 DEF Edits
      <3>5. ASSUME NEW m, NEW now PROVE Binds(b, y, m, now) => Binds(b, y, m, now)'
        BY <3>1 DEF Binds
      <3>6. QED
        BY <3>2, <3>3, <3>4, <3>5 DEF Outcome, NoAccount
    <2>2. Opens(r, b)'
      BY <1>3 DEF OwnPlan, Opens, Applied
    <2>3. CASE r.phase = "provider" /\ CallbackPlan(r)
      <3>1. Writes(r, b, row[b]) /\ Present(b) /\ r.loaded = row[b]
        BY <1>3, <2>3 DEF OwnPlan, CallbackPlan, Writes
      <3>2. CallbackPlan(r)'
        BY <1>1, <3>1 DEF CallbackPlan, Present, Writes
      <3>3. QED
        BY <1>3, <2>2, <2>3, <3>2 DEF CardPlan, OwnPlan
    <2>4. CASE r.phase = "fetch" /\ PollPlan(r)
      <3>1. Writes(r, b, row[b]) /\ account[b] # None
        BY <1>3, <2>4 DEF OwnPlan, PollPlan, Writes
      <3>2. PollPlan(r)'
        BY <1>1, <3>1 DEF PollPlan, Writes
      <3>3. QED
        BY <1>3, <2>2, <2>4, <3>2 DEF CardPlan, OwnPlan
    <2>5. CASE /\ r.phase = "account"
               /\ \E y \in Buyer : Writes(r, b, y) /\ Unbinds(b, y) /\ NoAccount(r)
      BY <1>1, <1>3, <2>1, <2>2, <2>5 DEF CardPlan, OwnPlan, NoAccount
    <2>6. CASE /\ r.phase \in {"assignment", "suppliers", "supplier", "existing", "save"}
               /\ \E y \in Buyer : Writes(r, b, y) /\ Outcome(r, b, y)
      BY <1>1, <1>3, <2>1, <2>2, <2>6 DEF CardPlan, OwnPlan
    <2>7. QED
      BY <1>3, <2>3, <2>4, <2>5, <2>6 DEF OwnPlan
  <1>4. CASE r.phase = "idle"
    BY <1>4 DEF CardPlan
  <1>5. QED
    BY <1>2, <1>3, <1>4 DEF CardPlan

(* The plan of one request becomes another one, and the cards stay.        *)
LEMMA CardPlanGoesOn ==
    ASSUME IInv, NEW b \in Buyers, CardPlanned(b), NEW q \in Requests, NEW r,
           req' = [req EXCEPT ![q] = r], b \in CardsOf(r) => CardPlan(r, b),
           row' = row, account' = account, assignment' = assignment, cards' = cards
    PROVE  CardPlanned(b)'
  <1>1. ASSUME NEW p \in Requests, b \in CardsOf(req'[p])
        PROVE  CardPlan(req[p], b)'
    <2>1. PICK s : s = req'[p]
      OBVIOUS
    <2>2. CardPlan(s, b)
      BY <1>1, <2>1 DEF CardPlanned, IInv
    <2>3. CardPlan(s, b)'
      BY <2>2, CardPlanStands
    <2>4. QED
      BY <2>1, <2>3
  <1>2. QED
    BY <1>1 DEF CardPlanned, CardsOf

LEMMA CardBegins ==
    ASSUME IInv, NEW b \in Buyers, CardPlanned(b), NEW q \in Requests, BeginRequest(q)
    PROVE  CardPlanned(b)'
  <1>1. PICK r : Plan(r) /\ req' = [req EXCEPT ![q] = r]
    BY BeginPlans
  <1>2. b \in CardsOf(r) => CardPlan(r, b)
    BY <1>1, PlanOfCard
  <1>3. QED
    BY <1>1, <1>2, CardPlanGoesOn DEF BeginRequest, vars

(* A read puts no card into a request's hands.                             *)
LEMMA OwnPlanGoesOn ==
    ASSUME NEW s, NEW b \in Buyers, CardPlan(s, b), NEW r,
           s.phase \in {"assignment", "suppliers", "supplier", "existing"},
           r.phase \in {"suppliers", "existing", "save"},
           r.buyer = s.buyer, r.insert = s.insert, r.changes = s.changes,
           r.account = s.account
    PROVE  CardPlan(r, b)
  <1>1. OwnPlan(s, b)
    BY DEF CardPlan, BatchPlan
  <1>2. PICK y \in Buyer : Writes(s, b, y) /\ Outcome(s, b, y)
    BY <1>1 DEF OwnPlan
  <1>3. Writes(r, b, y) /\ Outcome(r, b, y)
    BY <1>2 DEF Writes, Outcome, NoAccount
  <1>4. QED
    BY <1>1, <1>3 DEF CardPlan, OwnPlan, Opens, Updates

LEMMA IdleHasNoCards == ASSUME NEW b \in Buyers PROVE b \notin CardsOf(Idle)
  BY NullIsNoId DEF CardsOf, Idle

LEMMA CardReads ==
    ASSUME IInv, NEW b \in Buyers, CardPlanned(b), NEW q \in Requests,
           \/ ReadAccount(q) \/ ReadAssignment(q) \/ ReadSuppliers(q)
           \/ ReadSupplier(q) \/ ReadExistingAssignment(q),
           UNCHANGED <<vars, token>>
    PROVE  CardPlanned(b)'
  <1>1. PICK s \in Request : s = req[q]
    BY DEF IInv
  <1>2. b \in CardsOf(s) => CardPlan(s, b)
    BY <1>1 DEF CardPlanned
  <1>3. ASSUME NEW r, req' = [req EXCEPT ![q] = r],
               r.buyer = s.buyer, r.insert = s.insert, r.changes = s.changes,
               r.account = s.account,
               s.phase \in {"assignment", "suppliers", "supplier", "existing"},
               r.phase \in {"suppliers", "existing", "save"}
        PROVE  CardPlanned(b)'
    <2>1. b \in CardsOf(r) => CardPlan(r, b)
      BY <1>2, <1>3, OwnPlanGoesOn DEF CardsOf
    <2>2. QED
      BY <1>3, <2>1, CardPlanGoesOn DEF vars
  <1>4. ASSUME req' = [req EXCEPT ![q] = Idle]
        PROVE  CardPlanned(b)'
    BY <1>4, IdleHasNoCards, CardPlanGoesOn DEF vars
  <1>5. CASE ReadAccount(q)
    <2>1. PICK op : op = IF account[s.buyer] = None THEN "none" ELSE "delete"
      OBVIOUS
    <2>2. PICK r : r = [s EXCEPT !.phase = "save", !.account.op = op]
      BY Zenon
    <2>3. /\ r.phase = "save" /\ r.account.op = op /\ r.buyer = s.buyer
          /\ r.insert = s.insert /\ r.changes = s.changes
      BY <2>2 DEF Request, AccountStatement
    <2>4. s.phase = "account" /\ req' = [req EXCEPT ![q] = r]
      BY <1>1, <1>5, <2>1, <2>2 DEF ReadAccount, Continue
    <2>5. ASSUME b \in CardsOf(r) PROVE CardPlan(r, b)
      <3>1. OwnPlan(s, b)
        BY <1>2, <2>3, <2>4, <2>5 DEF CardsOf, CardPlan, BatchPlan
      <3>2. PICK y \in Buyer : Writes(s, b, y) /\ Unbinds(b, y)
        BY <2>4, <3>1 DEF OwnPlan
      <3>3. s.buyer = b
        BY <3>1 DEF OwnPlan
      <3>4. Writes(r, b, y) /\ Applied(r.account, account[b]) = None
        BY <2>1, <2>3, <3>2, <3>3 DEF Writes, Applied
      <3>5. Opens(r, b)
        BY <2>1, <2>3 DEF Opens, Updates
      <3>6. QED
        BY <2>3, <3>2, <3>3, <3>4, <3>5 DEF CardPlan, OwnPlan, Outcome
    <2>6. QED
      BY <2>4, <2>5, CardPlanGoesOn DEF vars
  <1>6. CASE ReadAssignment(q)
    <2>1. PICK phase : phase = IF assignment[s.buyer] = None THEN "suppliers" ELSE "save"
      OBVIOUS
    <2>2. PICK r : r = [s EXCEPT !.phase = phase]
      BY Zenon
    <2>3. /\ r.phase = phase /\ r.buyer = s.buyer /\ r.insert = s.insert
          /\ r.changes = s.changes /\ r.account = s.account
      BY <2>2 DEF Request
    <2>4. s.phase = "assignment" /\ req' = [req EXCEPT ![q] = r]
      BY <1>1, <1>6, <2>1, <2>2 DEF ReadAssignment, Continue
    <2>5. QED
      BY <1>3, <2>1, <2>3, <2>4
  <1>7. CASE ReadSuppliers(q)
    <2>1. PICK sole :
             req' = [req EXCEPT ![q] = [req[q] EXCEPT !.phase = "save",
                         !.assignment = IF sole = None THEN NoStatement
                                        ELSE [op |-> "insert", value |-> sole]]]
      BY <1>7 DEF ReadSuppliers, Continue
    <2>2. PICK stmt : stmt = IF sole = None THEN NoStatement
                             ELSE [op |-> "insert", value |-> sole]
      BY Zenon
    <2>3. PICK r : r = [s EXCEPT !.phase = "save", !.assignment = stmt]
      BY Zenon
    <2>4. /\ r.phase = "save" /\ r.buyer = s.buyer /\ r.insert = s.insert
          /\ r.changes = s.changes /\ r.account = s.account
      BY <2>3 DEF Request
    <2>5. s.phase = "suppliers"
      BY <1>1, <1>7 DEF ReadSuppliers, Continue
    <2>6. req' = [req EXCEPT ![q] = r]
      BY <1>1, <2>1, <2>2, <2>3
    <2>7. QED
      BY <1>3, <2>4, <2>5, <2>6
  <1>8. CASE ReadSupplier(q)
    <2>1. PICK r : r = [s EXCEPT !.phase = "existing"]
      BY Zenon
    <2>2. /\ r.phase = "existing" /\ r.buyer = s.buyer /\ r.insert = s.insert
          /\ r.changes = s.changes /\ r.account = s.account
      BY <2>1 DEF Request
    <2>3. /\ s.phase = "supplier"
          /\ req' = [req EXCEPT ![q] = r] \/ req' = [req EXCEPT ![q] = Idle]
      BY <1>1, <1>8, <2>1 DEF ReadSupplier, Continue
    <2>4. QED
      BY <1>3, <1>4, <2>2, <2>3
  <1>9. CASE ReadExistingAssignment(q)
    <2>1. PICK op : op = IF assignment[s.buyer] = s.assignment.value THEN "none"
                         ELSE CASE assignment[s.buyer] = None -> "insert"
                                [] s.assignment.value = None -> "delete"
                                [] OTHER -> "update"
      BY Zenon
    <2>2. PICK r : r = [s EXCEPT !.phase = "save", !.assignment.op = op]
      BY Zenon
    <2>3. /\ r.phase = "save" /\ r.buyer = s.buyer /\ r.insert = s.insert
          /\ r.changes = s.changes /\ r.account = s.account
      BY <2>2 DEF Request
    <2>4. s.phase = "existing"
      BY <1>1, <1>9 DEF ReadExistingAssignment, Continue
    <2>5. req' = [req EXCEPT ![q] = IF op = "none" THEN Idle
                                    ELSE [s EXCEPT !.phase = "save", !.assignment.op = op]]
      BY <1>1, <1>9, <2>1 DEF ReadExistingAssignment, Continue
    <2>6. req' = [req EXCEPT ![q] = r] \/ req' = [req EXCEPT ![q] = Idle]
      BY <2>2, <2>5
    <2>7. QED
      BY <1>3, <1>4, <2>3, <2>4, <2>6
  <1>10. QED
    BY <1>5, <1>6, <1>7, <1>8, <1>9

(* Nor does an answer of the provider.                                     *)
LEMMA ChangingHasOneCard ==
    ASSUME NEW b \in Buyers, NEW c \in Buyers, c # b, NEW y, NEW phase
    PROVE  c \notin CardsOf(Changing(b, y, phase))
  <1>1. PICK ch : ch = Changes(row[b], y)
    OBVIOUS
  <1>2. PICK r : r = [Idle EXCEPT !.phase = phase, !.buyer = b, !.changes[b] = ch]
    BY Zenon
  <1>3. r.buyer = b /\ r.insert = {} /\ r.changes = [Idle.changes EXCEPT ![b] = ch]
    BY <1>2 DEF Idle
  <1>4. r.changes[c] = NoChange
    BY <1>3 DEF Idle
  <1>5. Changing(b, y, phase) = r
    BY <1>1, <1>2 DEF Changing
  <1>6. QED
    BY <1>3, <1>4, <1>5 DEF CardsOf

LEMMA AnswerIsOwn ==
    ASSUME IInv, NEW b \in Buyers, NEW q \in Requests, NEW r, req' = [req EXCEPT ![q] = r],
           ProviderAnswers(q), b # req[q].buyer
    PROVE  b \notin CardsOf(r)
  <1>1. PICK s \in Request : s = req[q]
    BY DEF IInv
  <1>2. PICK c \in Buyers : c = s.buyer
    BY <1>1 DEF IInv, Shape, AccountPhases, ProviderAnswers, CompleteAuthorization, FetchRefused,
                Continue
  <1>3. req'[q] = r
    BY DEF IInv
  <1>4. CASE FetchRefused(q)
    <2>1. r = Idle \/ r = Changing(c, AfterMarkAbnormal(row[c]), "save")
      BY <1>1, <1>2, <1>3, <1>4 DEF FetchRefused, Continue, IInv
    <2>2. QED
      BY <1>1, <1>2, <2>1, IdleHasNoCards, ChangingHasOneCard
  <1>5. ASSUME NEW m \in Mailboxes, NEW now \in Times, CompleteAuthorization(q, m, now)
        PROVE  b \notin CardsOf(r)
    <2>1. PICK phase : phase = IF account[c] # m /\ s.loaded.AutoApprove THEN "assignment"
                               ELSE "save"
      OBVIOUS
    <2>2. PICK stmt : stmt = [op |-> Binding(account[c], m), value |-> m]
      BY Zenon
    <2>3. PICK ch : ch = Changes(s.loaded, AfterCallback(s.loaded, account[c] # m, now))
      OBVIOUS
    <2>4. PICK t : t = [Idle EXCEPT !.phase = phase, !.buyer = c, !.changes[c] = ch,
                                    !.account = stmt]
      BY Zenon
    <2>5. r = Idle \/ r = t
      BY <1>1, <1>2, <1>3, <1>5, <2>1, <2>2, <2>3, <2>4 DEF CompleteAuthorization, Continue, IInv
    <2>6. t.buyer = c /\ t.insert = {} /\ t.changes = [Idle.changes EXCEPT ![c] = ch]
      BY <2>4 DEF Idle
    <2>7. t.changes[b] = NoChange
      BY <1>1, <1>2, <2>6 DEF Idle
    <2>8. b \notin CardsOf(t)
      BY <1>1, <1>2, <2>6, <2>7 DEF CardsOf
    <2>9. QED
      BY <2>5, <2>8, IdleHasNoCards
  <1>6. QED
    BY <1>4, <1>5 DEF ProviderAnswers

LEMMA CardAnswers ==
    ASSUME IInv, NEW b \in Buyers, CardPlanned(b), NEW q \in Requests, ProviderAnswers(q)
    PROVE  CardPlanned(b)'
  <1>1. PICK s \in Request : s = req[q]
    BY DEF IInv
  <1>2. CASE s.buyer = b
    <2>1. s.phase \in {"provider", "fetch"}
      BY <1>1 DEF ProviderAnswers, CompleteAuthorization, FetchRefused, Continue
    <2>2. OwnPlan(s, b)
      BY <1>1, <1>2, <2>1, NullIsNoId DEF CardPlanned, CardsOf, CardPlan, BatchPlan
    <2>3. Plan(s)
      BY <2>1, <2>2 DEF OwnPlan, Plan
    <2>4. PICK r : Plan(r) /\ req' = [req EXCEPT ![q] = r]
      BY <1>1, <2>3, CallbackPlans, FetchRefusedPlans DEF ProviderAnswers
    <2>5. b \in CardsOf(r) => CardPlan(r, b)
      BY <2>4, PlanOfCard
    <2>6. QED
      BY <2>4, <2>5, CardPlanGoesOn DEF ProviderAnswers, vars
  <1>3. CASE s.buyer # b
    <2>1. PICK r : req' = [req EXCEPT ![q] = r]
      BY DEF ProviderAnswers, CompleteAuthorization, FetchRefused, Continue
    <2>2. b \notin CardsOf(r)
      BY <1>1, <1>3, <2>1, AnswerIsOwn
    <2>3. QED
      BY <2>1, <2>2, CardPlanGoesOn DEF ProviderAnswers, vars
  <1>4. QED
    BY <1>2, <1>3

(* A save of a card in hand is a move of that card; one of other cards     *)
(* leaves it, and the plans for it, alone.                                 *)
LEMMA CardElsewhere ==
    ASSUME IInv, NEW b \in Buyers, NEW q \in Requests, SaveChanges(q), b \notin CardsOf(req[q])
    PROVE  /\ row'[b] = row[b] /\ account'[b] = account[b] /\ assignment'[b] = assignment[b]
           /\ token'[b] = token[b]
           /\ b \in cards' <=> b \in cards
  <1>1. PICK r \in Request : r = req[q]
    BY DEF IInv
  <1>2. r.buyer # b /\ b \notin r.insert /\ r.changes[b] = NoChange
    BY <1>1, NullIsNoId DEF CardsOf
  <1>3. row[b] \in Buyer
    BY DEF IInv, TypeOK
  <1>4. row'[b] = row[b]
    BY <1>1, <1>2, <1>3, NoChangeIs DEF SaveChanges
  <1>5. QED
    BY <1>1, <1>2, <1>4 DEF SaveChanges

LEMMA LoseRowsSpare ==
    ASSUME NEW s \in Request, NEW b, NEW d \in BOOLEAN, NEW e \in BOOLEAN
    PROVE  LET t == LoseRow(LoseRow(s, b, "account", d), b, "assignment", e)
           IN  /\ t.phase = s.phase /\ t.buyer = s.buyer /\ t.insert = s.insert
               /\ t.changes = s.changes
               /\ s.buyer # b => t = s
  <1>1. PICK u : u = LoseRow(s, b, "account", d)
    OBVIOUS
  <1>2. /\ u \in Request /\ u.phase = s.phase /\ u.buyer = s.buyer /\ u.insert = s.insert
        /\ u.changes = s.changes
    BY <1>1, LoseRowIs
  <1>3. PICK t : t = LoseRow(u, b, "assignment", e)
    OBVIOUS
  <1>4. /\ t.phase = s.phase /\ t.buyer = s.buyer /\ t.insert = s.insert /\ t.changes = s.changes
    BY <1>2, <1>3, LoseRowIs
  <1>5. s.buyer # b => t = s
    BY <1>1, <1>2, <1>3 DEF LoseRow
  <1>6. QED
    BY <1>1, <1>3, <1>4, <1>5

LEMMA CardSaves ==
    ASSUME IInv, NEW b \in Buyers, ApartOn(b), CardPlanned(b), NEW q \in Requests, SaveChanges(q)
    PROVE  /\ CardPlanned(b)' /\ Moves(b, row'[b], account'[b])
           /\ token[b] = account[b] => token'[b] = account'[b]
  <1>1. PICK r \in Request : r = req[q]
    BY DEF IInv
  <1>2. PICK d \in BOOLEAN, e \in BOOLEAN :
           d = (r.account.op = "delete") /\ e = (r.assignment.op = "delete")
    OBVIOUS
  <1>3. ASSUME NEW p \in Requests, p # q
        PROVE  req'[p] = LoseRow(LoseRow(req[p], r.buyer, "account", d), r.buyer, "assignment", e)
    BY <1>1, <1>2, <1>3 DEF SaveChanges
  <1>4. req'[q] = Idle
    BY DEF SaveChanges
  <1>5. CASE b \notin CardsOf(r)
    <2>1. /\ row'[b] = row[b] /\ account'[b] = account[b] /\ assignment'[b] = assignment[b]
          /\ token'[b] = token[b]
          /\ b \in cards' <=> b \in cards
      BY <1>1, <1>5, CardElsewhere
    <2>2. ASSUME NEW p \in Requests, b \in CardsOf(req'[p])
          PROVE  CardPlan(req[p], b)'
      <3>1. p # q
        BY <1>4, <2>2, IdleHasNoCards
      <3>2. PICK s \in Request : s = req[p]
        BY DEF IInv
      <3>3. PICK t : t = req'[p]
        OBVIOUS
      <3>4. /\ t.phase = s.phase /\ t.buyer = s.buyer /\ t.insert = s.insert
            /\ t.changes = s.changes
            /\ s.buyer # r.buyer => t = s
        BY <1>3, <3>1, <3>2, <3>3, LoseRowsSpare
      <3>5. b \in CardsOf(s) /\ b # r.buyer
        BY <1>5, <2>2, <3>3, <3>4, NullIsNoId DEF CardsOf
      <3>6. CardPlan(s, b)
        BY <3>2, <3>5 DEF CardPlanned
      <3>7. CardPlan(t, b)
        BY <3>4, <3>5, <3>6 DEF CardPlan, BatchPlan, OwnPlan
      <3>8. CardPlan(t, b)'
        BY <2>1, <3>7, CardPlanStands
      <3>9. QED
        BY <3>3, <3>8
    <2>3. CardPlanned(b)'
      BY <2>2 DEF CardPlanned, CardsOf
    <2>4. QED
      BY <2>1, <2>3 DEF Moves
  <1>6. CASE b \in CardsOf(r)
    <2>1. CardPlan(r, b) /\ r.phase = "save"
      BY <1>1, <1>6 DEF CardPlanned, SaveChanges
    <2>2. ASSUME NEW p \in Requests PROVE b \notin CardsOf(req'[p])
      <3>1. CASE p = q
        BY <1>4, <3>1, IdleHasNoCards
      <3>2. CASE p # q
        <4>1. PICK s \in Request : s = req[p]
          BY DEF IInv
        <4>2. b \notin CardsOf(s)
          BY <1>1, <1>6, <3>2, <4>1 DEF ApartOn
        <4>3. PICK t : t = req'[p]
          OBVIOUS
        <4>4. t.buyer = s.buyer /\ t.insert = s.insert /\ t.changes = s.changes
          BY <1>3, <3>2, <4>1, <4>3, LoseRowsSpare
        <4>5. QED
          BY <4>2, <4>3, <4>4 DEF CardsOf
      <3>3. QED
        BY <3>1, <3>2
    <2>3. CardPlanned(b)'
      BY <2>2 DEF CardPlanned, CardsOf
    <2>4. /\ row'[b] = Merge(row[b], r.changes[b])
          /\ account'[b] = IF b = r.buyer THEN Applied(r.account, account[b]) ELSE account[b]
          /\ token'[b] = IF b = r.buyer THEN TokenAfter(r.account, token[b]) ELSE token[b]
      BY <1>1 DEF SaveChanges
    <2>5. CASE OwnPlan(r, b)
      <3>1. PICK y \in Buyer : Writes(r, b, y) /\ Outcome(r, b, y)
        BY <2>1, <2>5 DEF OwnPlan
      <3>2. row'[b] = y /\ account'[b] = Applied(r.account, account[b])
        BY <2>4, <3>1 DEF Writes
      <3>3. Moves(b, y, account'[b])
        BY <3>1, <3>2 DEF Outcome, Moves, NoAccount, Applied
      <3>4. token[b] = account[b] => token'[b] = account'[b]
        BY <2>4, <2>5, <3>2 DEF OwnPlan, Opens, TokenAfter, Applied, Updates
      <3>5. QED
        BY <2>3, <3>2, <3>3, <3>4
    <2>6. CASE BatchPlan(r, b)
      BY <2>3, <2>4, <2>6 DEF BatchPlan, Moves
    <2>7. QED
      BY <2>1, <2>5, <2>6 DEF CardPlan
  <1>7. QED
    BY <1>5, <1>6

LEMMA CardSteps ==
    ASSUME IInv, NEW b \in Buyers, ApartOn(b), CardPlanned(b), [NextRequests]_allVars
    PROVE  /\ CardPlanned(b)' /\ Moves(b, row'[b], account'[b]) /\ cards \subseteq cards'
           /\ token[b] = account[b] => token'[b] = account'[b]
  <1>1. ASSUME row' = row, account' = account, assignment' = assignment, cards' = cards,
               token' = token, CardPlanned(b)'
        PROVE  /\ CardPlanned(b)' /\ Moves(b, row'[b], account'[b]) /\ cards \subseteq cards'
               /\ token[b] = account[b] => token'[b] = account'[b]
    BY <1>1 DEF Moves
  <1>2. ASSUME NEW q \in Requests, BeginRequest(q) PROVE CardPlanned(b)'
    BY <1>2, CardBegins
  <1>3. ASSUME NEW q \in Requests,
               \/ ReadAccount(q) \/ ReadAssignment(q) \/ ReadSuppliers(q)
               \/ ReadSupplier(q) \/ ReadExistingAssignment(q),
               UNCHANGED <<vars, token>>
        PROVE  CardPlanned(b)'
    BY <1>3, CardReads
  <1>4. ASSUME NEW q \in Requests, ProviderAnswers(q) PROVE CardPlanned(b)'
    BY <1>4, CardAnswers
  <1>5. ASSUME NEW q \in Requests, SaveFails(q) \/ Abort(q) PROVE CardPlanned(b)'
    BY <1>5, IdleHasNoCards, CardPlanGoesOn DEF SaveFails, Abort, Continue, vars
  <1>6. ASSUME row' = row, account' = account, assignment' = assignment, cards' = cards,
               req' = req
        PROVE  CardPlanned(b)'
    <2>1. ASSUME NEW p \in Requests, b \in CardsOf(req[p]) PROVE CardPlan(req[p], b)'
      <3>1. PICK s : s = req[p]
        OBVIOUS
      <3>2. CardPlan(s, b)'
        BY <1>6, <2>1, <3>1, CardPlanStands DEF CardPlanned
      <3>3. QED
        BY <1>6, <3>1, <3>2
    <2>2. QED
      BY <1>6, <2>1 DEF CardPlanned, CardsOf
  <1>7. ASSUME NEW q \in Requests, SaveChanges(q)
        PROVE  /\ CardPlanned(b)' /\ Moves(b, row'[b], account'[b]) /\ cards \subseteq cards'
               /\ token[b] = account[b] => token'[b] = account'[b]
    BY <1>7, CardSaves DEF SaveChanges
  <1>8. CASE UNCHANGED allVars
    BY <1>1, <1>6, <1>8 DEF allVars, vars
  <1>9. ASSUME NEW q \in Requests, ToggleSupplier(q)
        PROVE  /\ CardPlanned(b)' /\ Moves(b, row'[b], account'[b]) /\ cards \subseteq cards'
               /\ token[b] = account[b] => token'[b] = account'[b]
    BY <1>1, <1>6, <1>9 DEF ToggleSupplier, SetActive
  <1>10. ASSUME NEW q \in Requests, BeginRequest(q) \/ ProviderAnswers(q) \/ Abort(q)
                                    \/ SaveFails(q)
         PROVE  UNCHANGED <<vars, token>> /\ CardPlanned(b)'
    BY <1>2, <1>4, <1>5, <1>10 DEF BeginRequest, ProviderAnswers, Abort, SaveFails
  <1>11. QED
    BY <1>1, <1>3, <1>7, <1>8, <1>9, <1>10 DEF NextRequests, Proceed, vars

(* The invariant of one card.                                              *)
CardSerial(b) == CardOK(b) /\ token[b] = account[b] /\ CardPlanned(b)

LEMMA InitCardSerial == ASSUME InitRequests, NEW b \in Buyers PROVE CardSerial(b)
  <1>1. CardOK(b) /\ token[b] = account[b]
    BY InitCardsOK DEF InitRequests, Init, CardsOK
  <1>2. CardPlanned(b)
    BY IdleHasNoCards DEF InitRequests, CardPlanned
  <1>3. QED
    BY <1>1, <1>2 DEF CardSerial

LEMMA CardSerialSteps ==
    ASSUME IInv, NEW b \in Buyers, ApartOn(b), CardSerial(b), [NextRequests]_allVars
    PROVE  CardSerial(b)' /\ BuyerKept(b)
  <1>1. /\ CardPlanned(b)' /\ Moves(b, row'[b], account'[b]) /\ cards \subseteq cards'
        /\ token'[b] = account'[b]
    BY CardSteps DEF CardSerial
  <1>2. CardOK(b) /\ row[b] \in Buyer /\ account[b] \in Mailboxes \cup {None}
    BY DEF CardSerial, IInv, TypeOK
  <1>3. RowOK(row'[b], account'[b])
    BY <1>1, <1>2, MoveOK
  <1>4. b \notin cards' => account'[b] = None
    BY <1>1, <1>2 DEF CardOK, Moves, Binds, Present
  <1>5. BuyerKept(b)
    BY <1>1, <1>2, MoveKept
  <1>6. QED
    BY <1>1, <1>3, <1>4, <1>5 DEF CardSerial, CardOK

(* Overlaps stay on their card: as long as no two requests have card b in  *)
(* hand together, b is as the serial handlers leave a card, its token      *)
(* opens its mailbox, and each step keeps of it what the serial handlers   *)
(* keep - whatever overlaps on other cards.                                *)
THEOREM OverlapsStay ==
    ASSUME NEW b \in Buyers
    PROVE  SpecRequests /\ []ApartOn(b) =>
               /\ [](RowOK(row[b], account[b]) /\ token[b] = account[b])
               /\ [][BuyerKept(b)]_allVars
  <1>1. InitRequests => CardSerial(b)
    BY InitCardSerial
  <1>2. IInv /\ ApartOn(b) /\ CardSerial(b) /\ [NextRequests]_allVars
           => CardSerial(b)' /\ BuyerKept(b)
    BY CardSerialSteps
  <1>3. CardSerial(b) => RowOK(row[b], account[b]) /\ token[b] = account[b]
    BY DEF CardSerial, CardOK
  <1>4. QED
    BY <1>1, <1>2, <1>3, Invariance, PTL DEF SpecRequests

AllSerial == \A b \in Buyers : CardSerial(b)

LEMMA AllSerialAlways ==
    SpecRequests /\ []Apart =>
        []AllSerial /\ [][\A b \in Buyers : BuyerKept(b)]_allVars
  <1>1. InitRequests => AllSerial
    BY InitCardSerial DEF AllSerial
  <1>2. IInv /\ Apart /\ AllSerial /\ [NextRequests]_allVars
           => AllSerial' /\ \A b \in Buyers : BuyerKept(b)
    <2> SUFFICES ASSUME IInv, Apart, AllSerial, [NextRequests]_allVars
                 PROVE  AllSerial' /\ \A b \in Buyers : BuyerKept(b)
      OBVIOUS
    <2>1. ASSUME NEW b \in Buyers PROVE CardSerial(b)' /\ BuyerKept(b)
      BY CardSerialSteps DEF Apart, AllSerial
    <2>2. QED
      BY <2>1 DEF AllSerial
  <1>3. QED
    BY <1>1, <1>2, Invariance, PTL DEF SpecRequests

(* If that is so of every card, everything the serial handlers promise     *)
(* holds of requests that overlap: the mailbox agrees with the status, no  *)
(* cycle leaves traces, what was cleared was approved, an auto-approved    *)
(* card stays approved, and the dates agree with the stage;                *)
THEOREM CardsApart ==
    SpecRequests /\ []Apart =>
        [](/\ MailboxMatchesStatus /\ UnsubmittedIsFresh /\ UnboundSubmittedIsApproved
           /\ AutoApproveIsSticky /\ HistoryMatchesStage)
  <1>1. AllSerial => \A b \in Buyers : RowOK(row[b], account[b])
    BY DEF AllSerial, CardSerial, CardOK
  <1>2. IInv /\ AllSerial =>
           /\ MailboxMatchesStatus /\ UnsubmittedIsFresh /\ UnboundSubmittedIsApproved
           /\ AutoApproveIsSticky /\ HistoryMatchesStage
    BY <1>1 DEF RowOK, IInv, TypeOK, MailboxMatchesStatus, UnsubmittedIsFresh,
                UnboundSubmittedIsApproved, AutoApproveIsSticky, HistoryMatchesStage
  <1>3. QED
    BY <1>2, AllSerialAlways, Invariance, PTL

(* a buyer under processing keeps its mailbox, and an approval covers the  *)
(* mailbox it was given for;                                               *)
THEOREM StepsApart ==
    SpecRequests /\ []Apart => LockedMailboxIsKept /\ ApprovalCoversMailbox /\ CardHistoryIsKept
  <1>1. IInv => cards \subseteq Buyers
    BY DEF IInv, TypeOK
  <1>2. IInv /\ [\A b \in Buyers : BuyerKept(b)]_allVars =>
          /\ [\A b \in Buyers : IsLocked(b) =>
                /\ account'[b] = account[b]
                /\ row'[b].Stage = "Submitted"
                /\ row'[b].ReviewStatus = "Approved"]_vars
          /\ [\A b \in Buyers :
                /\ row[b].ReviewStatus = "Approved" /\ row'[b].ReviewStatus = "Approved"
                /\ ~row[b].AutoApprove
                => account'[b] \in {account[b], None}]_vars
          /\ [\A b \in cards :
                /\ b \in cards'
                /\ row[b].IsDeleted => row'[b].IsDeleted
                /\ row[b].CardSentAt # None => row'[b].CardSentAt = row[b].CardSentAt
                /\ row[b].CardUsedAt # None => row'[b].CardUsedAt = row[b].CardUsedAt
                /\ row[b].Stage # "NotSent" => row'[b].SaleId = row[b].SaleId
                /\ row'[b].Stage = "NotSent" => row[b].Stage = "NotSent"
                /\ row'[b].Stage = "Sent" => row[b].Stage \in {"NotSent", "Sent"}]_vars
    <2> SUFFICES ASSUME IInv, [\A b \in Buyers : BuyerKept(b)]_allVars
                 PROVE  vars' = vars
                        \/ \A b \in Buyers : LockedKept(b) /\ ApprovalKept(b) /\ HistoryKept(b)
      BY <1>1 DEF LockedKept, ApprovalKept, HistoryKept
    <2>1. QED
      BY DEF BuyerKept, allVars
  <1>3. QED
    BY <1>2, AllSerialAlways, Invariance, PTL
       DEF LockedMailboxIsKept, ApprovalCoversMailbox, CardHistoryIsKept

(* and the refresh token kept with a mailbox opens it: a callback that     *)
(* writes the token columns alone found its own mailbox bound.             *)
THEOREM TokensApart == SpecRequests /\ []Apart => []TokenOpensMailbox
  <1>1. AllSerial => TokenOpensMailbox
    BY DEF AllSerial, CardSerial, TokenOpensMailbox
  <1>2. QED
    BY <1>1, AllSerialAlways, PTL

----------------------------------------------------------------------------
(* Lifecycle is an instance of BuyerLifecycle with nothing renamed. *)

LEMMA LifecycleInit == Init => Lifecycle!Init
  BY DEF Init, Lifecycle!Init, NewCard, Lifecycle!NewCard

LEMMA LifecycleNext == Next => Lifecycle!Next
  <1>1. CardKeyStep => Lifecycle!CardKeyStep
    BY Zenon
       DEF CardKeyStep, Lifecycle!CardKeyStep, Generate, Lifecycle!Generate, Send,
           Lifecycle!Send, NewCard, Lifecycle!NewCard, AfterSend, Lifecycle!AfterSend,
           IsSendTarget, Lifecycle!IsSendTarget, AutoApproveAction, Lifecycle!AutoApproveAction
  <1>2. ASSUME NEW b \in Buyers PROVE BuyerStep(b) => Lifecycle!BuyerStep(b)
    BY Zenon
       DEF BuyerStep, Lifecycle!BuyerStep, Verify, Lifecycle!Verify, ChangeEmail,
           Lifecycle!ChangeEmail, ClearAuth, Lifecycle!ClearAuth, Callback, Lifecycle!Callback,
           Present, Lifecycle!Present, AutoAssignSingleSupplier,
           Lifecycle!AutoAssignSingleSupplier, ResolveBuyerMailAction,
           Lifecycle!ResolveBuyerMailAction, AfterVerify, Lifecycle!AfterVerify,
           AfterChangeEmail, Lifecycle!AfterChangeEmail, AfterClearAuth,
           Lifecycle!AfterClearAuth, AfterCallback, Lifecycle!AfterCallback
  <1>3. ASSUME NEW b \in Buyers PROVE AdminStep(b) => Lifecycle!AdminStep(b)
    BY Zenon
       DEF AdminStep, Lifecycle!AdminStep, DeleteCardKey, Lifecycle!DeleteCardKey, DeleteBuyer,
           Lifecycle!DeleteBuyer, Review, Lifecycle!Review, AssignSupplier,
           Lifecycle!AssignSupplier, AdminSetStatus, Lifecycle!AdminSetStatus, Present,
           Lifecycle!Present, AutoAssignSingleSupplier, Lifecycle!AutoAssignSingleSupplier,
           IsReviewable, Lifecycle!IsReviewable, CanAdminSetStatus, Lifecycle!CanAdminSetStatus,
           AfterReview, Lifecycle!AfterReview, AfterSetStatus, Lifecycle!AfterSetStatus,
           AfterDelete, Lifecycle!AfterDelete, SupplierProcessingStatus,
           Lifecycle!SupplierProcessingStatus
  <1>4. ASSUME NEW b \in Buyers PROVE OthersStep(b) => Lifecycle!OthersStep(b)
    BY Zenon
       DEF OthersStep, Lifecycle!OthersStep, SalesDelete, Lifecycle!SalesDelete,
           SupplierSetStatus, Lifecycle!SupplierSetStatus, MarkAbnormal, Lifecycle!MarkAbnormal,
           CanSalesDeleteBuyer, Lifecycle!CanSalesDeleteBuyer, CanSupplierSetStatus,
           Lifecycle!CanSupplierSetStatus, CanSupplierViewBuyer, Lifecycle!CanSupplierViewBuyer,
           AfterSetStatus, Lifecycle!AfterSetStatus, AfterDelete, Lifecycle!AfterDelete,
           AfterMarkAbnormal, Lifecycle!AfterMarkAbnormal, SupplierProcessingStatus,
           Lifecycle!SupplierProcessingStatus
  <1>5. QED
    BY <1>1, <1>2, <1>3, <1>4, Zenon DEF Next, Lifecycle!Next, SetActive, Lifecycle!SetActive

----------------------------------------------------------------------------
LEMMA InitPlanned == ASSUME InitRequests PROVE Planned
  BY IdlePlans DEF InitRequests, Planned

(* Requests that never meet on a card behave as their handlers do one at a *)
(* time.                                                                   *)
LEMMA SerialOrder == SpecRequests /\ []Apart /\ SuppliersStand => Spec
  <1>1. InitRequests => Init /\ Planned
    BY InitPlanned DEF InitRequests
  <1>2. Apart /\ IInv /\ IInv' /\ Planned /\ [NextRequests]_allVars /\ [Standing]_allVars
           => Planned' /\ [Next]_vars
    <2> SUFFICES ASSUME Apart, IInv, IInv', Planned, [NextRequests]_allVars, [Standing]_allVars
                 PROVE  Planned' /\ [Next]_vars
      OBVIOUS
    <2>1. Standing
      BY DEF Standing, allVars, vars
    <2>2. CASE NextRequests
      BY <2>1, <2>2, PlannedNext
    <2>3. CASE UNCHANGED allVars
      BY <2>1, <2>3, PlannedSteps DEF allVars, vars
    <2>4. QED
      BY <2>2, <2>3
  <1>3. SuppliersStand => [][Standing]_allVars
    BY PTL DEF SuppliersStand, Standing
  <1>4. QED
    BY <1>1, <1>2, <1>3, Invariance, PTL DEF SpecRequests, Spec

(* Requests that never meet on a card implement the serial specification,  *)
(* as long as the suppliers a request has looked at stay as they are: what *)
(* a page reads, awaits and saves amounts to its one action, for any       *)
(* number of cards and of overlapping requests.                            *)
THEOREM Isolation == SpecRequests /\ []Apart /\ SuppliersStand => ImplementsLifecycle
  <1>1. [Next]_vars => [Lifecycle!Next]_(Lifecycle!vars)
    BY LifecycleNext DEF vars, Lifecycle!vars
  <1>2. QED
    BY <1>1, LifecycleInit, SerialOrder, PTL DEF Spec, ImplementsLifecycle, Lifecycle!Spec

(* Requests of which no two overlap are the special case.                  *)
LEMMA OneSlotApart == OneSlot => (SpecRequests => []Apart /\ SuppliersStand)
  <1>1. OneSlot => Apart
    BY DEF OneSlot, Apart, ApartOn
  <1>2. OneSlot /\ [NextRequests]_allVars => [Standing]_allVars
    <2> SUFFICES ASSUME OneSlot, NextRequests, active' # active PROVE Standing
      BY DEF Standing, allVars
    <2>1. PICK q \in Requests : ToggleSupplier(q)
      BY DEF NextRequests, BeginRequest, Proceed, ProviderAnswers, Abort, SaveFails, SaveChanges,
             vars
    <2>2. QED
      BY <2>1 DEF ToggleSupplier, OneSlot, Standing
  <1>3. OneSlot => OneSlot'
    BY DEF OneSlot
  <1>4. [][Standing]_allVars => SuppliersStand
    BY PTL DEF SuppliersStand, Standing
  <1>5. QED
    BY <1>1, <1>2, <1>3, <1>4, PTL DEF SpecRequests

(* Requests that do not overlap implement the serial specification.        *)
THEOREM Serial == OneSlot => (SpecRequests => ImplementsLifecycle)
  BY OneSlotApart, Isolation, PTL

(* Requests that do not overlap keep the token that opens the mailbox.     *)
THEOREM TokenOpens == OneSlot => (SpecRequests => []TokenOpensMailbox)
  BY OneSlotApart, TokensApart, PTL

----------------------------------------------------------------------------
(* Requests that do meet on a card.  The plan of a request stands until     *)
(* another one changes a card of it, however many have it in hand.         *)

UntouchedPlanned == \A q \in Requests \ touched : Plan(req[q])

LEMMA UntouchedStands ==
    ASSUME IInv, NEW p \in Requests, Plan(req[p]), ~Touches(p), cards \subseteq cards',
           req'[p] = req[p]
    PROVE  Plan(req[p])'
  <1>1. PICK s \in Request : s = req[p] /\ Plan(s)
    BY DEF IInv
  <1>2. ASSUME NEW b \in CardsOf(s)
        PROVE  /\ row'[b] = row[b] /\ account'[b] = account[b] /\ assignment'[b] = assignment[b]
               /\ b \in cards' => b \in cards
    BY <1>1 DEF Touches, Changed
  <1>3. s.insert \cap cards' = s.insert \cap cards
    BY <1>2 DEF CardsOf
  <1>4. s.phase \in {"existing", "save"} => active' = active
    BY <1>1 DEF Touches
  <1>5. Plan(s)'
    BY <1>1, <1>2, <1>3, <1>4, PlanOfCards
  <1>6. req'[p] = s
    BY <1>1
  <1>7. QED
    BY <1>5, <1>6

(* The rows of an untouched request's statements are still there.          *)
LEMMA SaveSparesUntouched ==
    ASSUME IInv, NEW q \in Requests, SaveChanges(q),
           NEW p \in Requests, p # q, Plan(req[p]), ~Touches(p)
    PROVE  req'[p] = req[p]
  <1>1. PICK r \in Request : r = req[q] /\ Shape(r) /\ CanSave(q)
    BY DEF IInv, SaveChanges
  <1>2. PICK s \in Request : s = req[p] /\ Shape(s) /\ Plan(s)
    BY DEF IInv
  <1>3. req'[p] = LoseRow(LoseRow(s, r.buyer, "account", r.account.op = "delete"),
                          r.buyer, "assignment", r.assignment.op = "delete")
    BY <1>1, <1>2 DEF SaveChanges
  <1>4. CASE s.buyer \notin Buyers
    <2>1. s.account.op = "none" /\ s.assignment.op = "none"
      BY <1>2, <1>4, NobodysStatements DEF Shape, NoAssignment
    <2>2. LoseRow(s, r.buyer, "account", r.account.op = "delete") = s
      BY <2>1 DEF LoseRow, Updates
    <2>3. LoseRow(s, r.buyer, "assignment", r.assignment.op = "delete") = s
      BY <2>1 DEF LoseRow, Updates
    <2>4. QED
      BY <1>2, <1>3, <2>2, <2>3
  <1>5. CASE s.buyer # r.buyer
    <2>1. LoseRow(s, r.buyer, "account", r.account.op = "delete") = s
      BY <1>5 DEF LoseRow
    <2>2. LoseRow(s, r.buyer, "assignment", r.assignment.op = "delete") = s
      BY <1>5 DEF LoseRow
    <2>3. QED
      BY <1>2, <1>3, <2>1, <2>2
  <1>6. CASE s.buyer = r.buyer /\ s.buyer \in Buyers
    <2>1. s.buyer \in CardsOf(s) /\ s.buyer # None
      BY <1>6, NullIsNoId DEF CardsOf
    <2>2. ~Changed(r.buyer)
      BY <1>2, <1>6, <2>1 DEF Touches
    <2>3. account'[r.buyer] = Applied(r.account, account[r.buyer])
      BY <1>1, <1>6 DEF SaveChanges
    <2>4. assignment'[r.buyer] = Applied(r.assignment, assignment[r.buyer])
      BY <1>1, <1>6 DEF SaveChanges
    <2>5. r.account.op # "delete"
      BY <1>1, <2>2, <2>3 DEF CanSave, Applicable, Applied, Changed
    <2>6. r.assignment.op # "delete"
      BY <1>1, <2>2, <2>4 DEF CanSave, Applicable, Applied, Changed
    <2>7. LoseRow(s, r.buyer, "account", r.account.op = "delete") = s
      BY <2>5 DEF LoseRow
    <2>8. LoseRow(s, r.buyer, "assignment", r.assignment.op = "delete") = s
      BY <2>6 DEF LoseRow
    <2>9. QED
      BY <1>2, <1>3, <2>7, <2>8
  <1>7. QED
    BY <1>4, <1>5, <1>6

(* A request that goes on by itself, with a plan: everyone else's rows and *)
(* suppliers are as they were.                                             *)
LEMMA UntouchedGoesOn ==
    ASSUME IInv, IInv', UntouchedPlanned, NEW q \in Requests, UNCHANGED vars,
           q \notin touched => \E r : Plan(r) /\ req' = [req EXCEPT ![q] = r],
           \A p \in Requests \ {q} : req'[p] = req[p],
           NEW p \in Requests \ touched
    PROVE  Plan(req[p])'
  <1>1. PICK s : s = req'[p]
    OBVIOUS
  <1>2. s \in Request
    BY <1>1 DEF IInv
  <1>3. CASE p = q
    <2>1. PICK r : Plan(r) /\ req' = [req EXCEPT ![q] = r]
      BY <1>3
    <2>2. r = s
      BY <1>1, <1>3, <2>1 DEF IInv
    <2>3. Plan(s)'
      BY <1>2, <2>1, <2>2, PlanIsOfRows
    <2>4. QED
      BY <1>1, <2>3
  <1>4. CASE p # q
    <2>1. Plan(s)
      BY <1>1, <1>4 DEF UntouchedPlanned
    <2>2. Plan(s)'
      BY <1>2, <2>1, PlanIsOfRows
    <2>3. QED
      BY <1>1, <2>2
  <1>5. QED
    BY <1>3, <1>4

LEMMA UntouchedSteps ==
    ASSUME IInv, IInv', UntouchedPlanned, NextOverlaps
    PROVE  UntouchedPlanned'
  <1>1. NextRequests /\ touched' = {q \in Requests : req'[q] # Idle
                                                    /\ (q \in touched \/ Touches(q))}
    BY DEF NextOverlaps
  <1> SUFFICES ASSUME NEW p \in Requests, p \notin touched' PROVE Plan(req[p])'
    BY DEF UntouchedPlanned
  <1>2. CASE req'[p] = Idle
    BY <1>2 DEF Plan, Idle, NoStatement, Opens, Updates
  <1>3. CASE req'[p] # Idle
    <2>1. p \in Requests \ touched /\ ~Touches(p) /\ Plan(req[p])
      BY <1>1, <1>3 DEF UntouchedPlanned
    <2>2. PICK q \in Requests : \/ BeginRequest(q) \/ Proceed(q) \/ ProviderAnswers(q)
                                \/ Abort(q) \/ ToggleSupplier(q)
      BY <1>1 DEF NextRequests
    <2>3. CASE BeginRequest(q)
      <3>1. UNCHANGED vars /\ \E r : Plan(r) /\ req' = [req EXCEPT ![q] = r]
        BY <2>3, BeginPlans DEF BeginRequest
      <3>2. QED
        BY <2>1, <3>1, UntouchedGoesOn DEF IInv
    <2>4. CASE /\ \/ ReadAccount(q) \/ ReadAssignment(q) \/ ReadSuppliers(q)
                  \/ ReadSupplier(q) \/ ReadExistingAssignment(q)
               /\ UNCHANGED <<vars, token>>
      <3>1. \E r : req' = [req EXCEPT ![q] = r]
        BY <2>4 DEF ReadAccount, ReadAssignment, ReadSuppliers, ReadSupplier,
                    ReadExistingAssignment, Continue
      <3>2. q \notin touched => \E r : Plan(r) /\ req' = [req EXCEPT ![q] = r]
        <4> SUFFICES ASSUME q \notin touched
                     PROVE  \E r : Plan(r) /\ req' = [req EXCEPT ![q] = r]
          OBVIOUS
        <4>1. Plan(req[q])
          BY DEF UntouchedPlanned
        <4>2. QED
          BY <2>4, <4>1, ReadAccountPlans, ReadAssignmentPlans, ReadSuppliersPlans,
             ReadSupplierPlans, ReadExistingAssignmentPlans
      <3>3. QED
        BY <2>1, <2>4, <3>1, <3>2, UntouchedGoesOn DEF IInv
    <2>5. CASE SaveFails(q) \/ Abort(q)
      <3>1. UNCHANGED vars /\ req' = [req EXCEPT ![q] = Idle]
        BY <2>5 DEF SaveFails, Abort, Continue
      <3>2. QED
        BY <2>1, <3>1, IdlePlans, UntouchedGoesOn DEF IInv
    <2>6. CASE SaveChanges(q)
      <3>1. p # q /\ cards \subseteq cards'
        BY <1>3, <2>6 DEF SaveChanges
      <3>2. req'[p] = req[p]
        BY <2>1, <2>6, <3>1, SaveSparesUntouched
      <3>3. QED
        BY <2>1, <3>1, <3>2, UntouchedStands
    <2>7. CASE ProviderAnswers(q)
      <3>1. UNCHANGED vars /\ \E r : req' = [req EXCEPT ![q] = r]
        BY <2>7 DEF ProviderAnswers, CompleteAuthorization, FetchRefused, Continue
      <3>2. q \notin touched => \E r : Plan(r) /\ req' = [req EXCEPT ![q] = r]
        BY <2>7, CallbackPlans, FetchRefusedPlans DEF ProviderAnswers, UntouchedPlanned
      <3>3. QED
        BY <2>1, <3>1, <3>2, UntouchedGoesOn DEF IInv
    <2>8. CASE ToggleSupplier(q)
      <3>1. req' = req /\ cards' = cards
        BY <2>8 DEF ToggleSupplier, SetActive
      <3>2. QED
        BY <2>1, <3>1, UntouchedStands
    <2>9. QED
      BY <2>2, <2>3, <2>4, <2>5, <2>6, <2>7, <2>8 DEF Proceed
  <1>4. QED
    BY <1>2, <1>3

LEMMA UntouchedStutters ==
    ASSUME IInv, UntouchedPlanned, UNCHANGED overlapVars
    PROVE  UntouchedPlanned'
  <1>1. UNCHANGED vars /\ req' = req /\ touched' = touched
    BY DEF overlapVars, allVars
  <1>2. ASSUME NEW p \in Requests \ touched PROVE Plan(req[p])'
    <2>1. PICK s \in Request : s = req[p] /\ Plan(s)
      BY DEF IInv, UntouchedPlanned
    <2>2. Plan(s)'
      BY <1>1, <2>1, PlanIsOfRows
    <2>3. req'[p] = s
      BY <1>1, <2>1
    <2>4. QED
      BY <2>2, <2>3
  <1>3. QED
    BY <1>1, <1>2 DEF UntouchedPlanned

(* The token that a planned save writes opens the mailbox it leaves.       *)
LEMMA TokenStays ==
    ASSUME IInv, NEW q \in Requests, Plan(req[q]), SaveChanges(q),
           NEW b \in Buyers, token[b] = account[b]
    PROVE  token'[b] = account'[b]
  <1>1. PICK r : r = req[q]
    OBVIOUS
  <1>2. Opens(r, r.buyer) /\ r \in Request
    BY <1>1 DEF Plan, IInv
  <1>3. /\ account'[b] = IF b = r.buyer THEN Applied(r.account, account[b]) ELSE account[b]
        /\ token'[b] = IF b = r.buyer THEN TokenAfter(r.account, token[b]) ELSE token[b]
    BY <1>1 DEF SaveChanges
  <1>4. CASE b # r.buyer
    BY <1>3, <1>4
  <1>5. CASE b = r.buyer
    <2>1. r.account.op \in {"none", "insert", "delete", "lost"} \cup Updates
      BY <1>2 DEF Request, AccountStatement
    <2>2. CASE r.account.op \in {"insert"} \cup Updates
      <3>1. r.account.value = Applied(r.account, account[b])
        BY <1>2, <1>5, <2>2 DEF Opens
      <3>2. TokenAfter(r.account, token[b]) = r.account.value
        BY <2>2 DEF TokenAfter, Updates
      <3>3. QED
        BY <1>3, <1>5, <3>1, <3>2
    <2>3. CASE r.account.op = "delete"
      BY <1>3, <1>5, <2>3 DEF TokenAfter, Applied, Updates
    <2>4. CASE r.account.op \in {"none", "lost"}
      BY <1>3, <1>5, <2>4 DEF TokenAfter, Applied, Updates
    <2>5. QED
      BY <2>1, <2>2, <2>3, <2>4
  <1>6. QED
    BY <1>4, <1>5

(* A save whose cards no other request has changed since it took them in   *)
(* hand does what its handler does alone, however many other requests have *)
(* the same cards in hand: the one way for requests to race is a save that *)
(* changes a card of another request before that one saves.                *)
THEOREM Untouched == SpecOverlaps => UntouchedIsSerial
  <1>1. InitOverlaps => InitRequests /\ UntouchedPlanned
    BY InitPlanned DEF InitOverlaps, Planned, UntouchedPlanned
  <1>2. [NextOverlaps]_overlapVars => [NextRequests]_allVars
    BY DEF NextOverlaps, overlapVars
  <1>3. IInv /\ IInv' /\ UntouchedPlanned /\ [NextOverlaps]_overlapVars => UntouchedPlanned'
    BY UntouchedSteps, UntouchedStutters
  <1>4. IInv /\ UntouchedPlanned =>
            [ \A q \in Requests \ touched :
                  SaveChanges(q) => /\ Next
                                    /\ \A b \in Buyers : token[b] = account[b]
                                                         => token'[b] = account'[b] ]_overlapVars
    BY SaveIsNext, TokenStays DEF UntouchedPlanned
  <1>5. SpecOverlaps => []IInv
    BY <1>1, <1>2, Invariance, PTL DEF SpecOverlaps, SpecRequests
  <1>6. QED
    BY <1>1, <1>3, <1>4, <1>5, PTL DEF SpecOverlaps, UntouchedIsSerial
================================================================================
