---------------------------- MODULE BuyerLifecycle ----------------------------
(****************************************************************************)
(* The life of a card key, one request at a time.                           *)
(*                                                                          *)
(* Every action is one whole handler that ran with nobody else: what it     *)
(* read is still so when it saves.  This is what the pages promise;         *)
(* BuyerRequests splits the same handlers into their reads, awaits and      *)
(* saves, and implements this module when requests do not overlap.          *)
(****************************************************************************)
EXTENDS BuyerRules

CONSTANTS
    Buyers,     \* the card numbers that can ever be drawn
    Mailboxes,  \* (provider, address) pairs, compared ignoring case
    Suppliers   \* ids of the users whose role is Supplier

ASSUME NullIsNoId == None \notin Buyers \cup Mailboxes \cup Suppliers

VARIABLES
    cards,      \* the card numbers that have a row in Buyers
    row,        \* that row
    account,    \* the mailbox of the buyer's EmailAccounts row, or None
    assignment, \* the supplier of its BuyerSupplierAssignments row, or None
    active      \* the suppliers whose IsActive is set

vars == <<cards, row, account, assignment, active>>

Init ==
    /\ cards = {}
    /\ row = [b \in Buyers |-> NewCard(None, FALSE, None)]
    /\ account = [b \in Buyers |-> None]
    /\ assignment = [b \in Buyers |-> None]
    /\ active = Suppliers

Present(b) == b \in cards /\ ~row[b].IsDeleted

----------------------------------------------------------------------------
(* Administrator: card keys *)

Generate(S, saleId, autoApprove, now) ==
    /\ S # {} /\ S \cap cards = {}
    /\ cards' = cards \cup S
    /\ row' = [b \in Buyers |-> IF b \in S THEN NewCard(saleId, autoApprove, now)
                                           ELSE row[b]]
    /\ UNCHANGED <<account, assignment, active>>

Send(ids, saleId, action, now) ==
    LET targets == {b \in ids \cap cards : IsSendTarget(row[b])}
    IN  /\ targets # {}
        /\ row' = [b \in Buyers |-> IF b \in targets
                                    THEN AfterSend(row[b], saleId, action, now)
                                    ELSE row[b]]
        /\ UNCHANGED <<cards, account, assignment, active>>

DeleteCardKey(b) ==
    /\ Present(b)
    /\ row' = [row EXCEPT ![b] = AfterDelete(@)]
    /\ UNCHANGED <<cards, account, assignment, active>>

----------------------------------------------------------------------------
(* The buyer, holding the card *)

Verify(b) ==
    /\ Present(b) /\ row[b].Stage = "Sent"
    /\ row' = [row EXCEPT ![b] = AfterVerify(@)]
    /\ UNCHANGED <<cards, account, assignment, active>>

ChangeEmail(b) ==
    /\ Present(b) /\ ResolveBuyerMailAction(row[b]).ChangeEmail
    /\ account' = [account EXCEPT ![b] = None]
    /\ row' = [row EXCEPT ![b] = AfterChangeEmail(@)]
    /\ UNCHANGED <<cards, assignment, active>>

ClearAuth(b) ==
    /\ Present(b) /\ ResolveBuyerMailAction(row[b]).ClearAuth
    /\ account' = [account EXCEPT ![b] = None]
    /\ row' = [row EXCEPT ![b] = AfterClearAuth(@)]
    /\ UNCHANGED <<cards, assignment, active>>

(* BuyerReviewService.AutoAssignSingleSupplierAsync: no assignment yet and *)
(* exactly one active supplier.                                            *)
AutoAssignSingleSupplier(b) ==
    assignment' = IF assignment[b] = None /\ \E s \in Suppliers : active = {s}
                  THEN [assignment EXCEPT ![b] = CHOOSE s \in Suppliers : active = {s}]
                  ELSE assignment

(* The provider sends the browser back for mailbox m. *)
Callback(b, m, now) ==
    LET isNewOrChangedAccount == account[b] # m
    IN  /\ Present(b)
        /\ account[b] # None /\ isNewOrChangedAccount
               => ResolveBuyerMailAction(row[b]).ChangeEmail
        /\ account' = [account EXCEPT ![b] = m]
        /\ row' = [row EXCEPT ![b] = AfterCallback(@, isNewOrChangedAccount, now)]
        /\ IF isNewOrChangedAccount /\ row[b].AutoApprove
           THEN AutoAssignSingleSupplier(b)
           ELSE UNCHANGED assignment
        /\ UNCHANGED <<cards, active>>

----------------------------------------------------------------------------
(* Administrator: buyers and suppliers *)

Review(b, decision) ==
    /\ b \in cards /\ IsReviewable(row[b])
    /\ row' = [row EXCEPT ![b] = AfterReview(@, decision)]
    /\ IF decision = "Approved" THEN AutoAssignSingleSupplier(b)
                                ELSE UNCHANGED assignment
    /\ UNCHANGED <<cards, account, active>>

AssignSupplier(b, supplierId) ==
    /\ Present(b)
    /\ supplierId # None => supplierId \in active
    /\ assignment' = [assignment EXCEPT ![b] = supplierId]
    /\ UNCHANGED <<cards, row, account, active>>

AdminSetStatus(b, status) ==
    /\ b \in cards /\ CanAdminSetStatus(row[b])
    /\ row' = [row EXCEPT ![b] = AfterSetStatus(@, status)]
    /\ UNCHANGED <<cards, account, assignment, active>>

DeleteBuyer(b) ==
    /\ Present(b)
    /\ row' = [row EXCEPT ![b] = AfterDelete(@)]
    /\ UNCHANGED <<cards, account, assignment, active>>

SetActive(s, isActive) ==
    /\ active' = IF isActive THEN active \cup {s} ELSE active \ {s}
    /\ UNCHANGED <<cards, row, account, assignment>>

----------------------------------------------------------------------------
(* Salesperson, supplier, and the mail poll *)

SalesDelete(b, saleId) ==
    /\ b \in cards /\ CanSalesDeleteBuyer(row[b], saleId)
    /\ row' = [row EXCEPT ![b] = AfterDelete(@)]
    /\ UNCHANGED <<cards, account, assignment, active>>

SupplierSetStatus(b, supplierId, status) ==
    /\ b \in cards /\ CanSupplierSetStatus(row[b], assignment[b], supplierId)
    /\ row' = [row EXCEPT ![b] = AfterSetStatus(@, status)]
    /\ UNCHANGED <<cards, account, assignment, active>>

(* A poll whose fetch the provider refused as unauthorized.  The buyer may *)
(* have been deleted: the poll does not look.                              *)
MarkAbnormal(b) ==
    /\ b \in cards /\ account[b] # None
    /\ row[b].EmailStatus = "Authorized"
    /\ row' = [row EXCEPT ![b] = AfterMarkAbnormal(@)]
    /\ UNCHANGED <<cards, account, assignment, active>>

----------------------------------------------------------------------------
CardKeyStep ==
    \E saleId \in Sales \cup {None}, now \in Times :
        \/ \E S \in SUBSET Buyers, autoApprove \in BOOLEAN :
               Generate(S, saleId, autoApprove, now)
        \/ \E ids \in SUBSET Buyers, action \in AutoApproveAction :
               Send(ids, saleId, action, now)

BuyerStep(b) ==
    \/ Verify(b)
    \/ ChangeEmail(b)
    \/ ClearAuth(b)
    \/ \E m \in Mailboxes, now \in Times : Callback(b, m, now)

AdminStep(b) ==
    \/ DeleteCardKey(b)
    \/ DeleteBuyer(b)
    \/ \E decision \in {"Approved", "Rejected"} : Review(b, decision)
    \/ \E supplierId \in Suppliers \cup {None} : AssignSupplier(b, supplierId)
    \/ \E status \in SupplierProcessingStatus : AdminSetStatus(b, status)

OthersStep(b) ==
    \/ \E saleId \in Sales : SalesDelete(b, saleId)
    \/ \E s \in Suppliers, status \in SupplierProcessingStatus :
           SupplierSetStatus(b, s, status)
    \/ MarkAbnormal(b)

Next ==
    \/ CardKeyStep
    \/ \E b \in Buyers : BuyerStep(b) \/ AdminStep(b) \/ OthersStep(b)
    \/ \E s \in Suppliers, isActive \in BOOLEAN : SetActive(s, isActive)

Spec == Init /\ [][Next]_vars

----------------------------------------------------------------------------
TypeOK ==
    /\ cards \subseteq Buyers
    /\ row \in [Buyers -> Buyer]
    /\ account \in [Buyers -> Mailboxes \cup {None}]
    /\ assignment \in [Buyers -> Suppliers \cup {None}]
    /\ active \subseteq Suppliers

(* The EmailAccounts row and the buyer's two columns about it, written by  *)
(* four handlers, agree: a mailbox is bound exactly while EmailStatus says *)
(* so, and only to a submitted card.  A supplier who is shown a buyer      *)
(* therefore has a mailbox to read.                                        *)
MailboxMatchesStatus ==
    \A b \in Buyers :
        /\ (account[b] # None) <=> (row[b].EmailStatus # "NotAuthorized")
        /\ account[b] # None => row[b].Stage = "Submitted"

(* A card that is not submitted carries nothing over from an earlier cycle *)
(* (ChangeEmail and ClearAuth reset every column a cycle had set).         *)
UnsubmittedIsFresh ==
    \A b \in Buyers : row[b].Stage # "Submitted" =>
        /\ row[b].EmailStatus = "NotAuthorized"
        /\ row[b].ReviewStatus = "Pending"
        /\ row[b].SupplierStatus = "Unprocessed"

(* A submitted card whose mailbox is gone was cleared after approval: no   *)
(* reset of ClearAuth leaves a submitted card waiting for a review of a    *)
(* mailbox that does not exist.                                            *)
UnboundSubmittedIsApproved ==
    \A b \in Buyers :
        row[b].Stage = "Submitted" /\ account[b] = None
            => row[b].ReviewStatus = "Approved"

(* An auto-approved card (AutoApprove) never waits for a review nor is     *)
(* rejected while it has a mailbox, however often it is re-bound.          *)
AutoApproveIsSticky ==
    \A b \in Buyers :
        row[b].AutoApprove /\ account[b] # None => row[b].ReviewStatus = "Approved"

(* The columns that record the past agree with where the card is: one in   *)
(* stock was never given, dated or used; one sent or given to a            *)
(* salesperson has a date; whatever a mailbox led to had a first use.      *)
HistoryMatchesStage ==
    \A b \in Buyers :
        /\ row[b].Stage = "NotSent" => /\ row[b].CardSentAt = None
                                       /\ row[b].SaleId = None
        /\ row[b].Stage \in {"NotSent", "Sent"} => row[b].CardUsedAt = None
        /\ row[b].Stage = "Sent" \/ row[b].SaleId # None => row[b].CardSentAt # None
        /\ row[b].Stage = "Submitted" \/ account[b] # None => row[b].CardUsedAt # None

(* Under processing: approved, with a working mailbox, and not yet         *)
(* answered by the supplier.  CanSupplierViewBuyer shows it,               *)
(* ResolveBuyerMailAction offers its buyer nothing, CanSalesDeleteBuyer    *)
(* refuses to remove it.                                                   *)
IsLocked(b) ==
    /\ Present(b)
    /\ row[b].ReviewStatus = "Approved"
    /\ row[b].SupplierStatus = "Unprocessed"
    /\ row[b].EmailStatus = "Authorized"

(* While a buyer is under processing no handler takes its mailbox away or  *)
(* swaps it, and its review stands: three handlers guard this, each in its *)
(* own way.                                                                *)
LockedMailboxIsKept ==
    [][ \A b \in Buyers : IsLocked(b) =>
            /\ account'[b] = account[b]
            /\ row'[b].Stage = "Submitted"
            /\ row'[b].ReviewStatus = "Approved" ]_vars

(* An administrator's approval covers the mailbox it was given for: if a   *)
(* card that is not auto-approved stays approved, its mailbox did not turn *)
(* into another one under the approval.                                    *)
ApprovalCoversMailbox ==
    [][ \A b \in Buyers :
            /\ row[b].ReviewStatus = "Approved" /\ row'[b].ReviewStatus = "Approved"
            /\ ~row[b].AutoApprove
            => account'[b] \in {account[b], None} ]_vars

(* A card is sent once, used first once, and deleted for good; its number  *)
(* never leaves the table, and it never returns to stock or, once opened,  *)
(* to Sent.                                                                *)
CardHistoryIsKept ==
    [][ \A b \in cards :
            /\ b \in cards'
            /\ row[b].IsDeleted => row'[b].IsDeleted
            /\ row[b].CardSentAt # None => row'[b].CardSentAt = row[b].CardSentAt
            /\ row[b].CardUsedAt # None => row'[b].CardUsedAt = row[b].CardUsedAt
            /\ row[b].Stage # "NotSent" => row'[b].SaleId = row[b].SaleId
            /\ row'[b].Stage = "NotSent" => row[b].Stage = "NotSent"
            /\ row'[b].Stage = "Sent" => row[b].Stage \in {"NotSent", "Sent"} ]_vars

----------------------------------------------------------------------------
(* Statements of the design documents that the handlers do not keep.       *)

(* A re-bound mailbox starts over with the supplier too: a buyer waiting   *)
(* for review is Unprocessed (the ChangeEmail row of the stage table).     *)
PendingIsUnprocessed ==
    \A b \in Buyers :
        row[b].ReviewStatus = "Pending" => row[b].SupplierStatus = "Unprocessed"
=============================================================================
