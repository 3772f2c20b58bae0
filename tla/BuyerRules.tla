------------------------------ MODULE BuyerRules ------------------------------
(****************************************************************************)
(* One row of the Buyers table, the rules of BuyerRuleService, and what     *)
(* each handler makes of a row it was allowed to change.  A buyer and a     *)
(* card key are the same row: the card number is the buyer's credential.    *)
(*                                                                          *)
(* Everything here is a function of one row, so that the serial             *)
(* specification (BuyerLifecycle) and the concurrent one (BuyerRequests)    *)
(* share it: they differ in WHEN the row is read and written.               *)
(****************************************************************************)

CONSTANTS
    Sales,      \* ids of the users whose role is Sales
    Times,      \* the instants a timestamp column can hold
    None        \* SQL NULL

ASSUME NullIsNoValue == None \notin Sales \cup Times

(* Domain/Enums.cs *)
BuyerStage == {"NotSent", "Sent", "Opened", "Submitted"}
EmailAuthorizationStatus == {"NotAuthorized", "Authorized", "Abnormal"}
ReviewStatus == {"Pending", "Approved", "Rejected"}
SupplierProcessingStatus == {"Unprocessed", "Failed", "Completed"}
AutoApproveAction == {"NoChange", "AutoApprove", "RequireReview"}

Buyer == [ Stage          : BuyerStage,
           AutoApprove    : BOOLEAN,
           CardSentAt     : Times \cup {None},
           SaleId         : Sales \cup {None},
           EmailStatus    : EmailAuthorizationStatus,
           ReviewStatus   : ReviewStatus,
           SupplierStatus : SupplierProcessingStatus,
           IsDeleted      : BOOLEAN,
           CardUsedAt     : Times \cup {None} ]

----------------------------------------------------------------------------
(* BuyerRuleService: who may do what to a row. *)

CanSalesDeleteBuyer(r, saleId) ==
    /\ ~r.IsDeleted
    /\ r.SaleId = saleId
    /\ r.EmailStatus # "Abnormal"
    /\ ~(r.ReviewStatus = "Approved" /\ r.SupplierStatus = "Unprocessed")

CanSupplierViewBuyer(r, assignedSupplierId, supplierId) ==
    /\ ~r.IsDeleted
    /\ r.ReviewStatus = "Approved"
    /\ r.EmailStatus = "Authorized"
    /\ assignedSupplierId = supplierId

CanSupplierSetStatus(r, assignedSupplierId, supplierId) ==
    CanSupplierViewBuyer(r, assignedSupplierId, supplierId)

(* The flags of BuyerMailAction that the row's state grants its buyer. *)
ResolveBuyerMailAction(r) ==
    LET healthy   == ~r.IsDeleted /\ r.EmailStatus # "Abnormal"
        abnormal  == ~r.IsDeleted /\ r.EmailStatus = "Abnormal"
        submitted == healthy /\ r.Stage = "Submitted"
        approved  == r.ReviewStatus = "Approved"
    IN  [ Authorize   |-> healthy /\ r.Stage = "Opened",
          ReAuthorize |-> abnormal,
          ChangeEmail |-> \/ abnormal
                          \/ submitted /\ (approved => r.SupplierStatus = "Failed"),
          ClearAuth   |-> submitted /\ (approved => /\ r.SupplierStatus = "Completed"
                                                    /\ r.EmailStatus = "Authorized") ]

----------------------------------------------------------------------------
(* What each handler writes.  now is the clock reading it takes. *)

(* CardKeyService.GenerateAsync: a card given to a salesperson at once is  *)
(* sent at once.                                                           *)
NewCard(saleId, autoApprove, now) ==
    [ Stage          |-> IF saleId = None THEN "NotSent" ELSE "Sent",
      AutoApprove    |-> autoApprove,
      CardSentAt     |-> IF saleId = None THEN None ELSE now,
      SaleId         |-> saleId,
      EmailStatus    |-> "NotAuthorized",
      ReviewStatus   |-> "Pending",
      SupplierStatus |-> "Unprocessed",
      IsDeleted      |-> FALSE,
      CardUsedAt     |-> None ]

(* CardKeyService.SendAsync, on each of its targets. *)
IsSendTarget(r) == ~r.IsDeleted /\ r.Stage = "NotSent"

(* Mutant of AfterSend: the date is forgotten. *)
AfterSendUndated(r, saleId, action, now) ==
    [ r EXCEPT !.SaleId = IF saleId = None THEN @ ELSE saleId, !.Stage = "Sent" ]

AfterSend(r, saleId, action, now) ==
    [ r EXCEPT !.SaleId      = IF saleId = None THEN @ ELSE saleId,
               !.Stage       = "Sent",
               !.CardSentAt  = now,
               !.AutoApprove = \/ action = "AutoApprove"
                               \/ action = "NoChange" /\ @ ]

(* Buyer/Verify: the first visit opens the card. *)
AfterVerify(r) == [r EXCEPT !.Stage = "Opened"]

(* Mutants of AfterChangeEmail: a column is not reset, or one too many. *)
AfterChangeEmailUnused(r) ==
    [ r EXCEPT !.Stage = "Opened", !.EmailStatus = "NotAuthorized", !.ReviewStatus = "Pending",
               !.SupplierStatus = "Unprocessed", !.CardUsedAt = None ]

AfterChangeEmailStatusKept(r) ==
    [r EXCEPT !.Stage = "Opened", !.ReviewStatus = "Pending", !.SupplierStatus = "Unprocessed"]

AfterChangeEmailWorkKept(r) ==
    [r EXCEPT !.Stage = "Opened", !.EmailStatus = "NotAuthorized", !.ReviewStatus = "Pending"]

(* Buyer/Email, ChangeEmail. *)
AfterChangeEmail(r) ==
    [ r EXCEPT !.Stage          = "Opened",
               !.EmailStatus    = "NotAuthorized",
               !.ReviewStatus   = "Pending",
               !.SupplierStatus = "Unprocessed" ]

(* Mutant of AfterClearAuth: any completed buyer keeps its status. *)
AfterClearAuthCompleted(r) ==
    IF r.SupplierStatus = "Completed" THEN [r EXCEPT !.EmailStatus = "NotAuthorized"]
                                      ELSE AfterChangeEmail(r)

(* Buyer/Email, ClearAuth: an approved and completed buyer keeps its       *)
(* status, any other one starts a new cycle.                               *)
AfterClearAuth(r) ==
    IF r.ReviewStatus = "Approved" /\ r.SupplierStatus = "Completed"
    THEN [r EXCEPT !.EmailStatus = "NotAuthorized"]
    ELSE AfterChangeEmail(r)

(* Mutants of AfterCallback: AutoApprove ignored; an approval kept for a    *)
(* changed mailbox; the first use dated again.                             *)
AfterCallbackPending(r, isNewOrChangedAccount, now) ==
    [ r EXCEPT !.Stage = "Submitted", !.CardUsedAt = IF @ = None THEN now ELSE @,
               !.EmailStatus = "Authorized",
               !.ReviewStatus = IF isNewOrChangedAccount THEN "Pending" ELSE @ ]

AfterCallbackReviewKept(r, isNewOrChangedAccount, now) ==
    [ r EXCEPT !.Stage = "Submitted", !.CardUsedAt = IF @ = None THEN now ELSE @,
               !.EmailStatus = "Authorized" ]

AfterCallbackRedated(r, isNewOrChangedAccount, now) ==
    [ r EXCEPT !.Stage = "Submitted", !.CardUsedAt = now, !.EmailStatus = "Authorized" ]

(* OAuth/Callback: the mailbox is bound; a new or another mailbox decides  *)
(* the review afresh, the same mailbox only mends an abnormal status.      *)
AfterCallback(r, isNewOrChangedAccount, now) ==
    [ r EXCEPT !.Stage        = "Submitted",
               !.CardUsedAt   = IF @ = None THEN now ELSE @,
               !.EmailStatus  = IF isNewOrChangedAccount \/ @ = "Abnormal"
                                THEN "Authorized" ELSE @,
               !.ReviewStatus = IF ~isNewOrChangedAccount THEN @
                                ELSE IF r.AutoApprove THEN "Approved" ELSE "Pending" ]

(* Mutant of IsReviewable: any pending buyer, submitted or not. *)
IsPending(r) == ~r.IsDeleted /\ r.ReviewStatus = "Pending"

(* Admin/Buyers, Approve and Reject. *)
IsReviewable(r) ==
    ~r.IsDeleted /\ r.Stage = "Submitted" /\ r.ReviewStatus = "Pending"

AfterReview(r, decision) == [r EXCEPT !.ReviewStatus = decision]

(* Admin/Buyers and Supplier/Buyers, SetStatus. *)
CanAdminSetStatus(r) == ~r.IsDeleted /\ r.ReviewStatus = "Approved"

(* Mutant of AfterSetStatus: the wrong column. *)
AfterSetReviewColumn(r, status) == [r EXCEPT !.ReviewStatus = status]

AfterSetStatus(r, status) == [r EXCEPT !.SupplierStatus = status]

(* MailCacheService.MarkBuyerAbnormalAsync. *)
AfterMarkAbnormal(r) == [r EXCEPT !.EmailStatus = "Abnormal"]

(* The three pages that delete a buyer only mark its row. *)
AfterDelete(r) == [r EXCEPT !.IsDeleted = TRUE]
=============================================================================
