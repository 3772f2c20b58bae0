---------------------------- MODULE BuyerRequests ----------------------------
(****************************************************************************)
(* The handlers of BuyerLifecycle as concurrent HTTP requests.              *)
(*                                                                          *)
(* Each request has a DbContext of its own.  A query reads the database at  *)
(* one instant; a row once read keeps, for this request, the values of that *)
(* read; SaveChanges is one transaction that writes the columns whose value *)
(* the request changed, and no other.  Buyers rows have no concurrency      *)
(* token, so a save never notices that its row was changed in between.      *)
(* What it can notice: an INSERT that meets a unique index (CardNo,         *)
(* EmailAccount.BuyerId, BuyerSupplierAssignment.BuyerId), and an UPDATE or *)
(* DELETE whose row another request removed.  Either fails the whole save.  *)
(*                                                                          *)
(* A request is what it still has to do: the read it waits for (phase) and  *)
(* the writes collected so far.  Handlers that only read are left out.      *)
(****************************************************************************)
EXTENDS BuyerLifecycle

CONSTANTS
    Requests,   \* the requests that may be in flight together
    Providers, Addresses,   \* what a mailbox is made of: two columns of EmailAccounts
    Handlers,   \* the handlers in use: all of them, unless a model is about a few
    Same        \* "this column is not written"

ASSUME SameIsNoValue ==
    /\ Same \notin Sales \cup Times \cup {None}
    /\ Same \notin BuyerStage \cup EmailAuthorizationStatus
                 \cup ReviewStatus \cup SupplierProcessingStatus
    /\ Same \notin BOOLEAN

ASSUME MailboxesArePairs == Mailboxes = Providers \X Addresses

VARIABLES
    token,      \* the mailbox that the account row's refresh token opens
    req         \* what each request is doing

allVars == <<vars, token, req>>

----------------------------------------------------------------------------
(* The unit of work of a DbContext *)

(* What a save writes in a row: a value, or nothing, per column. *)
Change == [ Stage          : BuyerStage \cup {Same},
            AutoApprove    : BOOLEAN \cup {Same},
            CardSentAt     : Times \cup {None, Same},
            SaleId         : Sales \cup {None, Same},
            EmailStatus    : EmailAuthorizationStatus \cup {Same},
            ReviewStatus   : ReviewStatus \cup {Same},
            SupplierStatus : SupplierProcessingStatus \cup {Same},
            IsDeleted      : BOOLEAN \cup {Same},
            CardUsedAt     : Times \cup {None, Same} ]

(* The columns that the request gave another value than the one it read. *)
Changes(loaded, current) ==
    [c \in DOMAIN loaded |-> IF current[c] = loaded[c] THEN Same ELSE current[c]]

NoChange == [c \in DOMAIN NewCard(None, FALSE, None) |-> Same]

(* The row after those columns have been written over it. *)
Merge(r, changes) ==
    [c \in DOMAIN r |-> IF changes[c] = Same THEN r[c] ELSE changes[c]]

(* A pending statement on the buyer's EmailAccounts or assignment row.     *)
(* Provider and Email are columns of their own: an update writes the ones  *)
(* whose value changed, and "refresh" the token columns alone.  "lost":    *)
(* the statement names a row that has been deleted since; ids are never    *)
(* reused, so it will find none.                                           *)
Updates == {"update", "updateProvider", "updateEmail", "refresh"}

AccountStatement == [ op : {"none", "insert", "delete", "lost"} \cup Updates,
                      value : Mailboxes \cup {None} ]

AssignmentStatement == [ op : {"none", "insert", "update", "delete", "lost"},
                         value : Suppliers \cup {None} ]

NoStatement == [op |-> "none", value |-> None]

(* Mutant of Applicable: no unique index on BuyerId. *)
NotLost(stmt, current) == stmt.op # "lost"

(* Mutant of Applicable: nobody looks at the rows that a DELETE or UPDATE  *)
(* has affected.                                                           *)
Unnoticed(stmt, current) == stmt.op = "insert" => current = None

(* An INSERT wants no row of this buyer, the others want the row they read. *)
Applicable(stmt, current) ==
    /\ stmt.op # "lost"
    /\ stmt.op = "insert" <=> current = None

Applied(stmt, current) ==
    CASE stmt.op \in {"insert", "update"} -> stmt.value
      [] stmt.op = "updateProvider" -> <<stmt.value[1], current[2]>>
      [] stmt.op = "updateEmail" -> <<current[1], stmt.value[2]>>
      [] stmt.op = "delete" -> None
      [] OTHER -> current

Phase == { "idle",
           "provider",    \* Callback: awaits CompleteAuthorizationAsync
           "account",     \* ChangeEmail, ClearAuth: about to read EmailAccounts
           "supplier",    \* AssignSupplier: about to look the supplier up
           "existing",    \* AssignSupplier: about to read the assignment
           "assignment",  \* auto-assignment: about to read the assignment
           "suppliers",   \* auto-assignment: about to list the active suppliers
           "fetch",       \* mail poll: awaits FetchMessagesAsync
           "save" }       \* about to call SaveChanges

Idle == [ phase |-> "idle", buyer |-> None, loaded |-> None, insert |-> {},
          changes |-> [b \in Buyers |-> NoChange],
          account |-> NoStatement, assignment |-> NoStatement ]

InitRequests ==
    /\ Init
    /\ token = [b \in Buyers |-> None]
    /\ req = [q \in Requests |-> Idle]

Begin(q, r) == req[q].phase = "idle" /\ req' = [req EXCEPT ![q] = r]

Continue(q, phase, r) == req[q].phase = phase /\ req' = [req EXCEPT ![q] = r]

(* A request that has the changed row of b in hand and goes on to phase. *)
Changing(b, current, phase) ==
    [Idle EXCEPT !.phase = phase, !.buyer = b,
                 !.changes[b] = Changes(row[b], current)]

----------------------------------------------------------------------------
(* Handlers that read the buyer and save *)

BeginGenerate(q, S, saleId, autoApprove, now) ==
    /\ S # {} /\ S \cap cards = {}
    /\ Begin(q, [Idle EXCEPT !.phase = "save", !.insert = S,
                     !.changes = [b \in Buyers |-> IF b \in S
                                     THEN NewCard(saleId, autoApprove, now) ELSE NoChange]])

BeginSend(q, ids, saleId, action, now) ==
    LET targets == {b \in ids \cap cards : IsSendTarget(row[b])}
    IN  /\ targets # {}
        /\ Begin(q, [Idle EXCEPT !.phase = "save",
                         !.changes = [b \in Buyers |-> IF b \in targets
                             THEN Changes(row[b], AfterSend(row[b], saleId, action, now))
                             ELSE NoChange]])

BeginVerify(q, b) ==
    /\ Present(b) /\ row[b].Stage = "Sent"
    /\ Begin(q, Changing(b, AfterVerify(row[b]), "save"))

(* Admin/Buyers and Admin/CardKeys: the same read, the same write. *)
BeginDelete(q, b) ==
    /\ Present(b)
    /\ Begin(q, Changing(b, AfterDelete(row[b]), "save"))

BeginSalesDelete(q, b, saleId) ==
    /\ b \in cards /\ CanSalesDeleteBuyer(row[b], saleId)
    /\ Begin(q, Changing(b, AfterDelete(row[b]), "save"))

BeginAdminSetStatus(q, b, status) ==
    /\ b \in cards /\ CanAdminSetStatus(row[b])
    /\ Begin(q, Changing(b, AfterSetStatus(row[b], status), "save"))

(* The assignment and its buyer come from one query. *)
BeginSupplierSetStatus(q, b, supplierId, status) ==
    /\ b \in cards /\ CanSupplierSetStatus(row[b], assignment[b], supplierId)
    /\ Begin(q, Changing(b, AfterSetStatus(row[b], status), "save"))

(* Mutant of BeginReview: no auto-assignment. *)
BeginReviewOnly(q, b, decision) ==
    /\ b \in cards /\ IsReviewable(row[b])
    /\ Begin(q, Changing(b, AfterReview(row[b], decision), "save"))

BeginReview(q, b, decision) ==
    /\ b \in cards /\ IsReviewable(row[b])
    /\ Begin(q, Changing(b, AfterReview(row[b], decision),
                         IF decision = "Approved" THEN "assignment" ELSE "save"))

----------------------------------------------------------------------------
(* Handlers that read again after the buyer *)

BeginChangeEmail(q, b) ==
    /\ Present(b) /\ ResolveBuyerMailAction(row[b]).ChangeEmail
    /\ Begin(q, Changing(b, AfterChangeEmail(row[b]), "account"))

BeginClearAuth(q, b) ==
    /\ Present(b) /\ ResolveBuyerMailAction(row[b]).ClearAuth
    /\ Begin(q, Changing(b, AfterClearAuth(row[b]), "account"))

(* Mutant of ReadAccount: the account stays. *)
KeepAccount(q) == Continue(q, "account", [req[q] EXCEPT !.phase = "save"])

ReadAccount(q) ==
    Continue(q, "account",
        [req[q] EXCEPT !.phase = "save",
                       !.account.op = IF account[req[q].buyer] = None
                                      THEN "none" ELSE "delete"])

(* The callback keeps the row it read across the exchange with the provider. *)
BeginCallback(q, b) ==
    /\ Present(b)
    /\ Begin(q, [Idle EXCEPT !.phase = "provider", !.buyer = b, !.loaded = row[b]])

(* The statement of a callback that finds the mailbox existing, or none.   *)
Binding(existing, m) ==
    CASE existing = None -> "insert"
      [] existing = m -> "refresh"
      [] existing \in {x \in Mailboxes \ {m} : x[1] = m[1]} -> "updateEmail"
      [] existing \in {x \in Mailboxes \ {m} : x[2] = m[2]} -> "updateProvider"
      [] OTHER -> "update"

(* Mutant of CompleteAuthorization: a bound mailbox is replaced unasked. *)
CompleteUnguarded(q, m, now) ==
    LET b == req[q].buyer
    IN  Continue(q, "provider",
            [Idle EXCEPT !.phase = "save", !.buyer = b,
                !.changes[b] = Changes(req[q].loaded,
                                   AfterCallback(req[q].loaded, account[b] # m, now)),
                !.account = [op |-> Binding(account[b], m), value |-> m]])

(* The provider answers with mailbox m; everything below the await. *)
CompleteAuthorization(q, m, now) ==
    LET b == req[q].buyer
        loaded == req[q].loaded
        isNewOrChangedAccount == account[b] # m
        refused == /\ account[b] # None /\ isNewOrChangedAccount
                   /\ ~ResolveBuyerMailAction(loaded).ChangeEmail
    IN  Continue(q, "provider",
            IF refused THEN Idle
            ELSE [Idle EXCEPT
                    !.phase = IF isNewOrChangedAccount /\ loaded.AutoApprove
                              THEN "assignment" ELSE "save",
                    !.buyer = b,
                    !.changes[b] = Changes(loaded,
                                       AfterCallback(loaded, isNewOrChangedAccount, now)),
                    !.account = [op |-> Binding(account[b], m), value |-> m]])

(* BuyerReviewService.AutoAssignSingleSupplierAsync, its two reads. *)
ReadAssignment(q) ==
    Continue(q, "assignment",
        [req[q] EXCEPT !.phase = IF assignment[req[q].buyer] = None
                                 THEN "suppliers" ELSE "save"])

ReadSuppliers(q) ==
    \E sole \in {s \in Suppliers : active = {s}} \cup {None} :
        /\ sole = None => ~ \E s \in Suppliers : active = {s}
        /\ Continue(q, "suppliers",
               [req[q] EXCEPT !.phase = "save",
                    !.assignment = IF sole = None THEN NoStatement
                                   ELSE [op |-> "insert", value |-> sole]])

BeginAssignSupplier(q, b, supplierId) ==
    /\ Present(b)
    /\ Begin(q, [Idle EXCEPT !.phase = IF supplierId = None THEN "existing" ELSE "supplier",
                             !.buyer = b, !.assignment.value = supplierId])

ReadSupplier(q) ==
    Continue(q, "supplier",
        IF req[q].assignment.value \in active
        THEN [req[q] EXCEPT !.phase = "existing"] ELSE Idle)

(* An assignment that is already the wanted one is not written again. *)
ReadExistingAssignment(q) ==
    LET existing == assignment[req[q].buyer]
        wanted == req[q].assignment.value
        op == IF existing = wanted THEN "none"
              ELSE CASE existing = None -> "insert"
                     [] wanted = None -> "delete"
                     [] OTHER -> "update"
    IN  Continue(q, "existing",
            IF op = "none" THEN Idle
            ELSE [req[q] EXCEPT !.phase = "save", !.assignment.op = op])

(* MailCacheService: a fetch for a bound mailbox, refused by the provider, *)
(* then the buyer read in a new scope.                                     *)
BeginPoll(q, b) ==
    /\ b \in cards /\ account[b] # None
    /\ Begin(q, [Idle EXCEPT !.phase = "fetch", !.buyer = b])

FetchRefused(q) ==
    LET b == req[q].buyer
    IN  Continue(q, "fetch",
            IF row[b].EmailStatus = "Authorized"
            THEN Changing(b, AfterMarkAbnormal(row[b]), "save") ELSE Idle)

----------------------------------------------------------------------------
(* SaveChanges, and the ways a request ends without it *)

CanSave(q) ==
    LET r == req[q]
    IN  /\ r.insert \cap cards = {}
        /\ r.account.op # "none" => Applicable(r.account, account[r.buyer])
        /\ r.assignment.op # "none" => Applicable(r.assignment, assignment[r.buyer])

(* The deletion of buyer b's row of a table is felt by every other request *)
(* that has a statement on that row pending.                               *)
LoseRow(r, b, table, deleted) ==
    IF deleted /\ r.buyer = b /\ r[table].op \in Updates \cup {"delete"}
    THEN [r EXCEPT ![table].op = "lost"] ELSE r

(* The refresh token that the account row has after it.                    *)
TokenAfter(stmt, current) ==
    CASE stmt.op \in {"insert"} \cup Updates -> stmt.value
      [] stmt.op = "delete" -> None
      [] OTHER -> current

SaveChanges(q) ==
    LET r == req[q]
        b == r.buyer
    IN  /\ r.phase = "save" /\ CanSave(q)
        /\ cards' = cards \cup r.insert
        /\ row' = [c \in Buyers |-> Merge(row[c], r.changes[c])]
        /\ account' = [c \in Buyers |-> IF c = b THEN Applied(r.account, account[c])
                                                 ELSE account[c]]
        /\ token' = [c \in Buyers |-> IF c = b THEN TokenAfter(r.account, token[c])
                                               ELSE token[c]]
        /\ assignment' = [c \in Buyers |-> IF c = b THEN Applied(r.assignment, assignment[c])
                                                    ELSE assignment[c]]
        /\ req' = [p \in Requests |->
                      IF p = q THEN Idle
                      ELSE LoseRow(LoseRow(req[p], b, "account", r.account.op = "delete"),
                                   b, "assignment", r.assignment.op = "delete")]
        /\ UNCHANGED active

(* Mutant of SaveFails: the save is tried again with the same writes. *)
SaveRetries(q) ==
    /\ ~CanSave(q)
    /\ Continue(q, "save", req[q])
    /\ UNCHANGED <<vars, token>>

(* DbUpdateException: the transaction is rolled back, the page is an error. *)
SaveFails(q) ==
    /\ ~CanSave(q)
    /\ Continue(q, "save", Idle)
    /\ UNCHANGED <<vars, token>>

(* Any request may die before its save: the client goes away, the provider *)
(* does not answer, the process stops.                                     *)
Abort(q) ==
    /\ req[q].phase # "idle"
    /\ req' = [req EXCEPT ![q] = Idle]
    /\ UNCHANGED <<vars, token>>

----------------------------------------------------------------------------
BeginCardKeys(q) ==
    \E saleId \in Sales \cup {None}, now \in Times :
        \/ /\ "Generate" \in Handlers
           /\ \E S \in SUBSET Buyers, autoApprove \in BOOLEAN :
                  BeginGenerate(q, S, saleId, autoApprove, now)
        \/ /\ "Send" \in Handlers
           /\ \E ids \in SUBSET Buyers, action \in AutoApproveAction :
                  BeginSend(q, ids, saleId, action, now)

BeginByBuyer(q, b) ==
    \/ "Verify" \in Handlers /\ BeginVerify(q, b)
    \/ "ChangeEmail" \in Handlers /\ BeginChangeEmail(q, b)
    \/ "ClearAuth" \in Handlers /\ BeginClearAuth(q, b)
    \/ "Callback" \in Handlers /\ BeginCallback(q, b)

BeginByAdmin(q, b) ==
    \/ "Delete" \in Handlers /\ BeginDelete(q, b)
    \/ /\ "Review" \in Handlers
       /\ \E decision \in {"Approved", "Rejected"} : BeginReview(q, b, decision)
    \/ /\ "AssignSupplier" \in Handlers
       /\ \E supplierId \in Suppliers \cup {None} : BeginAssignSupplier(q, b, supplierId)
    \/ /\ "AdminSetStatus" \in Handlers
       /\ \E status \in SupplierProcessingStatus : BeginAdminSetStatus(q, b, status)

BeginByOthers(q, b) ==
    \/ /\ "SalesDelete" \in Handlers
       /\ \E saleId \in Sales : BeginSalesDelete(q, b, saleId)
    \/ /\ "SupplierSetStatus" \in Handlers
       /\ \E s \in Suppliers, status \in SupplierProcessingStatus :
              BeginSupplierSetStatus(q, b, s, status)
    \/ "Poll" \in Handlers /\ BeginPoll(q, b)

BeginRequest(q) ==
    /\ BeginCardKeys(q) \/ \E b \in Buyers : \/ BeginByBuyer(q, b)
                                            \/ BeginByAdmin(q, b)
                                            \/ BeginByOthers(q, b)
    /\ UNCHANGED <<vars, token>>

(* What a request does by itself once it runs. *)
Proceed(q) ==
    \/ /\ \/ ReadAccount(q)
          \/ ReadAssignment(q)
          \/ ReadSuppliers(q)
          \/ ReadSupplier(q)
          \/ ReadExistingAssignment(q)
       /\ UNCHANGED <<vars, token>>
    \/ SaveChanges(q)
    \/ SaveFails(q)

(* What the mail provider answers. *)
ProviderAnswers(q) ==
    /\ \/ \E m \in Mailboxes, now \in Times : CompleteAuthorization(q, m, now)
       \/ FetchRefused(q)
    /\ UNCHANGED <<vars, token>>

(* UserAdminService.SetActiveAsync takes effect at one of its two steps:   *)
(* where it reads the user as wanted, or where it saves.  Users shows so    *)
(* (Administered), and here it is one step of a request.                   *)
ToggleSupplier(q) ==
    /\ "SetActive" \in Handlers
    /\ req[q].phase = "idle"
    /\ \E s \in Suppliers, isActive \in BOOLEAN : SetActive(s, isActive)
    /\ UNCHANGED <<token, req>>

NextRequests ==
    \E q \in Requests :
        \/ BeginRequest(q)
        \/ Proceed(q)
        \/ ProviderAnswers(q)
        \/ Abort(q)
        \/ ToggleSupplier(q)

SpecRequests == InitRequests /\ [][NextRequests]_allVars

(* A request that runs is scheduled again, and a call to a provider comes  *)
(* back: with an answer, or with the timeout of its HttpClient.            *)
ProviderReturns(q) ==
    ProviderAnswers(q) \/ (req[q].phase \in {"provider", "fetch"} /\ Abort(q))

FairSpecRequests ==
    /\ SpecRequests
    /\ \A q \in Requests : /\ WF_allVars(Proceed(q))
                           /\ WF_allVars(ProviderReturns(q))

----------------------------------------------------------------------------
AccountPhases == {"provider", "account", "supplier", "existing", "assignment",
                  "suppliers", "fetch"}

TypeOKRequests ==
    /\ TypeOK
    /\ token \in [Buyers -> Mailboxes \cup {None}]
    /\ \A q \in Requests :
          LET r == req[q]
          IN  /\ r.phase \in Phase
              /\ r.buyer \in Buyers \cup {None}
              /\ r.phase \in AccountPhases => r.buyer \in Buyers
              /\ r.phase = "provider" => r.loaded \in Buyer
              /\ r.insert \subseteq Buyers
              /\ r.changes \in [Buyers -> Change]
              /\ r.account \in AccountStatement
              /\ r.assignment \in AssignmentStatement

(* Whatever the interleaving, a card that got anywhere was used: nothing   *)
(* submitted, reviewed, processed, authorized or bound lacks its first-use *)
(* date, because the one save that starts all of it also writes that date  *)
(* and no save writes it back to NULL.                                     *)
UsedBeforeReview ==
    \A b \in Buyers :
        \/ row[b].Stage = "Submitted"
        \/ row[b].ReviewStatus # "Pending"
        \/ row[b].SupplierStatus # "Unprocessed"
        \/ row[b].EmailStatus # "NotAuthorized"
        \/ account[b] # None
        => row[b].CardUsedAt # None

(* Slow saves cannot return a card to stock, nor leave in stock one that   *)
(* was sent, given to a salesperson or used.                               *)
StockIsFresh ==
    \A b \in Buyers :
        /\ row[b].Stage = "NotSent" => /\ row[b].CardSentAt = None
                                       /\ row[b].SaleId = None
                                       /\ row[b].CardUsedAt = None
        /\ row[b].Stage = "Sent" \/ row[b].SaleId # None => row[b].CardSentAt # None

(* What no save can undo, however old the row it was computed from: the    *)
(* card's place in the table, its deletion, the fact that it was sent and  *)
(* the fact that it was used.                                              *)
FactsAreKept ==
    [][ \A b \in cards :
            /\ b \in cards'
            /\ row[b].IsDeleted => row'[b].IsDeleted
            /\ row[b].Stage # "NotSent" => row'[b].Stage # "NotSent"
            /\ row[b].CardSentAt # None => row'[b].CardSentAt # None
            /\ row[b].CardUsedAt # None => row'[b].CardUsedAt # None ]_allVars

(* A removal is whole or not at all: a request that meant to delete the    *)
(* account it read and saves its rows leaves no account behind, whatever   *)
(* became of that account in the meantime.  If another removal deleted it  *)
(* first, and even if a callback has bound a new one since, the DELETE     *)
(* finds no row and takes the rows of its save back with it.               *)
RemovalIsWhole ==
    [][ \A q \in Requests :
            /\ req[q].phase = "save" /\ req'[q] = Idle
            /\ req[q].account.op \in {"delete", "lost"}
            /\ row' # row
            => account'[req[q].buyer] = None ]_allVars

(* Only an administrator's AssignSupplier moves or removes an assignment:  *)
(* an auto-assignment computed before another one was saved cannot replace *)
(* it, because it inserts, and the unique index fails its whole save.      *)
SavesAssignSupplier(q) ==
    /\ req[q].phase = "save" /\ req'[q] = Idle
    /\ req[q].assignment.op \in {"update", "delete"}
    /\ req[q].account = NoStatement

AutoAssignNeverOverrides ==
    [][ \A b \in Buyers :
            assignment[b] # None /\ assignment'[b] # assignment[b]
            => \E q \in Requests : req[q].buyer = b /\ SavesAssignSupplier(q) ]_allVars

(* While one supplier is all there is and nobody assigns by hand, every    *)
(* approved buyer is assigned to it: two approvals of the same buyer, or a *)
(* review and an auto-approving callback, never leave it approved and      *)
(* unassigned.                                                             *)
ApprovedIsAssigned ==
    /\ \E p \in Suppliers : Suppliers = {p}
    /\ Handlers \cap {"SetActive", "AssignSupplier"} = {}
    => \A b \in Buyers : row[b].ReviewStatus = "Approved" => assignment[b] \in Suppliers

(* Every request ends, whatever the others do to the rows it holds: no     *)
(* save is retried, none waits for another.                                *)
RequestsEnd == \A q \in Requests : req[q].phase # "idle" ~> req[q].phase = "idle"

(* Requests that do not overlap implement the serial specification: the    *)
(* reads, awaits and the column-wise save of each handler add up to its    *)
(* one action there, and a request that fails or dies changes nothing.     *)
Lifecycle == INSTANCE BuyerLifecycle

ImplementsLifecycle == Lifecycle!Spec

(* While requests do not overlap the refresh token kept with the mailbox   *)
(* opens that mailbox, whichever of the columns a callback writes.         *)
TokenOpensMailbox == \A b \in Buyers : token[b] = account[b]
=============================================================================
