CONSTANTS
    Buyers = {b1}
    Providers = {g1, g2}
    Addresses = {a1, a2}
    Mailboxes <- MCMailboxes
    Suppliers = {p1, p2}
    Sales = {s1, s2}
    Times = {t1, t2}
    Requests = {q1}
    None = None
    Same = Same
    Handlers = {"Generate", "Send", "Verify", "ChangeEmail", "ClearAuth", "Callback",
                "Delete", "Review", "AssignSupplier", "AdminSetStatus", "SalesDelete",
                "SupplierSetStatus", "Poll", "SetActive"}
SPECIFICATION SpecRequests
INVARIANTS
    MailboxMatchesStatus
    UnsubmittedIsFresh
    UnboundSubmittedIsApproved
    AutoApproveIsSticky
PROPERTIES
    LockedMailboxIsKept
    ApprovalCoversMailbox
    CardHistoryIsKept
    ImplementsLifecycle
CHECK_DEADLOCK FALSE
