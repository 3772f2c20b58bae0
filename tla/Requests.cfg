CONSTANTS
    Buyers = {b1}
    Providers = {g1}
    Addresses = {a1, a2}
    Mailboxes <- MCMailboxes
    Suppliers = {p1}
    Sales = {s1}
    Times = {t1}
    Requests = {q1, q2}
    None = None
    Same = Same
    Handlers = {"Generate", "Send", "Verify", "ChangeEmail", "ClearAuth", "Callback",
                "Delete", "Review", "SalesDelete", "AdminSetStatus", "SupplierSetStatus", "Poll"}
SYMMETRY Symmetry
SPECIFICATION SpecOverlaps
INVARIANTS
    TypeOKRequests
    UsedBeforeReview
    StockIsFresh
    ApprovedIsAssigned
PROPERTIES
    FactsAreKept
    RemovalIsWhole
    UntouchedIsSerial
CHECK_DEADLOCK FALSE
