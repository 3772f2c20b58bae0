CONSTANTS
    Buyers = {b1}
    Providers = {g1}
    Addresses = {a1, a2}
    Mailboxes <- MCMailboxes
    Suppliers = {p1}
    Sales = {s1}
    Times = {t1}
    Requests = {q1, q2}
    None = None
    Same = Same
    Handlers = {"Generate", "Callback", "Review"}
SYMMETRY Symmetry
SPECIFICATION SpecRequests
PROPERTIES
    ApprovalCoversMailbox
CHECK_DEADLOCK FALSE
