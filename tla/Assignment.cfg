CONSTANTS
    Buyers = {b1}
    Providers = {g1}
    Addresses = {a1}
    Mailboxes <- MCMailboxes
    Suppliers = {p1, p2}
    Sales = {s1}
    Times = {t1}
    Requests = {q1, q2}
    None = None
    Same = Same
    Handlers = {"Generate", "Callback", "AssignSupplier", "ChangeEmail", "Review", "SetActive"}
SPECIFICATION FairSpecRequests
PROPERTIES
    RequestsEnd
    AutoAssignNeverOverrides
CHECK_DEADLOCK FALSE
