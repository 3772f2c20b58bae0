CONSTANTS
    Buyers = {b1}
    Mailboxes = {m1, m2}
    Suppliers = {p1}
    Sales = {s1}
    Times = {t1}
    None = None
SYMMETRY Symmetry
SPECIFICATION Spec
INVARIANTS
    PendingIsUnprocessed
CHECK_DEADLOCK FALSE
