CONSTANTS
    Polls = {p1, p2}
    Mailboxes = {m1}
    Ttl = 1
    MaxAge = 2
    MaxTime = 2
    MaxBack = 1
    None = None
SYMMETRY Symmetry
SPECIFICATION Spec
INVARIANTS
    TypeOK
    FreshAnswer
PROPERTIES
    OnlyFetchesReplace
