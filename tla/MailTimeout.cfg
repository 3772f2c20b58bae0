CONSTANTS
    Polls = {p1, p2}
    Mailboxes = {m1}
    Ttl = 2
    MaxAge = 3
    MaxTime = 3
    MaxBack = 0
    None = None
SYMMETRY Symmetry
SPECIFICATION Spec
PROPERTIES
    FailureShowsLast
