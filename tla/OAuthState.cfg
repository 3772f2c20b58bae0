CONSTANTS
    Browsers = {b1, b2}
    Cards = {c1, c2}
    Providers = {g1}
    Nonces = {n1, n2}
    Visits = {v1, v2}
    Lifetime = 1
    MaxTime = 2
    MaxBack = 1
    None = None
SYMMETRY Symmetry
SPECIFICATION Spec
INVARIANTS
    TypeOK
    AcceptedIsOwnFlow
    AcceptedOnce
    RejectedForCause
CHECK_DEADLOCK FALSE
