CONSTANTS
    Callers = {c1, c2}
    Names <- OtherNames
    Lower <- LowerOther
    LowerSql <- LowerAscii
    Roles = {"Sales"}
    Passwords = {"old", "new"}
    AdminName = "root"
    AdminPassword = "old"
    None = None
SPECIFICATION Spec
INVARIANTS
    TypeOK
    TwinsOverlap
    OwnerSignsIn
    AdminStands
PROPERTIES
    Administered
