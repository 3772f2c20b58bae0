CONSTANTS
    Fields = {f1, f2}
    Replacing = {f1}
    Decorations <- MCDecorations
    MaxLength = 1
    None = None
SPECIFICATION Spec
INVARIANTS
    TypeOK
    MarksAreVerdicts
    OneMessage
    HeldIffAsked
PROPERTIES
    ResetClears
