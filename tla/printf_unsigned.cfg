\* An unsigned number, by the directive %u.
SPECIFICATION Spec
CONSTANTS
    Size = 6
    Endless = 1000
    HalfBits = 2
    IntBits = 3
    LongBits = 5
    PtrWidth = 6
    Characters = {".", "y", "z"}
    Literals = {"."}
    Directives <- AllDirectives
    DirectiveBound = 1
INVARIANT
    UnsignedIsDecimal
CHECK_DEADLOCK FALSE
