\* One format after another: literals and directives, cut by a short buffer.
SPECIFICATION Spec
CONSTANTS
    Size = 6
    Endless = 1000
    HalfBits = 2
    IntBits = 3
    LongBits = 5
    PtrWidth = 6
    Characters = {".", "y", "z"}
    Literals = {"."}
    Directives <- AllDirectives
    DirectiveBound = 1
INVARIANTS
    TerminatorPlaced
    TruncatedIsPrefix
    NumbersReadBack
    FieldsFilled
CHECK_DEADLOCK FALSE
