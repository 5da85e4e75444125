\* Messages of every kind, one after another, that an exception may interrupt.
SPECIFICATION FairSpec
CONSTANTS
    Cols = 4
    Rows = 2
    TabSize = 2
    Glyphs = {" ", "a", "b"}
    Blank = " "
    Tags <- MCTags
    FatalTag <- MCFatal
    Bodies <- MCBodies
    Report <- MCReport
INVARIANTS
    CursorOnScreen
    ScreenShowsText
    ReportShown
PROPERTIES
    MessagesEnd
CHECK_DEADLOCK FALSE
