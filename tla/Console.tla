------------------------------ MODULE Console ------------------------------
(***************************************************************************)
(* The drawing of the kernel's messages (src/kernel/printk.c):             *)
(* vcolor_printk and the functions of the log, on the cursor printk_pos    *)
(* and the buffer printk_buf that all of them share.                       *)
(*                                                                         *)
(* The text of a message is what module Printf leaves in the buffer.  An   *)
(* exception may interrupt a message between two of its characters; its    *)
(* handler prints a message of its own, with the same buffer and cursor,   *)
(* and never returns.  Positions count characters: the resolution is a     *)
(* whole number of them in the only mode the loader sets.                  *)
(***************************************************************************)
EXTENDS Integers, Sequences

CONSTANTS
    Cols,      \* x_resolution / x_char_size (128)
    Rows,      \* y_resolution / y_char_size (48)
    TabSize,   \* columns from one tab stop to the next (8)
    Glyphs,    \* characters that are drawn, the blank among them
    Blank,     \* ' '
    Tags,      \* the texts logk, warnk, errk and fatalk print first
    FatalTag,  \* that of fatalk
    Bodies,    \* texts a message may have
    Report     \* what a handler prints, with fatalk

NewLine   == "newline"
BackSpace == "backspace"
Tab       == "tab"
Controls  == {NewLine, BackSpace, Tab}
NoText    == <<>>
Texts     == Bodies \cup Tags \cup {Report, NoText}

ASSUME ConsoleAssumption ==
    /\ Cols \in Nat \ {0} /\ Rows \in Nat \ {0} /\ TabSize \in Nat \ {0}
    /\ Blank \in Glyphs
    /\ FatalTag \in Tags
    /\ \A t \in Texts : t \in Seq(Glyphs \cup Controls)

\* A line is a whole number of tab stops, 128 columns of 8, and no handler reports
\* with an empty text: every fatalk of trap.c names its exception.
ASSUME TabAssumption == Cols % TabSize = 0
ASSUME ReportAssumption == Report # NoText

VARIABLES
    x, y,       \* printk_pos.x_position, y_position
    screen,     \* what each cell of the frame buffer shows
    text,       \* the printk_buf of the message that is drawn
    count,      \* characters of it the loop has begun
    line,       \* blanks of a tab that are still to be drawn
    rest,       \* the text logk_impl prints after the tag, or none
    pc,         \* "idle", "draw", or "hang": a handler's endless loop
    handler,    \* the message is a handler's
    origin      \* history: cursor and screen when the text's drawing began

vars == <<x, y, screen, text, count, line, rest, pc, handler, origin>>

Cells == (0 .. Cols - 1) \X (0 .. Rows - 1)

Init ==
    /\ x = 0 /\ y = 0
    /\ screen = [cell \in Cells |-> Blank]
    /\ text = NoText /\ count = 0 /\ line = 0
    /\ rest = NoText
    /\ pc = "idle" /\ handler = FALSE
    /\ origin = [x |-> 0, y |-> 0, screen |-> screen]

-----------------------------------------------------------------------------
\* vsnprintf fills the buffer, whatever it held; the loop starts at its head.
Begin(t) ==
    /\ text' = t /\ count' = 0 /\ line' = 0
    /\ origin' = [x |-> x, y |-> y, screen |-> screen]
    /\ pc' = "draw"
    /\ UNCHANGED <<x, y, screen>>

\* printk and color_printk.
Printk(body) ==
    /\ pc = "idle"
    /\ Begin(body) /\ rest' = NoText
    /\ UNCHANGED handler

\* logk_impl prints the tag and then the body, one after the other in the same buffer.
Log(tag, body) ==
    /\ pc = "idle"
    /\ Begin(tag) /\ rest' = body
    /\ UNCHANGED handler

\* Operators named <definition>_<what is wrong> are mutants: a plausible bug in
\* the code of that definition, which a property of a run is seen to catch.
Wrapped_ColumnOnly(col, row) ==
    [x |-> IF col >= Cols THEN 0 ELSE col, y |-> IF col >= Cols THEN row + 1 ELSE row]

\* The border checks at the end of an iteration.
Wrapped(col, row) ==
    LET r == IF col >= Cols THEN row + 1 ELSE row
    IN  [x |-> IF col >= Cols THEN 0 ELSE col, y |-> IF r >= Rows THEN 0 ELSE r]

MoveTo(col, row) ==
    LET p == Wrapped(col, row)
    IN  x' = p.x /\ y' = p.y

\* put_color_char, at the position the cursor has by then.
PutColorChar(col, row, glyph) ==
    screen' = [screen EXCEPT ![<<col, row>>] = glyph]

More == pc = "draw" /\ count < Len(text)
Here == text[count + 1]
Step == UNCHANGED <<text, rest, pc, handler, origin>>

DrawNewLine ==
    /\ More /\ line = 0 /\ Here = NewLine
    /\ MoveTo(0, y + 1)
    /\ count' = count + 1
    /\ UNCHANGED <<screen, line>> /\ Step

LeftOf_Unwrapped(col, row) == [x |-> IF col = 0 THEN Cols - 1 ELSE col - 1, y |-> row]

\* One to the left; from the first column to the end of the line above, and
\* from the first line to the last.
LeftOf(col, row) ==
    [x |-> IF col = 0 THEN Cols - 1 ELSE col - 1,
     y |-> IF col > 0 THEN row ELSE IF row = 0 THEN Rows - 1 ELSE row - 1]

DrawBackSpace ==
    /\ More /\ line = 0 /\ Here = BackSpace
    /\ LET p == LeftOf(x, y)
       IN  MoveTo(p.x, p.y) /\ PutColorChar(p.x, p.y, Blank)
    /\ count' = count + 1
    /\ UNCHANGED line /\ Step

DrawBlankOfTab ==
    /\ PutColorChar(x, y, Blank)
    /\ MoveTo(x + 1, y)

\* (x + 8) & ~7
TabStop(col) == ((col + TabSize) \div TabSize) * TabSize

\* The first blank of a tab is drawn in the iteration that finds it.
DrawTab ==
    /\ More /\ line = 0 /\ Here = Tab
    /\ line' = TabStop(x) - x - 1
    /\ DrawBlankOfTab
    /\ count' = count + 1
    /\ Step

DrawTabRest_StepsBack ==
    /\ pc = "draw" /\ line > 0
    /\ line' = line - 1
    /\ DrawBlankOfTab
    /\ count' = count - 1 /\ Step

\* The others in iterations of their own: count is stepped back and forth.
DrawTabRest ==
    /\ pc = "draw" /\ line > 0
    /\ line' = line - 1
    /\ DrawBlankOfTab
    /\ UNCHANGED count /\ Step

DrawGlyph ==
    /\ More /\ line = 0 /\ Here \notin Controls
    /\ PutColorChar(x, y, Here)
    /\ MoveTo(x + 1, y)
    /\ count' = count + 1
    /\ UNCHANGED line /\ Step

AtEnd_IgnoringLine == count = Len(text)

\* count < i || line
AtEnd == count = Len(text) /\ line = 0

\* The loop ends.  logk_impl goes on with the body, a handler with its loop.
EndText ==
    /\ pc = "draw" /\ AtEnd
    /\ IF rest # NoText THEN Begin(rest) /\ rest' = NoText
       ELSE /\ pc' = IF handler THEN "hang" ELSE "idle"
            /\ UNCHANGED <<x, y, screen, text, count, line, rest, origin>>
    /\ UNCHANGED handler

\* An exception; its handler prints with fatalk.  Not from a handler: what its
\* own code raises again and again has no end in the kernel either.
Interrupt ==
    /\ pc # "hang" /\ ~handler
    /\ handler' = TRUE
    /\ Begin(FatalTag) /\ rest' = Report

Draw == DrawNewLine \/ DrawBackSpace \/ DrawTab \/ DrawTabRest \/ DrawGlyph \/ EndText

Next ==
    \/ \E body \in Bodies : Printk(body) \/ \E tag \in Tags : Log(tag, body)
    \/ Draw
    \/ Interrupt

Spec == Init /\ [][Next]_vars

\* One processor and no scheduler: a loop that runs takes its next iteration.
FairSpec == Spec /\ WF_vars(Draw)

-----------------------------------------------------------------------------
TypeOK ==
    /\ x \in Int /\ y \in Int
    /\ screen \in [Cells -> Glyphs]
    /\ text \in Texts /\ rest \in Texts
    /\ count \in 0 .. Len(text) /\ line \in 0 .. TabSize - 1
    /\ handler \in BOOLEAN
    /\ pc \in {"idle", "draw", "hang"}
    /\ origin.x \in 0 .. Cols - 1 /\ origin.y \in 0 .. Rows - 1
    /\ origin.screen \in [Cells -> Glyphs]

\* After any sequence of newlines, backspaces, tabs, wraps and interruptions, the
\* next glyph lies inside the frame buffer.
CursorOnScreen == x \in 0 .. Cols - 1 /\ y \in 0 .. Rows - 1

(***************************************************************************)
(* What the comment of vcolor_printk promises, on the cells as one tape    *)
(* that ends in its own beginning: a glyph takes the next cell, a newline  *)
(* goes to the next multiple of Cols, a backspace blanks the cell before,  *)
(* a tab blanks the cells up to the next multiple of TabSize.              *)
(***************************************************************************)
Tape == Cols * Rows
CellAt(p) == <<p % Cols, p \div Cols>>
Blanked(s, from, n) ==
    [cell \in Cells |->
        IF \E k \in 0 .. n - 1 : cell = CellAt((from + k) % Tape) THEN Blank ELSE s[cell]]

ToTabStop(p) == TabSize - (p % TabSize)

Shown(c, s) ==
    LET p == s.at
    IN  CASE c = NewLine   -> [s EXCEPT !.at = ((p \div Cols + 1) * Cols) % Tape]
          [] c = BackSpace -> [at |-> (p + Tape - 1) % Tape,
                               screen |-> Blanked(s.screen, p + Tape - 1, 1)]
          [] c = Tab       -> [at |-> (p + ToTabStop(p)) % Tape,
                               screen |-> Blanked(s.screen, p, ToTabStop(p))]
          [] OTHER         -> [at |-> (p + 1) % Tape,
                               screen |-> [s.screen EXCEPT ![CellAt(p)] = c]]

Rendered(n) ==
    LET R[k \in 0 .. n] ==
            IF k = 0 THEN [at |-> origin.y * Cols + origin.x, screen |-> origin.screen]
            ELSE Shown(text[k], R[k - 1])
    IN  R[n]

\* Between two characters the screen and the cursor are what the comment promises
\* for the characters so far: none is left out, drawn twice or elsewhere.  (Tab
\* stops are multiples on the tape when Cols is one, as it is on the real screen.)
ScreenShowsText ==
    pc = "draw" /\ line = 0 =>
        Rendered(count) = [at |-> y * Cols + x, screen |-> screen]

\* When the machine hangs, the last thing it drew, in full and over whatever an
\* interrupted message left, is the handler's report.
ReportShown ==
    pc = "hang" =>
        /\ text = Report
        /\ Rendered(Len(Report)) = [at |-> y * Cols + x, screen |-> screen]

\* Every message that is begun is drawn to its end, or gives way to a handler's,
\* which is: the loop ends although a tab steps its counter back.
MessagesEnd == pc = "draw" ~> (pc = "idle" \/ pc = "hang")
=============================================================================
