---------------------------- MODULE ConsoleProof ----------------------------
(***************************************************************************)
(* Theorems about Console, for every resolution, tab width and set of      *)
(* messages.                                                               *)
(***************************************************************************)
EXTENDS Console, NumberLemmas, TLAPS

-----------------------------------------------------------------------------
(* The moves of the cursor.                                                *)

\* The next tab stop is after the cursor, by at most the tab size.
LEMMA TabStopNext ==
    ASSUME NEW col \in Nat
    PROVE  TabStop(col) \in Int /\ TabStop(col) - col \in 1 .. TabSize
<1> DEFINE q == (col + TabSize) \div TabSize
<1>1. TabSize \in Nat /\ TabSize > 0
  BY ConsoleAssumption
<1>2. q \in Int /\ q * TabSize <= col + TabSize /\ col + TabSize < q * TabSize + TabSize
  BY <1>1, SMT
<1> QED
  BY <1>1, <1>2 DEF TabStop

\* The border checks bring a cursor that is at most one off back on the screen.
LEMMA WrappedOnScreen ==
    ASSUME NEW col \in 0 .. Cols, NEW row \in 0 .. Rows
    PROVE  /\ Wrapped(col, row).x \in 0 .. Cols - 1
           /\ Wrapped(col, row).y \in 0 .. Rows - 1
BY ConsoleAssumption DEF Wrapped

\* A backspace stays on the screen.
LEMMA LeftOnScreen ==
    ASSUME NEW col \in 0 .. Cols - 1, NEW row \in 0 .. Rows - 1
    PROVE  /\ LeftOf(col, row).x \in 0 .. Cols - 1
           /\ LeftOf(col, row).y \in 0 .. Rows - 1
BY ConsoleAssumption DEF LeftOf

\* put_color_char inside the frame buffer keeps the type of the screen.
LEMMA PutKeepsScreen ==
    ASSUME screen \in [Cells -> Glyphs], NEW col \in 0 .. Cols - 1, NEW row \in 0 .. Rows - 1,
           NEW glyph \in Glyphs, PutColorChar(col, row, glyph)
    PROVE  screen' \in [Cells -> Glyphs]
BY DEF PutColorChar, Cells

-----------------------------------------------------------------------------
Inv == TypeOK /\ CursorOnScreen

LEMMA InitInv == Init => Inv
<1> SUFFICES ASSUME Init PROVE Inv
  OBVIOUS
<1>1. screen \in [Cells -> Glyphs] /\ origin.screen = screen
  BY ConsoleAssumption DEF Init
<1>2. text \in Texts /\ rest \in Texts /\ Len(text) = 0
  BY DEF Init, Texts, NoText
<1>3. x \in 0 .. Cols - 1 /\ y \in 0 .. Rows - 1 /\ line \in 0 .. TabSize - 1
  BY ConsoleAssumption DEF Init
<1>4. origin.x = x /\ origin.y = y
  BY DEF Init
<1>5. handler \in BOOLEAN /\ pc \in {"idle", "draw", "hang"}
  BY DEF Init
<1>6. count = 0
  BY DEF Init
<1>7. count \in 0 .. Len(text)
  BY <1>2, <1>6
<1> QED
  BY <1>1, <1>2, <1>3, <1>4, <1>5, <1>7 DEF Inv, TypeOK, CursorOnScreen

\* The start of a text leaves the cursor and the screen alone.
LEMMA BeginKeeps ==
    ASSUME Inv, NEW t \in Texts, Begin(t), rest' \in Texts, handler' \in BOOLEAN
    PROVE  Inv'
<1>1. Len(t) \in Nat
  BY ConsoleAssumption DEF Texts, NoText
<1> QED
  BY <1>1, ConsoleAssumption DEF Inv, TypeOK, CursorOnScreen, Begin

\* A step of the loop that ends with the border checks, one off at most.
LEMMA MoveKeeps ==
    ASSUME Inv, NEW col \in 0 .. Cols, NEW row \in 0 .. Rows, MoveTo(col, row),
           screen' \in [Cells -> Glyphs], count' \in 0 .. Len(text),
           line' \in 0 .. TabSize - 1, Step
    PROVE  Inv'
<1>1. x' \in 0 .. Cols - 1 /\ y' \in 0 .. Rows - 1
  BY WrappedOnScreen DEF MoveTo
<1> QED
  BY <1>1, ConsoleAssumption, SMTT(30) DEF Inv, TypeOK, CursorOnScreen, Step

LEMMA NextInv == Inv /\ [Next]_vars => Inv'
<1> SUFFICES ASSUME Inv, [Next]_vars PROVE Inv'
  OBVIOUS
<1> USE ConsoleAssumption
<1>a. /\ x \in 0 .. Cols - 1 /\ y \in 0 .. Rows - 1
      /\ screen \in [Cells -> Glyphs]
      /\ Len(text) \in Nat /\ count \in 0 .. Len(text) /\ line \in 0 .. TabSize - 1
  BY DEF Inv, TypeOK, CursorOnScreen, Texts, NoText
<1>b. More => count + 1 \in 0 .. Len(text)
  BY <1>a DEF More
<1>c. DrawBlankOfTab => screen' \in [Cells -> Glyphs] /\ MoveTo(x + 1, y)
  BY <1>a, PutKeepsScreen DEF DrawBlankOfTab
<1>1. CASE \E body \in Bodies : Printk(body) \/ \E tag \in Tags : Log(tag, body)
  BY <1>1, BeginKeeps DEF Printk, Log, Texts, NoText, Inv, TypeOK
<1>2. CASE DrawNewLine
  <2>1. MoveTo(0, y + 1) /\ screen' = screen /\ line' = line /\ count' = count + 1 /\ Step
    BY <1>2 DEF DrawNewLine
  <2> QED
    BY <2>1, <1>2, <1>a, <1>b, MoveKeeps DEF DrawNewLine
<1>3. CASE DrawBackSpace
  <2> DEFINE p == LeftOf(x, y)
  <2>1. p.x \in 0 .. Cols - 1 /\ p.y \in 0 .. Rows - 1
    BY <1>a, LeftOnScreen
  <2>2. screen' \in [Cells -> Glyphs]
    BY <1>3, <1>a, <2>1, PutKeepsScreen DEF DrawBackSpace
  <2> QED
    BY <2>1, <2>2, <1>3, <1>a, <1>b, MoveKeeps DEF DrawBackSpace
<1>4. CASE DrawTab
  <2>1. TabStop(x) \in Int /\ TabStop(x) - x \in 1 .. TabSize
    <3>1. x \in Nat
      BY <1>a
    <3> QED
      BY <3>1, TabStopNext
  <2>2. line' \in 0 .. TabSize - 1
    BY <2>1, <1>4, <1>a DEF DrawTab
  <2> QED
    BY <2>2, <1>4, <1>a, <1>b, <1>c, MoveKeeps DEF DrawTab
<1>5. CASE DrawTabRest
  <2>1. line' \in 0 .. TabSize - 1
    BY <1>5, <1>a DEF DrawTabRest
  <2> QED
    BY <2>1, <1>5, <1>a, <1>c, MoveKeeps DEF DrawTabRest
<1>6. CASE DrawGlyph
  <2>1. Here \in Glyphs
    <3>1. text \in Seq(Glyphs \cup Controls)
      BY DEF Inv, TypeOK, Texts, NoText
    <3>2. Here \in Glyphs \cup Controls
      BY <3>1, <1>6, <1>a DEF DrawGlyph, More, Here
    <3> QED
      BY <3>2, <1>6 DEF DrawGlyph
  <2>2. screen' \in [Cells -> Glyphs]
    BY <2>1, <1>6, <1>a, PutKeepsScreen DEF DrawGlyph
  <2> QED
    BY <2>2, <1>6, <1>a, <1>b, MoveKeeps DEF DrawGlyph
<1>7. CASE EndText
  <2>1. CASE rest # NoText
    BY <2>1, <1>7, BeginKeeps DEF EndText, Texts, Inv, TypeOK
  <2>2. CASE rest = NoText
    BY <2>2, <1>7 DEF EndText, Inv, TypeOK, CursorOnScreen
  <2> QED
    BY <2>1, <2>2
<1>8. CASE Interrupt
  BY <1>8, BeginKeeps DEF Interrupt, Texts
<1>9. CASE UNCHANGED vars
  BY <1>9 DEF vars, Inv, TypeOK, CursorOnScreen
<1> QED
  BY <1>1, <1>2, <1>3, <1>4, <1>5, <1>6, <1>7, <1>8, <1>9 DEF Next, Draw

\* Every variable keeps its type; the interrupted text and the handler's too.
THEOREM TypeCorrect == Spec => []TypeOK
<1>1. Inv => TypeOK
  BY DEF Inv
<1> QED
  BY <1>1, InitInv, NextInv, PTL DEF Spec

\* The cursor never leaves the screen, so put_color_char writes inside the frame
\* buffer, whatever is printed and wherever it is interrupted.
THEOREM CursorStaysOnScreen == Spec => []CursorOnScreen
<1>1. Inv => CursorOnScreen
  BY DEF Inv
<1> QED
  BY <1>1, InitInv, NextInv, PTL DEF Spec

-------------------------------------------------------------------------
(* The recursion of Rendered.  D unfolds it when it lists what t leaves on *)
(* the screen and the cursor of s, after 0 to n characters.                *)
StartOf(o) == [at |-> o.y * Cols + o.x, screen |-> o.screen]

Unfolds(t, s, n, D) ==
    D = [k \in 0 .. n |-> IF k = 0 THEN s ELSE Shown(t[k], D[k - 1])]

RenderOf(t, s, n) == (CHOOSE D : Unfolds(t, s, n, D))[n]

LEMMA RenderedIs == \A n : Rendered(n) = RenderOf(text, StartOf(origin), n)
BY DEF Rendered, RenderOf, Unfolds, StartOf

LEMMA UnfoldsFirst ==
    ASSUME NEW t, NEW s, NEW n \in Nat, NEW D, Unfolds(t, s, n, D)
    PROVE  D[0] = s
BY DEF Unfolds

LEMMA UnfoldsAt ==
    ASSUME NEW t, NEW s, NEW n \in Nat, NEW D, Unfolds(t, s, n, D), NEW k \in 1 .. n
    PROVE  D[k] = Shown(t[k], D[k - 1])
BY DEF Unfolds

\* One character more.
LEMMA UnfoldsMore ==
    ASSUME NEW t, NEW s, NEW n \in Nat, \E D : Unfolds(t, s, n, D)
    PROVE  \E D : Unfolds(t, s, n + 1, D)
<1>1. PICK D : Unfolds(t, s, n, D)
  OBVIOUS
<1> DEFINE E == [k \in 0 .. n + 1 |-> IF k = n + 1 THEN Shown(t[k], D[n]) ELSE D[k]]
<1>2. \A k \in 0 .. n : E[k] = D[k]
  OBVIOUS
<1>3. E[n + 1] = Shown(t[n + 1], D[n])
  OBVIOUS
<1>4. ASSUME NEW k \in 0 .. n + 1 PROVE E[k] = IF k = 0 THEN s ELSE Shown(t[k], E[k - 1])
  <2> HIDE DEF E
  <2>1. CASE k = n + 1
    <3>1. k # 0 /\ k - 1 = n /\ n \in 0 .. n
      BY <2>1
    <3> QED
      BY <1>2, <1>3, <2>1, <3>1
  <2>2. CASE k = 0
    <3>1. k \in 0 .. n
      BY <2>2
    <3>2. D[k] = s
      BY <1>1, <2>2, UnfoldsFirst
    <3> QED
      BY <1>2, <2>2, <3>1, <3>2
  <2>3. CASE k # n + 1 /\ k # 0
    <3>1. k \in 1 .. n /\ k \in 0 .. n /\ k - 1 \in 0 .. n
      BY <2>3
    <3>2. D[k] = Shown(t[k], D[k - 1])
      BY <1>1, <2>3, <3>1, UnfoldsAt
    <3> QED
      BY <1>2, <2>3, <3>1, <3>2
  <2> QED
    BY <2>1, <2>2, <2>3
<1>5. E = [k \in 0 .. n + 1 |-> IF k = 0 THEN s ELSE Shown(t[k], E[k - 1])]
  <2>1. E = [k \in 0 .. n + 1 |-> E[k]]
    OBVIOUS
  <2> HIDE DEF E
  <2> QED
    BY <1>4, <2>1
<1> QED
  BY <1>5 DEF Unfolds

LEMMA UnfoldsExists ==
    ASSUME NEW t, NEW s, NEW n \in Nat
    PROVE  \E D : Unfolds(t, s, n, D)
<1> DEFINE T == {k \in Nat : ~\E D : Unfolds(t, s, k, D)}
<1>1. 0 \notin T
  <2> DEFINE D == [k \in 0 .. 0 |-> s]
  <2>1. D = [k \in 0 .. 0 |-> IF k = 0 THEN s ELSE Shown(t[k], D[k - 1])]
    OBVIOUS
  <2>2. Unfolds(t, s, 0, D)
    BY <2>1 DEF Unfolds
  <2> QED
    BY <2>2
<1>2. ASSUME NEW k \in T PROVE \E j \in T : j < k
  <2>1. k \in Nat /\ k # 0 /\ k - 1 \in Nat /\ (k - 1) + 1 = k
    BY <1>1
  <2>2. ~\E D : Unfolds(t, s, k - 1, D)
    BY <2>1, UnfoldsMore
  <2> QED
    BY <2>1, <2>2
<1>3. T = {}
  <2>1. T \in SUBSET Nat
    OBVIOUS
  <2> HIDE DEF T
  <2> QED
    BY <1>2, <2>1, NoLeast
<1> QED
  BY <1>3

LEMMA UnfoldsAgree ==
    ASSUME NEW t, NEW s, NEW n \in Nat, NEW m \in Nat, NEW D, NEW E,
           Unfolds(t, s, n, D), Unfolds(t, s, m, E), n <= m
    PROVE  D[n] = E[n]
<1> DEFINE T == {k \in 0 .. n : D[k] # E[k]}
<1>1. ASSUME NEW k \in T PROVE \E j \in T : j < k
  <2>1. k \in 0 .. n /\ k \in 0 .. m /\ D[k] # E[k]
    OBVIOUS
  <2>2. D[0] = s /\ E[0] = s
    BY UnfoldsFirst
  <2>3. k # 0 /\ D[k - 1] # E[k - 1]
    <3>1. k # 0
      BY <2>1, <2>2
    <3>2. k \in 1 .. n /\ k \in 1 .. m
      BY <2>1, <3>1
    <3>3. D[k] = Shown(t[k], D[k - 1]) /\ E[k] = Shown(t[k], E[k - 1])
      BY <3>2, UnfoldsAt
    <3> QED
      BY <2>1, <3>1, <3>3
  <2>4. k - 1 \in 0 .. n /\ k - 1 < k
    BY <2>1, <2>3
  <2> QED
    BY <2>3, <2>4
<1>2. T = {}
  <2>1. T \in SUBSET Nat
    OBVIOUS
  <2> HIDE DEF T
  <2> QED
    BY <1>1, <2>1, NoLeast
<1> QED
  BY <1>2

\* What is shown after no character, and after one more.
LEMMA RenderStep ==
    ASSUME NEW t, NEW s, NEW n \in Nat
    PROVE  /\ RenderOf(t, s, 0) = s
           /\ RenderOf(t, s, n + 1) = Shown(t[n + 1], RenderOf(t, s, n))
<1> DEFINE C(k) == CHOOSE D : Unfolds(t, s, k, D)
<1>1. \A k \in Nat : Unfolds(t, s, k, C(k)) /\ RenderOf(t, s, k) = C(k)[k]
  BY UnfoldsExists DEF RenderOf
<1> HIDE DEF C
<1>2. C(0)[0] = s
  BY <1>1, UnfoldsFirst
<1>3. C(n + 1)[n + 1] = Shown(t[n + 1], C(n + 1)[n])
  <2>1. PICK m \in Nat : m = n + 1
    OBVIOUS
  <2>2. m \in 1 .. m /\ m - 1 = n
    BY <2>1
  <2>3. Unfolds(t, s, m, C(m))
    BY <1>1
  <2>4. C(m)[m] = Shown(t[m], C(m)[m - 1])
    <3>1. PICK D : D = C(m)
      OBVIOUS
    <3>2. Unfolds(t, s, m, D)
      BY <2>3, <3>1
    <3>3. \A j \in 1 .. m : D[j] = Shown(t[j], D[j - 1])
      BY <3>2, UnfoldsAt
    <3> QED
      BY <2>2, <3>1, <3>3
  <2> QED
    BY <2>1, <2>2, <2>4
<1>4. C(n)[n] = C(n + 1)[n]
  <2>1. n + 1 \in Nat /\ n <= n + 1
    OBVIOUS
  <2> QED
    BY <1>1, <2>1, UnfoldsAgree
<1> QED
  BY <1>1, <1>2, <1>3, <1>4

-----------------------------------------------------------------------------
(* The tape.                                                               *)
Place(col, row) == row * Cols + col

LEMMA ScreenSize ==
    /\ Cols \in Nat /\ Cols > 0 /\ Rows \in Nat /\ Rows > 0 /\ TabSize \in Nat /\ TabSize > 0
    /\ Tape \in Nat /\ Tape > 0
<1>1. Cols \in Nat /\ Cols > 0 /\ Rows \in Nat /\ Rows > 0 /\ TabSize \in Nat /\ TabSize > 0
  BY ConsoleAssumption
<1>2. Cols * Rows \in Nat /\ Cols * Rows >= Cols
  <2>1. Cols * 1 <= Cols * Rows
    BY <1>1
  <2> QED
    BY <1>1, <2>1
<1> QED
  BY <1>1, <1>2 DEF Tape

\* Every cell has its place on the tape, and every place its cell.
LEMMA PlaceOnTape ==
    ASSUME NEW col \in 0 .. Cols - 1, NEW row \in 0 .. Rows - 1
    PROVE  /\ Place(col, row) \in 0 .. Tape - 1
           /\ Place(col, row) \div Cols = row
           /\ CellAt(Place(col, row)) = <<col, row>>
<1>1. PICK c \in Nat, r \in Nat, w \in Nat, h \in Nat, b \in Nat :
          c = col /\ r = row /\ w = Cols /\ h = Rows /\ b = row * Cols
  <2>1. col \in Nat /\ row \in Nat
    OBVIOUS
  <2>2. row * Cols \in Nat
    BY <2>1, ScreenSize
  <2> QED
    BY <2>1, <2>2, ScreenSize
<1>2. c < w /\ r < h /\ w > 0
  BY <1>1, ScreenSize
<1>3. b = r * w /\ Place(col, row) = b + c
  BY <1>1 DEF Place
<1>4. b + w <= w * h /\ Tape = w * h
  <2>1. (r + 1) * w <= h * w
    BY <1>2
  <2>2. (r + 1) * w = (r * w) + w /\ h * w = w * h
    BY <1>1
  <2> QED
    BY <1>1, <1>3, <2>1, <2>2 DEF Tape
<1>5. w * h \in Nat
  BY <1>1
<1>6. Place(col, row) \in 0 .. Tape - 1
  BY <1>1, <1>2, <1>3, <1>4, <1>5
<1>7. (b + c) % w = c
  <2>1. w \in Nat \ {0} /\ b + c \in Int /\ b + c = (r * w) + c /\ 0 <= c /\ c \in Int /\ r \in Int
    BY <1>1, <1>2, <1>3
  <2> QED
    BY <1>2, <2>1, ModIs
<1>8. (b + c) \div w = r
  <2>1. PICK q \in Int : q = (b + c) \div w /\ q * w <= b + c /\ b + c < (q * w) + w
    <3> DEFINE q == (b + c) \div w
    <3>1. q \in Int /\ q * w <= b + c /\ b + c < (q * w) + w
      BY <1>1, <1>2, SMT
    <3> QED
      BY <3>1
  <2>2. ~(q < r)
    <3>1. ASSUME q < r PROVE FALSE
      <4>1. (q + 1) * w <= r * w
        BY <1>1, <1>2, <2>1, <3>1
      <4>2. (q + 1) * w = (q * w) + w
        BY <1>1, <2>1
      <4> QED
        BY <1>1, <1>3, <2>1, <4>1, <4>2
    <3> QED
      BY <3>1
  <2>3. ~(r < q)
    <3>1. ASSUME r < q PROVE FALSE
      <4>1. (r + 1) * w <= q * w
        BY <1>1, <1>2, <2>1, <3>1
      <4>2. (r + 1) * w = (r * w) + w
        BY <1>1
      <4> QED
        BY <1>1, <1>2, <1>3, <2>1, <4>1, <4>2
    <3> QED
      BY <3>1
  <2> QED
    BY <1>1, <2>1, <2>2, <2>3
<1> QED
  BY <1>1, <1>3, <1>6, <1>7, <1>8 DEF CellAt

\* Places on the tape and past its end.
LEMMA OnTape ==
    ASSUME NEW p \in Int, 0 <= p
    PROVE  /\ p < Tape => p % Tape = p
           /\ Tape <= p /\ p < Tape + Tape => p % Tape = p - Tape
<1>1. PICK t \in Nat \ {0} : t = Tape
  BY ScreenSize
<1>2. p < t => p % t = p
  <2>1. p = (0 * t) + p
    BY <1>1
  <2> QED
    BY <2>1, ModIs
<1>3. t <= p /\ p < t + t => p % t = p - t
  <2>1. PICK d \in Int : d = p - t
    BY <1>1
  <2>2. p = (1 * t) + d
    BY <1>1, <2>1
  <2>3. t <= p /\ p < t + t => 0 <= d /\ d < t
    BY <1>1, <2>1
  <2> QED
    BY <2>1, <2>2, <2>3, ModIs
<1> QED
  BY <1>1, <1>2, <1>3

\* One to the right is the next place of the tape.
LEMMA PlaceRight ==
    ASSUME NEW col \in 0 .. Cols - 1, NEW row \in 0 .. Rows - 1, NEW w, w = Wrapped(col + 1, row)
    PROVE  Place(w.x, w.y) = (Place(col, row) + 1) % Tape
<1>1. PICK p \in Int : p = Place(col, row) /\ 0 <= p /\ p < Tape
  BY PlaceOnTape, ScreenSize
<1>2. (row + 1) * Cols = (row * Cols) + Cols /\ row * Cols \in Nat
  BY ScreenSize
<1>3. CASE col + 1 < Cols
  <2>1. w.x = col + 1 /\ w.y = row
    BY <1>3, ScreenSize DEF Wrapped
  <2>2. w.x \in 0 .. Cols - 1
    BY <1>3, <2>1, ScreenSize
  <2>3. Place(w.x, w.y) = p + 1
    BY <1>1, <1>2, <2>1 DEF Place
  <2>4. Place(w.x, w.y) < Tape
    BY <2>1, <2>2, PlaceOnTape, ScreenSize
  <2> QED
    BY <1>1, <2>3, <2>4, OnTape
<1>4. CASE col + 1 = Cols /\ row + 1 < Rows
  <2>1. w.x = 0 /\ w.y = row + 1 /\ w.y \in 0 .. Rows - 1 /\ w.x \in 0 .. Cols - 1
    BY <1>4, ScreenSize DEF Wrapped
  <2>2. Place(w.x, w.y) = p + 1
    BY <1>1, <1>2, <1>4, <2>1, ScreenSize DEF Place
  <2>3. Place(w.x, w.y) < Tape
    BY <2>1, PlaceOnTape, ScreenSize
  <2> QED
    BY <1>1, <2>2, <2>3, OnTape
<1>5. CASE col + 1 = Cols /\ row + 1 = Rows
  <2>1. w.x = 0 /\ w.y = 0
    BY <1>5, ScreenSize DEF Wrapped
  <2>2. p + 1 = Tape
    <3>1. (row + 1) * Cols = Rows * Cols /\ Rows * Cols = Cols * Rows
      BY <1>5, ScreenSize
    <3> QED
      BY <1>1, <1>2, <1>5, <3>1, ScreenSize DEF Place, Tape
  <2>3. (p + 1) % Tape = 0
    BY <1>1, <2>2, OnTape, ScreenSize
  <2>4. Place(w.x, w.y) = 0
    BY <2>1, ScreenSize DEF Place
  <2> QED
    BY <1>1, <2>3, <2>4
<1> QED
  BY <1>3, <1>4, <1>5, ScreenSize

\* A newline goes to the next line.
LEMMA PlaceBelow ==
    ASSUME NEW col \in 0 .. Cols - 1, NEW row \in 0 .. Rows - 1, NEW w, w = Wrapped(0, row + 1)
    PROVE  Place(w.x, w.y) = ((Place(col, row) \div Cols + 1) * Cols) % Tape
<1>1. Place(col, row) \div Cols = row
  BY PlaceOnTape
<1>2. PICK n \in Int : n = (row + 1) * Cols /\ 0 <= n
  <2>1. (row + 1) * Cols \in Nat
    BY ScreenSize
  <2> QED
    BY <2>1
<1>3. CASE row + 1 < Rows
  <2>1. w.x = 0 /\ w.y = row + 1 /\ w.y \in 0 .. Rows - 1 /\ w.x \in 0 .. Cols - 1
    BY <1>3, ScreenSize DEF Wrapped
  <2>2. Place(w.x, w.y) = n
    BY <1>2, <2>1 DEF Place
  <2>3. n < Tape
    BY <2>1, <2>2, PlaceOnTape, ScreenSize
  <2> QED
    BY <1>1, <1>2, <2>2, <2>3, OnTape
<1>4. CASE row + 1 = Rows
  <2>1. w.x = 0 /\ w.y = 0
    BY <1>4, ScreenSize DEF Wrapped
  <2>2. n = Tape
    <3>1. Rows * Cols = Cols * Rows
      BY ScreenSize
    <3> QED
      BY <1>2, <1>4, <3>1 DEF Tape
  <2>3. n % Tape = 0
    BY <1>2, <2>2, OnTape, ScreenSize
  <2>4. Place(w.x, w.y) = 0
    BY <2>1, ScreenSize DEF Place
  <2> QED
    BY <1>1, <1>2, <2>3, <2>4
<1> QED
  BY <1>3, <1>4, ScreenSize

\* A backspace goes to the place before, which needs no border check.
LEMMA PlaceLeft ==
    ASSUME NEW col \in 0 .. Cols - 1, NEW row \in 0 .. Rows - 1, NEW l, l = LeftOf(col, row)
    PROVE  /\ l.x \in 0 .. Cols - 1 /\ l.y \in 0 .. Rows - 1
           /\ Wrapped(l.x, l.y) = [x |-> l.x, y |-> l.y]
           /\ Place(l.x, l.y) = (Place(col, row) + Tape - 1) % Tape
<1>1. l.x \in 0 .. Cols - 1 /\ l.y \in 0 .. Rows - 1
  BY LeftOnScreen
<1>2. Wrapped(l.x, l.y) = [x |-> l.x, y |-> l.y]
  BY <1>1, ScreenSize DEF Wrapped
<1>3. PICK p \in Int : p = Place(col, row) /\ 0 <= p /\ p < Tape
  BY PlaceOnTape, ScreenSize
<1>4. PICK n \in Int : n = p + Tape - 1 /\ 0 <= n
  BY <1>3, ScreenSize
<1>5. row * Cols \in Nat /\ p = (row * Cols) + col
  BY <1>3, ScreenSize DEF Place
<1>6. CASE p = 0
  <2>1. row = 0 /\ col = 0
    <3>1. row * Cols = 0 /\ col = 0
      BY <1>5, <1>6
    <3>2. ASSUME row > 0 PROVE FALSE
      <4>1. 1 * Cols <= row * Cols
        BY <3>2, ScreenSize
      <4> QED
        BY <3>1, <4>1, ScreenSize
    <3> QED
      BY <3>1, <3>2
  <2>2. l.x = Cols - 1 /\ l.y = Rows - 1
    BY <2>1 DEF LeftOf
  <2>3. Place(l.x, l.y) = Tape - 1
    <3>1. (Rows - 1) * Cols = (Rows * Cols) - Cols /\ Rows * Cols = Cols * Rows
      BY ScreenSize
    <3>2. Rows * Cols \in Nat
      BY ScreenSize
    <3> QED
      BY <2>2, <3>1, <3>2, ScreenSize DEF Place, Tape
  <2>4. n < Tape /\ n = Tape - 1
    BY <1>4, <1>6, ScreenSize
  <2> QED
    BY <1>1, <1>2, <1>3, <1>4, <2>3, <2>4, OnTape
<1>7. CASE p > 0
  <2>1. Place(l.x, l.y) = p - 1
    <3>1. CASE col > 0
      <4>1. l.x = col - 1 /\ l.y = row
        BY <3>1 DEF LeftOf
      <4> QED
        BY <1>5, <4>1 DEF Place
    <3>2. CASE col = 0
      <4>1. row > 0
        <5>1. row = 0 => row * Cols = 0
          BY ScreenSize
        <5> QED
          BY <1>5, <1>7, <3>2, <5>1
      <4>2. l.x = Cols - 1 /\ l.y = row - 1
        BY <3>2, <4>1 DEF LeftOf
      <4>3. (row - 1) * Cols = (row * Cols) - Cols
        BY ScreenSize
      <4> QED
        BY <1>5, <3>2, <4>2, <4>3, ScreenSize DEF Place
    <3> QED
      BY <3>1, <3>2
  <2>2. Tape <= n /\ n < Tape + Tape /\ n - Tape = p - 1
    BY <1>3, <1>4, <1>7, ScreenSize
  <2>3. n % Tape = n - Tape
    BY <1>4, <2>2, OnTape
  <2> QED
    BY <1>1, <1>2, <1>3, <1>4, <2>1, <2>2, <2>3
<1> QED
  BY <1>3, <1>6, <1>7

\* A tab that starts at a cell goes as far on the line as on the tape, whose lines
\* are whole numbers of tab stops.
LEMMA TabOnTape ==
    ASSUME NEW col \in 0 .. Cols - 1, NEW row \in 0 .. Rows - 1
    PROVE  TabStop(col) - col = ToTabStop(Place(col, row))
<1>1. PICK t \in Nat \ {0} : t = TabSize
  BY ScreenSize
<1>2. PICK c \in Int : c = col
  OBVIOUS
<1>3. PICK q \in Int, d \in Int : c = (q * t) + d /\ 0 <= d /\ d < t /\ c % t = d
  BY <1>1, <1>2, DivMod
<1>4. Place(col, row) % t = c % t
  <2>1. PICK k \in Int, e \in Int : Cols = (k * t) + e /\ 0 <= e /\ e < t /\ Cols % t = e
    <3>1. PICK w \in Int : w = Cols
      BY ScreenSize
    <3>2. \E k \in Int, e \in Int : w = (k * t) + e /\ 0 <= e /\ e < t /\ w % t = e
      BY DivMod
    <3> QED
      BY <3>1, <3>2
  <2>2. Cols = k * t
    BY <1>1, <2>1, TabAssumption
  <2>3. PICK n \in Int : n = row * k
    BY <2>1
  <2>4. row * (k * t) = (row * k) * t
    BY <1>1, <2>1
  <2>5. PICK p \in Int : p = Place(col, row) /\ p = c + (n * t)
    <3>1. row * Cols = n * t /\ n * t \in Int
      BY <1>1, <2>2, <2>3, <2>4
    <3> QED
      BY <1>2, <3>1 DEF Place
  <2>6. \A a \in Int : a = c + (n * t) => a % t = c % t
    BY ModTurns
  <2> QED
    BY <1>1, <2>5, <2>6
<1>5. (c + t) \div t = q + 1
  <2>1. PICK b \in Int, m \in Int : b = q + 1 /\ m = q * t
    BY <1>1, <1>3
  <2>2. b * t = m + t
    BY <1>1, <1>3, <2>1
  <2>3. PICK v \in Int : v = (c + t) \div t /\ v * t <= c + t /\ c + t < (v * t) + t
    <3> DEFINE v == (c + t) \div t
    <3>1. v \in Int /\ v * t <= c + t /\ c + t < (v * t) + t
      BY <1>1, <1>2, SMT
    <3> QED
      BY <3>1
  <2>4. ASSUME v < b PROVE FALSE
    <3>1. (v + 1) * t <= b * t
      BY <1>1, <2>1, <2>3, <2>4
    <3>2. (v + 1) * t = (v * t) + t
      BY <1>1, <2>3
    <3> QED
      BY <1>1, <1>2, <1>3, <2>1, <2>2, <2>3, <3>1, <3>2
  <2>5. ASSUME b < v PROVE FALSE
    <3>1. (b + 1) * t <= v * t
      BY <1>1, <2>1, <2>3, <2>5
    <3>2. (b + 1) * t = (b * t) + t
      BY <1>1, <2>1
    <3> QED
      BY <1>1, <1>2, <1>3, <2>1, <2>2, <2>3, <3>1, <3>2
  <2> QED
    BY <2>1, <2>3, <2>4, <2>5
<1>6. TabStop(col) = (q * t) + t
  <2>1. (q + 1) * t = (q * t) + t
    BY <1>1, <1>3
  <2> QED
    BY <1>1, <1>2, <1>5, <2>1 DEF TabStop
<1>7. q * t \in Int
  BY <1>1, <1>3
<1> QED
  BY <1>1, <1>2, <1>3, <1>4, <1>6, <1>7 DEF ToTabStop

LEMMA ToTabStopType ==
    ASSUME NEW p \in Int
    PROVE  ToTabStop(p) \in 1 .. TabSize
<1>1. PICK t \in Nat \ {0} : t = TabSize
  BY ScreenSize
<1>2. p % t \in 0 .. t - 1
  BY <1>1, SMT
<1> QED
  BY <1>1, <1>2 DEF ToTabStop

\* No line, and no screen, ends between two blanks of a tab.
LEMMA TabStaysOnTape ==
    ASSUME NEW from \in Int, NEW p \in Int, NEW l \in 1 .. TabSize - 1,
           p + 1 + l = from + ToTabStop(from)
    PROVE  p + 1 # Tape
<1>1. PICK t \in Nat \ {0} : t = TabSize
  BY ScreenSize
<1>2. PICK q \in Int, d \in Int : from = (q * t) + d /\ 0 <= d /\ d < t /\ from % t = d
  BY <1>1, DivMod
<1>3. PICK m \in Int : m = q * t
  BY <1>1, <1>2
<1>4. p + 1 + l = m + t
  BY <1>1, <1>2, <1>3 DEF ToTabStop
<1>5. PICK n \in Int : Tape = n * t
  <2>1. PICK k \in Int, e \in Int : Cols = (k * t) + e /\ 0 <= e /\ e < t /\ Cols % t = e
    <3>1. PICK w \in Int : w = Cols
      BY ScreenSize
    <3>2. \E k \in Int, e \in Int : w = (k * t) + e /\ 0 <= e /\ e < t /\ w % t = e
      BY DivMod
    <3> QED
      BY <3>1, <3>2
  <2>2. Cols = k * t
    BY <1>1, <2>1, TabAssumption
  <2>3. (k * t) * Rows = (k * Rows) * t /\ k * Rows \in Int
    BY <1>1, <2>1, ScreenSize
  <2> QED
    BY <2>2, <2>3 DEF Tape
<1>6. ASSUME p + 1 = Tape PROVE FALSE
  <2>1. PICK i \in Int : i = (q + 1) - n
    BY <1>2, <1>5
  <2>2. i * t = (m + t) - (n * t)
    BY <1>1, <1>2, <1>3, <1>5, <2>1
  <2>3. PICK j \in Int : j = l /\ 0 < j /\ j < t
    BY <1>1
  <2>4. j = 0 + (i * t)
    BY <1>1, <1>3, <1>4, <1>5, <1>6, <2>2, <2>3
  <2>5. j % t = 0 % t
    BY <1>1, <2>1, <2>3, <2>4, ModTurns
  <2>6. j % t = j
    <3>1. j = (0 * t) + j
      BY <1>1, <2>3
    <3> QED
      BY <1>1, <2>3, <3>1, ModIs
  <2>7. 0 % t = 0
    <3>1. 0 = (0 * t) + 0
      BY <1>1
    <3> QED
      BY <1>1, <3>1, ModIs
  <2> QED
    BY <2>3, <2>5, <2>6, <2>7
<1> QED
  BY <1>6

-----------------------------------------------------------------------------
(* Blanks.                                                                 *)

LEMMA BlankedNone ==
    ASSUME NEW s \in [Cells -> Glyphs], NEW from
    PROVE  Blanked(s, from, 0) = s
<1>1. \A k : k \notin 0 .. 0 - 1
  OBVIOUS
<1> QED
  BY <1>1 DEF Blanked

\* The cell behind the blanks is blanked.
LEMMA BlankedMore ==
    ASSUME NEW s \in [Cells -> Glyphs], NEW from \in Int, NEW m \in Nat,
           NEW cell \in Cells, cell = CellAt((from + m) % Tape)
    PROVE  /\ [Blanked(s, from, m) EXCEPT ![cell] = Blank] = Blanked(s, from, m + 1)
           /\ Blanked(s, from, m + 1) \in [Cells -> Glyphs]
<1> DEFINE In(c, n) == \E k \in 0 .. n - 1 : c = CellAt((from + k) % Tape)
<1>1. \A c : In(c, m + 1) <=> In(c, m) \/ c = cell
  <2>1. 0 .. (m + 1) - 1 = (0 .. m - 1) \cup {m}
    OBVIOUS
  <2> QED
    BY <2>1
<1>2. \A n : Blanked(s, from, n) = [c \in Cells |-> IF In(c, n) THEN Blank ELSE s[c]]
  BY DEF Blanked
<1> HIDE DEF In
<1>3. \A n : Blanked(s, from, n) \in [Cells -> Glyphs]
  BY <1>2, ConsoleAssumption
<1>4. ASSUME NEW c \in Cells
      PROVE  [Blanked(s, from, m) EXCEPT ![cell] = Blank][c] = Blanked(s, from, m + 1)[c]
  <2>1. CASE c = cell
    BY <1>1, <1>2, <2>1
  <2>2. CASE c # cell
    BY <1>1, <1>2, <2>2
  <2> QED
    BY <2>1, <2>2
<1>5. [Blanked(s, from, m) EXCEPT ![cell] = Blank] \in [Cells -> Glyphs]
  BY <1>3, ConsoleAssumption
<1> QED
  BY <1>3, <1>4, <1>5

-----------------------------------------------------------------------------
\* What a character does to the tape.
LEMMA ShownIs ==
    ASSUME NEW s
    PROVE  /\ Shown(NewLine, s) = [s EXCEPT !.at = ((s.at \div Cols + 1) * Cols) % Tape]
           /\ Shown(BackSpace, s) = [at |-> (s.at + Tape - 1) % Tape,
                                     screen |-> Blanked(s.screen, s.at + Tape - 1, 1)]
           /\ Shown(Tab, s) = [at |-> (s.at + ToTabStop(s.at)) % Tape,
                               screen |-> Blanked(s.screen, s.at, ToTabStop(s.at))]
           /\ \A c : c \notin Controls =>
                 Shown(c, s) = [at |-> (s.at + 1) % Tape,
                                screen |-> [s.screen EXCEPT ![CellAt(s.at)] = c]]
BY DEF Shown, NewLine, BackSpace, Tab, Controls

-----------------------------------------------------------------------------
(* What is on the screen.  Between two characters it is what Rendered has  *)
(* for those drawn so far; in the middle of a tab it is what the text      *)
(* before the tab leaves, and as many blanks as are drawn of it.           *)
Position == Place(x, y)
Now   == [at |-> Position, screen |-> screen]
So(n) == RenderOf(text, StartOf(origin), n)

InTab(s, m) ==
    /\ s.at \in 0 .. Tape - 1 /\ s.screen \in [Cells -> Glyphs]
    /\ m \in Nat
    /\ Position = s.at + m
    /\ screen = Blanked(s.screen, s.at, m)

TabInv ==
    /\ count > 0 /\ text[count] = Tab
    /\ LET s == So(count - 1) IN InTab(s, ToTabStop(s.at) - line)

ShowInv ==
    pc \in {"draw", "hang"} =>
        /\ line = 0 => So(count) = Now
        /\ line > 0 => TabInv

\* A handler's messages: the tag and then the report, at whose end it hangs.
HandlerInv ==
    /\ handler => \/ pc = "draw" /\ text = FatalTag /\ rest = Report
                  \/ pc \in {"draw", "hang"} /\ text = Report /\ rest = NoText
    /\ pc = "hang" => handler /\ count = Len(text) /\ line = 0

LEMMA SoIs == \A n : /\ So(n) = Rendered(n)
                     /\ So(n)' = RenderOf(text', StartOf(origin'), n)
BY RenderedIs DEF So

\* A blank of a tab is one more blank on the tape.
LEMMA TabGoesOn ==
    ASSUME Inv, NEW s, NEW m, InTab(s, m), NEW l \in 0 .. TabSize - 1,
           m + 1 + l = ToTabStop(s.at), DrawBlankOfTab
    PROVE  /\ l = 0 => [at |-> Position, screen |-> screen]' = Shown(Tab, s)
           /\ l > 0 => InTab(s, m + 1)'
<1>1. /\ x \in 0 .. Cols - 1 /\ y \in 0 .. Rows - 1 /\ <<x, y>> \in Cells
      /\ screen' = [screen EXCEPT ![<<x, y>>] = Blank]
      /\ x' = Wrapped(x + 1, y).x /\ y' = Wrapped(x + 1, y).y
  BY DEF Inv, CursorOnScreen, Cells, DrawBlankOfTab, PutColorChar, MoveTo
<1>2. PICK p \in Int, f \in Int : p = Position /\ f = s.at /\ p = f + m /\ 0 <= p /\ p < Tape
  <2>1. Position \in 0 .. Tape - 1
    BY <1>1, PlaceOnTape DEF Position
  <2> QED
    BY <2>1, ScreenSize DEF InTab
<1>3. m \in Nat /\ s.screen \in [Cells -> Glyphs] /\ f \in 0 .. Tape - 1
  BY <1>2 DEF InTab
<1>4. Position' = (p + 1) % Tape
  BY <1>1, <1>2, PlaceRight DEF Position
<1>5. /\ screen' = Blanked(s.screen, f, m + 1)
      /\ Blanked(s.screen, f, m + 1) \in [Cells -> Glyphs]
  <2>1. <<x, y>> = CellAt((f + m) % Tape)
    <3>1. p % Tape = p
      BY <1>2, OnTape
    <3>2. CellAt(p) = <<x, y>>
      BY <1>1, <1>2, PlaceOnTape DEF Position
    <3> QED
      BY <1>2, <3>1, <3>2
  <2>2. screen = Blanked(s.screen, f, m)
    BY <1>2 DEF InTab
  <2> QED
    BY <1>1, <1>3, <2>1, <2>2, BlankedMore
<1>6. ASSUME l = 0
      PROVE  [at |-> Position, screen |-> screen]' = Shown(Tab, s)
  <2>1. m + 1 = ToTabStop(s.at) /\ p + 1 = s.at + ToTabStop(s.at)
    BY <1>2, <1>3, <1>6
  <2>2. Shown(Tab, s) = [at |-> (p + 1) % Tape, screen |-> Blanked(s.screen, f, m + 1)]
    BY <1>2, <2>1, ShownIs
  <2> QED
    BY <1>4, <1>5, <2>2
<1>7. ASSUME l > 0
      PROVE  InTab(s, m + 1)'
  <2>1. p + 1 + l = f + ToTabStop(f)
    BY <1>2, <1>3
  <2>2. p + 1 # Tape
    <3>1. l \in 1 .. TabSize - 1
      BY <1>7, ScreenSize
    <3> QED
      BY <2>1, <3>1, TabStaysOnTape
  <2>3. (p + 1) % Tape = p + 1
    <3>1. p + 1 \in Int /\ 0 <= p + 1 /\ p + 1 < Tape
      BY <1>2, <2>2, ScreenSize
    <3> QED
      BY <3>1, OnTape
  <2>4. Position' = s.at + (m + 1)
    BY <1>2, <1>3, <1>4, <2>3
  <2>5. m + 1 \in Nat /\ s.at \in 0 .. Tape - 1 /\ screen' = Blanked(s.screen, s.at, m + 1)
    BY <1>2, <1>3, <1>5
  <2> QED
    BY <1>3, <2>4, <2>5 DEF InTab, Tape, Cells, Blanked, CellAt
<1> QED
  BY <1>6, <1>7

\* A text that begins shows nothing yet.
LEMMA BeginShows ==
    ASSUME NEW t, Begin(t)
    PROVE  ShowInv'
<1>1. /\ text' = t /\ count' = 0 /\ line' = 0 /\ x' = x /\ y' = y /\ screen' = screen
      /\ origin' = [x |-> x, y |-> y, screen |-> screen] /\ pc' = "draw"
  BY DEF Begin
<1>2. StartOf(origin') = [at |-> Position, screen |-> screen]
  BY <1>1 DEF StartOf, Position, Place
<1>3. So(count)' = RenderOf(text', StartOf(origin'), 0)
  BY <1>1 DEF So
<1>4. RenderOf(text', StartOf(origin'), 0) = StartOf(origin')
  <2>1. 0 \in Nat
    OBVIOUS
  <2> QED
    BY <2>1, RenderStep
<1>5. Now' = [at |-> Position, screen |-> screen]
  BY <1>1 DEF Now, Position
<1> QED
  BY <1>1, <1>2, <1>3, <1>4, <1>5 DEF ShowInv

\* A character that is drawn in one iteration.
LEMMA OneShows ==
    ASSUME Inv, ShowInv, More, line = 0, line' = 0, count' = count + 1, Step,
           Now' = Shown(Here, Now)
    PROVE  ShowInv'
<1>1. So(count) = Now /\ pc = "draw" /\ pc' = "draw" /\ text' = text /\ origin' = origin
  BY DEF ShowInv, More, Step
<1>2. count \in Nat
  BY DEF Inv, TypeOK
<1>3. So(count)' = RenderOf(text, StartOf(origin), count + 1)
  BY <1>1 DEF So
<1>4. RenderOf(text, StartOf(origin), count + 1) = Shown(text[count + 1], So(count))
  BY <1>2, RenderStep DEF So
<1> QED
  BY <1>1, <1>3, <1>4 DEF ShowInv, Here

LEMMA NewLineShows == ASSUME Inv, ShowInv, DrawNewLine PROVE ShowInv'
<1>1. /\ More /\ line = 0 /\ line' = 0 /\ count' = count + 1 /\ Step /\ Here = NewLine
      /\ screen' = screen /\ x' = Wrapped(0, y + 1).x /\ y' = Wrapped(0, y + 1).y
  BY DEF DrawNewLine, MoveTo
<1>2. x \in 0 .. Cols - 1 /\ y \in 0 .. Rows - 1
  BY DEF Inv, CursorOnScreen
<1>3. Position' = ((Position \div Cols + 1) * Cols) % Tape
  BY <1>1, <1>2, PlaceBelow DEF Position
<1>4. Now' = Shown(Here, Now)
  <2>1. Now.at = Position /\ Now = [at |-> Position, screen |-> screen]
    BY DEF Now
  <2>2. Shown(NewLine, Now) = [Now EXCEPT !.at = ((Now.at \div Cols + 1) * Cols) % Tape]
    BY ShownIs
  <2>3. Shown(NewLine, Now) = [at |-> ((Position \div Cols + 1) * Cols) % Tape, screen |-> screen]
    BY <2>1, <2>2
  <2> QED
    BY <1>1, <1>3, <2>3 DEF Now
<1> QED
  BY <1>1, <1>4, OneShows

LEMMA BackSpaceShows == ASSUME Inv, ShowInv, DrawBackSpace PROVE ShowInv'
<1>1. PICK l : l = LeftOf(x, y)
  OBVIOUS
<1>2. /\ More /\ line = 0 /\ line' = 0 /\ count' = count + 1 /\ Step /\ Here = BackSpace
      /\ screen' = [screen EXCEPT ![<<l.x, l.y>>] = Blank]
      /\ x' = Wrapped(l.x, l.y).x /\ y' = Wrapped(l.x, l.y).y
  BY <1>1 DEF DrawBackSpace, MoveTo, PutColorChar
<1>3. x \in 0 .. Cols - 1 /\ y \in 0 .. Rows - 1 /\ screen \in [Cells -> Glyphs]
  BY DEF Inv, CursorOnScreen, TypeOK
<1>4. /\ l.x \in 0 .. Cols - 1 /\ l.y \in 0 .. Rows - 1
      /\ x' = l.x /\ y' = l.y
      /\ Place(l.x, l.y) = (Position + Tape - 1) % Tape
  <2>1. Wrapped(l.x, l.y) = [x |-> l.x, y |-> l.y]
    BY <1>1, <1>3, PlaceLeft
  <2>2. l.x \in 0 .. Cols - 1 /\ l.y \in 0 .. Rows - 1
    BY <1>1, <1>3, PlaceLeft
  <2>3. Place(l.x, l.y) = (Place(x, y) + Tape - 1) % Tape
    BY <1>1, <1>3, PlaceLeft
  <2>4. x' = l.x /\ y' = l.y
    BY <1>2, <2>1
  <2> QED
    BY <2>2, <2>3, <2>4 DEF Position
<1>5. PICK b \in Int : b = Position + Tape - 1 /\ b = Now.at + Tape - 1
  <2>1. Position \in 0 .. Tape - 1
    BY <1>3, PlaceOnTape DEF Position
  <2> QED
    BY <2>1, ScreenSize DEF Now
<1>6. screen' = Blanked(screen, b, 1)
  <2>1. <<l.x, l.y>> \in Cells /\ <<l.x, l.y>> = CellAt(b % Tape)
    BY <1>4, <1>5, PlaceOnTape DEF Cells
  <2>2. <<l.x, l.y>> = CellAt((b + 0) % Tape) /\ 0 \in Nat /\ 0 + 1 = 1
    BY <2>1
  <2>3. [Blanked(screen, b, 0) EXCEPT ![<<l.x, l.y>>] = Blank] = Blanked(screen, b, 0 + 1)
    BY <1>3, <2>1, <2>2, BlankedMore
  <2> QED
    BY <1>2, <1>3, <2>2, <2>3, BlankedNone
<1>7. Now' = Shown(Here, Now)
  <2>1. Shown(BackSpace, Now) = [at |-> b % Tape, screen |-> Blanked(screen, b, 1)]
    BY <1>5, ShownIs DEF Now
  <2>2. Position' = b % Tape
    BY <1>4, <1>5 DEF Position
  <2> QED
    BY <1>2, <1>6, <2>1, <2>2 DEF Now
<1> QED
  BY <1>2, <1>7, OneShows

LEMMA GlyphShows == ASSUME Inv, ShowInv, DrawGlyph PROVE ShowInv'
<1>1. /\ More /\ line = 0 /\ line' = 0 /\ count' = count + 1 /\ Step /\ Here \notin Controls
      /\ screen' = [screen EXCEPT ![<<x, y>>] = Here]
      /\ x' = Wrapped(x + 1, y).x /\ y' = Wrapped(x + 1, y).y
  BY DEF DrawGlyph, MoveTo, PutColorChar
<1>2. x \in 0 .. Cols - 1 /\ y \in 0 .. Rows - 1
  BY DEF Inv, CursorOnScreen
<1>3. Position' = (Position + 1) % Tape /\ CellAt(Position) = <<x, y>>
  BY <1>1, <1>2, PlaceRight, PlaceOnTape DEF Position
<1>4. Now' = Shown(Here, Now)
  <2>1. Shown(Here, Now) = [at |-> (Now.at + 1) % Tape,
                            screen |-> [Now.screen EXCEPT ![CellAt(Now.at)] = Here]]
    BY <1>1, ShownIs
  <2>2. Shown(Here, Now) = [at |-> (Position + 1) % Tape,
                            screen |-> [screen EXCEPT ![<<x, y>>] = Here]]
    BY <1>3, <2>1 DEF Now
  <2> QED
    BY <1>1, <1>3, <2>2 DEF Now
<1> QED
  BY <1>1, <1>4, OneShows

\* The iteration that finds a tab draws its first blank.
LEMMA TabShows == ASSUME Inv, ShowInv, DrawTab PROVE ShowInv'
<1>1. /\ More /\ line = 0 /\ line' = TabStop(x) - x - 1 /\ count' = count + 1 /\ Step
      /\ Here = Tab /\ DrawBlankOfTab
  BY DEF DrawTab
<1>2. x \in 0 .. Cols - 1 /\ y \in 0 .. Rows - 1 /\ screen \in [Cells -> Glyphs] /\ count \in Nat
  BY DEF Inv, CursorOnScreen, TypeOK
<1>3. PICK p \in Int : p = Position /\ 0 <= p /\ p < Tape /\ p \in 0 .. Tape - 1
  BY <1>2, PlaceOnTape, ScreenSize DEF Position
<1>4. PICK k \in Nat : k = ToTabStop(p) /\ line' = k - 1 /\ 1 <= k /\ k <= TabSize
  <2>1. TabStop(x) - x = ToTabStop(p)
    BY <1>2, <1>3, TabOnTape DEF Position
  <2>2. ToTabStop(p) \in 1 .. TabSize
    BY ToTabStopType
  <2> QED
    BY <1>1, <2>1, <2>2, ScreenSize
<1>5. PICK l \in 0 .. TabSize - 1 : l = line' /\ l + 1 = k
  BY <1>4, ScreenSize
<1>6. PICK s : s = Now /\ s.at = p /\ s.screen = screen
  <2>1. Now.at = Position /\ Now.screen = screen
    BY DEF Now
  <2> QED
    BY <1>3, <2>1
<1>7. InTab(s, 0)
  <2>1. Blanked(screen, p, 0) = screen
    BY <1>2, BlankedNone
  <2> QED
    BY <1>2, <1>3, <1>6, <2>1 DEF InTab
<1>8. /\ l = 0 => [at |-> Position, screen |-> screen]' = Shown(Tab, s)
      /\ l > 0 => InTab(s, 0 + 1)'
  <2>1. 0 + 1 + l = ToTabStop(s.at)
    BY <1>4, <1>5, <1>6
  <2> QED
    BY <1>1, <1>7, <2>1, TabGoesOn
<1>9. CASE l = 0
  <2>1. Now' = Shown(Here, Now)
    BY <1>1, <1>6, <1>8, <1>9 DEF Now
  <2> QED
    BY <1>1, <1>5, <1>9, <2>1, OneShows
<1>10. CASE l > 0
  <2>1. So(count) = s /\ pc' = "draw" /\ text' = text /\ origin' = origin
    BY <1>1, <1>6 DEF ShowInv, More, Step
  <2>2. count' > 0 /\ text'[count'] = Tab /\ count' - 1 = count
    BY <1>1, <1>2, <2>1 DEF Here
  <2>3. So(count - 1)' = s
    BY <2>1, <2>2 DEF So
  <2>4. ToTabStop(s.at) - line' = 0 + 1
    BY <1>4, <1>5, <1>6
  <2>5. InTab(s, ToTabStop(s.at) - line)'
    <3>1. PICK m : m = 0 + 1 /\ InTab(s, m)'
      BY <1>8, <1>10
    <3>2. (ToTabStop(s.at) - line)' = m
      BY <2>4, <3>1 DEF ToTabStop
    <3> QED
      BY <3>1, <3>2 DEF InTab
  <2>6. TabInv'
    <3>1. (LET r == So(count - 1) IN InTab(r, ToTabStop(r.at) - line))'
      BY <2>3, <2>5 DEF InTab, ToTabStop
    <3> QED
      BY <2>2, <3>1 DEF TabInv
  <2> QED
    BY <1>5, <1>10, <2>6 DEF ShowInv
<1> QED
  BY <1>9, <1>10, ScreenSize

\* Another blank of it; after the last one the tab is complete.
LEMMA TabRestShows == ASSUME Inv, ShowInv, DrawTabRest PROVE ShowInv'
<1>1. /\ pc = "draw" /\ line > 0 /\ line' = line - 1 /\ count' = count /\ Step /\ DrawBlankOfTab
      /\ pc' = "draw" /\ text' = text /\ origin' = origin
  BY DEF DrawTabRest, Step
<1>2. PICK s : s = So(count - 1)
  OBVIOUS
<1>3. PICK m \in Nat : m = ToTabStop(s.at) - line /\ InTab(s, m) /\ s.at \in Int
  <2>1. InTab(s, ToTabStop(s.at) - line)
    BY <1>1, <1>2 DEF ShowInv, TabInv
  <2> QED
    BY <2>1 DEF InTab
<1>4. PICK k \in Nat : k = ToTabStop(s.at) /\ k <= TabSize
  <2>1. ToTabStop(s.at) \in 1 .. TabSize
    BY <1>3, ToTabStopType
  <2> QED
    BY <2>1, ScreenSize
<1>5. PICK l \in 0 .. TabSize - 1 : l = line' /\ l = line - 1 /\ m + 1 + l = k
  <2>1. line \in 0 .. TabSize - 1
    BY DEF Inv, TypeOK
  <2> QED
    BY <1>1, <1>3, <1>4, <2>1, ScreenSize
<1>6. /\ l = 0 => [at |-> Position, screen |-> screen]' = Shown(Tab, s)
      /\ l > 0 => InTab(s, m + 1)'
  BY <1>1, <1>3, <1>4, <1>5, TabGoesOn
<1>7. count > 0 /\ text[count] = Tab /\ count \in Nat
  BY <1>1 DEF ShowInv, TabInv, Inv, TypeOK
<1>8. CASE l = 0
  <2>1. PICK n \in Nat : n = count - 1 /\ n + 1 = count
    BY <1>7
  <2>2. RenderOf(text, StartOf(origin), n + 1) = Shown(text[n + 1], RenderOf(text, StartOf(origin), n))
    BY RenderStep
  <2>3. RenderOf(text, StartOf(origin), count) = Shown(Tab, s)
    BY <1>2, <1>7, <2>1, <2>2 DEF So
  <2>4. So(count)' = Now'
    BY <1>1, <1>6, <1>8, <2>3 DEF So, Now
  <2> QED
    BY <1>5, <1>8, <2>4 DEF ShowInv
<1>9. CASE l > 0
  <2>1. So(count - 1)' = s
    BY <1>1, <1>2 DEF So
  <2>2. PICK i : i = m + 1 /\ InTab(s, i)' /\ i = ToTabStop(s.at) - line'
    BY <1>3, <1>4, <1>5, <1>6, <1>9
  <2>3. InTab(s, ToTabStop(s.at) - line)'
    <3>1. (ToTabStop(s.at) - line)' = i
      BY <2>2 DEF ToTabStop
    <3> QED
      BY <2>2, <3>1 DEF InTab
  <2>4. (LET r == So(count - 1) IN InTab(r, ToTabStop(r.at) - line))'
    BY <2>1, <2>3 DEF InTab, ToTabStop
  <2>5. TabInv'
    BY <1>1, <1>7, <2>4 DEF TabInv
  <2> QED
    BY <1>5, <1>9, <2>5 DEF ShowInv
<1> QED
  BY <1>8, <1>9, ScreenSize

\* Nothing is drawn.
LEMMA RestShows ==
    ASSUME ShowInv, UNCHANGED <<x, y, screen, text, count, line, origin>>,
           pc' \in {"draw", "hang"} => pc \in {"draw", "hang"}
    PROVE  ShowInv'
<1>1. Now' = Now /\ \A n : So(n)' = So(n)
  BY DEF Now, So, Position
<1>2. \A s, m : InTab(s, m)' <=> InTab(s, m)
  BY DEF InTab, Position, Tape, Cells, Blanked, CellAt
<1>3. So(count)' = So(count) /\ So(count - 1)' = So(count - 1)
  BY DEF So
<1>4. TabInv' <=> TabInv
  BY <1>2, <1>3 DEF TabInv, ToTabStop
<1> QED
  BY <1>1, <1>3, <1>4 DEF ShowInv

LEMMA ShowNext == Inv /\ ShowInv /\ [Next]_vars => ShowInv'
<1> SUFFICES ASSUME Inv, ShowInv, [Next]_vars PROVE ShowInv'
  OBVIOUS
<1>1. CASE \E body \in Bodies : Printk(body) \/ \E tag \in Tags : Log(tag, body)
  BY <1>1, BeginShows DEF Printk, Log
<1>2. CASE Interrupt
  BY <1>2, BeginShows DEF Interrupt
<1>3. CASE EndText
  <2>1. CASE rest # NoText
    BY <1>3, <2>1, BeginShows DEF EndText
  <2>2. CASE rest = NoText
    BY <1>3, <2>2, RestShows DEF EndText
  <2> QED
    BY <2>1, <2>2
<1>4. CASE UNCHANGED vars
  BY <1>4, RestShows DEF vars
<1> QED
  BY <1>1, <1>2, <1>3, <1>4, NewLineShows, BackSpaceShows, TabShows, TabRestShows, GlyphShows
     DEF Next, Draw

LEMMA HandlerNext == Inv /\ HandlerInv /\ [Next]_vars => HandlerInv'
<1> SUFFICES ASSUME Inv, HandlerInv, [Next]_vars PROVE HandlerInv'
  OBVIOUS
<1>1. CASE \E body \in Bodies : Printk(body) \/ \E tag \in Tags : Log(tag, body)
  BY <1>1 DEF Printk, Log, Begin, HandlerInv
<1>2. CASE DrawNewLine \/ DrawBackSpace \/ DrawTab \/ DrawTabRest \/ DrawGlyph
  <2>1. pc = "draw" /\ Step
    BY <1>2 DEF DrawNewLine, DrawBackSpace, DrawTab, DrawTabRest, DrawGlyph, More
  <2> QED
    BY <2>1 DEF Step, HandlerInv
<1>3. CASE EndText
  <2>1. CASE rest # NoText
    BY <1>3, <2>1 DEF EndText, Begin, HandlerInv
  <2>2. CASE rest = NoText
    BY <1>3, <2>2, ReportAssumption DEF EndText, AtEnd, HandlerInv
  <2> QED
    BY <2>1, <2>2
<1>4. CASE Interrupt
  BY <1>4 DEF Interrupt, Begin, HandlerInv
<1>5. CASE UNCHANGED vars
  BY <1>5 DEF vars, HandlerInv
<1> QED
  BY <1>1, <1>2, <1>3, <1>4, <1>5 DEF Next, Draw

DrawInv == Inv /\ ShowInv /\ HandlerInv

LEMMA DrawInvariance == Spec => []DrawInv
<1>1. Init => DrawInv
  BY InitInv DEF Init, DrawInv, ShowInv, HandlerInv
<1>2. DrawInv /\ [Next]_vars => DrawInv'
  BY NextInv, ShowNext, HandlerNext DEF DrawInv
<1> QED
  BY <1>1, <1>2, PTL DEF Spec

\* Every character of a message takes effect once, in its turn and where the comment
\* of vcolor_printk says, across the borders of the screen and the iterations a tab
\* takes, and an interrupting handler's from where the cursor was (printk.c 441-496).
THEOREM MessagesAreDrawn == Spec => []ScreenShowsText
<1>1. DrawInv => ScreenShowsText
  BY SoIs DEF DrawInv, ShowInv, ScreenShowsText, Now, Position, Place
<1> QED
  BY <1>1, DrawInvariance, PTL

\* A machine that hangs has its report on the screen, in full.
THEOREM ReportsAreDrawn == Spec => []ReportShown
<1>1. DrawInv => ReportShown
  <2> SUFFICES ASSUME DrawInv, pc = "hang"
               PROVE  text = Report
                      /\ Rendered(Len(Report)) = [at |-> y * Cols + x, screen |-> screen]
    BY DEF ReportShown
  <2>1. text = Report /\ count = Len(Report) /\ line = 0
    BY DEF DrawInv, HandlerInv
  <2>2. So(count) = Now
    BY <2>1 DEF DrawInv, ShowInv
  <2> QED
    BY <2>1, <2>2, SoIs DEF Now, Position, Place
<1> QED
  BY <1>1, DrawInvariance, PTL
=============================================================================
