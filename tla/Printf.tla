------------------------------- MODULE Printf -------------------------------
(***************************************************************************)
(* The formatting of the kernel's messages (src/kernel/printk.c): number   *)
(* and vsnprintf, which write into a buffer of Size bytes.                 *)
(*                                                                         *)
(* A format is a sequence of literal characters and directives; a          *)
(* directive is the record its characters are parsed into.  One action is  *)
(* one iteration of the loop of vsnprintf.  The format is chosen as it is  *)
(* read, so the behaviours are those of every format of these pieces.      *)
(***************************************************************************)
EXTENDS Integers, Sequences, FiniteSets, FiniteSetsExt

CONSTANTS
    Size,        \* bytes of the buffer (sizeof printk_buf, 4096)
    Endless,     \* bound: the end of a buffer without end, past every text
    HalfBits,    \* bits of a short (16)
    IntBits,     \* bits of an int (32)
    LongBits,    \* bits of a long and of a pointer (64)
    PtrWidth,    \* width of a pointer's field (16)
    Characters,  \* characters a format or an argument may have
    Literals,    \* those a format has outside its directives
    Directives,  \* directives a format may have
    DirectiveBound  \* bound: directives of one format

ASSUME PrintfAssumption ==
    /\ Size \in Nat \ {0}
    /\ 0 < HalfBits /\ HalfBits <= IntBits /\ IntBits <= LongBits
    /\ {HalfBits, IntBits, LongBits, PtrWidth, DirectiveBound, Endless} \subseteq Nat
    /\ Size < Endless

\* Arithmetic: a word is above zero, and twice one that is a bit shorter.
ASSUME WordAssumption ==
    \A b \in {HalfBits, IntBits, LongBits} : 2 ^ b > 0 /\ 2 ^ b = 2 * 2 ^ (b - 1)

\* A directive as it was parsed.  The argument is of the kind its conversion asks
\* for: that is up to the callers of printk, and nothing checks it.
IsDirective(d) ==
    /\ DOMAIN d = {"flags", "width", "prec", "conv", "qualifier", "arg"}
    /\ {d.width, d.prec} \subseteq Seq(Int)
    /\ d.conv \in {"d", "i", "u", "o", "x", "X", "p", "c", "s", "n", "%"}
    /\ d.conv \in {"d", "i", "u", "o", "x", "X", "p"} => d.arg \in 0 .. 2 ^ LongBits - 1
    /\ d.conv = "c" => d.arg \in Characters
    /\ d.conv = "s" => d.arg \in Seq(Seq(Characters))

ASSUME DirectiveAssumption ==
    Literals \subseteq Characters /\ \A d \in Directives : IsDirective(d)

VARIABLES
    str,    \* the text in the buffer: str - buf is its length
    nul,    \* where the terminator was written (its distance from buf), or Nowhere
    full,   \* history: what a buffer without end would hold
    last,   \* history: the directive the last iteration handled, if any
    count,  \* history: directives handled so far
    ret     \* what vsnprintf returned, or Running

vars == <<str, nul, full, last, count, ret>>

Running   == -1
Nowhere   == -1
Literal   == [conv |-> "literal"]
NullText  == <<"(", "n", "u", "l", "l", ")">>
Blank     == " "

-----------------------------------------------------------------------------
\* Operators named <definition>_<what is wrong> are mutants: a plausible bug in
\* the code of that definition, which a property of a run is seen to catch.
Write_Unchecked(p, end, s) == p \o s

\* *p++ = c while there is room: as much of s as fits before the end.
Write(p, end, s) == p \o SubSeq(s, 1, Min({Len(s), end - Len(p)}))

Rep(c, n) == [k \in 1 .. n |-> c]

SmallDigits == <<"0", "1", "2", "3", "4", "5", "6", "7",
                 "8", "9", "a", "b", "c", "d", "e", "f">>
LargeDigits == <<"0", "1", "2", "3", "4", "5", "6", "7",
                 "8", "9", "A", "B", "C", "D", "E", "F">>

\* The digits are produced last digit first, and written in reverse.
DigitsOf(num, base, flags) ==
    LET set == IF "SMALL" \in flags THEN SmallDigits ELSE LargeDigits
        D[n \in 0 .. num] ==
            IF n < base THEN <<set[n + 1]>> ELSE Append(D[n \div base], set[(n % base) + 1])
    IN  D[num]

SignOf(flags, negative) ==
    IF "SIGN" \notin flags THEN <<>>
    ELSE IF negative THEN <<"-">>
    ELSE IF "PLUS" \in flags THEN <<"+">>
    ELSE IF "SPACE" \in flags THEN <<Blank>>
    ELSE <<>>

PrefixOf(base, flags) ==
    IF "SPECIAL" \notin flags \/ base = 10 THEN <<>>
    ELSE <<"0", IF "SMALL" \in flags THEN "x" ELSE "X">>

\* The prefix counts twice against the width: when it is announced, and with
\* the digits, there even in base 10, which has none.
Padding(width, prec, base, flags, sign, digits) ==
    width - Len(PrefixOf(base, flags)) - Len(sign) - Max({prec, Len(digits)})
          - (IF "SPECIAL" \in flags THEN 2 ELSE 0)

WritePrefix_ForDigits(p, end, prefix) == IF Len(p) < end - 2 THEN p \o prefix ELSE p

\* A prefix is written whole or not at all.
WritePrefix(p, end, prefix) == IF Len(p) < end - 1 THEN p \o prefix ELSE p

Number_ZeroPadLeft(p, end, num, base, width, prec, flags, negative) ==
    LET sign   == SignOf(flags, negative)
        digits == DigitsOf(num, base, flags)
        pad    == Padding(width, prec, base, flags, sign, digits)
        wide   == Rep(IF "ZEROPAD" \in flags THEN "0" ELSE Blank, pad)
        front  == IF "LEFT" \in flags THEN <<>> ELSE wide
        back   == IF "LEFT" \in flags THEN wide ELSE <<>>
        prefix == WritePrefix(Write(p, end, front \o sign), end, PrefixOf(base, flags))
    IN  Write(prefix, end, Rep("0", prec - Len(digits)) \o digits \o back)

Number(p, end, num, base, width, prec, flags, negative) ==
    LET sign   == SignOf(flags, negative)
        digits == DigitsOf(num, base, flags)
        pad    == Padding(width, prec, base, flags, sign, digits)
        left   == "LEFT" \in flags
        zero   == "ZEROPAD" \in flags /\ ~left
        blanks == IF ~left /\ ~zero THEN Rep(Blank, pad) ELSE <<>>
        zeros  == IF zero THEN Rep("0", pad) ELSE <<>>
        after  == IF left THEN Rep(Blank, pad) ELSE <<>>
        head   == WritePrefix(Write(p, end, blanks \o sign), end, PrefixOf(base, flags))
    IN  Write(head, end, zeros \o Rep("0", prec - Len(digits)) \o digits \o after)

-----------------------------------------------------------------------------
(***************************************************************************)
(* A directive: its flags, its width and precision (<<>> when it has none; *)
(* "*" takes them from the arguments, which may be negative), its length   *)
(* modifier, its conversion and its argument: a word of LongBits, a        *)
(* character, or a pointer to a string, <<s>> (<<>> when it is NULL).      *)
(***************************************************************************)
FlagsOf_StarPositive(d) == d.flags \cup (IF d.width # <<>> THEN {"LEFT"} \cap d.flags ELSE {})

\* A negative width is a positive one, to the left.
FlagsOf(d) == d.flags \cup (IF d.width # <<>> /\ d.width[1] < 0 THEN {"LEFT"} ELSE {})

WidthOf(d) == IF d.width = <<>> THEN -1 ELSE IF d.width[1] < 0 THEN -d.width[1] ELSE d.width[1]
PrecOf(d)  == IF d.prec = <<>> THEN -1 ELSE Max({d.prec[1], 0})

BitsOf(qualifier) ==
    CASE qualifier = "h" -> HalfBits
      [] qualifier \in {"l", "ll"} -> LongBits
      [] OTHER -> IntBits

Unsigned(d) == d.arg % 2 ^ BitsOf(d.qualifier)

\* va_arg of the signed type, extended to 64 bits.
Signed(d) ==
    IF 2 * Unsigned(d) < 2 ^ BitsOf(d.qualifier)
    THEN Unsigned(d) ELSE Unsigned(d) - 2 ^ BitsOf(d.qualifier)

Abs(n) == IF n < 0 THEN -n ELSE n

\* Characters and strings: padding to the left or to the right of the text.
Padded(p, end, text, d) ==
    LET pad == Rep(Blank, WidthOf(d) - Len(text))
    IN  Write(p, end, IF "LEFT" \in FlagsOf(d) THEN text \o pad ELSE pad \o text)

StringOf(d) ==
    LET s == IF d.arg = <<>> THEN NullText ELSE d.arg[1]
    IN  IF PrecOf(d) >= 0 THEN SubSeq(s, 1, Min({Len(s), PrecOf(d)})) ELSE s

\* The buffer without end has room for a field, a number in any base, and a string.
ASSUME EndlessAssumption ==
    \A d \in Directives :
        /\ Abs(WidthOf(d)) + PtrWidth + Abs(PrecOf(d)) + 2 ^ LongBits + 4 <= Endless
        /\ d.conv = "s" => Abs(WidthOf(d)) + Len(StringOf(d)) <= Endless

\* The switch over the conversion.  %u and %o print in base 16, as %x does.
Converted(p, end, d) ==
    CASE d.conv = "%" -> Write(p, end, <<"%">>)
      [] d.conv = "c" -> Padded(p, end, <<d.arg>>, d)
      [] d.conv = "s" -> Padded(p, end, StringOf(d), d)
      [] d.conv = "n" -> p
      [] d.conv \in {"d", "i"} ->
            Number(p, end, Abs(Signed(d)), 10, WidthOf(d), PrecOf(d),
                   FlagsOf(d) \cup {"SIGN"}, Signed(d) < 0)
      [] d.conv \in {"u", "o", "x"} ->
            Number(p, end, Unsigned(d), 16, WidthOf(d), PrecOf(d), FlagsOf(d) \cup {"SMALL"}, FALSE)
      [] d.conv = "X" ->
            Number(p, end, Unsigned(d), 16, WidthOf(d), PrecOf(d), FlagsOf(d) \ {"SMALL"}, FALSE)
      [] d.conv = "p" ->
            Number(p, end, d.arg, 16, PtrWidth, PrecOf(d),
                   FlagsOf(d) \cup {"SPECIAL", "SMALL", "ZEROPAD"}, FALSE)

-----------------------------------------------------------------------------
Init ==
    /\ str = <<>> /\ nul = Nowhere /\ full = <<>> /\ last = Literal /\ count = 0
    /\ ret = IF Size = 0 THEN 0 ELSE Running

More == ret = Running /\ Len(str) < Size

\* A character that is not '%', and the '%' of a directive that is not valid:
\* the characters after it are read again as literals.
PutLiteral(c) ==
    /\ More
    /\ str' = Append(str, c)
    /\ full' = Append(full, c)
    /\ last' = Literal
    /\ UNCHANGED <<nul, count, ret>>

Convert(d) ==
    /\ More /\ count < DirectiveBound
    /\ str' = Converted(str, Size, d)
    /\ full' = Converted(full, Endless, d)
    /\ last' = d /\ count' = count + 1
    /\ UNCHANGED <<nul, ret>>

\* The length, or size - 1 when the text fills the buffer.
Returned(n) == IF n < Size THEN n ELSE Size - 1

\* The format ends, or the buffer is full.  The terminator goes behind the text,
\* without a look at the end: past the buffer when the text fills it.
Finish ==
    /\ ret = Running
    /\ nul' = Len(str)
    /\ ret' = Returned(Len(str))
    /\ UNCHANGED <<str, full, last, count>>

Next ==
    \/ \E c \in Literals : PutLiteral(c)
    \/ \E d \in Directives : Convert(d)
    \/ Finish

Spec == Init /\ [][Next]_vars

-----------------------------------------------------------------------------
\* Wherever the buffer ends in the middle of a piece, its characters stay inside the
\* Size bytes (str < end in every loop of number and vsnprintf).  The terminator ends
\* the whole text when that is shorter than the buffer; otherwise it is written at
\* buf + Size, one byte past it and never further, though the comments of vsnprintf
\* count it among the Size bytes (printk.c 171, 179); the length returned then
\* leaves out the last character that is in the buffer.
TerminatorPlaced ==
    /\ Len(str) <= Size
    /\ ret # Running => /\ nul = Min({Len(full), Size})
                        /\ ret = Min({Len(full), Size - 1})

\* What vcolor_printk draws, the ret first characters, is the beginning of the
\* whole text: a buffer that ends anywhere, in the middle of padding, prefix or
\* digits, leaves nothing out before its end.
TruncatedIsPrefix ==
    ret # Running => SubSeq(str, 1, ret) = SubSeq(full, 1, ret)

\* The value a number's text denotes: sign, prefix, then digits.
DigitValue(c) == CHOOSE k \in 0 .. 15 : SmallDigits[k + 1] = c \/ LargeDigits[k + 1] = c
IsDigit(c) == \E k \in 1 .. 16 : c \in {SmallDigits[k], LargeDigits[k]}

ValueOf(text, base) ==
    LET V[k \in 0 .. Len(text)] ==
            IF k = 0 THEN 0
            ELSE IF IsDigit(text[k]) THEN V[k - 1] * base + DigitValue(text[k]) ELSE V[k - 1]
    IN  IF \E k \in 1 .. Len(text) : text[k] = "-" THEN -V[Len(text)] ELSE V[Len(text)]

\* Text reads as the number n, and has a digit.
Reads(text, base, n) ==
    ValueOf(text, base) = n /\ \E k \in 1 .. Len(text) : IsDigit(text[k])

\* The signed number whose last bits are those of a word.
AsSigned(word, bits) ==
    CHOOSE n \in -(2 ^ (bits - 1)) .. 2 ^ (bits - 1) - 1 : (n - word) % 2 ^ bits = 0

TextOf(d) == Converted(<<>>, Endless, d)
BlankIn(text, range) == \A k \in range : text[k] = Blank

\* Whatever flags, width and precision a number is printed with, its text denotes
\* the argument at the width its length modifier gives it, and all its padding is on
\* one side: zeros never follow the digits and no blank stands inside.
NumbersReadBack ==
    LET text == TextOf(last)
        bits == BitsOf(last.qualifier)
    IN  /\ last.conv \in {"d", "i"} => Reads(text, 10, AsSigned(last.arg, bits))
        /\ last.conv \in {"x", "X"} => Reads(text, 16, last.arg % 2 ^ bits)
        /\ last.conv = "p" => Reads(text, 16, last.arg)
        /\ last.conv \in {"d", "i", "x", "X", "p"} =>
              \A k \in 1 .. Len(text) : text[k] = Blank =>
                  BlankIn(text, 1 .. k) \/ BlankIn(text, k .. Len(text))

\* Without "#" a directive fills its field, and a text that is longer is not cut:
\* the blanks of a field that is to the left, by its flag or by a negative width,
\* all come last.  ("#" makes a field two shorter than asked, three lines apart.)
FieldsFilled ==
    last.conv \notin {"literal", "%", "n", "p"} /\ "SPECIAL" \notin last.flags =>
        LET text == TextOf(last)
            bare == TextOf([last EXCEPT !.width = <<>>])
        IN  /\ Len(text) = Max({WidthOf(last), Len(bare)})
            /\ "LEFT" \in last.flags \/ (last.width # <<>> /\ last.width[1] < 0)
                  => SubSeq(text, 1, Len(bare)) = bare

-----------------------------------------------------------------------------
(***************************************************************************)
(* What a comment of the source says, and the code does not do: a run      *)
(* refutes it.                                                             *)
(***************************************************************************)

\* "The syntax is that of printf" (vcolor_printk): %u prints a decimal number.
UnsignedIsDecimal ==
    last.conv = "u" => ValueOf(TextOf(last), 10) = Unsigned(last)
=============================================================================
