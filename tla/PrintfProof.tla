---------------------------- MODULE PrintfProof ----------------------------
(***************************************************************************)
(* Printf: the text stays in its buffer and is the beginning of the whole, *)
(* a field is filled, and a number reads as the argument, for buffers of   *)
(* any size and any directives.                                            *)
(***************************************************************************)
EXTENDS Printf, NumberLemmas, SequenceTheorems, TLAPS

\* The characters of a text: those it is given, and those vsnprintf adds.
Chars == Characters \cup {Blank, "-", "+", "x", "X", "%"} \cup {NullText[k] : k \in 1 .. 6}
           \cup {SmallDigits[k] : k \in 1 .. 16} \cup {LargeDigits[k] : k \in 1 .. 16}

Text == Seq(Chars)

-----------------------------------------------------------------------------
(* Pieces of text.                                                         *)

LEMMA RepIsSeq ==
    ASSUME NEW S, NEW c \in S, NEW n \in Int
    PROVE  [k \in 1 .. n |-> c] \in Seq(S)
<1>1. CASE n >= 0
  BY <1>1, SMT
<1>2. CASE n < 0
  <2>1. 1 .. n = 1 .. 0
    BY <1>2
  <2>2. [k \in 1 .. 0 |-> c] \in Seq(S)
    BY SMT
  <2> QED
    BY <2>1, <2>2
<1> QED
  BY <1>1, <1>2

LEMMA RepIsText ==
    ASSUME NEW c \in Chars, NEW n \in Int
    PROVE  Rep(c, n) \in Text
BY RepIsSeq DEF Rep, Text

LEMMA PairIsSeq ==
    ASSUME NEW S, NEW a \in S, NEW b \in S
    PROVE  <<a, b>> \in Seq(S)
<1>1. <<a, b>> \in [1 .. 2 -> S]
  BY SMT
<1> QED
  BY <1>1, SeqDef

LEMMA NullIsText == NullText \in Text
<1>1. \A k \in 1 .. 6 : NullText[k] \in Chars
  BY DEF Chars
<1>2. NullText = [k \in 1 .. 6 |-> NullText[k]]
  BY DEF NullText
<1>3. NullText \in [1 .. 6 -> Chars]
  BY <1>1, <1>2
<1> QED
  BY <1>3, SeqDef DEF Text

LEMMA OwnCharacters ==
    /\ {Blank, "-", "+", "x", "X", "%", "0"} \subseteq Chars
    /\ Characters \subseteq Chars
    /\ \A k \in 1 .. 16 : SmallDigits[k] \in Chars /\ LargeDigits[k] \in Chars
<1>1. SmallDigits[1] = "0"
  BY DEF SmallDigits
<1> QED
  BY <1>1 DEF Chars

LEMMA OneIsText ==
    ASSUME NEW c \in Chars
    PROVE  <<c>> \in Text /\ Len(<<c>>) = 1
BY SMT DEF Text

LEMMA NoneIsText == <<>> \in Text /\ Len(<<>>) = 0
BY SMT DEF Text

LEMMA LengthOf == \A s \in Text : Len(s) \in Nat
BY DEF Text

LEMMA Joined ==
    ASSUME NEW s \in Text, NEW t \in Text
    PROVE  /\ s \o t \in Text
           /\ Len(s \o t) = Len(s) + Len(t)
           /\ \A k \in 1 .. Len(s) : (s \o t)[k] = s[k]
BY LengthOf, ConcatProperties DEF Text

\* The beginning of a text, as long as asked if the text is.
LEMMA BeginningOf ==
    ASSUME NEW s \in Text, NEW m \in Nat, m <= Len(s)
    PROVE  /\ SubSeq(s, 1, m) \in Text
           /\ Len(SubSeq(s, 1, m)) = m
           /\ \A k \in 1 .. m : SubSeq(s, 1, m)[k] = s[k]
<1>1. \A k \in 1 .. m : s[k] \in Chars
  BY SMT DEF Text
<1>2. Len(SubSeq(s, 1, m)) = m /\ \A k \in 1 .. m : SubSeq(s, 1, m)[k] = s[k]
  BY SMT DEF Text
<1> QED
  BY <1>1, <1>2, SubSeqProperties DEF Text

LEMMA LesserOf ==
    ASSUME NEW m \in Int, NEW n \in Int, m <= n
    PROVE  Min({m, n}) = m /\ Min({n, m}) = m
BY SMT DEF Min

LEMMA GreaterOf ==
    ASSUME NEW m \in Int, NEW n \in Int, m <= n
    PROVE  Max({m, n}) = n /\ Max({n, m}) = n
BY SMT DEF Max

-----------------------------------------------------------------------------
(* Write and WritePrefix.                                                  *)

\* As much as fits, no more, and nothing before it changes.
LEMMA WriteFits ==
    ASSUME NEW p \in Text, NEW s \in Text, NEW end \in Nat, Len(p) + Len(s) <= end
    PROVE  Write(p, end, s) = p \o s
<1>1. Len(p) \in Nat /\ Len(s) \in Nat
  BY LengthOf
<1>2. Min({Len(s), end - Len(p)}) = Len(s)
  BY <1>1, LesserOf
<1>3. SubSeq(s, 1, Len(s)) = s
  BY SubSeqFull DEF Text
<1> QED
  BY <1>2, <1>3 DEF Write

LEMMA WriteFills ==
    ASSUME NEW p \in Text, NEW s \in Text, NEW end \in Nat,
           Len(p) <= end, end <= Len(p) + Len(s)
    PROVE  /\ Write(p, end, s) \in Text
           /\ Len(Write(p, end, s)) = end
           /\ \A k \in 1 .. Len(p) : Write(p, end, s)[k] = p[k]
           /\ \A k \in 1 .. end : Write(p, end, s)[k] = (p \o s)[k]
<1>1. Len(p) \in Nat /\ Len(s) \in Nat
  BY LengthOf
<1>2. PICK m \in Nat : m = end - Len(p)
  BY <1>1
<1>3. Min({Len(s), end - Len(p)}) = m
  BY <1>1, <1>2, LesserOf
<1>4. PICK b \in Text : /\ b = SubSeq(s, 1, m) /\ Len(b) = m
                        /\ \A k \in 1 .. m : b[k] = s[k]
  <2>1. m <= Len(s)
    BY <1>1, <1>2
  <2> QED
    BY <2>1, BeginningOf
<1>5. Write(p, end, s) = p \o b
  BY <1>3, <1>4 DEF Write
<1>6. /\ p \o b \in Text /\ Len(p \o b) = end
      /\ \A k \in 1 .. Len(p) : (p \o b)[k] = p[k]
  BY <1>1, <1>2, <1>4, Joined
<1>7. \A k \in 1 .. end : (p \o b)[k] = (p \o s)[k]
  BY <1>1, <1>2, <1>4, SMT DEF Text
<1> QED
  BY <1>5, <1>6, <1>7

LEMMA WriteExtends ==
    ASSUME NEW p \in Text, NEW s \in Text, NEW end \in Nat
    PROVE  /\ Write(p, end, s) \in Text
           /\ Len(Write(p, end, s)) >= Len(p)
           /\ \A k \in 1 .. Len(p) : Write(p, end, s)[k] = p[k]
<1>1. Len(p) \in Nat /\ Len(s) \in Nat
  BY LengthOf
<1>2. CASE Len(p) + Len(s) <= end
  <2>1. Write(p, end, s) = p \o s
    BY <1>2, WriteFits
  <2>2. /\ p \o s \in Text /\ Len(p \o s) = Len(p) + Len(s)
        /\ \A k \in 1 .. Len(p) : (p \o s)[k] = p[k]
    BY Joined
  <2>3. Len(p \o s) >= Len(p)
    BY <1>1, <2>2
  <2> QED
    BY <2>1, <2>2, <2>3
<1>3. CASE Len(p) <= end /\ end <= Len(p) + Len(s)
  BY <1>1, <1>3, WriteFills
<1>4. CASE end < Len(p)
  <2>1. Min({Len(s), end - Len(p)}) = end - Len(p) /\ end - Len(p) < 1
    BY <1>1, <1>4, LesserOf
  <2>2. SubSeq(s, 1, end - Len(p)) = <<>>
    BY <1>1, <2>1, SubSeqEmpty
  <2>3. p \o <<>> = p
    BY ConcatEmptySeq DEF Text
  <2>4. Write(p, end, s) = p
    BY <2>1, <2>2, <2>3, Zenon DEF Write
  <2> QED
    BY <1>1, <2>4
<1> QED
  BY <1>1, <1>2, <1>3, <1>4

\* Up to the end, all of it is written.
LEMMA WriteReaches ==
    ASSUME NEW p \in Text, NEW s \in Text, NEW end \in Nat, NEW n \in Nat,
           n <= end, n <= Len(p) + Len(s)
    PROVE  n <= Len(Write(p, end, s))
<1>1. Len(p) \in Nat /\ Len(s) \in Nat
  BY LengthOf
<1>2. CASE Len(p) + Len(s) <= end
  BY <1>2, WriteFits, Joined
<1>3. CASE Len(p) <= end /\ end <= Len(p) + Len(s)
  BY <1>3, WriteFills
<1>4. CASE end < Len(p)
  <2>1. Len(Write(p, end, s)) \in Nat /\ Len(Write(p, end, s)) >= Len(p)
    BY WriteExtends, LengthOf
  <2> QED
    BY <1>1, <1>4, <2>1
<1> QED
  BY <1>1, <1>2, <1>3, <1>4

\* p, cut by the end of the buffer, and q, without end, are the same text: but for
\* the last byte of the buffer (Follows), and all of it when there is room left (Agree), or when
\* there is room for more than a character (Almost: a prefix was left out).
Follows(p, q) ==
    /\ p \in Text /\ q \in Text /\ Len(p) <= Size /\ Len(p) <= Len(q)
    /\ \A k \in 1 .. Len(p) : k < Size => k <= Len(q) /\ p[k] = q[k]

Agree(p, q)  == Follows(p, q) /\ (Len(p) < Size => p = q)
Almost(p, q) == Follows(p, q) /\ (Len(p) < Size - 1 => p = q)

LEMMA SizesAreNumbers == Size \in Nat /\ Endless \in Nat /\ 0 < Size /\ Size < Endless
BY PrintfAssumption

\* t begins with the first n characters of s.
Carries(t, s, n) == n <= Len(t) /\ \A k \in 1 .. n : t[k] = s[k]

LEMMA SameAgree ==
    ASSUME NEW p \in Text, Len(p) <= Size
    PROVE  Agree(p, p)
BY LengthOf, SizesAreNumbers DEF Agree, Follows

LEMMA FillingAgrees ==
    ASSUME NEW p, NEW q, Follows(p, q), NEW s \in Text,
           Size <= Len(p) + 1, Size <= Len(p) + Len(s)
    PROVE  Agree(Write(p, Size, s), Write(q, Endless, s))
<1>1. /\ p \in Text /\ q \in Text /\ Len(p) <= Size /\ Len(p) <= Len(q)
      /\ Len(p) \in Nat /\ Len(q) \in Nat /\ Len(s) \in Nat
  BY LengthOf DEF Follows
<1>2. PICK a \in Text : /\ a = Write(p, Size, s) /\ Len(a) = Size
                        /\ \A k \in 1 .. Len(p) : a[k] = p[k]
  BY <1>1, SizesAreNumbers, WriteFills
<1>3. PICK b \in Text : /\ b = Write(q, Endless, s) /\ Len(b) >= Len(q)
                        /\ \A k \in 1 .. Len(q) : b[k] = q[k]
  BY <1>1, SizesAreNumbers, WriteExtends
<1>4. ASSUME NEW k \in 1 .. Len(a), k < Size PROVE k <= Len(b) /\ a[k] = b[k]
  <2>1. k \in 1 .. Len(p) /\ Len(b) \in Nat
    BY <1>1, <1>2, <1>4, LengthOf, SizesAreNumbers
  <2>2. k <= Len(q) /\ p[k] = q[k]
    BY <2>1, <1>4 DEF Follows
  <2> QED
    BY <1>1, <1>2, <1>3, <2>1, <2>2
<1>5. Size <= Len(b)
  BY <1>1, <1>3, SizesAreNumbers, WriteReaches
<1>6. Agree(a, b)
  BY <1>2, <1>3, <1>4, <1>5, SizesAreNumbers DEF Agree, Follows
<1> QED
  BY <1>2, <1>3, <1>6

LEMMA WriteAgrees ==
    ASSUME NEW p, NEW q, Agree(p, q), NEW s \in Text
    PROVE  Agree(Write(p, Size, s), Write(q, Endless, s))
<1>1. /\ p \in Text /\ q \in Text /\ Len(p) <= Size /\ Follows(p, q)
      /\ Len(p) \in Nat /\ Len(q) \in Nat /\ Len(s) \in Nat
  BY LengthOf DEF Agree, Follows
<1>2. CASE Len(p) = Size
  BY <1>1, <1>2, FillingAgrees, SizesAreNumbers
<1>3. CASE Len(p) < Size /\ Len(p) + Len(s) <= Size
  <2>1. q = p
    BY <1>3 DEF Agree
  <2>2. Write(p, Size, s) = p \o s /\ Write(p, Endless, s) = p \o s
    BY <1>1, <1>3, WriteFits, SizesAreNumbers, SMTT(30)
  <2>3. p \o s \in Text /\ Len(p \o s) = Len(p) + Len(s)
    BY <1>1, Joined
  <2> QED
    BY <1>3, <2>1, <2>2, <2>3, SameAgree
<1>4. CASE Len(p) < Size /\ Size < Len(p) + Len(s)
  <2>1. q = p
    BY <1>4 DEF Agree
  <2>2. PICK a \in Text : a = Write(p, Size, s) /\ Len(a) = Size /\ Carries(a, p \o s, Size)
    BY <1>1, <1>4, SizesAreNumbers, WriteFills DEF Carries
  <2>3. PICK b \in Text : b = Write(p, Endless, s) /\ Carries(b, p \o s, Size)
    <3>1. CASE Len(p) + Len(s) <= Endless
      <4>1. Write(p, Endless, s) = p \o s
        BY <1>1, <3>1, SizesAreNumbers, WriteFits
      <4>2. p \o s \in Text /\ Len(p \o s) >= Size
        BY <1>1, <1>4, Joined, SizesAreNumbers
      <4> QED
        BY <4>1, <4>2 DEF Carries
    <3>2. CASE Endless < Len(p) + Len(s)
      <4>1. Len(p) <= Endless /\ Endless <= Len(p) + Len(s)
        BY <1>1, <1>4, <3>2, SizesAreNumbers
      <4>2. PICK b \in Text : b = Write(p, Endless, s) /\ Len(b) = Endless
                              /\ \A k \in 1 .. Endless : b[k] = (p \o s)[k]
        BY <1>1, <4>1, SizesAreNumbers, WriteFills
      <4>3. Carries(b, p \o s, Size)
        <5>1. Size <= Len(b)
          BY <4>2, SizesAreNumbers
        <5>2. \A k \in 1 .. Size : k \in 1 .. Endless
          BY SizesAreNumbers
        <5> QED
          BY <4>2, <5>1, <5>2, Zenon DEF Carries
      <4> QED
        BY <4>2, <4>3
    <3> QED
      BY <1>1, <3>1, <3>2, SizesAreNumbers
  <2>4. \A k \in 1 .. Len(a) : k < Size => k <= Len(b) /\ a[k] = b[k]
    <3> SUFFICES ASSUME NEW k \in 1 .. Len(a), k < Size
                 PROVE  k <= Len(b) /\ a[k] = b[k]
      OBVIOUS
    <3>1. Size <= Len(b) /\ Len(b) \in Nat
      BY <2>3, LengthOf DEF Carries
    <3>2. k \in 1 .. Size /\ k <= Len(b)
      BY <2>2, <3>1, SizesAreNumbers
    <3>3. a[k] = (p \o s)[k] /\ b[k] = (p \o s)[k]
      BY <2>2, <2>3, <3>2, Zenon DEF Carries
    <3> QED
      BY <3>2, <3>3
  <2>5. Size <= Len(b) /\ Len(b) \in Nat
    BY <2>3, LengthOf DEF Carries
  <2> QED
    BY <2>1, <2>2, <2>3, <2>4, <2>5, SizesAreNumbers DEF Agree, Follows
<1> QED
  BY <1>1, <1>2, <1>3, <1>4, SizesAreNumbers

\* A number has a digit, which takes the place a prefix was left out of.
LEMMA WriteCloses ==
    ASSUME NEW p, NEW q, Almost(p, q), NEW s \in Text, 1 <= Len(s)
    PROVE  Agree(Write(p, Size, s), Write(q, Endless, s))
<1>1. /\ p \in Text /\ Len(p) <= Size /\ Follows(p, q)
      /\ Len(p) \in Nat /\ Len(s) \in Nat
  BY LengthOf DEF Almost, Follows
<1>2. CASE Len(p) < Size - 1
  <2>1. q = p /\ Agree(p, p)
    BY <1>1, <1>2, SameAgree DEF Almost
  <2> QED
    BY <2>1, WriteAgrees
<1>3. CASE Size - 1 <= Len(p)
  BY <1>1, <1>3, FillingAgrees, SizesAreNumbers
<1> QED
  BY <1>1, <1>2, <1>3, SizesAreNumbers

LEMMA WritePrefixAlmost ==
    ASSUME NEW p, NEW q, Agree(p, q), NEW x \in Text, Len(x) <= 2
    PROVE  Almost(WritePrefix(p, Size, x), WritePrefix(q, Endless, x))
<1>1. /\ p \in Text /\ q \in Text /\ Len(p) <= Size
      /\ Len(p) \in Nat /\ Len(q) \in Nat /\ Len(x) \in Nat /\ Len(p) <= Len(q)
  BY LengthOf DEF Agree, Follows
<1>2. CASE Len(p) < Size - 1
  <2>1. q = p
    BY <1>1, <1>2, SizesAreNumbers DEF Agree
  <2>2. WritePrefix(p, Size, x) = p \o x /\ WritePrefix(p, Endless, x) = p \o x
    BY <1>1, <1>2, SizesAreNumbers DEF WritePrefix
  <2>3. p \o x \in Text /\ Len(p \o x) = Len(p) + Len(x)
    BY <1>1, Joined
  <2>4. Agree(p \o x, p \o x)
    <3>1. Len(p) + Len(x) <= Size
      BY <1>1, <1>2, SizesAreNumbers
    <3> QED
      BY <2>3, <3>1, SameAgree
  <2> QED
    BY <2>1, <2>2, <2>4 DEF Agree, Almost
<1>3. CASE Size - 1 <= Len(p)
  <2>1. WritePrefix(p, Size, x) = p
    BY <1>1, <1>3, SizesAreNumbers DEF WritePrefix
  <2>2. PICK b \in Text : /\ b = WritePrefix(q, Endless, x) /\ Len(b) >= Len(q)
                          /\ \A k \in 1 .. Len(q) : b[k] = q[k]
    <3>1. CASE Len(q) < Endless - 1
      <4>1. WritePrefix(q, Endless, x) = q \o x
        BY <3>1 DEF WritePrefix
      <4>2. /\ q \o x \in Text /\ Len(q \o x) = Len(q) + Len(x)
            /\ \A k \in 1 .. Len(q) : (q \o x)[k] = q[k]
        BY <1>1, Joined
      <4>3. Len(q \o x) >= Len(q)
        BY <1>1, <4>2
      <4> QED
        BY <4>1, <4>2, <4>3
    <3>2. CASE ~(Len(q) < Endless - 1)
      BY <1>1, <3>2 DEF WritePrefix
    <3> QED
      BY <3>1, <3>2
  <2>3. ASSUME NEW k \in 1 .. Len(p), k < Size PROVE k <= Len(b) /\ p[k] = b[k]
    <3>1. k <= Len(q) /\ p[k] = q[k]
      BY <2>3 DEF Agree, Follows
    <3>2. Len(b) \in Nat
      BY LengthOf
    <3> QED
      BY <1>1, <2>2, <3>1, <3>2
  <2>4. Len(p) <= Len(b)
    BY <1>1, <2>2, LengthOf
  <2>5. Almost(p, b)
    BY <1>1, <1>3, <2>2, <2>3, <2>4, SizesAreNumbers DEF Almost, Follows
  <2> QED
    BY <2>1, <2>2, <2>5
<1> QED
  BY <1>1, <1>2, <1>3, SizesAreNumbers

-----------------------------------------------------------------------------
(* The digits of a number.  D lists those of 0 to num.                     *)

DigitStep(set, base, D, n) ==
    IF n < base THEN <<set[n + 1]>> ELSE Append(D[n \div base], set[(n % base) + 1])

Lists(set, base, num, D) == D = [n \in 0 .. num |-> DigitStep(set, base, D, n)]

Listed(set, base, num) == (CHOOSE D : Lists(set, base, num, D))[num]

LEMMA DigitsAreListed ==
    ASSUME NEW num, NEW base, NEW flags
    PROVE  DigitsOf(num, base, flags)
             = Listed(IF "SMALL" \in flags THEN SmallDigits ELSE LargeDigits, base, num)
BY DEF DigitsOf, Listed, Lists, DigitStep

LEMMA Divided ==
    ASSUME NEW base \in {10, 16}, NEW n \in Nat
    PROVE  /\ n % base \in 0 .. base - 1
           /\ n \div base \in Nat
           /\ n >= base => n \div base < n
<1>1. CASE base = 10
  BY <1>1, SMT
<1>2. CASE base = 16
  BY <1>2, SMT
<1> QED
  BY <1>1, <1>2

LEMMA ListExists ==
    ASSUME NEW set, NEW base \in {10, 16}, NEW num \in Nat
    PROVE  \E D : Lists(set, base, num, D)
<1> DEFINE T == {n \in Nat : ~\E D : Lists(set, base, n, D)}
<1>1. ASSUME NEW n \in T, \A m \in T : ~(m < n) PROVE FALSE
  <2>1. n \in Nat /\ ~\E D : Lists(set, base, n, D)
    OBVIOUS
  <2>2. PICK D : n > 0 => Lists(set, base, n - 1, D)
    <3>1. CASE n > 0
      <4>1. n - 1 \in Nat /\ n - 1 < n
        BY <2>1, <3>1
      <4> QED
        BY <1>1, <4>1
    <3> QED
      BY <3>1
  <2> DEFINE E == [k \in 0 .. n |-> IF k < n THEN D[k] ELSE DigitStep(set, base, D, n)]
  <2>3. ASSUME NEW k \in 0 .. n, k >= base PROVE E[k \div base] = D[k \div base]
    <3>1. k \div base \in Nat /\ k \div base < k
      BY <2>1, <2>3, Divided
    <3>2. k \div base \in 0 .. n /\ k \div base < n
      BY <2>1, <3>1
    <3> QED
      BY <3>2
  <2>4. ASSUME NEW k \in 0 .. n PROVE DigitStep(set, base, E, k) = DigitStep(set, base, D, k)
    <3> HIDE DEF E
    <3>1. CASE k < base
      BY <3>1 DEF DigitStep
    <3>2. CASE k >= base
      BY <2>3, <3>2 DEF DigitStep
    <3> QED
      BY <2>1, <3>1, <3>2
  <2>5. ASSUME NEW k \in 0 .. n PROVE E[k] = DigitStep(set, base, D, k)
    <3>1. CASE k < n
      <4>1. k \in 0 .. n - 1 /\ n > 0
        BY <2>1, <3>1
      <4>2. D[k] = DigitStep(set, base, D, k)
        BY <2>2, <4>1, Zenon DEF Lists
      <4> QED
        BY <3>1, <4>2
    <3>2. CASE k = n
      BY <2>1, <3>2
    <3> QED
      BY <2>1, <3>1, <3>2
  <2>6. E = [k \in 0 .. n |-> E[k]]
    OBVIOUS
  <2>7. E = [k \in 0 .. n |-> DigitStep(set, base, E, k)]
    <3> HIDE DEF E
    <3> QED
      BY <2>4, <2>5, <2>6, Zenon
  <2>8. Lists(set, base, n, E)
    BY <2>7 DEF Lists
  <2> QED
    BY <2>1, <2>8
<1>2. T = {}
  <2>1. T \in SUBSET Nat
    OBVIOUS
  <2> QED
    BY <1>1, <2>1, NoLeast
<1> QED
  BY <1>2

\* A number of n has no more than n + 1 digits, and they are digits.
DigitChars == {SmallDigits[k] : k \in 1 .. 16} \cup {LargeDigits[k] : k \in 1 .. 16}

LEMMA ListedLengths ==
    ASSUME NEW set, \A k \in 1 .. 16 : set[k] \in DigitChars,
           NEW base \in {10, 16}, NEW num \in Nat, NEW D, Lists(set, base, num, D)
    PROVE  \A n \in 0 .. num : D[n] \in Seq(DigitChars) /\ 1 <= Len(D[n]) /\ Len(D[n]) <= n + 1
<1> DEFINE T == {n \in 0 .. num : ~(D[n] \in Seq(DigitChars) /\ 1 <= Len(D[n]) /\ Len(D[n]) <= n + 1)}
<1>1. ASSUME NEW n \in T, \A m \in T : ~(m < n) PROVE FALSE
  <2>1. n \in 0 .. num /\ ~(D[n] \in Seq(DigitChars) /\ 1 <= Len(D[n]) /\ Len(D[n]) <= n + 1)
    OBVIOUS
  <2>2. D[n] = DigitStep(set, base, D, n)
    BY <2>1, Zenon DEF Lists
  <2>3. CASE n < base
    <3>1. n + 1 \in 1 .. 16
      BY <2>1, <2>3
    <3>2. PICK c \in DigitChars : c = set[n + 1]
      BY <3>1
    <3>3. D[n] = <<c>>
      BY <2>2, <2>3, <3>2 DEF DigitStep
    <3>4. <<c>> \in Seq(DigitChars) /\ Len(<<c>>) = 1
      BY SMT
    <3> QED
      BY <2>1, <3>3, <3>4
  <2>4. CASE n >= base
    <3>1. n \div base \in Nat /\ n \div base < n /\ n % base \in 0 .. base - 1
      BY <2>1, <2>4, Divided, SMTT(40)
    <3>2. n \div base \in 0 .. num /\ (n % base) + 1 \in 1 .. 16
      BY <2>1, <3>1
    <3>3. /\ D[n \div base] \in Seq(DigitChars)
          /\ 1 <= Len(D[n \div base]) /\ Len(D[n \div base]) <= (n \div base) + 1
      BY <1>1, <3>1, <3>2
    <3>4. PICK c \in DigitChars : c = set[(n % base) + 1]
      BY <3>2
    <3>5. D[n] = Append(D[n \div base], c)
      BY <2>1, <2>2, <2>4, <3>4 DEF DigitStep
    <3>6. D[n] \in Seq(DigitChars) /\ Len(D[n]) = Len(D[n \div base]) + 1
      BY <3>3, <3>5, AppendProperties
    <3>7. 1 <= Len(D[n]) /\ Len(D[n]) <= n + 1
      BY <2>1, <3>1, <3>3, <3>6, SMTT(40)
    <3> QED
      BY <2>1, <3>6, <3>7
  <2> QED
    BY <2>1, <2>3, <2>4
<1>2. T = {}
  <2>1. T \in SUBSET Nat
    OBVIOUS
  <2> QED
    BY <1>1, <2>1, NoLeast
<1> QED
  BY <1>2

LEMMA SetsAreDigits ==
    \A k \in 1 .. 16 : SmallDigits[k] \in DigitChars /\ LargeDigits[k] \in DigitChars
BY DEF DigitChars

DigitsFrom(set, D, num, base, flags) ==
    /\ set \in {SmallDigits, LargeDigits}
    /\ Lists(set, base, num, D) /\ DigitsOf(num, base, flags) = D[num]
    /\ D[num] \in Seq(DigitChars) /\ 1 <= Len(D[num]) /\ Len(D[num]) <= num + 1

LEMMA DigitsOfAre ==
    ASSUME NEW num \in Nat, NEW base \in {10, 16}, NEW flags
    PROVE  \E set, D : DigitsFrom(set, D, num, base, flags)
<1>1. PICK set : /\ set = IF "SMALL" \in flags THEN SmallDigits ELSE LargeDigits
                 /\ set \in {SmallDigits, LargeDigits}
                 /\ \A k \in 1 .. 16 : set[k] \in DigitChars
  BY SetsAreDigits
<1>2. PICK D : D = CHOOSE E : Lists(set, base, num, E)
  OBVIOUS
<1>3. Lists(set, base, num, D)
  BY <1>2, ListExists
<1>4. DigitsOf(num, base, flags) = D[num]
  BY <1>1, <1>2, DigitsAreListed DEF Listed
<1>5. D[num] \in Seq(DigitChars) /\ 1 <= Len(D[num]) /\ Len(D[num]) <= num + 1
  BY <1>1, <1>3, ListedLengths, SMTT(60)
<1> QED
  BY <1>1, <1>3, <1>4, <1>5 DEF DigitsFrom

LEMMA PiecesAreText ==
    /\ \A s \in Seq({Blank}) : s \in Text
    /\ \A s \in Seq({"0"}) : s \in Text
    /\ \A s \in Seq(DigitChars) : s \in Text
<1>1. {Blank} \subseteq Chars /\ {"0"} \subseteq Chars /\ DigitChars \subseteq Chars
  BY OwnCharacters DEF DigitChars, Chars
<1> QED
  BY <1>1, SeqMonotonic DEF Text

\* A number has a digit at least, whatever the number.
LEMMA DigitsAreText ==
    ASSUME NEW num \in Nat, NEW base \in {10, 16}, NEW flags
    PROVE  DigitsOf(num, base, flags) \in Text /\ 1 <= Len(DigitsOf(num, base, flags))
<1>1. PICK set, D : DigitsFrom(set, D, num, base, flags)
  BY DigitsOfAre
<1> QED
  BY <1>1, PiecesAreText DEF DigitsFrom

-----------------------------------------------------------------------------
(* number.                                                                 *)

LEMMA SignIsText ==
    ASSUME NEW flags, NEW negative
    PROVE  SignOf(flags, negative) \in Text
BY OwnCharacters, OneIsText, NoneIsText DEF SignOf

LEMMA PrefixIsText ==
    ASSUME NEW base, NEW flags
    PROVE  PrefixOf(base, flags) \in Text /\ Len(PrefixOf(base, flags)) <= 2
<1>1. \A c \in Chars : <<"0", c>> \in Text /\ Len(<<"0", c>>) = 2
  BY OwnCharacters, PairIsSeq DEF Text
<1>2. (IF "SMALL" \in flags THEN "x" ELSE "X") \in Chars
  BY OwnCharacters
<1> QED
  BY <1>1, <1>2, NoneIsText DEF PrefixOf

LEMMA PaddingIsInt ==
    ASSUME NEW width \in Int, NEW prec \in Int, NEW base, NEW flags,
           NEW sign \in Text, NEW digits \in Text
    PROVE  Padding(width, prec, base, flags, sign, digits) \in Int
<1>1. Len(sign) \in Int /\ Len(digits) \in Int /\ Len(PrefixOf(base, flags)) \in Int
  BY LengthOf, PrefixIsText
<1>2. Max({prec, Len(digits)}) \in Int
  BY <1>1, GreaterOf, SMTT(30)
<1> QED
  BY <1>1, <1>2 DEF Padding

LEMMA NumberAgrees ==
    ASSUME NEW p, NEW q, Agree(p, q), NEW num \in Nat, NEW base \in {10, 16},
           NEW width \in Int, NEW prec \in Int, NEW flags, NEW negative
    PROVE  Agree(Number(p, Size, num, base, width, prec, flags, negative),
                 Number(q, Endless, num, base, width, prec, flags, negative))
<1> DEFINE sign   == SignOf(flags, negative)
           digits == DigitsOf(num, base, flags)
           prefix == PrefixOf(base, flags)
           pad    == Padding(width, prec, base, flags, sign, digits)
           left   == "LEFT" \in flags
           zero   == "ZEROPAD" \in flags /\ ~left
           blanks == IF ~left /\ ~zero THEN Rep(Blank, pad) ELSE <<>>
           zeros  == IF zero THEN Rep("0", pad) ELSE <<>>
           after  == IF left THEN Rep(Blank, pad) ELSE <<>>
           more   == Rep("0", prec - Len(digits))
           tail   == zeros \o more \o digits \o after
           head   == blanks \o sign
<1>1. sign \in Text /\ digits \in Text /\ 1 <= Len(digits) /\ prefix \in Text /\ Len(prefix) <= 2
  BY SignIsText, DigitsAreText, PrefixIsText
<1>2. Len(digits) \in Nat /\ pad \in Int
  BY <1>1, LengthOf, PaddingIsInt
<1>3. blanks \in Text /\ zeros \in Text /\ after \in Text /\ more \in Text
  <2>1. Rep(Blank, pad) \in Text /\ Rep("0", pad) \in Text /\ more \in Text
    BY <1>2, RepIsText, OwnCharacters
  <2> QED
    BY <2>1, NoneIsText
<1>4. Number(p, Size, num, base, width, prec, flags, negative)
        = Write(WritePrefix(Write(p, Size, head), Size, prefix), Size, tail)
  BY DEF Number
<1>5. Number(q, Endless, num, base, width, prec, flags, negative)
        = Write(WritePrefix(Write(q, Endless, head), Endless, prefix), Endless, tail)
  BY DEF Number
<1> HIDE DEF sign, digits, prefix, pad, left, zero, blanks, zeros, after, more
<1>6. head \in Text
  BY <1>1, <1>3, Joined
<1>7. tail \in Text /\ 1 <= Len(tail)
  <2>1. /\ zeros \o more \in Text
        /\ Len(zeros \o more) \in Nat
    BY <1>3, Joined, LengthOf
  <2>2. /\ (zeros \o more) \o digits \in Text
        /\ Len((zeros \o more) \o digits) = Len(zeros \o more) + Len(digits)
    BY <1>1, <2>1, Joined
  <2>3. /\ ((zeros \o more) \o digits) \o after \in Text
        /\ Len(((zeros \o more) \o digits) \o after)
             = Len((zeros \o more) \o digits) + Len(after)
    BY <1>3, <2>2, Joined
  <2>4. Len(after) \in Nat
    BY <1>3, LengthOf
  <2> QED
    BY <1>1, <1>2, <2>1, <2>2, <2>3, <2>4
<1> HIDE DEF head, tail
<1>8. Agree(Write(p, Size, head), Write(q, Endless, head))
  BY <1>6, WriteAgrees
<1>9. Almost(WritePrefix(Write(p, Size, head), Size, prefix),
             WritePrefix(Write(q, Endless, head), Endless, prefix))
  BY <1>1, <1>8, WritePrefixAlmost
<1> QED
  BY <1>4, <1>5, <1>7, <1>9, WriteCloses

-----------------------------------------------------------------------------
(* The directives.                                                         *)

LEMMA PowersAre ==
    /\ 2 ^ LongBits \in Nat \ {0}
    /\ \A q : 2 ^ BitsOf(q) \in Nat \ {0}
<1>1. \A b \in {HalfBits, IntBits, LongBits} : 2 ^ b \in Nat \ {0}
  BY PrintfAssumption, WordAssumption
<1>2. \A q : BitsOf(q) \in {HalfBits, IntBits, LongBits}
  BY DEF BitsOf
<1> QED
  BY <1>1, <1>2

LEMMA FieldsAreNumbers ==
    ASSUME NEW d, IsDirective(d)
    PROVE  WidthOf(d) \in Int /\ PrecOf(d) \in Int
<1>1. d.width \in Seq(Int) /\ d.prec \in Seq(Int)
  BY DEF IsDirective
<1>2. \A s \in Seq(Int) : s # <<>> => s[1] \in Int
  BY EmptySeq, ElementOfSeq
<1>3. ASSUME d.prec # <<>> PROVE Max({d.prec[1], 0}) \in Int
  <2>1. PICK c \in Int : c = d.prec[1]
    BY <1>1, <1>2, <1>3
  <2>2. CASE c <= 0
    BY <2>1, <2>2, GreaterOf
  <2>3. CASE 0 <= c
    BY <2>1, <2>3, GreaterOf
  <2> QED
    BY <2>1, <2>2, <2>3
<1> QED
  BY <1>1, <1>2, <1>3 DEF WidthOf, PrecOf

LEMMA WordsAreNumbers ==
    ASSUME NEW d, IsDirective(d), d.conv \in {"d", "i", "u", "o", "x", "X", "p"}
    PROVE  d.arg \in Nat /\ Unsigned(d) \in Nat /\ Abs(Signed(d)) \in Nat
<1>1. PICK m \in Nat \ {0} : m = 2 ^ BitsOf(d.qualifier)
  BY PowersAre
<1>2. d.arg \in Nat
  <2>1. 2 ^ LongBits \in Nat
    BY PowersAre
  <2> QED
    BY <2>1 DEF IsDirective
<1>3. Unsigned(d) \in Nat
  <2>1. PICK q \in Int, r \in Int :
           d.arg = (q * m) + r /\ 0 <= r /\ r < m /\ d.arg % m = r
    <3>1. PICK a \in Int : a = d.arg
      BY <1>2
    <3> QED
      BY <3>1, DivMod
  <2> QED
    BY <1>1, <2>1 DEF Unsigned
<1>4. Signed(d) \in Int
  BY <1>1, <1>3 DEF Signed
<1>5. Abs(Signed(d)) \in Nat
  BY <1>4 DEF Abs
<1> QED
  BY <1>2, <1>3, <1>5

LEMMA StringIsText ==
    ASSUME NEW d, IsDirective(d), d.conv = "s"
    PROVE  StringOf(d) \in Text
<1>1. d.arg \in Seq(Seq(Characters))
  BY DEF IsDirective
<1>2. d.arg # <<>> => d.arg[1] \in Seq(Characters)
  BY <1>1, EmptySeq, ElementOfSeq
<1>3. \A s \in Seq(Characters) : s \in Text
  BY OwnCharacters, SeqMonotonic DEF Text
<1>4. PICK s \in Text : s = IF d.arg = <<>> THEN NullText ELSE d.arg[1]
  BY <1>2, <1>3, NullIsText
<1>5. ASSUME PrecOf(d) >= 0 PROVE SubSeq(s, 1, Min({Len(s), PrecOf(d)})) \in Text
  <2>1. PrecOf(d) \in Nat /\ Len(s) \in Nat
    BY <1>5, FieldsAreNumbers, LengthOf
  <2>2. PICK a \in Nat, b \in Nat : a = Len(s) /\ b = PrecOf(d)
    BY <2>1
  <2>3. PICK m \in Nat : m = Min({a, b}) /\ m <= a
    <3>1. CASE a <= b
      BY <3>1, LesserOf
    <3>2. CASE b <= a
      BY <3>2, LesserOf
    <3> QED
      BY <3>1, <3>2
  <2>4. SubSeq(s, 1, m) \in Text
    BY <2>2, <2>3, BeginningOf
  <2> QED
    BY <2>2, <2>3, <2>4
<1> QED
  BY <1>4, <1>5 DEF StringOf

LEMMA PaddedAgrees ==
    ASSUME NEW p, NEW q, Agree(p, q), NEW d, IsDirective(d), NEW t \in Text
    PROVE  Agree(Padded(p, Size, t, d), Padded(q, Endless, t, d))
<1>1. Rep(Blank, WidthOf(d) - Len(t)) \in Text
  BY FieldsAreNumbers, LengthOf, RepIsText, OwnCharacters
<1>2. PICK s \in Text :
         s = IF "LEFT" \in FlagsOf(d) THEN t \o Rep(Blank, WidthOf(d) - Len(t))
             ELSE Rep(Blank, WidthOf(d) - Len(t)) \o t
  BY <1>1, Joined
<1>3. Padded(p, Size, t, d) = Write(p, Size, s) /\ Padded(q, Endless, t, d) = Write(q, Endless, s)
  BY <1>2 DEF Padded
<1> QED
  BY <1>3, WriteAgrees

LEMMA ConvertedAgrees ==
    ASSUME NEW p, NEW q, Agree(p, q), NEW d, IsDirective(d)
    PROVE  Agree(Converted(p, Size, d), Converted(q, Endless, d))
<1>1. WidthOf(d) \in Int /\ PrecOf(d) \in Int /\ PtrWidth \in Int
  BY FieldsAreNumbers, PrintfAssumption
<1>2. CASE d.conv = "%"
  <2>1. <<"%">> \in Text
    BY OwnCharacters, OneIsText
  <2>2. Converted(p, Size, d) = Write(p, Size, <<"%">>)
        /\ Converted(q, Endless, d) = Write(q, Endless, <<"%">>)
    BY <1>2 DEF Converted
  <2> QED
    BY <2>1, <2>2, WriteAgrees
<1>3. CASE d.conv = "c"
  <2>1. <<d.arg>> \in Text
    BY <1>3, OwnCharacters, OneIsText DEF IsDirective
  <2>2. Converted(p, Size, d) = Padded(p, Size, <<d.arg>>, d)
        /\ Converted(q, Endless, d) = Padded(q, Endless, <<d.arg>>, d)
    BY <1>3 DEF Converted
  <2> QED
    BY <2>1, <2>2, PaddedAgrees
<1>4. CASE d.conv = "s"
  <2>1. Converted(p, Size, d) = Padded(p, Size, StringOf(d), d)
        /\ Converted(q, Endless, d) = Padded(q, Endless, StringOf(d), d)
    BY <1>4 DEF Converted
  <2> QED
    BY <1>4, <2>1, StringIsText, PaddedAgrees
<1>5. CASE d.conv = "n"
  BY <1>5 DEF Converted
<1>6. CASE d.conv \in {"d", "i"}
  <2>1. PICK f, g : f = FlagsOf(d) \cup {"SIGN"} /\ g = (Signed(d) < 0)
    OBVIOUS
  <2>2. Converted(p, Size, d) = Number(p, Size, Abs(Signed(d)), 10, WidthOf(d), PrecOf(d), f, g)
    BY <1>6, <2>1 DEF Converted
  <2>3. Converted(q, Endless, d)
          = Number(q, Endless, Abs(Signed(d)), 10, WidthOf(d), PrecOf(d), f, g)
    BY <1>6, <2>1 DEF Converted
  <2>4. Abs(Signed(d)) \in Nat /\ 10 \in {10, 16}
    BY <1>6, WordsAreNumbers
  <2> QED
    BY <1>1, <2>2, <2>3, <2>4, NumberAgrees
<1>7. CASE d.conv \in {"u", "o", "x", "X"}
  <2>1. PICK f : f = IF d.conv = "X" THEN FlagsOf(d) \ {"SMALL"} ELSE FlagsOf(d) \cup {"SMALL"}
    OBVIOUS
  <2>2. Converted(p, Size, d) = Number(p, Size, Unsigned(d), 16, WidthOf(d), PrecOf(d), f, FALSE)
    BY <1>7, <2>1 DEF Converted
  <2>3. Converted(q, Endless, d)
          = Number(q, Endless, Unsigned(d), 16, WidthOf(d), PrecOf(d), f, FALSE)
    BY <1>7, <2>1 DEF Converted
  <2>4. Unsigned(d) \in Nat /\ 16 \in {10, 16}
    BY <1>7, WordsAreNumbers
  <2> QED
    BY <1>1, <2>2, <2>3, <2>4, NumberAgrees
<1>8. CASE d.conv = "p"
  <2>1. PICK f : f = FlagsOf(d) \cup {"SPECIAL", "SMALL", "ZEROPAD"}
    OBVIOUS
  <2>2. Converted(p, Size, d) = Number(p, Size, d.arg, 16, PtrWidth, PrecOf(d), f, FALSE)
    BY <1>8, <2>1 DEF Converted
  <2>3. Converted(q, Endless, d) = Number(q, Endless, d.arg, 16, PtrWidth, PrecOf(d), f, FALSE)
    BY <1>8, <2>1 DEF Converted
  <2>4. d.arg \in Nat /\ 16 \in {10, 16}
    BY <1>8, WordsAreNumbers
  <2> QED
    BY <1>1, <2>2, <2>3, <2>4, NumberAgrees
<1>9. d.conv \in {"d", "i", "u", "o", "x", "X", "p", "c", "s", "n", "%"}
  BY DEF IsDirective
<1> QED
  BY <1>2, <1>3, <1>4, <1>5, <1>6, <1>7, <1>8, <1>9

-----------------------------------------------------------------------------
(* The loop.                                                               *)

PrintInv ==
    /\ Agree(str, full)
    /\ ret # Running => ret = Returned(Len(str)) /\ nul = Len(str)

LEMMA InitPrintInv == Init => PrintInv
BY NoneIsText, SameAgree, SizesAreNumbers DEF Init, PrintInv

LEMMA NextPrintInv == PrintInv /\ [Next]_vars => PrintInv'
<1> SUFFICES ASSUME PrintInv, [Next]_vars PROVE PrintInv'
  OBVIOUS
<1>1. /\ str \in Text /\ full \in Text /\ Len(str) <= Size /\ Len(str) \in Nat
      /\ Agree(str, full) /\ (ret # Running => ret = Returned(Len(str)) /\ nul = Len(str))
  BY LengthOf DEF PrintInv, Agree, Follows
<1>2. ASSUME NEW c \in Literals, PutLiteral(c) PROVE PrintInv'
  <2>1. c \in Chars
    BY DirectiveAssumption, OwnCharacters
  <2>2. Len(str) < Size /\ str = full
    BY <1>1, <1>2 DEF PutLiteral, More, Agree
  <2>3. Append(str, c) \in Text /\ Len(Append(str, c)) = Len(str) + 1
    BY <1>1, <2>1, AppendProperties DEF Text
  <2>4. Len(Append(str, c)) <= Size
    BY <1>1, <2>2, <2>3, SizesAreNumbers
  <2>5. Agree(Append(str, c), Append(str, c))
    BY <2>3, <2>4, SameAgree
  <2> QED
    BY <1>2, <2>2, <2>5 DEF PutLiteral, More, PrintInv
<1>3. ASSUME NEW d \in Directives, Convert(d) PROVE PrintInv'
  <2>1. Agree(Converted(str, Size, d), Converted(full, Endless, d))
    BY <1>1, ConvertedAgrees, DirectiveAssumption
  <2> QED
    BY <1>3, <2>1 DEF Convert, More, PrintInv
<1>4. CASE Finish
  BY <1>1, <1>4 DEF Finish, PrintInv
<1>5. CASE UNCHANGED vars
  BY <1>1, <1>5 DEF vars, PrintInv
<1> QED
  BY <1>2, <1>3, <1>4, <1>5 DEF Next

\* What is returned is the length, cut to leave room for the terminator.
LEMMA ReturnedIs ==
    ASSUME PrintInv, ret # Running
    PROVE  ret \in 0 .. Size - 1 /\ ret <= Len(str)
<1>1. Len(str) \in Nat /\ Len(str) <= Size
  BY LengthOf DEF PrintInv, Agree, Follows
<1> QED
  BY <1>1, SizesAreNumbers DEF PrintInv, Returned

(* However a format's pieces fall on the end of the buffer, no character leaves *)
(* it; the terminator is at the end of the whole text or right past the buffer, *)
(* where the code writes it whenever the text is as long as the buffer or       *)
(* longer (printk.c 408), and what is returned ends before the last byte.       *)
THEOREM TerminatorIsPlaced == Spec => []TerminatorPlaced
<1>1. PrintInv => TerminatorPlaced
  <2> SUFFICES ASSUME PrintInv PROVE TerminatorPlaced
    OBVIOUS
  <2>1. /\ Len(str) \in Nat /\ Len(full) \in Nat
        /\ Len(str) <= Size /\ Len(str) <= Len(full)
        /\ Len(str) < Size => Len(str) = Len(full)
    BY LengthOf DEF PrintInv, Agree, Follows
  <2>2. ASSUME ret # Running
        PROVE  /\ nul = Min({Len(full), Size})
               /\ ret = Min({Len(full), Size - 1})
    <3>1. nul = Len(str) /\ ret = IF Len(str) < Size THEN Len(str) ELSE Size - 1
      BY <2>2 DEF PrintInv, Returned
    <3>2. CASE Len(str) < Size
      BY <2>1, <3>1, <3>2, SizesAreNumbers, LesserOf
    <3>3. CASE ~(Len(str) < Size)
      BY <2>1, <3>1, <3>3, SizesAreNumbers, LesserOf
    <3> QED
      BY <3>2, <3>3
  <2> QED
    BY <2>1, <2>2 DEF TerminatorPlaced
<1> QED
  BY <1>1, InitPrintInv, NextPrintInv, PTL DEF Spec

(* What is drawn of a text that was cut is its beginning, for every size of the *)
(* buffer and all flags, widths and precisions: the only piece number leaves    *)
(* out, a prefix, is left out where the digits after it fill the buffer.        *)
THEOREM CutTextIsPrefix == Spec => []TruncatedIsPrefix
<1>1. PrintInv => TruncatedIsPrefix
  <2> SUFFICES ASSUME PrintInv, ret # Running
               PROVE  SubSeq(str, 1, ret) = SubSeq(full, 1, ret)
    BY DEF TruncatedIsPrefix
  <2>1. ret \in Nat /\ ret < Size /\ ret <= Len(str)
    BY ReturnedIs, SizesAreNumbers
  <2>2. str \in Text /\ full \in Text /\ Len(str) \in Nat /\ Len(full) \in Nat
    BY LengthOf DEF PrintInv, Agree, Follows
  <2>3. \A k \in 1 .. ret : k <= Len(full) /\ str[k] = full[k]
    <3> TAKE k \in 1 .. ret
    <3>1. k \in 1 .. Len(str) /\ k < Size
      BY <2>1, <2>2, SizesAreNumbers
    <3> QED
      BY <3>1 DEF PrintInv, Agree, Follows
  <2>4. ret <= Len(full)
    <3>1. CASE ret = 0
      BY <2>2, <3>1
    <3>2. CASE ret # 0
      <4>1. ret \in 1 .. ret
        BY <2>1, <3>2
      <4> QED
        BY <2>3, <4>1
    <3> QED
      BY <3>1, <3>2
  <2>5. PICK a \in Text : a = SubSeq(str, 1, ret) /\ Len(a) = ret /\ \A k \in 1 .. ret : a[k] = str[k]
    BY <2>1, <2>2, BeginningOf
  <2>6. PICK b \in Text : b = SubSeq(full, 1, ret) /\ Len(b) = ret /\ \A k \in 1 .. ret : b[k] = full[k]
    BY <2>1, <2>2, <2>4, BeginningOf
  <2>7. a = b
    BY <2>3, <2>5, <2>6, SeqEqual DEF Text
  <2> QED
    BY <2>5, <2>6, <2>7
<1> QED
  BY <1>1, InitPrintInv, NextPrintInv, PTL DEF Spec

-----------------------------------------------------------------------------
(* The whole text of a number, in a buffer without end.                    *)

LEMMA RepLength ==
    ASSUME NEW c, NEW n \in Int
    PROVE  /\ Len(Rep(c, n)) = IF n < 0 THEN 0 ELSE n
           /\ \A S : c \in S => Rep(c, n) \in Seq(S)
<1>1. \A S : c \in S => Rep(c, n) \in Seq(S)
  BY RepIsSeq DEF Rep
<1>2. CASE n >= 0
  BY <1>2, SMT DEF Rep
<1>3. CASE n < 0
  <2>1. 1 .. n = 1 .. 0
    BY <1>3
  <2>2. Len([k \in 1 .. 0 |-> c]) = 0
    BY SMT
  <2>3. Rep(c, n) = [k \in 1 .. 0 |-> c]
    BY <2>1 DEF Rep
  <2> QED
    BY <1>3, <2>2, <2>3
<1> QED
  BY <1>1, <1>2, <1>3

NonNeg(n) == IF n < 0 THEN 0 ELSE n

\* Everything fits: one piece is written after the other.
LEMMA ThreeWrites ==
    ASSUME NEW h \in Text, NEW x \in Text, NEW t \in Text, Len(x) <= 2,
           Len(h) + Len(x) + Len(t) < Endless, Len(t) >= 1
    PROVE  Write(WritePrefix(Write(<<>>, Endless, h), Endless, x), Endless, t) = (h \o x) \o t
<1>1. /\ Len(h) \in Nat /\ Len(x) \in Nat /\ Len(t) \in Nat /\ Endless \in Nat
      /\ <<>> \in Text /\ Len(<<>>) = 0
  BY LengthOf, NoneIsText, SizesAreNumbers
<1>2. Write(<<>>, Endless, h) = h
  <2>1. Len(<<>>) + Len(h) <= Endless
    BY <1>1
  <2>2. Write(<<>>, Endless, h) = <<>> \o h
    BY <1>1, <2>1, WriteFits
  <2> QED
    BY <2>2, ConcatEmptySeq DEF Text
<1>3. WritePrefix(h, Endless, x) = h \o x
  BY <1>1 DEF WritePrefix
<1>4. h \o x \in Text /\ Len(h \o x) = Len(h) + Len(x)
  BY Joined
<1>5. Len(h \o x) + Len(t) <= Endless
  BY <1>1, <1>4
<1>6. Write(h \o x, Endless, t) = (h \o x) \o t
  BY <1>1, <1>4, <1>5, WriteFits
<1> QED
  BY <1>2, <1>3, <1>6

LEMMA Regrouped ==
    ASSUME NEW x \in Text, NEW z \in Text, NEW d \in Text, NEW a \in Text
    PROVE  x \o ((z \o d) \o a) = ((x \o z) \o d) \o a
<1>1. z \o d \in Text /\ x \o z \in Text
  BY Joined
<1>0. \A p, q, r \in Text : (p \o q) \o r = p \o (q \o r)
  <2>1. \A p, q, r \in Seq(Chars) : (p \o q) \o r = p \o (q \o r)
    BY ConcatAssociative, SMTT(40)
  <2> QED
    BY <2>1, Zenon DEF Text
<1>2. x \o ((z \o d) \o a) = (x \o (z \o d)) \o a
  BY <1>0, <1>1, SMTT(40)
<1>3. x \o (z \o d) = (x \o z) \o d
  BY <1>0, SMTT(40)
<1> QED
  BY <1>2, <1>3

LEMMA JoinedOf ==
    ASSUME NEW S, NEW s \in Seq(S), NEW t \in Seq(S)
    PROVE  s \o t \in Seq(S) /\ Len(s \o t) = Len(s) + Len(t)
BY ConcatProperties

LEMMA NothingJoined ==
    ASSUME NEW S, NEW s \in Seq(S)
    PROVE  s \o <<>> = s /\ <<>> \o s = s
BY ConcatEmptySeq

LEMMA SignIs ==
    ASSUME NEW flags, NEW negative
    PROVE  /\ SignOf(flags, negative) \in Text /\ Len(SignOf(flags, negative)) <= 1
           /\ SignOf(flags, negative) \in {<<>>, <<"-">>, <<"+">>, <<Blank>>}
<1>1. SignOf(flags, negative) \in {<<>>, <<"-">>, <<"+">>, <<Blank>>}
  BY DEF SignOf
<1>2. \A s \in {<<>>, <<"-">>, <<"+">>, <<Blank>>} : Len(s) <= 1
  <2>1. Len(<<"-">>) = 1 /\ Len(<<"+">>) = 1 /\ Len(<<Blank>>) = 1 /\ Len(<<>>) = 0
    BY SMT
  <2> SUFFICES ASSUME NEW s \in {<<>>, <<"-">>, <<"+">>, <<Blank>>} PROVE Len(s) <= 1
    OBVIOUS
  <2>2. Len(s) = 0 \/ Len(s) = 1
    BY <2>1, Zenon
  <2>3. 0 <= 1 /\ 1 <= 1
    OBVIOUS
  <2> QED
    BY <2>2, <2>3, Zenon
<1> QED
  BY <1>1, <1>2, SignIsText

\* How a number is laid out: what of pad and more characters are blanks, which are
\* on one side only, and what zeros.
Layout(text, sign, prefix, digits, pad, more, left) ==
    \E front \in Seq({Blank}), zeros \in Seq({"0"}), after \in Seq({Blank}) :
        /\ text = ((((front \o sign) \o prefix) \o zeros) \o digits) \o after
        /\ Len(front) + Len(zeros) + Len(after) = pad + more
        /\ Len(zeros) >= more
        /\ left => front = <<>> /\ Len(zeros) = more
        /\ ~left => after = <<>>

\* In a buffer without end nothing is left out.
LEMMA NumberLayout ==
    ASSUME NEW num \in Nat, NEW base \in {10, 16}, NEW width \in Int, NEW prec \in Int,
           NEW flags, NEW negative, NonNeg(width) + NonNeg(prec) + num + 5 <= Endless,
           NEW sign, sign = SignOf(flags, negative),
           NEW prefix, prefix = PrefixOf(base, flags),
           NEW digits, digits = DigitsOf(num, base, flags)
    PROVE  Layout(Number(<<>>, Endless, num, base, width, prec, flags, negative), sign, prefix,
                  digits, NonNeg(Padding(width, prec, base, flags, sign, digits)),
                  NonNeg(prec - Len(digits)), "LEFT" \in flags)
<1> DEFINE pad    == Padding(width, prec, base, flags, sign, digits)
           left   == "LEFT" \in flags
           zero   == "ZEROPAD" \in flags /\ ~left
           blanks == IF ~left /\ ~zero THEN Rep(Blank, pad) ELSE <<>>
           wide   == IF zero THEN Rep("0", pad) ELSE <<>>
           after  == IF left THEN Rep(Blank, pad) ELSE <<>>
           more   == Rep("0", prec - Len(digits))
           tail   == wide \o more \o digits \o after
           head   == blanks \o sign
<1>1. /\ digits \in Seq(DigitChars) /\ digits \in Text
      /\ 1 <= Len(digits) /\ Len(digits) <= num + 1
  BY DigitsOfAre, PiecesAreText DEF DigitsFrom
<1>2. /\ sign \in Text /\ Len(sign) <= 1
      /\ prefix \in Text /\ Len(prefix) <= 2
  BY SignIs, PrefixIsText
<1>3. /\ Len(digits) \in Nat /\ Len(sign) \in Nat /\ Len(prefix) \in Nat /\ pad \in Int
      /\ Endless \in Nat
  BY <1>1, <1>2, LengthOf, PaddingIsInt, SizesAreNumbers
<1>4. NonNeg(pad) + NonNeg(prec - Len(digits)) <= NonNeg(width) + NonNeg(prec)
  <2>1. Max({prec, Len(digits)}) >= prec /\ Max({prec, Len(digits)}) \in Int
        /\ Max({prec, Len(digits)}) >= Len(digits)
        /\ Max({prec, Len(digits)}) \in {prec, Len(digits)}
    <3>1. PICK a \in Int, b \in Int : a = prec /\ b = Len(digits)
      BY <1>3
    <3>2. CASE a <= b
      BY <3>1, <3>2, GreaterOf
    <3>3. CASE b <= a
      BY <3>1, <3>3, GreaterOf
    <3> QED
      BY <3>2, <3>3
  <2>2. pad <= width - Max({prec, Len(digits)})
    BY <1>3, <2>1, SMTT(40) DEF Padding
  <2> QED
    BY <1>1, <1>3, <2>1, <2>2, SMTT(40) DEF NonNeg
<1>5. Number(<<>>, Endless, num, base, width, prec, flags, negative)
        = Write(WritePrefix(Write(<<>>, Endless, head), Endless, prefix), Endless, tail)
  BY DEF Number
<1>6. /\ more \in Seq({"0"}) /\ Len(more) = NonNeg(prec - Len(digits))
  BY <1>3, RepLength DEF NonNeg
<1>7. /\ Rep(Blank, pad) \in Seq({Blank}) /\ Rep("0", pad) \in Seq({"0"})
      /\ Len(Rep(Blank, pad)) = NonNeg(pad) /\ Len(Rep("0", pad)) = NonNeg(pad)
  BY <1>3, RepLength DEF NonNeg
<1>8. /\ <<>> \in Seq({Blank}) /\ <<>> \in Seq({"0"}) /\ Len(<<>>) = 0
  BY EmptySeq
<1>9. /\ blanks \in Seq({Blank}) /\ wide \in Seq({"0"}) /\ after \in Seq({Blank})
      /\ Len(blanks) + Len(wide) + Len(after) = NonNeg(pad)
      /\ NonNeg(pad) \in Nat /\ Len(blanks) \in Nat /\ Len(wide) \in Nat /\ Len(after) \in Nat
  <2>1. NonNeg(pad) \in Nat
    BY <1>3 DEF NonNeg
  <2> QED
    <3>1. CASE left
      BY <1>7, <1>8, <2>1, <3>1
    <3>2. CASE ~left /\ zero
      BY <1>7, <1>8, <2>1, <3>2
    <3>3. CASE ~left /\ ~zero
      BY <1>7, <1>8, <2>1, <3>3
    <3> QED
      BY <3>1, <3>2, <3>3
<1>10. /\ left => blanks = <<>> /\ wide = <<>>
       /\ ~left => after = <<>>
  OBVIOUS
<1> HIDE DEF pad, left, zero, blanks, wide, after, more
<1>11. PICK zeros : zeros = wide \o more
  OBVIOUS
<1>12. zeros \in Seq({"0"}) /\ Len(zeros) = Len(wide) + Len(more)
  BY <1>6, <1>9, <1>11, JoinedOf
<1>13. /\ blanks \in Text /\ zeros \in Text /\ after \in Text /\ head \in Text
       /\ zeros \o digits \in Text /\ tail \in Text
  BY <1>1, <1>2, <1>9, <1>11, <1>12, PiecesAreText, Joined
<1>14. Len(head) = Len(blanks) + Len(sign)
       /\ Len(tail) = Len(zeros) + Len(digits) + Len(after)
  <2>1. Len(head) = Len(blanks) + Len(sign)
    BY <1>2, <1>13, Joined
  <2>2. Len(zeros \o digits) = Len(zeros) + Len(digits)
    BY <1>1, <1>13, Joined
  <2>3. Len(tail) = Len(zeros \o digits) + Len(after)
    BY <1>11, <1>13, Joined
  <2> QED
    BY <2>1, <2>2, <2>3
<1>15. tail = (zeros \o digits) \o after
  BY <1>11
<1> HIDE DEF head, tail
<1>21. Len(blanks) + Len(zeros) + Len(after) = NonNeg(pad) + NonNeg(prec - Len(digits))
  <2>1. NonNeg(prec - Len(digits)) \in Nat
    BY <1>3 DEF NonNeg
  <2> QED
    BY <1>6, <1>9, <1>12, <2>1, SMTT(40)
<1>16. Len(head) + Len(prefix) + Len(tail) < Endless /\ Len(tail) >= 1
  <2>1. NonNeg(width) \in Nat /\ NonNeg(prec) \in Nat /\ NonNeg(prec - Len(digits)) \in Nat
    BY <1>3 DEF NonNeg
  <2>2. Len(zeros) \in Nat
    BY <1>13, LengthOf
  <2>3. Len(head) + Len(prefix) + Len(tail)
          = (Len(blanks) + Len(zeros) + Len(after)) + Len(sign) + Len(prefix) + Len(digits)
    BY <1>3, <1>9, <1>14, <2>2
  <2>4. PICK g \in Nat : g = Len(blanks) + Len(zeros) + Len(after)
                         /\ g <= NonNeg(width) + NonNeg(prec)
    BY <1>4, <1>9, <1>21, <2>1, <2>2
  <2>5. g + Len(sign) + Len(prefix) + Len(digits) < Endless
    <3>0. NonNeg(width) + NonNeg(prec) \in Nat
      BY <2>1
    <3>1. PICK s \in Nat, p \in Nat, d \in Nat, f \in Nat :
             s = Len(sign) /\ p = Len(prefix) /\ d = Len(digits) /\ f = NonNeg(width) + NonNeg(prec)
      BY <1>3, <3>0, Zenon
    <3>2. s <= 1 /\ p <= 2 /\ d <= num + 1 /\ f + num + 5 <= Endless /\ g <= f
      BY <1>1, <1>2, <2>4, <3>1
    <3>3. g + s + p + d < Endless
      BY <1>3, <3>2
    <3> QED
      BY <3>1, <3>3
  <2>6. Len(tail) >= 1
    BY <1>1, <1>3, <1>9, <1>14, <2>2
  <2> QED
    BY <2>3, <2>4, <2>5, <2>6
<1>17. Write(WritePrefix(Write(<<>>, Endless, head), Endless, prefix), Endless, tail)
         = (head \o prefix) \o tail
  <2>1. /\ head \in Text /\ prefix \in Text /\ tail \in Text /\ Len(prefix) <= 2
        /\ Len(head) + Len(prefix) + Len(tail) < Endless /\ Len(tail) >= 1
    BY <1>2, <1>13, <1>16
  <2> QED
    BY <2>1, ThreeWrites, Zenon
<1>18. (head \o prefix) \o tail = (((head \o prefix) \o zeros) \o digits) \o after
  <2>1. head \o prefix \in Text
    BY <1>2, <1>13, Joined
  <2> QED
    <3>1. PICK x \in Text, z \in Text, d \in Text, a \in Text :
             x = head \o prefix /\ z = zeros /\ d = digits /\ a = after
      BY <1>1, <1>13, <2>1, Zenon
    <3>2. x \o ((z \o d) \o a) = ((x \o z) \o d) \o a
      BY <3>1, Regrouped, SMTT(60)
    <3> QED
      BY <1>15, <3>1, <3>2, Zenon
<1>19. head = blanks \o sign
  BY DEF head
<1>20. Number(<<>>, Endless, num, base, width, prec, flags, negative)
         = ((((blanks \o sign) \o prefix) \o zeros) \o digits) \o after
  BY <1>5, <1>17, <1>18, <1>19
<1>22. left => blanks = <<>> /\ Len(zeros) = NonNeg(prec - Len(digits))
  <2>1. ASSUME left PROVE Len(wide) = 0
    BY <1>8, <1>10, <2>1
  <2>2. NonNeg(prec - Len(digits)) \in Nat
    BY <1>3 DEF NonNeg
  <2> QED
    BY <1>6, <1>10, <1>12, <2>1, <2>2
<1>24. Len(zeros) >= NonNeg(prec - Len(digits))
  <2>1. NonNeg(prec - Len(digits)) \in Nat
    BY <1>3 DEF NonNeg
  <2> QED
    BY <1>6, <1>9, <1>12, <2>1, SMTT(40)
<1>23. blanks \in Seq({Blank}) /\ zeros \in Seq({"0"}) /\ after \in Seq({Blank})
  BY <1>9, <1>12
<1> QED
  <2>1. Layout(Number(<<>>, Endless, num, base, width, prec, flags, negative), sign, prefix, digits,
               NonNeg(pad), NonNeg(prec - Len(digits)), left)
    BY <1>10, <1>20, <1>21, <1>22, <1>23, <1>24 DEF Layout
  <2> QED
    BY <2>1 DEF pad, left

-----------------------------------------------------------------------------
(* Fields.  A text, and the same without a field to fill.                  *)

LEMMA ZerosAreEqual ==
    ASSUME NEW c, NEW s \in Seq({c}), NEW t \in Seq({c}), Len(s) = Len(t)
    PROVE  s = t
<1>1. \A k \in 1 .. Len(s) : s[k] = t[k]
  <2> TAKE k \in 1 .. Len(s)
  <2>1. s[k] \in {c} /\ t[k] \in {c}
    BY ElementOfSeq
  <2> QED
    BY <2>1
<1> QED
  BY <1>1, SeqEqual

LEMMA EmptyOf ==
    ASSUME NEW S, NEW s \in Seq(S), Len(s) = 0
    PROVE  s = <<>>
BY EmptySeq

\* Sides to the left of which there is nothing are the beginning of the whole.
LEMMA BeginningJoined ==
    ASSUME NEW s \in Text, NEW t \in Text
    PROVE  SubSeq(s \o t, 1, Len(s)) = s
<1>1. s \o t \in Text /\ Len(s) \in Nat /\ Len(t) \in Nat /\ Len(s \o t) = Len(s) + Len(t)
      /\ \A k \in 1 .. Len(s) : (s \o t)[k] = s[k]
  BY LengthOf, Joined
<1>2. PICK b \in Text : /\ b = SubSeq(s \o t, 1, Len(s)) /\ Len(b) = Len(s)
                        /\ \A k \in 1 .. Len(s) : b[k] = (s \o t)[k]
  <2>1. Len(s) <= Len(s \o t)
    BY <1>1
  <2> QED
    BY <1>1, <2>1, BeginningOf
<1>3. b = s
  BY <1>1, <1>2, SeqEqual DEF Text
<1> QED
  BY <1>2, <1>3

LEMMA PiecesLength ==
    ASSUME NEW f \in Text, NEW s \in Text, NEW z \in Text, NEW d \in Text, NEW a \in Text
    PROVE  /\ (((f \o s) \o z) \o d) \in Text
           /\ ((((f \o s) \o z) \o d) \o a) \in Text
           /\ Len((((f \o s) \o z) \o d)) = Len(f) + Len(s) + Len(z) + Len(d)
           /\ Len((((f \o s) \o z) \o d) \o a) = Len(f) + Len(s) + Len(z) + Len(d) + Len(a)
<1>1. f \o s \in Text /\ Len(f \o s) = Len(f) + Len(s)
  BY Joined
<1>2. (f \o s) \o z \in Text /\ Len((f \o s) \o z) = Len(f \o s) + Len(z)
  BY <1>1, Joined
<1>3. ((f \o s) \o z) \o d \in Text /\ Len(((f \o s) \o z) \o d) = Len((f \o s) \o z) + Len(d)
  BY <1>2, Joined
<1>4. (((f \o s) \o z) \o d) \o a \in Text
      /\ Len((((f \o s) \o z) \o d) \o a) = Len(((f \o s) \o z) \o d) + Len(a)
  BY <1>3, Joined
<1>5. Len(f) \in Nat /\ Len(s) \in Nat /\ Len(z) \in Nat /\ Len(d) \in Nat /\ Len(a) \in Nat
  BY LengthOf
<1> QED
  BY <1>1, <1>2, <1>3, <1>4, <1>5

\* text fills a field of width; bare is without one.
FillsField(text, bare, width, left) ==
    /\ Len(text) = Max({width, Len(bare)})
    /\ left => SubSeq(text, 1, Len(bare)) = bare

\* Without a prefix: how long it is, and where the blanks are.
LEMMA PlainLayout ==
    ASSUME NEW text, NEW sign \in Text, NEW digits \in Text, NEW pad \in Nat, NEW more \in Nat,
           NEW left, Layout(text, sign, <<>>, digits, pad, more, left),
           NEW short, NEW other, Layout(short, sign, <<>>, digits, 0, more, other)
    PROVE  /\ Len(text) = pad + more + Len(sign) + Len(digits)
           /\ Len(short) = more + Len(sign) + Len(digits)
           /\ left => SubSeq(text, 1, Len(short)) = short
<1>1. PICK front \in Seq({Blank}), zeros \in Seq({"0"}), after \in Seq({Blank}) :
        /\ text = ((((front \o sign) \o <<>>) \o zeros) \o digits) \o after
        /\ Len(front) + Len(zeros) + Len(after) = pad + more
        /\ Len(zeros) >= more
        /\ left => front = <<>> /\ Len(zeros) = more
  BY DEF Layout
<1>2. PICK front2 \in Seq({Blank}), zeros2 \in Seq({"0"}), after2 \in Seq({Blank}) :
        /\ short = ((((front2 \o sign) \o <<>>) \o zeros2) \o digits) \o after2
        /\ Len(front2) + Len(zeros2) + Len(after2) = 0 + more
        /\ Len(zeros2) >= more
  BY DEF Layout
<1>3. /\ front \in Text /\ zeros \in Text /\ after \in Text
      /\ front2 \in Text /\ zeros2 \in Text /\ after2 \in Text
  BY PiecesAreText
<1>4. /\ Len(front) \in Nat /\ Len(zeros) \in Nat /\ Len(after) \in Nat
      /\ Len(front2) \in Nat /\ Len(zeros2) \in Nat /\ Len(after2) \in Nat
      /\ Len(sign) \in Nat /\ Len(digits) \in Nat
  BY <1>3, LengthOf
<1>5. Len(front2) = 0 /\ Len(after2) = 0 /\ Len(zeros2) = more
  BY <1>2, <1>4
<1>6. front2 = <<>> /\ after2 = <<>>
  BY <1>5, EmptyOf
<1>7. \A x, y \in Text : (x \o y) \o <<>> = x \o y /\ <<>> \o x = x /\ x \o <<>> = x
  BY Joined, ConcatEmptySeq DEF Text
<1>8. text = (((front \o sign) \o zeros) \o digits) \o after
  BY <1>1, <1>3, <1>7, Zenon
<1>9. short = (sign \o zeros2) \o digits
  <2>1. short = ((((<<>> \o sign) \o <<>>) \o zeros2) \o digits) \o <<>>
    BY <1>2, <1>6
  <2>2. (<<>> \o sign) \o <<>> = sign
    <3>1. <<>> \o sign = sign /\ sign \o <<>> = sign
      BY <1>7
    <3> QED
      BY <3>1
  <2>3. sign \o zeros2 \in Text
    BY <1>3, Joined
  <2>4. ((sign \o zeros2) \o digits) \o <<>> = (sign \o zeros2) \o digits
    BY <1>7, <2>3
  <2> QED
    BY <2>1, <2>2, <2>4
<1>10. Len(text) = Len(front) + Len(sign) + Len(zeros) + Len(digits) + Len(after)
  BY <1>3, <1>8, PiecesLength
<1>11. Len(text) = pad + more + Len(sign) + Len(digits)
  <2>1. PICK a \in Nat, b \in Nat, c \in Nat, d \in Nat, e \in Nat :
           /\ a = Len(front) /\ b = Len(zeros) /\ c = Len(after)
           /\ d = Len(sign) /\ e = Len(digits)
    BY <1>4, Zenon
  <2>2. a + b + c = pad + more /\ Len(text) = a + d + b + e + c
    BY <1>1, <1>10, <2>1, Zenon
  <2>3. Len(text) = pad + more + d + e
    BY <2>2
  <2> QED
    BY <2>1, <2>3, Zenon
<1>12. short \in Text /\ Len(short) = more + Len(sign) + Len(digits)
  <2>1. sign \o zeros2 \in Text /\ Len(sign \o zeros2) = Len(sign) + Len(zeros2)
    BY <1>3, Joined
  <2>2. short \in Text /\ Len(short) = Len(sign \o zeros2) + Len(digits)
    BY <1>9, <2>1, Joined
  <2> QED
    BY <1>4, <1>5, <2>1, <2>2
<1>13. ASSUME left PROVE SubSeq(text, 1, Len(short)) = short
  <2>1. front = <<>> /\ zeros = zeros2
    BY <1>1, <1>5, <1>13, ZerosAreEqual
  <2>2. <<>> \o sign = sign
    BY <1>7
  <2>3. text = short \o after
    BY <1>8, <1>9, <2>1, <2>2
  <2> QED
    BY <1>3, <1>12, <2>3, BeginningJoined
<1> QED
  BY <1>11, <1>12, <1>13

\* The same flags but for the side a field is padded on.
SameButSide(f, g) == \A x : x # "LEFT" => (x \in f <=> x \in g)

LEMMA NumberField ==
    ASSUME NEW num \in Nat, NEW base \in {10, 16}, NEW width \in Int, NEW prec \in Int,
           NEW negative, NEW f, NEW g, SameButSide(f, g), "SPECIAL" \notin f,
           NonNeg(width) + NonNeg(prec) + num + 5 <= Endless,
           NEW text, text = Number(<<>>, Endless, num, base, width, prec, f, negative),
           NEW bare, bare = Number(<<>>, Endless, num, base, -1, prec, g, negative)
    PROVE  FillsField(text, bare, width, "LEFT" \in f)
<1>1. PICK sign \in Text : sign = SignOf(f, negative) /\ sign = SignOf(g, negative)
  <2>1. SignOf(f, negative) = SignOf(g, negative)
    BY DEF SignOf, SameButSide
  <2> QED
    BY <2>1, SignIs
<1>2. PICK digits \in Text : digits = DigitsOf(num, base, f) /\ digits = DigitsOf(num, base, g)
                             /\ 1 <= Len(digits)
  <2>1. "SMALL" \in f <=> "SMALL" \in g
    BY DEF SameButSide
  <2>2. DigitsOf(num, base, f) = DigitsOf(num, base, g)
    BY <2>1, DigitsAreListed
  <2> QED
    BY <2>2, DigitsAreText
<1>3. PrefixOf(base, f) = <<>> /\ PrefixOf(base, g) = <<>> /\ "SPECIAL" \notin g
  BY DEF PrefixOf, SameButSide
<1>4. PICK s \in Nat, n \in Nat, w \in Int, p \in Int :
         s = Len(sign) /\ n = Len(digits) /\ w = width /\ p = prec
  BY LengthOf, Zenon
<1>5. PICK core \in Nat : core = Max({prec, Len(digits)}) /\ core >= n /\ NonNeg(p - n) = core - n
  <2>1. PICK c \in Nat : c = Max({p, n}) /\ c >= n /\ NonNeg(p - n) = c - n
    <3>1. CASE p <= n
      BY <3>1, GreaterOf DEF NonNeg
    <3>2. CASE n <= p
      BY <3>2, GreaterOf DEF NonNeg
    <3>3. p <= n \/ n <= p
      OBVIOUS
    <3> QED
      BY <3>1, <3>2, <3>3, Zenon
  <2> QED
    BY <1>4, <2>1, Zenon
<1>6. /\ Padding(w, prec, base, f, sign, digits) = w - s - core
      /\ Padding(-1, prec, base, g, sign, digits) = -1 - s - core
  BY <1>3, <1>4, <1>5, NoneIsText, SMTT(40) DEF Padding
<1>7. PICK pad \in Nat, more \in Nat : pad = NonNeg(w - s - core) /\ more = core - n
  BY <1>5 DEF NonNeg
<1>8. NonNeg(-1 - s - core) = 0
  BY <1>5 DEF NonNeg
<1>9. Layout(text, sign, <<>>, digits, pad, more, "LEFT" \in f)
  <2>1. Layout(text, sign, PrefixOf(base, f), digits,
               NonNeg(Padding(width, prec, base, f, sign, digits)), NonNeg(prec - Len(digits)),
               "LEFT" \in f)
    BY <1>1, <1>2, NumberLayout
  <2> QED
    BY <1>3, <1>4, <1>5, <1>6, <1>7, <2>1
<1>10. Layout(bare, sign, <<>>, digits, 0, more, "LEFT" \in g)
  <2>1. NonNeg(-1) + NonNeg(prec) + num + 5 <= Endless
    <3>1. PICK a \in Nat, b \in Nat, c \in Nat :
             a = NonNeg(width) /\ b = NonNeg(prec) /\ c = NonNeg(-1) /\ c <= a
      BY DEF NonNeg
    <3>2. a + b + num + 5 <= Endless /\ c <= a
      BY <3>1, Zenon
    <3>3. c + b + num + 5 <= Endless
      BY <3>2, SizesAreNumbers
    <3> QED
      BY <3>1, <3>3, Zenon
  <2>2. Layout(bare, sign, PrefixOf(base, g), digits,
               NonNeg(Padding(-1, prec, base, g, sign, digits)), NonNeg(prec - Len(digits)),
               "LEFT" \in g)
    <3>1. -1 \in Int
      OBVIOUS
    <3> QED
      BY <1>1, <1>2, <2>1, <3>1, NumberLayout
  <2> QED
    BY <1>3, <1>4, <1>5, <1>6, <1>7, <1>8, <2>2
<1>11. /\ Len(text) = pad + more + s + n
       /\ Len(bare) = more + s + n
       /\ "LEFT" \in f => SubSeq(text, 1, Len(bare)) = bare
  <2>1. /\ Len(text) = pad + more + Len(sign) + Len(digits)
        /\ Len(bare) = more + Len(sign) + Len(digits)
        /\ "LEFT" \in f => SubSeq(text, 1, Len(bare)) = bare
    <3>1. PICK l, o : l = ("LEFT" \in f) /\ o = ("LEFT" \in g)
      OBVIOUS
    <3>2. Layout(text, sign, <<>>, digits, pad, more, l) /\ Layout(bare, sign, <<>>, digits, 0, more, o)
      BY <1>9, <1>10, <3>1
    <3>3. /\ Len(text) = pad + more + Len(sign) + Len(digits)
          /\ Len(bare) = more + Len(sign) + Len(digits)
          /\ l => SubSeq(text, 1, Len(bare)) = bare
      BY <3>2, PlainLayout, SMTT(40)
    <3> QED
      BY <3>1, <3>3
  <2> QED
    BY <1>4, <2>1, Zenon
<1>12. Len(text) = Max({width, Len(bare)})
  <2>1. more = core - n /\ core >= n /\ pad = NonNeg(w - s - core)
    BY <1>5, <1>7, Zenon
  <2>2. PICK b \in Nat, t \in Nat : b = more + s + n /\ t = pad + more + s + n
    OBVIOUS
  <2>3. b = s + core /\ t = NonNeg(w - b) + b
    BY <2>1, <2>2 DEF NonNeg
  <2>4. t = Max({w, b})
    <3>1. CASE w <= b
      BY <2>3, <3>1, GreaterOf DEF NonNeg
    <3>2. CASE b <= w
      BY <2>3, <3>2, GreaterOf DEF NonNeg
    <3> QED
      BY <3>1, <3>2
  <2> QED
    BY <1>4, <1>11, <2>2, <2>4, Zenon
<1> QED
  BY <1>11, <1>12 DEF FillsField

LEMMA PaddedField ==
    ASSUME NEW d, IsDirective(d), NEW e, IsDirective(e), WidthOf(e) = -1, NEW t \in Text,
           NonNeg(WidthOf(d)) + Len(t) <= Endless, Len(t) <= Endless,
           NEW text, text = Padded(<<>>, Endless, t, d),
           NEW bare, bare = Padded(<<>>, Endless, t, e)
    PROVE  FillsField(text, bare, WidthOf(d), "LEFT" \in FlagsOf(d))
<1>1. PICK w \in Int, n \in Nat : w = WidthOf(d) /\ n = Len(t)
  BY FieldsAreNumbers, LengthOf, Zenon
<1>2. PICK pad \in Seq({Blank}) : pad = Rep(Blank, w - n) /\ Len(pad) = NonNeg(w - n)
  <2>1. w - n \in Int
    OBVIOUS
  <2> QED
    BY <2>1, RepLength DEF NonNeg
<1>3. pad \in Text
  BY PiecesAreText
<1>4. PICK m \in Nat : m = NonNeg(w - n) /\ m + n <= Endless
  <2>1. NonNeg(w) + n <= Endless /\ n <= Endless
    BY <1>1, Zenon
  <2>2. NonNeg(w - n) \in Nat /\ NonNeg(w - n) + n <= Endless
    BY <2>1, SizesAreNumbers DEF NonNeg
  <2> QED
    BY <2>2
<1>5. \A x \in Text : Len(x) <= Endless => Write(<<>>, Endless, x) = x
  <2> SUFFICES ASSUME NEW x \in Text, Len(x) <= Endless PROVE Write(<<>>, Endless, x) = x
    OBVIOUS
  <2>1. Len(<<>>) + Len(x) <= Endless
    BY NoneIsText, LengthOf
  <2>2. Write(<<>>, Endless, x) = <<>> \o x
    BY <2>1, NoneIsText, SizesAreNumbers, WriteFits
  <2> QED
    BY <2>2, ConcatEmptySeq DEF Text
<1>6. /\ t \o pad \in Text /\ Len(t \o pad) = n + m
      /\ pad \o t \in Text /\ Len(pad \o t) = m + n
  BY <1>1, <1>2, <1>3, <1>4, Joined, SMTT(40)
<1>7. text = IF "LEFT" \in FlagsOf(d) THEN t \o pad ELSE pad \o t
  <2>1. Len(t \o pad) <= Endless /\ Len(pad \o t) <= Endless
    BY <1>4, <1>6
  <2>2. Write(<<>>, Endless, t \o pad) = t \o pad /\ Write(<<>>, Endless, pad \o t) = pad \o t
    BY <1>5, <1>6, <2>1
  <2> QED
    BY <1>1, <1>2, <2>2 DEF Padded
<1>8. bare = t
  <2>1. Rep(Blank, -1 - Len(t)) = <<>>
    <3>1. -1 - n \in Int /\ -1 - n < 0
      OBVIOUS
    <3>2. Rep(Blank, -1 - n) \in Seq({Blank}) /\ Len(Rep(Blank, -1 - n)) = 0
      BY <3>1, RepLength
    <3> QED
      BY <1>1, <3>2, EmptyOf
  <2>2. t \o <<>> = t /\ <<>> \o t = t
    BY ConcatEmptySeq DEF Text
  <2>3. bare = Write(<<>>, Endless, t)
    BY <2>1, <2>2 DEF Padded
  <2> QED
    BY <1>5, <2>3
<1>9. Len(text) = n + m
  <2>1. n + m = m + n
    OBVIOUS
  <2> QED
    BY <1>6, <1>7, <2>1
<1>10. Len(text) = Max({w, n})
  <2>1. n + m = Max({w, n})
    <3>1. CASE w <= n
      BY <1>4, <3>1, GreaterOf DEF NonNeg
    <3>2. CASE n <= w
      BY <1>4, <3>2, GreaterOf DEF NonNeg
    <3> QED
      BY <3>1, <3>2
  <2> QED
    BY <1>9, <2>1, Zenon
<1> QED
  BY <1>1, <1>3, <1>7, <1>8, <1>10, BeginningJoined DEF FillsField

\* What a number is printed of is no larger than the argument.
LEMMA WordsAreBounded ==
    ASSUME NEW d, IsDirective(d), d.conv \in {"d", "i", "u", "o", "x", "X", "p"}
    PROVE  /\ d.arg < 2 ^ LongBits
           /\ Unsigned(d) <= d.arg /\ Abs(Signed(d)) <= d.arg
<1>1. PICK m \in Nat \ {0} : m = 2 ^ BitsOf(d.qualifier)
  BY PowersAre
<1>2. PICK a \in Nat : a = d.arg /\ a < 2 ^ LongBits
  <2>1. 2 ^ LongBits \in Nat
    BY PowersAre
  <2> QED
    BY <2>1 DEF IsDirective
<1>3. PICK q \in Int, r \in Int : a = (q * m) + r /\ 0 <= r /\ r < m /\ a % m = r
  BY DivMod
<1>4. r <= a
  <2>1. CASE q >= 0
    <3>1. q * m >= 0
      BY <2>1
    <3> QED
      BY <1>3, <3>1
  <2>2. CASE q <= -1
    <3>1. q * m <= -m
      BY <2>2
    <3> QED
      BY <1>3, <3>1
  <2> QED
    BY <2>1, <2>2
<1>5. Unsigned(d) = r
  BY <1>1, <1>2, <1>3 DEF Unsigned
<1>6. Abs(Signed(d)) <= a
  <2>1. Signed(d) = IF 2 * r < m THEN r ELSE r - m
    BY <1>1, <1>5 DEF Signed
  <2> QED
    BY <1>3, <1>4, <2>1 DEF Abs
<1> QED
  BY <1>2, <1>4, <1>5, <1>6

\* A directive without its field.
Bare(d) == [d EXCEPT !.width = <<>>]

LEMMA BareIs ==
    ASSUME NEW d, IsDirective(d)
    PROVE  /\ IsDirective(Bare(d)) /\ WidthOf(Bare(d)) = -1
           /\ PrecOf(Bare(d)) = PrecOf(d) /\ FlagsOf(Bare(d)) = d.flags
           /\ Bare(d).conv = d.conv /\ Bare(d).arg = d.arg
           /\ StringOf(Bare(d)) = StringOf(d) /\ Unsigned(Bare(d)) = Unsigned(d)
           /\ Signed(Bare(d)) = Signed(d)
<1>1. DOMAIN d = {"flags", "width", "prec", "conv", "qualifier", "arg"}
  BY DEF IsDirective
<1>2. PICK b : b = Bare(d)
  OBVIOUS
<1>3. /\ b.width = <<>> /\ b.flags = d.flags /\ b.prec = d.prec /\ b.conv = d.conv
      /\ b.qualifier = d.qualifier /\ b.arg = d.arg /\ DOMAIN b = DOMAIN d
  BY <1>1, <1>2 DEF Bare
<1>4. IsDirective(b)
  <2>1. <<>> \in Seq(Int)
    BY EmptySeq
  <2> QED
    BY <1>3, <2>1 DEF IsDirective
<1>5. PrecOf(b) = PrecOf(d) /\ Unsigned(b) = Unsigned(d)
  BY <1>3 DEF PrecOf, Unsigned
<1>6. Signed(b) = Signed(d) /\ StringOf(b) = StringOf(d)
  BY <1>3, <1>5 DEF Signed, StringOf
<1>7. WidthOf(b) = -1 /\ FlagsOf(b) = d.flags
  BY <1>3 DEF WidthOf, FlagsOf
<1> QED
  BY <1>2, <1>3, <1>4, <1>5, <1>6, <1>7

(* In the buffer without end there is room.                                  *)

LEMMA Room ==
    ASSUME NEW d \in Directives
    PROVE  /\ d.conv = "s" => /\ NonNeg(WidthOf(d)) + Len(StringOf(d)) <= Endless
                              /\ Len(StringOf(d)) <= Endless
           /\ NonNeg(WidthOf(d)) + 1 <= Endless /\ 1 <= Endless
<1>1. IsDirective(d)
  BY DirectiveAssumption
<1>2. PICK w \in Int, p \in Int, f \in Nat, m \in Nat :
         w = WidthOf(d) /\ p = PrecOf(d) /\ f = PtrWidth /\ m = 2 ^ LongBits
  BY <1>1, FieldsAreNumbers, PowersAre, PrintfAssumption
<1>3. Abs(w) + f + Abs(p) + m + 4 <= Endless
  BY <1>2, EndlessAssumption
<1>4. NonNeg(w) <= Abs(w) /\ Abs(w) \in Nat /\ Abs(p) \in Nat /\ NonNeg(w) \in Nat
  BY DEF NonNeg, Abs
<1>5. ASSUME d.conv = "s" PROVE /\ NonNeg(WidthOf(d)) + Len(StringOf(d)) <= Endless
                                /\ Len(StringOf(d)) <= Endless
  <2>1. PICK n \in Nat : n = Len(StringOf(d))
    BY <1>1, <1>5, StringIsText, LengthOf
  <2>2. Abs(w) + n <= Endless
    BY <1>2, <1>5, <2>1, EndlessAssumption
  <2>3. NonNeg(w) + n <= Endless /\ n <= Endless
    BY <1>4, <2>2, SizesAreNumbers
  <2> QED
    BY <1>2, <2>1, <2>3, Zenon
<1>6. NonNeg(WidthOf(d)) + 1 <= Endless /\ 1 <= Endless
  <2>1. NonNeg(w) + 1 <= Endless /\ 1 <= Endless
    BY <1>3, <1>4, SizesAreNumbers
  <2> QED
    BY <1>2, <2>1, Zenon
<1> QED
  BY <1>5, <1>6

\* Room for a number, in a field or in that of a pointer.
LEMMA RoomForNumber ==
    ASSUME NEW d \in Directives, d.conv \in {"d", "i", "u", "o", "x", "X", "p"},
           NEW n \in Nat, n <= d.arg
    PROVE  /\ NonNeg(WidthOf(d)) + NonNeg(PrecOf(d)) + n + 5 <= Endless
           /\ NonNeg(PtrWidth) + NonNeg(PrecOf(d)) + n + 5 <= Endless
<1>1. IsDirective(d)
  BY DirectiveAssumption
<1>2. PICK w \in Int, p \in Int, f \in Nat, m \in Nat :
         w = WidthOf(d) /\ p = PrecOf(d) /\ f = PtrWidth /\ m = 2 ^ LongBits
  BY <1>1, FieldsAreNumbers, PowersAre, PrintfAssumption
<1>3. Abs(w) + f + Abs(p) + m + 4 <= Endless
  BY <1>2, EndlessAssumption
<1>4. /\ NonNeg(w) <= Abs(w) /\ NonNeg(p) <= Abs(p) /\ Abs(w) \in Nat /\ Abs(p) \in Nat
      /\ NonNeg(w) \in Nat /\ NonNeg(p) \in Nat /\ NonNeg(f) = f
  BY DEF NonNeg, Abs
<1>5. n < m
  <2>1. PICK a \in Nat : a = d.arg /\ a < m
    BY <1>1, <1>2, WordsAreNumbers, WordsAreBounded
  <2> QED
    BY <2>1
<1>6. /\ NonNeg(w) + NonNeg(p) + n + 5 <= Endless
      /\ NonNeg(f) + NonNeg(p) + n + 5 <= Endless
  BY <1>3, <1>4, <1>5, SizesAreNumbers
<1> QED
  BY <1>2, <1>6, Zenon

Fills(d) == FillsField(TextOf(d), TextOf(Bare(d)), WidthOf(d), "LEFT" \in FlagsOf(d))

LEMMA DirectiveFills ==
    ASSUME NEW d \in Directives, d.conv \notin {"%", "n", "p"}, "SPECIAL" \notin d.flags
    PROVE  Fills(d)
<1>1. /\ IsDirective(d) /\ WidthOf(d) \in Int /\ PrecOf(d) \in Int
      /\ d.conv \in {"d", "i", "u", "o", "x", "X", "c", "s"}
  BY DirectiveAssumption, FieldsAreNumbers DEF IsDirective
<1>2. PICK b : /\ b = Bare(d) /\ IsDirective(b) /\ WidthOf(b) = -1 /\ PrecOf(b) = PrecOf(d)
               /\ FlagsOf(b) = d.flags /\ b.conv = d.conv /\ b.arg = d.arg
               /\ StringOf(b) = StringOf(d) /\ Unsigned(b) = Unsigned(d) /\ Signed(b) = Signed(d)
  BY <1>1, BareIs
<1>3. PICK text, bare : text = TextOf(d) /\ bare = TextOf(b)
  OBVIOUS
<1>4. SameButSide(FlagsOf(d), d.flags)
  BY DEF SameButSide, FlagsOf
<1>5. SUFFICES FillsField(text, bare, WidthOf(d), "LEFT" \in FlagsOf(d))
  BY <1>2, <1>3, Zenon DEF Fills
<1>6. CASE d.conv = "c"
  <2>1. <<d.arg>> \in Text /\ Len(<<d.arg>>) = 1
    BY <1>1, <1>6, OwnCharacters, OneIsText DEF IsDirective
  <2>2. /\ text = Padded(<<>>, Endless, <<d.arg>>, d)
        /\ bare = Padded(<<>>, Endless, <<d.arg>>, b)
    BY <1>2, <1>3, <1>6 DEF TextOf, Converted
  <2>3. NonNeg(WidthOf(d)) + Len(<<d.arg>>) <= Endless /\ Len(<<d.arg>>) <= Endless
    BY <2>1, Room, Zenon
  <2>4. PICK t \in Text : t = <<d.arg>>
    BY <2>1
  <2>5. /\ text = Padded(<<>>, Endless, t, d) /\ bare = Padded(<<>>, Endless, t, b)
        /\ NonNeg(WidthOf(d)) + Len(t) <= Endless /\ Len(t) <= Endless
        /\ IsDirective(d) /\ IsDirective(b) /\ WidthOf(b) = -1 /\ t \in Text
    BY <1>1, <1>2, <2>2, <2>3, <2>4, Zenon
  <2> QED
    BY <2>5, PaddedField, Zenon
<1>7. CASE d.conv = "s"
  <2>1. StringOf(d) \in Text
    BY <1>1, <1>7, StringIsText
  <2>2. /\ text = Padded(<<>>, Endless, StringOf(d), d)
        /\ bare = Padded(<<>>, Endless, StringOf(d), b)
    BY <1>2, <1>3, <1>7 DEF TextOf, Converted
  <2>3. NonNeg(WidthOf(d)) + Len(StringOf(d)) <= Endless /\ Len(StringOf(d)) <= Endless
    BY <1>7, Room
  <2> QED
    BY <1>1, <1>2, <2>1, <2>2, <2>3, PaddedField
<1>8. ASSUME NEW base \in {10, 16}, NEW num \in Nat, num <= d.arg,
             d.conv \in {"d", "i", "u", "o", "x", "X"}, NEW negative,
             NEW f, NEW g, SameButSide(f, g), "SPECIAL" \notin f,
             "LEFT" \in FlagsOf(d) => "LEFT" \in f,
             text = Number(<<>>, Endless, num, base, WidthOf(d), PrecOf(d), f, negative),
             bare = Number(<<>>, Endless, num, base, -1, PrecOf(d), g, negative)
      PROVE  FillsField(text, bare, WidthOf(d), "LEFT" \in FlagsOf(d))
  <2>1. NonNeg(WidthOf(d)) + NonNeg(PrecOf(d)) + num + 5 <= Endless
    <3>1. d.conv \in {"d", "i", "u", "o", "x", "X", "p"}
      BY <1>8
    <3> QED
      BY <1>8, <3>1, RoomForNumber
  <2>2. PICK w \in Int, p \in Int : w = WidthOf(d) /\ p = PrecOf(d)
    BY <1>1
  <2>3. FillsField(text, bare, w, "LEFT" \in f)
    <3>1. /\ text = Number(<<>>, Endless, num, base, w, p, f, negative)
          /\ bare = Number(<<>>, Endless, num, base, -1, p, g, negative)
          /\ NonNeg(w) + NonNeg(p) + num + 5 <= Endless
      BY <1>8, <2>1, <2>2, Zenon
    <3>2. /\ SameButSide(f, g) /\ "SPECIAL" \notin f
          /\ num \in Nat /\ base \in {10, 16} /\ w \in Int /\ p \in Int
      BY <1>8
    <3> QED
      BY <3>1, <3>2, NumberField, Zenon
  <2> QED
    BY <1>8, <2>2, <2>3, Zenon DEF FillsField
<1>9. CASE d.conv \in {"d", "i"}
  <2>1. Abs(Signed(d)) \in Nat /\ Abs(Signed(d)) <= d.arg
    BY <1>1, <1>9, WordsAreNumbers, WordsAreBounded
  <2>2. PICK f, g, n : f = FlagsOf(d) \cup {"SIGN"} /\ g = d.flags \cup {"SIGN"} /\ n = (Signed(d) < 0)
    OBVIOUS
  <2>3. /\ text = Number(<<>>, Endless, Abs(Signed(d)), 10, WidthOf(d), PrecOf(d), f, n)
        /\ bare = Number(<<>>, Endless, Abs(Signed(d)), 10, -1, PrecOf(d), g, n)
    BY <1>2, <1>3, <1>9, <2>2 DEF TextOf, Converted
  <2>4. SameButSide(f, g) /\ "SPECIAL" \notin f /\ ("LEFT" \in FlagsOf(d) => "LEFT" \in f)
    BY <1>4, <2>2 DEF SameButSide
  <2> QED
    BY <1>8, <1>9, <2>1, <2>3, <2>4
<1>10. CASE d.conv \in {"u", "o", "x", "X"}
  <2>1. Unsigned(d) \in Nat /\ Unsigned(d) <= d.arg
    BY <1>1, <1>10, WordsAreNumbers, WordsAreBounded
  <2>2. PICK f, g : /\ f = IF d.conv = "X" THEN FlagsOf(d) \ {"SMALL"} ELSE FlagsOf(d) \cup {"SMALL"}
                    /\ g = IF d.conv = "X" THEN d.flags \ {"SMALL"} ELSE d.flags \cup {"SMALL"}
    OBVIOUS
  <2>3. /\ text = Number(<<>>, Endless, Unsigned(d), 16, WidthOf(d), PrecOf(d), f, FALSE)
        /\ bare = Number(<<>>, Endless, Unsigned(d), 16, -1, PrecOf(d), g, FALSE)
    BY <1>2, <1>3, <1>10, <2>2 DEF TextOf, Converted
  <2>4. SameButSide(f, g) /\ "SPECIAL" \notin f /\ ("LEFT" \in FlagsOf(d) => "LEFT" \in f)
    BY <1>4, <2>2 DEF SameButSide
  <2> QED
    BY <1>8, <1>10, <2>1, <2>3, <2>4
<1> QED
  BY <1>1, <1>6, <1>7, <1>9, <1>10

\* The directive handled last is one of the format's.
LEMMA LastIsDirective == Spec => [](last \in Directives \cup {Literal})
<1>1. Init => last \in Directives \cup {Literal}
  BY DEF Init
<1>2. last \in Directives \cup {Literal} /\ [Next]_vars => (last \in Directives \cup {Literal})'
  BY DEF Next, PutLiteral, Convert, Finish, vars
<1> QED
  BY <1>1, <1>2, PTL DEF Spec

(* A field is filled and not exceeded but by a text that is longer, and what is *)
(* padded on the right begins with the whole text, for all flags, widths and    *)
(* precisions: the arithmetic of padding, zeros and digits in number.           *)
THEOREM FieldsAreFilled == Spec => []FieldsFilled
<1>1. last \in Directives \cup {Literal} => FieldsFilled
  <2> SUFFICES ASSUME last \in Directives \cup {Literal},
                      last.conv \notin {"literal", "%", "n", "p"}, "SPECIAL" \notin last.flags
               PROVE  /\ Len(TextOf(last)) = Max({WidthOf(last), Len(TextOf(Bare(last)))})
                      /\ "LEFT" \in last.flags \/ (last.width # <<>> /\ last.width[1] < 0)
                           => SubSeq(TextOf(last), 1, Len(TextOf(Bare(last)))) = TextOf(Bare(last))
    BY DEF FieldsFilled, Bare
  <2>1. last \in Directives
    BY DEF Literal
  <2>2. Fills(last)
    BY <2>1, DirectiveFills
  <2>3. "LEFT" \in last.flags \/ (last.width # <<>> /\ last.width[1] < 0) => "LEFT" \in FlagsOf(last)
    BY DEF FlagsOf
  <2> QED
    BY <2>2, <2>3 DEF Fills, FillsField
<1> QED
  BY <1>1, LastIsDirective, PTL

-----------------------------------------------------------------------------
(* Reading a number back.  V gives the value of every beginning of a text. *)

LEMMA DigitsDiffer ==
    /\ \A j, k \in 0 .. 15 : SmallDigits[k + 1] = SmallDigits[j + 1] => j = k
    /\ \A j, k \in 0 .. 15 : LargeDigits[k + 1] = LargeDigits[j + 1] => j = k
    /\ \A j, k \in 0 .. 15 : SmallDigits[k + 1] = LargeDigits[j + 1] => j = k
<1>1. \A j, k \in 0 .. 15 : SmallDigits[k + 1] = SmallDigits[j + 1] => j = k
  BY SMT DEF SmallDigits
<1>2. \A j, k \in 0 .. 15 : LargeDigits[k + 1] = LargeDigits[j + 1] => j = k
  BY SMT DEF LargeDigits
<1>3. \A j, k \in 0 .. 15 : SmallDigits[k + 1] = LargeDigits[j + 1] => j = k
  BY SMT DEF SmallDigits, LargeDigits
<1> QED
  BY <1>1, <1>2, <1>3

LEMMA DigitValues ==
    ASSUME NEW set \in {SmallDigits, LargeDigits}, NEW r \in 0 .. 15
    PROVE  IsDigit(set[r + 1]) /\ DigitValue(set[r + 1]) = r
<1>1. PICK c : c = set[r + 1]
  OBVIOUS
<1>2. SmallDigits[r + 1] = c \/ LargeDigits[r + 1] = c
  BY <1>1
<1>3. \A k \in 0 .. 15 : SmallDigits[k + 1] = c \/ LargeDigits[k + 1] = c => k = r
  BY <1>2, DigitsDiffer
<1>4. DigitValue(c) = r
  BY <1>2, <1>3 DEF DigitValue
<1>5. IsDigit(c)
  <2>1. r + 1 \in 1 .. 16
    OBVIOUS
  <2> QED
    BY <1>2, <2>1 DEF IsDigit
<1> QED
  BY <1>1, <1>4, <1>5

\* What a number has outside its digits adds nothing to its value.
Silent(c) == ~IsDigit(c) \/ c = "0"

LEMMA SignsAreSilent ==
    /\ \A c \in {Blank, "-", "+", "x", "X"} : ~IsDigit(c)
    /\ DigitValue("0") = 0
<1>1. /\ \A k \in 1 .. 16 : SmallDigits[k] # Blank
      /\ \A k \in 1 .. 16 : /\ SmallDigits[k] # "-" /\ SmallDigits[k] # "+"
                             /\ SmallDigits[k] # "x" /\ SmallDigits[k] # "X"
  <2>1. \A k \in 1 .. 16 : SmallDigits[k] \in
              {"0", "1", "2", "3", "4", "5", "6", "7", "8", "9", "a", "b", "c", "d", "e", "f"}
    BY SMT DEF SmallDigits
  <2>2. Blank \notin {"0", "1", "2", "3", "4", "5", "6", "7", "8", "9", "a", "b", "c", "d", "e", "f"}
    BY Zenon DEF Blank
  <2>3. \A k \in 1 .. 16 : /\ SmallDigits[k] # "-" /\ SmallDigits[k] # "+"
                           /\ SmallDigits[k] # "x" /\ SmallDigits[k] # "X"
    BY SMT DEF SmallDigits
  <2> QED
    BY <2>1, <2>2, <2>3, Zenon
<1>2. /\ \A k \in 1 .. 16 : LargeDigits[k] # Blank
      /\ \A k \in 1 .. 16 : /\ LargeDigits[k] # "-" /\ LargeDigits[k] # "+"
                             /\ LargeDigits[k] # "x" /\ LargeDigits[k] # "X"
  <2>1. \A k \in 1 .. 16 : LargeDigits[k] \in
              {"0", "1", "2", "3", "4", "5", "6", "7", "8", "9", "A", "B", "C", "D", "E", "F"}
    BY SMT DEF LargeDigits
  <2>2. Blank \notin {"0", "1", "2", "3", "4", "5", "6", "7", "8", "9", "A", "B", "C", "D", "E", "F"}
    BY Zenon DEF Blank
  <2>3. \A k \in 1 .. 16 : /\ LargeDigits[k] # "-" /\ LargeDigits[k] # "+"
                           /\ LargeDigits[k] # "x" /\ LargeDigits[k] # "X"
    BY SMT DEF LargeDigits
  <2> QED
    BY <2>1, <2>2, <2>3, Zenon
<1>3. SmallDigits[1] = "0"
  BY DEF SmallDigits
<1>4. DigitValue(SmallDigits[0 + 1]) = 0
  BY DigitValues
<1>5. \A c \in {Blank, "-", "+", "x", "X"} : \A k \in 1 .. 16 : c \notin {SmallDigits[k], LargeDigits[k]}
  BY <1>1, <1>2, Zenon
<1> QED
  BY <1>3, <1>4, <1>5 DEF IsDigit

ReadStep(text, base, V, k) ==
    IF k = 0 THEN 0
    ELSE IF IsDigit(text[k]) THEN V[k - 1] * base + DigitValue(text[k]) ELSE V[k - 1]

ReadsUpTo(text, base, n, V) == V = [k \in 0 .. n |-> ReadStep(text, base, V, k)]

LEMMA ReaderExists ==
    ASSUME NEW text, NEW base, NEW len \in Nat
    PROVE  \E V : ReadsUpTo(text, base, len, V)
<1> DEFINE T == {n \in Nat : ~\E V : ReadsUpTo(text, base, n, V)}
<1>1. ASSUME NEW n \in T, \A m \in T : ~(m < n) PROVE FALSE
  <2>1. n \in Nat /\ ~\E V : ReadsUpTo(text, base, n, V)
    OBVIOUS
  <2>2. PICK V : n > 0 => ReadsUpTo(text, base, n - 1, V)
    <3>1. CASE n > 0
      <4>1. n - 1 \in Nat /\ n - 1 < n
        BY <2>1, <3>1
      <4> QED
        BY <1>1, <4>1
    <3> QED
      BY <3>1
  <2> DEFINE W == [k \in 0 .. n |-> IF k < n THEN V[k] ELSE ReadStep(text, base, V, k)]
  <2>3. ASSUME NEW k \in 0 .. n PROVE ReadStep(text, base, W, k) = ReadStep(text, base, V, k)
    <3>1. CASE k = 0
      BY <3>1 DEF ReadStep
    <3>2. CASE k # 0
      <4>1. W[k - 1] = V[k - 1]
        BY <2>1, <3>2
      <4> HIDE DEF W
      <4> QED
        BY <4>1, <3>2 DEF ReadStep
    <3> QED
      BY <3>1, <3>2
  <2>4. ASSUME NEW k \in 0 .. n PROVE W[k] = ReadStep(text, base, V, k)
    <3>1. CASE k < n
      <4>1. k \in 0 .. n - 1 /\ n > 0
        BY <2>1, <3>1
      <4>2. V[k] = ReadStep(text, base, V, k)
        BY <2>2, <4>1, Zenon DEF ReadsUpTo
      <4> QED
        BY <3>1, <4>2
    <3>2. CASE k = n
      BY <2>1, <3>2
    <3> QED
      BY <2>1, <3>1, <3>2
  <2>5. W = [k \in 0 .. n |-> W[k]]
    OBVIOUS
  <2>6. W = [k \in 0 .. n |-> ReadStep(text, base, W, k)]
    <3> HIDE DEF W
    <3> QED
      BY <2>3, <2>4, <2>5, Zenon
  <2>7. ReadsUpTo(text, base, n, W)
    BY <2>6 DEF ReadsUpTo
  <2> QED
    BY <2>1, <2>7
<1>2. T = {}
  <2>1. T \in SUBSET Nat
    OBVIOUS
  <2> QED
    BY <1>1, <2>1, NoLeast
<1> QED
  BY <1>2

LEMMA ValueIsRead ==
    ASSUME NEW text \in Text, NEW base
    PROVE  \E V : /\ ReadsUpTo(text, base, Len(text), V)
                  /\ ValueOf(text, base) = IF \E k \in 1 .. Len(text) : text[k] = "-"
                                           THEN -V[Len(text)] ELSE V[Len(text)]
<1>1. PICK V : V = CHOOSE W : ReadsUpTo(text, base, Len(text), W)
  OBVIOUS
<1>2. ReadsUpTo(text, base, Len(text), V)
  BY <1>1, LengthOf, ReaderExists
<1>3. ValueOf(text, base) = IF \E k \in 1 .. Len(text) : text[k] = "-"
                            THEN -V[Len(text)] ELSE V[Len(text)]
  BY <1>1 DEF ValueOf, ReadsUpTo, ReadStep
<1> QED
  BY <1>2, <1>3

\* s stands in text from position at + 1.
Stands(text, at, s) ==
    /\ at \in Nat /\ at + Len(s) <= Len(text)
    /\ \A j \in 1 .. Len(s) : text[at + j] = s[j]

\* The n characters after position at leave the value as it is.
Silence(text, V, at, n) ==
    \/ V[at] = 0 /\ \A j \in 1 .. n : Silent(text[at + j])
    \/ \A j \in 1 .. n : ~IsDigit(text[at + j])

LEMMA SilentKeeps ==
    ASSUME NEW text \in Text, NEW base \in {10, 16}, NEW V, ReadsUpTo(text, base, Len(text), V),
           NEW at \in Nat, NEW n \in Nat, at + n <= Len(text),
           Silence(text, V, at, n)
    PROVE  V[at + n] = V[at]
<1> DEFINE T == {j \in 0 .. n : V[at + j] # V[at]}
<1>1. ASSUME NEW j \in T, \A m \in T : ~(m < j) PROVE FALSE
  <2>1. j \in 0 .. n /\ V[at + j] # V[at]
    OBVIOUS
  <2>2. j # 0
    BY <2>1
  <2>3. j - 1 \in 0 .. n /\ j - 1 < j /\ j \in 1 .. n
    BY <2>1, <2>2
  <2>4. V[at + (j - 1)] = V[at]
    BY <1>1, <2>3
  <2>5. PICK k \in Nat : k = at + j /\ k - 1 = at + (j - 1) /\ k # 0 /\ k \in 0 .. Len(text)
    BY <2>3, LengthOf
  <2>6. V[k] = ReadStep(text, base, V, k)
    BY <2>5, Zenon DEF ReadsUpTo
  <2>7. CASE ~IsDigit(text[k])
    BY <2>1, <2>4, <2>5, <2>6, <2>7 DEF ReadStep
  <2>8. CASE V[at] = 0 /\ text[k] = "0"
    <3>1. V[k] = V[k - 1] * base + 0 \/ V[k] = V[k - 1]
      BY <2>5, <2>6, <2>8, SignsAreSilent DEF ReadStep
    <3>2. V[k - 1] = 0
      BY <2>4, <2>5, <2>8
    <3>3. V[k] = 0
      BY <3>1, <3>2
    <3> QED
      BY <2>1, <2>5, <2>8, <3>3
  <2> QED
    BY <2>3, <2>5, <2>7, <2>8 DEF Silent, Silence
<1>2. T = {}
  <2>1. T \in SUBSET Nat
    OBVIOUS
  <2> QED
    BY <1>1, <2>1, NoLeast
<1>3. n \in 0 .. n
  OBVIOUS
<1> QED
  BY <1>2, <1>3

\* The digits of n, after nothing but zeros, are read as n.
LEMMA DigitsRead ==
    ASSUME NEW text \in Text, NEW base \in {10, 16}, NEW V, ReadsUpTo(text, base, Len(text), V),
           NEW set \in {SmallDigits, LargeDigits}, NEW num \in Nat, NEW D, Lists(set, base, num, D),
           NEW at \in Nat, V[at] = 0
    PROVE  \A n \in 0 .. num : Stands(text, at, D[n]) => V[at + Len(D[n])] = n
<1> DEFINE T == {n \in 0 .. num : ~(Stands(text, at, D[n]) => V[at + Len(D[n])] = n)}
<1>0. \A n \in 0 .. num : D[n] \in Seq(DigitChars) /\ 1 <= Len(D[n])
  BY SetsAreDigits, ListedLengths
<1>1. ASSUME NEW n \in T, \A m \in T : ~(m < n) PROVE FALSE
  <2>1. n \in 0 .. num /\ Stands(text, at, D[n]) /\ V[at + Len(D[n])] # n
    OBVIOUS
  <2>2. D[n] = DigitStep(set, base, D, n)
    BY <2>1, Zenon DEF Lists
  <2>3. CASE n < base
    <3>1. n \in 0 .. 15
      BY <2>1, <2>3
    <3>2. PICK c : c = set[n + 1] /\ IsDigit(c) /\ DigitValue(c) = n
      BY <3>1, DigitValues
    <3>3. D[n] = <<c>> /\ Len(<<c>>) = 1 /\ <<c>>[1] = c
      BY <2>2, <2>3, <3>2 DEF DigitStep
    <3>4. PICK k \in Nat : k = at + 1 /\ k - 1 = at /\ k # 0 /\ k \in 0 .. Len(text) /\ text[k] = c
      BY <2>1, <3>3, LengthOf DEF Stands
    <3>5. V[k] = V[at] * base + n
      <4>1. V[k] = ReadStep(text, base, V, k)
        BY <3>4, Zenon DEF ReadsUpTo
      <4> QED
        BY <3>2, <3>4, <4>1 DEF ReadStep
    <3>6. V[k] = n
      BY <3>1, <3>5
    <3> QED
      BY <2>1, <3>3, <3>4, <3>6
  <2>4. CASE n >= base
    <3>1. PICK q \in Nat, r \in Nat : /\ q = n \div base /\ r = n % base /\ n = (q * base) + r
                                      /\ q < n /\ r < base
      <4>1. n \div base \in Nat /\ n \div base < n /\ n % base \in 0 .. base - 1
        BY <2>1, <2>4, Divided
      <4>2. n = ((n \div base) * base) + (n % base)
        BY <2>1, SMT
      <4> QED
        BY <4>1, <4>2
    <3>2. PICK c : c = set[r + 1] /\ IsDigit(c) /\ DigitValue(c) = r
      <4>1. r \in 0 .. 15
        BY <3>1
      <4> QED
        BY <4>1, DigitValues
    <3>3. D[n] = Append(D[q], c)
      <4>1. ~(n < base)
        BY <2>1, <2>4
      <4>2. D[n] = Append(D[n \div base], set[(n % base) + 1])
        BY <2>2, <4>1, Zenon DEF DigitStep
      <4> QED
        BY <3>1, <3>2, <4>2, Zenon
    <3>4. q \in 0 .. num /\ D[q] \in Seq(DigitChars)
      BY <1>0, <2>1, <3>1
    <3>5. PICK l \in Nat : l = Len(D[q]) /\ Len(D[n]) = l + 1 /\ D[n][l + 1] = c
                           /\ \A j \in 1 .. l : D[n][j] = D[q][j]
      <4>1. c \in DigitChars
        <5>1. r + 1 \in 1 .. 16
          BY <3>1
        <5> QED
          BY <3>2, <5>1, SetsAreDigits
      <4>2. /\ Len(Append(D[q], c)) = Len(D[q]) + 1 /\ Len(D[q]) \in Nat
            /\ \A j \in 1 .. Len(D[q]) : Append(D[q], c)[j] = D[q][j]
            /\ Append(D[q], c)[Len(D[q]) + 1] = c
        BY <3>4, <4>1, AppendProperties
      <4> QED
        BY <3>3, <4>2, SMTT(40)
    <3>6. Stands(text, at, D[q])
      BY <2>1, <3>5, LengthOf, SMTT(40) DEF Stands
    <3>7. V[at + l] = q
      BY <1>1, <3>1, <3>4, <3>5, <3>6
    <3>8. PICK k \in Nat : /\ k = at + (l + 1) /\ k - 1 = at + l /\ k # 0
                           /\ k \in 0 .. Len(text) /\ text[k] = c
      <4>1. l + 1 \in 1 .. Len(D[n]) /\ at + (l + 1) <= Len(text) /\ Len(text) \in Nat
        BY <2>1, <3>5, LengthOf DEF Stands
      <4>2. text[at + (l + 1)] = c
        BY <2>1, <3>5, <4>1, Zenon DEF Stands
      <4>3. PICK k \in Nat : k = at + (l + 1)
        OBVIOUS
      <4>4. k - 1 = at + l /\ k # 0 /\ k \in 0 .. Len(text)
        BY <4>1, <4>3
      <4> QED
        BY <4>2, <4>3, <4>4
    <3>9. V[k] = V[k - 1] * base + r
      <4>1. V[k] = ReadStep(text, base, V, k)
        BY <3>8, Zenon DEF ReadsUpTo
      <4> QED
        BY <3>2, <3>8, <4>1 DEF ReadStep
    <3>10. V[k] = n
      BY <3>1, <3>7, <3>8, <3>9
    <3> QED
      BY <2>1, <3>5, <3>8, <3>10
  <2> QED
    BY <2>1, <2>3, <2>4
<1>2. T = {}
  <2>1. T \in SUBSET Nat
    OBVIOUS
  <2> QED
    BY <1>1, <2>1, NoLeast
<1> QED
  BY <1>2

LEMMA StandsFirst ==
    ASSUME NEW s \in Text, NEW t \in Text
    PROVE  Stands(s \o t, 0, s) /\ Stands(s \o t, Len(s), t)
<1>1. PICK m \in Nat, n \in Nat, u \in Text : /\ m = Len(s) /\ n = Len(t) /\ u = s \o t /\ Len(u) = m + n
                                /\ \A i \in 1 .. m + n : u[i] = IF i <= m THEN s[i] ELSE t[i - m]
  <2>1. Len(s) \in Nat /\ Len(t) \in Nat
    BY LengthOf
  <2>2. /\ s \o t \in Text /\ Len(s \o t) = Len(s) + Len(t)
        /\ \A i \in 1 .. Len(s) + Len(t) : (s \o t)[i] = IF i <= Len(s) THEN s[i] ELSE t[i - Len(s)]
    BY ConcatProperties DEF Text
  <2> QED
    BY <2>1, <2>2
<1>2. \A j \in 1 .. m : u[0 + j] = s[j]
  <2> TAKE j \in 1 .. m
  <2>1. j \in 1 .. m + n /\ j <= m /\ 0 + j = j
    OBVIOUS
  <2> QED
    BY <1>1, <2>1
<1>3. \A j \in 1 .. n : u[m + j] = t[j]
  <2> TAKE j \in 1 .. n
  <2>1. m + j \in 1 .. m + n /\ ~(m + j <= m) /\ (m + j) - m = j
    OBVIOUS
  <2>2. u[m + j] = t[(m + j) - m]
    BY <1>1, <2>1
  <2> QED
    BY <2>1, <2>2
<1>4. 0 + m <= m + n /\ m + n <= m + n
  OBVIOUS
<1> QED
  BY <1>1, <1>2, <1>3, <1>4 DEF Stands

LEMMA StandsWider ==
    ASSUME NEW x \in Text, NEW y \in Text, NEW at, NEW s \in Text, Stands(x, at, s)
    PROVE  Stands(x \o y, at, s)
<1>1. PICK m \in Nat, n \in Nat, l \in Nat, u \in Text :
         /\ m = Len(x) /\ n = Len(y) /\ l = Len(s) /\ u = x \o y /\ Len(u) = m + n
         /\ \A i \in 1 .. m : u[i] = x[i]
  <2>1. Len(x) \in Nat /\ Len(y) \in Nat /\ Len(s) \in Nat
    BY LengthOf
  <2>2. /\ x \o y \in Text /\ Len(x \o y) = Len(x) + Len(y)
        /\ \A i \in 1 .. Len(x) : (x \o y)[i] = x[i]
    BY Joined
  <2> QED
    BY <2>1, <2>2, Zenon
<1>2. PICK a \in Nat : a = at /\ a + l <= m /\ \A j \in 1 .. l : x[a + j] = s[j]
  BY <1>1 DEF Stands
<1>3. \A j \in 1 .. l : u[a + j] = s[j]
  <2> TAKE j \in 1 .. l
  <2>1. a + l <= m
    BY <1>2
  <2>2. a + j \in 1 .. m
    BY <2>1
  <2> QED
    BY <1>1, <1>2, <2>2
<1>4. a + l <= m + n
  <2>1. a + l <= m
    BY <1>2
  <2> QED
    BY <2>1
<1> QED
  BY <1>1, <1>2, <1>3, <1>4 DEF Stands

Row(a, b, c, d, e, g) == ((((a \o b) \o c) \o d) \o e) \o g

\* Where the pieces of a number stand.
InRow(text, a, b, c, d, e, g) ==
    /\ text \in Text
    /\ Len(text) = ((((Len(a) + Len(b)) + Len(c)) + Len(d)) + Len(e)) + Len(g)
    /\ Stands(text, 0, a) /\ Stands(text, Len(a), b)
    /\ Stands(text, Len(a) + Len(b), c)
    /\ Stands(text, (Len(a) + Len(b)) + Len(c), d)
    /\ Stands(text, ((Len(a) + Len(b)) + Len(c)) + Len(d), e)
    /\ Stands(text, (((Len(a) + Len(b)) + Len(c)) + Len(d)) + Len(e), g)

LEMMA PiecesStand ==
    ASSUME NEW a \in Text, NEW b \in Text, NEW c \in Text, NEW d \in Text, NEW e \in Text,
           NEW g \in Text
    PROVE  InRow(Row(a, b, c, d, e, g), a, b, c, d, e, g)
<1>1. PICK t1 \in Text : t1 = a \o b /\ Len(t1) = Len(a) + Len(b)
                         /\ Stands(t1, 0, a) /\ Stands(t1, Len(a), b)
  BY Joined, StandsFirst
<1>2. PICK t2 \in Text : t2 = t1 \o c /\ Len(t2) = Len(t1) + Len(c)
                         /\ Stands(t2, 0, a) /\ Stands(t2, Len(a), b) /\ Stands(t2, Len(t1), c)
  BY <1>1, Joined, StandsFirst, StandsWider
<1>3. PICK t3 \in Text : t3 = t2 \o d /\ Len(t3) = Len(t2) + Len(d)
                         /\ Stands(t3, 0, a) /\ Stands(t3, Len(a), b) /\ Stands(t3, Len(t1), c)
                         /\ Stands(t3, Len(t2), d)
  BY <1>2, Joined, StandsFirst, StandsWider
<1>4. PICK t4 \in Text : t4 = t3 \o e /\ Len(t4) = Len(t3) + Len(e)
                         /\ Stands(t4, 0, a) /\ Stands(t4, Len(a), b) /\ Stands(t4, Len(t1), c)
                         /\ Stands(t4, Len(t2), d) /\ Stands(t4, Len(t3), e)
  BY <1>3, Joined, StandsFirst, StandsWider
<1>5. PICK t5 \in Text : t5 = t4 \o g /\ Len(t5) = Len(t4) + Len(g)
                         /\ Stands(t5, 0, a) /\ Stands(t5, Len(a), b) /\ Stands(t5, Len(t1), c)
                         /\ Stands(t5, Len(t2), d) /\ Stands(t5, Len(t3), e) /\ Stands(t5, Len(t4), g)
  BY <1>4, Joined, StandsFirst, StandsWider
<1> QED
  BY <1>1, <1>2, <1>3, <1>4, <1>5, Zenon DEF Row, InRow

\* text is a number: blanks up to f, a sign of s characters, blanks after position e, and
\* what stands between are the n digits from h on, and silent characters before them.
Shape(text, sign, digits, f, s, h, e) ==
    /\ f \in Nat /\ s \in Nat /\ h \in Nat /\ e \in Nat
    /\ s = Len(sign) /\ f + s <= h /\ h + Len(digits) = e /\ e <= Len(text)
    /\ Stands(text, h, digits) /\ Stands(text, f, sign)
    /\ \A k \in 1 .. f : text[k] = Blank
    /\ \A k \in (f + s + 1) .. h : text[k] \in {"0", "x", "X"}
    /\ \A k \in (e + 1) .. Len(text) : text[k] = Blank

LEMMA PrefixIs ==
    ASSUME NEW base, NEW flags
    PROVE  \A k \in 1 .. Len(PrefixOf(base, flags)) : PrefixOf(base, flags)[k] \in {"0", "x", "X"}
<1>1. PICK c : c = (IF "SMALL" \in flags THEN "x" ELSE "X") /\ c \in {"x", "X"}
  OBVIOUS
<1>2. PrefixOf(base, flags) = <<>> \/ PrefixOf(base, flags) = <<"0", c>>
  BY <1>1 DEF PrefixOf
<1>3. \A k \in 1 .. Len(<<"0", c>>) : <<"0", c>>[k] \in {"0", "x", "X"}
  <2>1. /\ Len(<<"0", c>>) = 2
        /\ <<"0", c>>[1] = "0" /\ <<"0", c>>[2] = c
    BY SMT
  <2>2. \A k \in 1 .. 2 : k = 1 \/ k = 2
    OBVIOUS
  <2> QED
    BY <1>1, <2>1, <2>2
<1>4. 1 .. Len(<<>>) = {}
  BY NoneIsText
<1> QED
  BY <1>2, <1>3, <1>4

LEMMA NumberShape ==
    ASSUME NEW sign \in Text, NEW digits \in Text, NEW text, NEW prefix \in Text,
           \A k \in 1 .. Len(prefix) : prefix[k] \in {"0", "x", "X"},
           NEW pad, NEW more, NEW left, Layout(text, sign, prefix, digits, pad, more, left)
    PROVE  /\ text \in Text
           /\ \E f, s, h, e : Shape(text, sign, digits, f, s, h, e)
<1>1. PICK front \in Seq({Blank}), zeros \in Seq({"0"}), after \in Seq({Blank}) :
        text = Row(front, sign, prefix, zeros, digits, after)
  BY DEF Layout, Row
<1>2. front \in Text /\ zeros \in Text /\ after \in Text
  BY PiecesAreText
<1>3. PICK f \in Nat, s \in Nat, p \in Nat, z \in Nat, n \in Nat, b \in Nat, l \in Nat :
         /\ f = Len(front) /\ s = Len(sign) /\ p = Len(prefix) /\ z = Len(zeros)
         /\ n = Len(digits) /\ b = Len(after) /\ l = ((((f + s) + p) + z) + n) + b
  <2>1. \A i, j \in Nat : i + j \in Nat
    OBVIOUS
  <2> QED
    BY <1>2, <2>1, LengthOf, Zenon
<1>4. /\ text \in Text /\ Len(text) = l
      /\ Stands(text, 0, front) /\ Stands(text, f, sign) /\ Stands(text, f + s, prefix)
      /\ Stands(text, (f + s) + p, zeros) /\ Stands(text, ((f + s) + p) + z, digits)
      /\ Stands(text, (((f + s) + p) + z) + n, after)
  <2>1. InRow(Row(front, sign, prefix, zeros, digits, after), front, sign, prefix, zeros, digits, after)
    BY <1>2, PiecesStand
  <2> QED
    BY <1>1, <1>3, <2>1, Zenon DEF InRow
<1>5. PICK h \in Nat, e \in Nat : h = ((f + s) + p) + z /\ e = h + n
  OBVIOUS
<1>6. /\ \A j \in 1 .. f : front[j] = Blank
      /\ \A j \in 1 .. z : zeros[j] = "0"
      /\ \A j \in 1 .. b : after[j] = Blank
  <2>1. \A c : \A q \in Seq({c}) : \A j \in 1 .. Len(q) : q[j] = c
    <3> TAKE c
    <3> TAKE q \in Seq({c})
    <3> TAKE j \in 1 .. Len(q)
    <3>1. q[j] \in {c}
      BY ElementOfSeq
    <3> QED
      BY <3>1
  <2> QED
    BY <1>3, <2>1, Zenon
<1>7. \A k \in 1 .. f : text[k] = Blank
  <2> TAKE k \in 1 .. f
  <2>1. text[0 + k] = front[k] /\ 0 + k = k
    BY <1>3, <1>4 DEF Stands
  <2> QED
    BY <1>6, <2>1
<1>8. \A k \in (f + s + 1) .. h : text[k] \in {"0", "x", "X"}
  <2> TAKE k \in (f + s + 1) .. h
  <2>1. CASE k <= (f + s) + p
    <3>1. PICK j \in 1 .. p : k = (f + s) + j
      BY <1>5, <2>1
    <3>2. text[k] = prefix[j]
      BY <1>3, <1>4, <3>1, Zenon DEF Stands
    <3> QED
      BY <1>3, <3>2
  <2>2. CASE k > (f + s) + p
    <3>1. PICK j \in 1 .. z : k = ((f + s) + p) + j
      BY <1>5, <2>2
    <3>2. text[k] = zeros[j]
      BY <1>3, <1>4, <3>1, Zenon DEF Stands
    <3> QED
      BY <1>6, <3>2
  <2> QED
    BY <2>1, <2>2
<1>9. \A k \in (e + 1) .. l : text[k] = Blank
  <2> TAKE k \in (e + 1) .. l
  <2>1. e = (((f + s) + p) + z) + n /\ l = e + b
    BY <1>3, <1>5
  <2>2. PICK j \in 1 .. b : k = e + j
    BY <2>1
  <2>3. text[k] = after[j]
    BY <1>3, <1>4, <2>1, <2>2, Zenon DEF Stands
  <2> QED
    BY <1>6, <2>3
<1>10. f + s <= h /\ e <= l
  <2>1. l = (((f + s) + p) + z) + n + b
    BY <1>3
  <2> QED
    BY <1>5, <2>1
<1>11. Shape(text, sign, digits, f, s, h, e)
  BY <1>3, <1>4, <1>5, <1>7, <1>8, <1>9, <1>10, Zenon DEF Shape
<1> QED
  BY <1>4, <1>11

Signs == {<<>>, <<"-">>, <<"+">>, <<Blank>>}

\* The blanks of a text are at its ends.
BlanksOutside(text) ==
    \A k \in 1 .. Len(text) : text[k] = Blank =>
        BlankIn(text, 1 .. k) \/ BlankIn(text, k .. Len(text))

LEMMA SignLetters ==
    ASSUME NEW sign \in Signs
    PROVE  /\ Len(sign) \in {0, 1}
           /\ \A j \in 1 .. Len(sign) : sign[j] \in {"-", "+", Blank}
           /\ (Len(sign) = 1 /\ sign[1] = "-") <=> sign = <<"-">>
<1>1. Len(<<>>) = 0 /\ 1 .. 0 = {} /\ 1 .. 1 = {1} /\ 0 # 1
  BY SMT
<1>2. \A c : Len(<<c>>) = 1 /\ <<c>>[1] = c
  BY SMT
<1>3. "-" # Blank /\ "-" # "+"
  BY Zenon DEF Blank
<1>4. CASE sign = <<>>
  <2>1. sign # <<"-">>
    BY <1>1, <1>2, <1>4, Zenon
  <2> QED
    BY <1>1, <1>4, <2>1, Zenon
<1>5. ASSUME NEW c \in {"-", "+", Blank}, sign = <<c>>
      PROVE  /\ Len(sign) \in {0, 1}
             /\ \A j \in 1 .. Len(sign) : sign[j] \in {"-", "+", Blank}
             /\ (Len(sign) = 1 /\ sign[1] = "-") <=> sign = <<"-">>
  <2>1. Len(sign) = 1 /\ sign[1] = c
    BY <1>2, <1>5
  <2>2. \A j \in 1 .. Len(sign) : j = 1
    BY <1>1, <2>1
  <2>3. sign = <<"-">> => c = "-"
    <3>1. <<"-">>[1] = "-"
      BY <1>2
    <3> QED
      BY <2>1, <3>1
  <2>4. c = "-" => sign = <<"-">>
    BY <1>5
  <2> QED
    BY <2>1, <2>2, <2>3, <2>4, Zenon
<1> QED
  BY <1>4, <1>5, Zenon DEF Signs

LEMMA LettersDiffer ==
    /\ \A c \in {"0", "x", "X"} : c # Blank /\ c # "-" /\ Silent(c)
    /\ \A c \in DigitChars : c # Blank /\ c # "-" /\ IsDigit(c)
    /\ Blank # "-"
<1>1. Blank # "-" /\ "0" # Blank /\ "x" # Blank /\ "X" # Blank
      /\ "0" # "-" /\ "x" # "-" /\ "X" # "-"
  BY Zenon DEF Blank
<1>2. ~IsDigit(Blank) /\ ~IsDigit("-") /\ ~IsDigit("x") /\ ~IsDigit("X")
  BY SignsAreSilent
<1>3. \A c \in DigitChars : IsDigit(c)
  BY DEF DigitChars, IsDigit
<1>4. \A c \in {"0", "x", "X"} : Silent(c)
  BY <1>2 DEF Silent
<1> QED
  BY <1>1, <1>2, <1>3, <1>4

\* In which part of a number a character is.
LEMMA ShapeParts ==
    ASSUME NEW text \in Text, NEW sign \in Signs, NEW digits \in Seq(DigitChars),
           NEW f, NEW s, NEW h, NEW e, Shape(text, sign, digits, f, s, h, e)
    PROVE  \A k \in 1 .. Len(text) :
              \/ k <= f /\ text[k] = Blank
              \/ k = f + 1 /\ s = 1 /\ text[k] = sign[1]
              \/ text[k] # Blank /\ text[k] # "-"
              \/ k > e /\ text[k] = Blank
<1> TAKE k \in 1 .. Len(text)
<1>1. /\ f \in Nat /\ s \in Nat /\ h \in Nat /\ e \in Nat /\ s = Len(sign) /\ s \in {0, 1}
      /\ h + Len(digits) = e /\ Len(digits) \in Nat /\ Len(text) \in Nat
  BY SignLetters, LengthOf DEF Shape
<1>2. CASE k <= f
  <2>1. k \in 1 .. f
    BY <1>1, <1>2
  <2> QED
    BY <1>2, <2>1 DEF Shape
<1>3. CASE f < k /\ k <= f + s
  <2>1. k = f + 1 /\ s = 1 /\ 1 \in 1 .. s
    BY <1>1, <1>3
  <2>2. text[f + 1] = sign[1]
    BY <1>1, <2>1, Zenon DEF Shape, Stands
  <2> QED
    BY <2>1, <2>2
<1>4. CASE f + s < k /\ k <= h
  <2>1. k \in (f + s + 1) .. h
    BY <1>1, <1>4
  <2> QED
    BY <2>1, LettersDiffer DEF Shape
<1>5. CASE h < k /\ k <= e
  <2>1. PICK j \in 1 .. Len(digits) : k = h + j
    BY <1>1, <1>5
  <2>2. text[h + j] = digits[j]
    BY Zenon DEF Shape, Stands
  <2>3. digits[j] \in DigitChars
    BY ElementOfSeq
  <2> QED
    BY <2>1, <2>2, <2>3, LettersDiffer
<1>6. CASE e < k
  <2>1. k \in (e + 1) .. Len(text)
    BY <1>1, <1>6
  <2> QED
    BY <1>6, <2>1 DEF Shape
<1> QED
  BY <1>1, <1>2, <1>3, <1>4, <1>5, <1>6

LEMMA ShapeBlanks ==
    ASSUME NEW text \in Text, NEW sign \in Signs, NEW digits \in Seq(DigitChars),
           NEW f, NEW s, NEW h, NEW e, Shape(text, sign, digits, f, s, h, e)
    PROVE  BlanksOutside(text)
<1>1. f \in Nat /\ e \in Nat /\ Len(text) \in Nat
      /\ (\A j \in 1 .. f : text[j] = Blank) /\ (\A j \in (e + 1) .. Len(text) : text[j] = Blank)
  BY LengthOf DEF Shape
<1> SUFFICES ASSUME NEW k \in 1 .. Len(text), text[k] = Blank
             PROVE  BlankIn(text, 1 .. k) \/ BlankIn(text, k .. Len(text))
  BY DEF BlanksOutside
<1>2. CASE k <= f + 1
  <2>1. \A j \in 1 .. k : j \in 1 .. f \/ j = k
    BY <1>1, <1>2
  <2> QED
    BY <1>1, <2>1, Zenon DEF BlankIn
<1>3. CASE k > e
  <2>1. \A j \in k .. Len(text) : j \in (e + 1) .. Len(text)
    BY <1>1, <1>3
  <2> QED
    BY <1>1, <2>1, Zenon DEF BlankIn
<1>4. k <= f + 1 \/ k > e
  <2>1. \/ k <= f /\ text[k] = Blank
        \/ k = f + 1 /\ s = 1 /\ text[k] = sign[1]
        \/ k > e /\ text[k] = Blank
    BY ShapeParts
  <2> QED
    BY <1>1, <2>1
<1> QED
  BY <1>2, <1>3, <1>4

LEMMA ShapeMinus ==
    ASSUME NEW text \in Text, NEW sign \in Signs, NEW digits \in Seq(DigitChars),
           NEW f, NEW s, NEW h, NEW e, Shape(text, sign, digits, f, s, h, e)
    PROVE  (\E k \in 1 .. Len(text) : text[k] = "-") <=> sign = <<"-">>
<1>1. ASSUME NEW k \in 1 .. Len(text), text[k] = "-" PROVE sign = <<"-">>
  <2>1. s = 1 /\ text[k] = sign[1]
    BY <1>1, ShapeParts, LettersDiffer
  <2>2. s = Len(sign)
    BY DEF Shape
  <2> QED
    BY <1>1, <2>1, <2>2, SignLetters
<1>2. ASSUME sign = <<"-">> PROVE \E k \in 1 .. Len(text) : text[k] = "-"
  <2>1. Len(sign) = 1 /\ sign[1] = "-"
    BY <1>2, SignLetters
  <2>2. f \in Nat /\ f + Len(sign) <= Len(text) /\ \A j \in 1 .. Len(sign) : text[f + j] = sign[j]
    BY DEF Shape, Stands
  <2>3. 1 \in 1 .. Len(sign)
    BY <2>1
  <2>4. text[f + 1] = "-"
    BY <2>1, <2>2, <2>3
  <2>5. f + 1 \in 1 .. Len(text)
    BY <2>1, <2>2, LengthOf
  <2> QED
    BY <2>4, <2>5
<1> QED
  BY <1>1, <1>2

LEMMA ShapeReads ==
    ASSUME NEW text \in Text, NEW sign \in Signs, NEW base \in {10, 16}, NEW num \in Nat,
           NEW set \in {SmallDigits, LargeDigits}, NEW D, Lists(set, base, num, D),
           D[num] \in Seq(DigitChars), 1 <= Len(D[num]),
           NEW f, NEW s, NEW h, NEW e, Shape(text, sign, D[num], f, s, h, e)
    PROVE  Reads(text, base, IF sign = <<"-">> THEN -num ELSE num)
<1>1. PICK V : /\ ReadsUpTo(text, base, Len(text), V)
               /\ ValueOf(text, base) = IF \E k \in 1 .. Len(text) : text[k] = "-"
                                        THEN -V[Len(text)] ELSE V[Len(text)]
  BY ValueIsRead
<1>2. PICK n \in Nat, l \in Nat : n = Len(D[num]) /\ l = Len(text) /\ 1 <= n
  <2>1. Len(D[num]) \in Nat /\ Len(text) \in Nat
    BY LengthOf
  <2> QED
    BY <2>1
<1>3. /\ f \in Nat /\ s \in Nat /\ h \in Nat /\ e \in Nat /\ s = Len(sign) /\ s \in {0, 1}
      /\ f + s <= h /\ h + n = e /\ e <= l
  BY <1>2, SignLetters DEF Shape
<1>4. V[0] = 0
  <2>1. 0 \in 0 .. Len(text)
    BY <1>2
  <2>2. V[0] = ReadStep(text, base, V, 0)
    BY <1>1, <2>1, Zenon DEF ReadsUpTo
  <2> QED
    BY <2>2 DEF ReadStep
<1>5. V[f] = 0
  <2>1. \A j \in 1 .. f : Silent(text[0 + j])
    <3> TAKE j \in 1 .. f
    <3>1. text[j] = Blank /\ 0 + j = j
      BY <1>3 DEF Shape
    <3> QED
      BY <3>1, SignsAreSilent DEF Silent
  <2>2. 0 + f <= Len(text) /\ 0 + f = f
    BY <1>2, <1>3
  <2>3. V[0 + f] = V[0]
    <3>1. Silence(text, V, 0, f)
      BY <1>4, <2>1 DEF Silence
    <3> QED
      BY <1>1, <1>3, <2>2, <3>1, SilentKeeps
  <2> QED
    BY <1>4, <2>2, <2>3
<1>6. V[f + s] = 0
  <2>1. \A j \in 1 .. s : Silent(text[f + j])
    <3> TAKE j \in 1 .. s
    <3>1. text[f + j] = sign[j] /\ sign[j] \in {"-", "+", Blank}
      BY <1>3, SignLetters DEF Shape, Stands
    <3> QED
      BY <3>1, SignsAreSilent DEF Silent
  <2>2. f + s <= Len(text)
    BY <1>2, <1>3
  <2>3. V[f + s] = V[f]
    <3>1. Silence(text, V, f, s)
      BY <1>5, <2>1 DEF Silence
    <3>2. f \in Nat /\ s \in Nat
      BY <1>3
    <3> QED
      BY <1>1, <2>2, <3>1, <3>2, SilentKeeps
  <2> QED
    BY <1>5, <2>3
<1>7. V[h] = 0
  <2>1. PICK a \in Nat, b \in Nat : a = f + s /\ b = h - a /\ a + b = h
    BY <1>3
  <2>2. \A j \in 1 .. b : Silent(text[a + j])
    <3> TAKE j \in 1 .. b
    <3>1. a + j \in (f + s + 1) .. h
      BY <1>3, <2>1
    <3>2. text[a + j] \in {"0", "x", "X"}
      BY <3>1 DEF Shape
    <3> QED
      BY <3>2, LettersDiffer
  <2>3. a + b <= Len(text)
    BY <1>2, <1>3, <2>1
  <2>4. V[a + b] = V[a]
    <3>1. Silence(text, V, a, b)
      BY <1>6, <2>1, <2>2 DEF Silence
    <3> QED
      BY <1>1, <2>3, <3>1, SilentKeeps
  <2> QED
    BY <1>6, <2>1, <2>4
<1>8. V[e] = num
  <2>1. Stands(text, h, D[num]) /\ num \in 0 .. num
    BY DEF Shape
  <2>2. V[h + Len(D[num])] = num
    BY <1>1, <1>3, <1>7, <2>1, DigitsRead
  <2> QED
    BY <1>2, <1>3, <2>2
<1>9. V[l] = num
  <2>1. PICK b \in Nat : b = l - e /\ e + b = l
    BY <1>3
  <2>2. \A j \in 1 .. b : ~IsDigit(text[e + j])
    <3> TAKE j \in 1 .. b
    <3>1. e + j \in (e + 1) .. Len(text)
      BY <1>2, <1>3, <2>1
    <3>2. text[e + j] = Blank
      BY <3>1 DEF Shape
    <3> QED
      BY <3>2, SignsAreSilent
  <2>3. e + b <= Len(text)
    BY <1>2, <2>1
  <2>4. V[e + b] = V[e]
    <3>1. Silence(text, V, e, b)
      BY <2>2 DEF Silence
    <3> QED
      BY <1>1, <1>3, <2>3, <3>1, SilentKeeps
  <2> QED
    BY <1>8, <2>1, <2>4
<1>10. ValueOf(text, base) = IF sign = <<"-">> THEN -num ELSE num
  <2>1. (\E k \in 1 .. Len(text) : text[k] = "-") <=> sign = <<"-">>
    BY ShapeMinus
  <2> QED
    BY <1>1, <1>2, <1>9, <2>1, Zenon
<1>11. \E k \in 1 .. Len(text) : IsDigit(text[k])
  <2>1. h + 1 \in 1 .. Len(text) /\ 1 \in 1 .. Len(D[num])
    BY <1>2, <1>3
  <2>2. text[h + 1] = D[num][1]
    BY <2>1 DEF Shape, Stands
  <2>3. D[num][1] \in DigitChars
    BY <2>1, ElementOfSeq
  <2> QED
    BY <2>1, <2>2, <2>3, LettersDiffer
<1> QED
  BY <1>10, <1>11 DEF Reads

LEMMA OnlyNegativesAreMinus ==
    ASSUME NEW flags, NEW negative
    PROVE  /\ SignOf(flags, FALSE) # <<"-">>
           /\ ~negative => SignOf(flags, negative) # <<"-">>
           /\ negative /\ "SIGN" \in flags => SignOf(flags, negative) = <<"-">>
<1>1. <<"+">>[1] = "+" /\ <<Blank>>[1] = Blank /\ <<"-">>[1] = "-" /\ Len(<<"-">>) = 1 /\ Len(<<>>) = 0
  BY SMT
<1>2. "+" # "-" /\ Blank # "-"
  BY Zenon DEF Blank
<1>3. <<"+">> # <<"-">> /\ <<Blank>> # <<"-">> /\ <<>> # <<"-">>
  <2>1. <<>> # <<"-">>
    BY <1>1
  <2>2. <<"+">> # <<"-">>
    BY <1>1, <1>2
  <2>3. <<Blank>> # <<"-">>
    BY <1>1, <1>2
  <2> QED
    BY <2>1, <2>2, <2>3
<1> QED
  BY <1>3, Zenon DEF SignOf

LEMMA NumberReads ==
    ASSUME NEW num \in Nat, NEW base \in {10, 16}, NEW width \in Int, NEW prec \in Int,
           NEW flags, NEW negative, NonNeg(width) + NonNeg(prec) + num + 5 <= Endless,
           NEW text, text = Number(<<>>, Endless, num, base, width, prec, flags, negative)
    PROVE  /\ Reads(text, base, IF SignOf(flags, negative) = <<"-">> THEN -num ELSE num)
           /\ BlanksOutside(text)
<1>1. PICK sign \in Text : sign = SignOf(flags, negative) /\ sign \in Signs
  BY SignIs DEF Signs
<1>2. PICK prefix \in Text : /\ prefix = PrefixOf(base, flags)
                             /\ \A k \in 1 .. Len(prefix) : prefix[k] \in {"0", "x", "X"}
  BY PrefixIsText, PrefixIs
<1>3. PICK set, D : DigitsFrom(set, D, num, base, flags)
  BY DigitsOfAre
<1>4. PICK digits \in Text : /\ digits = D[num] /\ digits = DigitsOf(num, base, flags)
                             /\ digits \in Seq(DigitChars)
  BY <1>3, PiecesAreText DEF DigitsFrom
<1>5. PICK pad, more, left : Layout(text, sign, prefix, digits, pad, more, left)
  <2>1. Layout(Number(<<>>, Endless, num, base, width, prec, flags, negative), sign, prefix,
               digits, NonNeg(Padding(width, prec, base, flags, sign, digits)),
               NonNeg(prec - Len(digits)), "LEFT" \in flags)
    BY <1>1, <1>2, <1>4, NumberLayout
  <2> QED
    BY <2>1
<1>6. text \in Text /\ \E f, s, h, e : Shape(text, sign, digits, f, s, h, e)
  BY <1>2, <1>5, NumberShape
<1>7. PICK f, s, h, e : Shape(text, sign, digits, f, s, h, e)
  BY <1>6
<1>8. BlanksOutside(text)
  BY <1>1, <1>4, <1>6, <1>7, ShapeBlanks
<1>9. Reads(text, base, IF sign = <<"-">> THEN -num ELSE num)
  <2>1. /\ set \in {SmallDigits, LargeDigits} /\ Lists(set, base, num, D)
        /\ D[num] \in Seq(DigitChars) /\ 1 <= Len(D[num]) /\ Shape(text, sign, D[num], f, s, h, e)
        /\ base \in {10, 16} /\ num \in Nat /\ text \in Text /\ sign \in Signs
    BY <1>1, <1>3, <1>4, <1>6, <1>7 DEF DigitsFrom
  <2>2. Reads(text, base, IF sign = <<"-">> THEN -num ELSE num)
    BY <2>1, ShapeReads, ZenonT(40)
  <2> QED
    BY <2>2
<1> QED
  BY <1>1, <1>8, <1>9

\* One signed number has the last bits of a word.
LEMMA SignedIsTheOne ==
    ASSUME NEW d, IsDirective(d), d.conv \in {"d", "i"}
    PROVE  AsSigned(d.arg, BitsOf(d.qualifier)) = Signed(d)
<1>1. PICK b : b = BitsOf(d.qualifier) /\ b \in {HalfBits, IntBits, LongBits}
  BY DEF BitsOf
<1>2. PICK m \in Nat \ {0}, w \in Nat : m = 2 ^ b /\ w = 2 ^ (b - 1) /\ m = 2 * w
  <2>1. 2 ^ b = 2 * 2 ^ (b - 1) /\ 2 ^ b > 0
    BY <1>1, WordAssumption
  <2>2. 2 ^ b \in Nat \ {0}
    BY <1>1, PowersAre
  <2>3. 2 ^ (b - 1) \in Int
    BY <1>1, PrintfAssumption, WordAssumption
  <2>4. 2 ^ (b - 1) \in Nat
    BY <2>1, <2>2, <2>3
  <2> QED
    BY <2>1, <2>2, <2>4
<1>3. PICK a \in Nat : a = d.arg
  BY WordsAreNumbers
<1>4. PICK q \in Int, r \in Int : a = (q * m) + r /\ 0 <= r /\ r < m /\ a % m = r
  <2>1. a \in Int
    OBVIOUS
  <2> QED
    BY <2>1, DivMod
<1>5. PICK v \in Int : v = Signed(d) /\ v = IF 2 * r < m THEN r ELSE r - m
  <2>1. Signed(d) = IF 2 * r < m THEN r ELSE r - m
    BY <1>1, <1>2, <1>3, <1>4 DEF Signed, Unsigned
  <2> QED
    BY <2>1
<1>6. v \in -w .. w - 1
  <2>1. 0 <= r /\ r < m /\ m = 2 * w /\ v = IF 2 * r < m THEN r ELSE r - m
    BY <1>2, <1>4, <1>5, Zenon
  <2>2. CASE 2 * r < m
    BY <2>1, <2>2
  <2>3. CASE ~(2 * r < m)
    BY <2>1, <2>3
  <2> QED
    BY <2>2, <2>3
<1>7. (v - a) % m = 0
  <2>1. PICK c \in Int, t \in Int : c = v - a /\ t = IF 2 * r < m THEN -q ELSE -q - 1
    OBVIOUS
  <2>2. c = (t * m) + 0
    <3>1. CASE 2 * r < m
      <4>1. c = -(q * m) /\ t = -q
        BY <1>4, <1>5, <2>1, <3>1
      <4> QED
        BY <4>1
    <3>2. CASE ~(2 * r < m)
      <4>1. c = -(q * m) - m /\ t = -q - 1
        BY <1>4, <1>5, <2>1, <3>2
      <4> QED
        BY <4>1
    <3> QED
      BY <3>1, <3>2
  <2>3. c % m = 0
    BY <2>2, ModIs
  <2> QED
    BY <2>1, <2>3
<1>8. ASSUME NEW n \in -w .. w - 1, (n - a) % m = 0 PROVE n = v
  <2>0. PICK x \in Int, y \in Int : x = n - a /\ y = v - a /\ n - v = x - y
    OBVIOUS
  <2>1. PICK k \in Int : x = k * m
    <3>1. PICK k \in Int, z \in Int : x = (k * m) + z /\ 0 <= z /\ z < m /\ x % m = z
      BY DivMod
    <3>2. z = 0
      BY <1>8, <2>0, <3>1, Zenon
    <3> QED
      BY <3>1, <3>2
  <2>2. PICK l \in Int : y = l * m
    <3>1. PICK l \in Int, z \in Int : y = (l * m) + z /\ 0 <= z /\ z < m /\ y % m = z
      BY DivMod
    <3>2. z = 0
      BY <1>7, <2>0, <3>1, Zenon
    <3> QED
      BY <3>1, <3>2
  <2>3. n - v = (k * m) - (l * m)
    BY <2>0, <2>1, <2>2
  <2>4. PICK j \in Int : j = k - l /\ n - v = j * m
    BY <2>3
  <2>5. n - v < m /\ v - n < m
    BY <1>2, <1>6, <1>8
  <2>6. ~(j >= 1)
    <3> SUFFICES ASSUME j >= 1 PROVE FALSE
      OBVIOUS
    <3>1. j * m >= m
      BY SMT
    <3> QED
      BY <2>4, <2>5, <3>1
  <2>7. ~(j <= -1)
    <3> SUFFICES ASSUME j <= -1 PROVE FALSE
      OBVIOUS
    <3>1. j * m <= -m
      BY SMT
    <3> QED
      BY <2>4, <2>5, <3>1
  <2>8. j = 0
    BY <2>6, <2>7
  <2> QED
    BY <2>4, <2>8
<1>9. AsSigned(a, b) = CHOOSE n \in -w .. w - 1 : (n - a) % m = 0
  BY <1>2 DEF AsSigned
<1>10. AsSigned(a, b) = v
  BY <1>6, <1>7, <1>8, <1>9
<1> QED
  BY <1>1, <1>3, <1>5, <1>10

ReadsBack(d) ==
    /\ d.conv \in {"d", "i"} => Reads(TextOf(d), 10, AsSigned(d.arg, BitsOf(d.qualifier)))
    /\ d.conv \in {"x", "X"} => Reads(TextOf(d), 16, d.arg % 2 ^ BitsOf(d.qualifier))
    /\ d.conv = "p" => Reads(TextOf(d), 16, d.arg)
    /\ d.conv \in {"d", "i", "x", "X", "p"} => BlanksOutside(TextOf(d))

LEMMA DirectiveReadsBack ==
    ASSUME NEW d \in Directives, d.conv \in {"d", "i", "x", "X", "p"}
    PROVE  ReadsBack(d)
<1>1. IsDirective(d) /\ WidthOf(d) \in Int /\ PrecOf(d) \in Int /\ PtrWidth \in Int
  BY DirectiveAssumption, FieldsAreNumbers, PrintfAssumption
<1>2. d.conv \in {"d", "i", "u", "o", "x", "X", "p"}
  OBVIOUS
<1>3. PICK text : text = TextOf(d)
  OBVIOUS
<1>4. CASE d.conv \in {"d", "i"}
  <2>1. PICK v : v = Signed(d)
    OBVIOUS
  <2>2. v \in Int /\ Abs(v) \in Nat /\ Abs(v) <= d.arg /\ v = AsSigned(d.arg, BitsOf(d.qualifier))
    <3>1. v \in Int
      <4>1. 2 ^ BitsOf(d.qualifier) \in Nat /\ Unsigned(d) \in Nat
        BY <1>1, <1>2, PowersAre, WordsAreNumbers
      <4> QED
        BY <2>1, <4>1 DEF Signed
    <3>2. Abs(v) \in Nat /\ Abs(v) <= d.arg
      BY <1>1, <1>2, <2>1, WordsAreNumbers, WordsAreBounded
    <3> QED
      BY <1>1, <1>4, <2>1, <3>1, <3>2, SignedIsTheOne
  <2>3. PICK f, n : f = FlagsOf(d) \cup {"SIGN"} /\ n = (v < 0)
    OBVIOUS
  <2>4. text = Number(<<>>, Endless, Abs(v), 10, WidthOf(d), PrecOf(d), f, n)
    BY <1>3, <1>4, <2>1, <2>3 DEF TextOf, Converted
  <2>5. NonNeg(WidthOf(d)) + NonNeg(PrecOf(d)) + Abs(v) + 5 <= Endless
    BY <1>2, <2>2, RoomForNumber
  <2>6. /\ Reads(text, 10, IF SignOf(f, n) = <<"-">> THEN -Abs(v) ELSE Abs(v))
        /\ BlanksOutside(text)
    BY <1>1, <2>2, <2>4, <2>5, NumberReads
  <2>7. (IF SignOf(f, n) = <<"-">> THEN -Abs(v) ELSE Abs(v)) = v
    <3>1. CASE v < 0
      <4>1. SignOf(f, n) = <<"-">>
        BY <2>3, <3>1, OnlyNegativesAreMinus
      <4>2. -Abs(v) = v
        BY <2>2, <3>1 DEF Abs
      <4> QED
        BY <4>1, <4>2
    <3>2. CASE ~(v < 0)
      <4>1. SignOf(f, n) # <<"-">>
        BY <2>3, <3>2, OnlyNegativesAreMinus
      <4>2. Abs(v) = v
        BY <2>2, <3>2 DEF Abs
      <4> QED
        BY <4>1, <4>2
    <3> QED
      BY <3>1, <3>2
  <2>8. Reads(text, 10, v)
    BY <2>6, <2>7
  <2> QED
    BY <1>3, <1>4, <2>2, <2>6, <2>8 DEF ReadsBack
<1>5. ASSUME NEW num \in Nat, NEW f, NEW w \in Int, NonNeg(w) + NonNeg(PrecOf(d)) + num + 5 <= Endless,
             text = Number(<<>>, Endless, num, 16, w, PrecOf(d), f, FALSE)
      PROVE  Reads(text, 16, num) /\ BlanksOutside(text)
  <2>1. /\ Reads(text, 16, IF SignOf(f, FALSE) = <<"-">> THEN -num ELSE num)
        /\ BlanksOutside(text)
    BY <1>1, <1>5, NumberReads
  <2>2. SignOf(f, FALSE) # <<"-">>
    BY OnlyNegativesAreMinus
  <2> QED
    BY <2>1, <2>2
<1>6. CASE d.conv \in {"x", "X"}
  <2>1. PICK num \in Nat : num = Unsigned(d) /\ num <= d.arg
    BY <1>1, <1>2, WordsAreNumbers, WordsAreBounded
  <2>2. PICK f : f = IF d.conv = "X" THEN FlagsOf(d) \ {"SMALL"} ELSE FlagsOf(d) \cup {"SMALL"}
    OBVIOUS
  <2>3. text = Number(<<>>, Endless, num, 16, WidthOf(d), PrecOf(d), f, FALSE)
    BY <1>3, <1>6, <2>1, <2>2 DEF TextOf, Converted
  <2>4. NonNeg(WidthOf(d)) + NonNeg(PrecOf(d)) + num + 5 <= Endless
    BY <1>2, <2>1, RoomForNumber
  <2>5. Reads(text, 16, num) /\ BlanksOutside(text)
    BY <1>1, <1>5, <2>3, <2>4
  <2>6. num = d.arg % 2 ^ BitsOf(d.qualifier)
    BY <2>1 DEF Unsigned
  <2> QED
    BY <1>3, <1>6, <2>5, <2>6 DEF ReadsBack
<1>7. CASE d.conv = "p"
  <2>1. PICK num \in Nat : num = d.arg /\ num <= d.arg
    BY <1>1, <1>2, WordsAreNumbers
  <2>2. PICK f : f = FlagsOf(d) \cup {"SPECIAL", "SMALL", "ZEROPAD"}
    OBVIOUS
  <2>3. text = Number(<<>>, Endless, num, 16, PtrWidth, PrecOf(d), f, FALSE)
    BY <1>3, <1>7, <2>1, <2>2 DEF TextOf, Converted
  <2>4. NonNeg(PtrWidth) + NonNeg(PrecOf(d)) + num + 5 <= Endless
    BY <1>2, <2>1, RoomForNumber
  <2>5. Reads(text, 16, num) /\ BlanksOutside(text)
    BY <1>1, <1>5, <2>3, <2>4
  <2> QED
    BY <1>3, <1>7, <2>1, <2>5 DEF ReadsBack
<1> QED
  BY <1>4, <1>6, <1>7

(* What is printed reads as the argument at the width of its length modifier, *)
(* for every word: sign and magnitude, prefix, zeros and digits together say   *)
(* it, and padding never stands inside.                                        *)
THEOREM NumbersAreRead == Spec => []NumbersReadBack
<1>1. last \in Directives \cup {Literal} => NumbersReadBack
  <2>1. CASE last = Literal
    BY <2>1 DEF NumbersReadBack, Literal
  <2>2. CASE last \in Directives /\ last.conv \in {"d", "i", "x", "X", "p"}
    <3>1. ReadsBack(last)
      BY <2>2, DirectiveReadsBack
    <3> QED
      BY <3>1, Zenon DEF ReadsBack, NumbersReadBack, BlanksOutside
  <2>3. CASE last.conv \notin {"d", "i", "x", "X", "p"}
    BY <2>3, Zenon DEF NumbersReadBack
  <2> QED
    BY <2>1, <2>2, <2>3
<1> QED
  BY <1>1, LastIsDirective, PTL
=============================================================================
