--------------------------- MODULE MCInitMemory ---------------------------
(***************************************************************************)
(* E820 maps for model-checking InitMemory: five frames of two units, the  *)
(* DMA boundary after the third frame.                                     *)
(***************************************************************************)
EXTENDS InitMemory

LastUnit == 10

Region(b, l, t) == [base |-> b, len |-> l, type |-> t]

\* Types: RAM, reserved, and one that memory_type_array has no name for.
AnyRegion(types) ==
    {Region(b, l, t) : b \in 0 .. LastUnit, l \in 0 .. LastUnit, t \in types}

InRange(r) == EndOf(r) <= LastUnit

\* One or two entries, in any order, overlapping or not.
PairMaps ==
    LET R == {r \in AnyRegion({1, 2}) : InRange(r)}
        S == {r \in AnyRegion({1, 2, 7}) : InRange(r) /\ r.base % 2 = 0}
    IN  {<<>>} \cup {<<r>> : r \in S} \cup {<<r, s>> : r \in R, s \in S}

\* Three entries one after the other, with or without gaps.
TripleMaps ==
    {<<Region(b, l[1], t[1]),
       Region(b + l[1] + g[1], l[2], t[2]),
       Region(b + l[1] + g[1] + l[2] + g[2], l[3], t[3])>> :
        b \in {0, 1}, l \in [1 .. 3 -> 1 .. 4], g \in [1 .. 2 -> {0, 1}],
        t \in [1 .. 3 -> {1, 2}]}

\* More entries than the manager keeps (three).
LongMaps ==
    {<<Region(0, 1, 1), Region(1, l, 1), Region(1 + l, 4, t), Region(8, 1, u)>> :
        l \in 1 .. 3, t \in {1, 2}, u \in {1, 2}}

AllMaps ==
    PairMaps \cup {m \in TripleMaps : InRange(m[3])} \cup LongMaps

\* The arrays grow with the number of frames, to just past the mapped RAM.
Growing == [n \in 1 .. LastUnit + 1 |-> IF n <= 3 THEN 1 ELSE n - 2]
=============================================================================
