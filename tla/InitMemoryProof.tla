--------------------------- MODULE InitMemoryProof ---------------------------
(***************************************************************************)
(* Theorems about InitMemory, for every map, of any number of entries,     *)
(* sorted or not, overlapping or not, and every size of frames and of the  *)
(* arrays.                                                                 *)
(***************************************************************************)
EXTENDS InitMemory, NumberLemmas, TLAPS

Regions  == [base : Nat, len : Nat, type : Nat]
ZoneSet  == [start : Nat, end : Nat, type : {"DMA", "NORMAL"}, nrFree : Int]
FrameSet == [zone : Nat, flags : SUBSET {"RESERVED", "KERNEL", "USED"}, ref : Nat]

EntryIds == 1 .. Len(e820)

\* The whole frames of RAM, entry by entry, and the frames of the zones.
RamFrames == [k \in EntryIds |->
                 IF e820[k].type = RAM THEN Cardinality(WholeFrames(e820[k])) ELSE 0]
ZonePages == [k \in ZoneIds |-> NrPages(k)]

\* The map is one of those the loader may leave, or its first entries.
MapInv ==
    /\ e820 \in Seq(Regions)
    /\ \A k \in EntryIds : StructUnits[LastPfn(e820[k]) + 1] \in Nat
    /\ maxPfn \in Nat /\ StructUnits[maxPfn + 1] \in Nat
    /\ i \in Nat \ {0} /\ i <= Len(e820) + 1
    /\ pc = "copy" => i = 1 /\ maxPfn = 0 /\ total2m = 0

\* The first n entries were counted.
Counted(n) ==
    /\ \A k \in 1 .. n : LastPfn(e820[k]) <= maxPfn
    /\ total2m = SumOver(RamFrames, 1 .. n)

CountInv ==
    /\ pc = "count" => Counted(i - 1)
    /\ pc \in {"reserve", "zones", "test", "kernel", "done"} => Counted(Len(e820))

\* A bit is set for a whole frame of an entry that is not RAM.
BitmapInv ==
    pc \in {"reserve", "zones", "test", "kernel"} =>
        \A p \in bitmap : \E k \in EntryIds : e820[k].type # RAM /\ p \in WholeFrames(e820[k])

\* A zone lies in the whole frames of an entry of RAM.
Covers(e, z) == e.type = RAM /\ CeilFrame(e.base) <= z.start /\ z.end <= LastPfn(e)

Splits(z) == IF z.type = "DMA" THEN z.end <= DmaFrames ELSE z.start >= DmaFrames

ZonesApart ==
    \A j, k \in ZoneIds : j # k => FramesOf(zones[j]) \cap FramesOf(zones[k]) = {}

ZonesInv ==
    /\ zones \in Seq(ZoneSet)
    /\ pc \in {"copy", "count", "reserve"} => zones = <<>>
    /\ \A k \in ZoneIds :
          /\ zones[k].start < zones[k].end /\ Splits(zones[k])
          /\ \E j \in EntryIds : (pc = "zones" => j < i) /\ Covers(e820[j], zones[k])
    /\ Disjoint => ZonesApart
    /\ pc = "zones" => SumOver(ZonePages, ZoneIds) = SumOver(RamFrames, 1 .. i - 1)
    /\ pc \in {"test", "kernel", "done"} =>
          SumOver(ZonePages, ZoneIds) = SumOver(RamFrames, EntryIds)

\* The frames of a zone are its own, and free.
FramesInv ==
    pc \in {"zones", "test", "kernel"} =>
        /\ frame \in [Frames -> FrameSet]
        /\ Disjoint =>
              \A k \in ZoneIds : \A p \in FramesOf(zones[k]) :
                  /\ frame[p].flags = {} /\ frame[p].ref = 0
                  /\ p # 0 => frame[p].zone = k

InitInv ==
    /\ pc # "halted" /\ free2m \in Int
    /\ MapInv /\ CountInv /\ BitmapInv /\ ZonesInv /\ FramesInv /\ AllocatorReady
-----------------------------------------------------------------------------
(* Frames and units.                                                       *)

\* A frame below the floor of a ends before a.
LEMMA FloorBound ==
    ASSUME NEW a \in Nat
    PROVE  /\ FloorFrame(a) \in Nat
           /\ \A p \in Nat : p < FloorFrame(a) => p * FrameUnits + FrameUnits <= a
<1> DEFINE u == FrameUnits
           q == a \div u
<1>1. u \in Nat /\ u > 0
  BY UnitAssumption
<1>2. q \in Nat /\ q * u <= a
  BY <1>1, SMT
<1>3. ASSUME NEW p \in Nat, p < q
      PROVE  p * u + u <= a
  <2> HIDE DEF q, u
  <2>1. (p + 1) * u <= q * u
    BY <1>1, <1>2, <1>3
  <2>2. (p + 1) * u = p * u + u
    BY <1>1
  <2>3. p * u \in Nat /\ q * u \in Nat
    BY <1>1, <1>2
  <2> QED
    BY <1>1, <1>2, <2>1, <2>2, <2>3
<1> QED
  BY <1>2, <1>3 DEF FloorFrame

\* A frame from the ceiling of a on begins at a or later, and one below before a.
LEMMA CeilBound ==
    ASSUME NEW a \in Nat
    PROVE  /\ CeilFrame(a) \in Nat
           /\ \A p \in Nat : p < CeilFrame(a) <=> p * FrameUnits < a
<1> DEFINE u == FrameUnits
           b == a + u - 1
           q == b \div u
<1>1. u \in Nat /\ u > 0 /\ b \in Nat
  BY UnitAssumption
<1>2. q \in Nat /\ q * u <= b /\ b < q * u + u
  <2> HIDE DEF b
  <2> QED
    BY <1>1, SMT
<1>3. ASSUME NEW p \in Nat
      PROVE  p < q <=> p * u < a
  <2>1. b = a + u - 1
    OBVIOUS
  <2> HIDE DEF q, u, b
  <2>2. p * u \in Nat /\ q * u \in Nat
    BY <1>1, <1>2
  <2>3. ASSUME p < q PROVE p * u < a
    <3>1. (p + 1) * u <= q * u
      BY <1>1, <1>2, <2>3
    <3>2. (p + 1) * u = p * u + u
      BY <1>1
    <3> QED
      BY <1>1, <1>2, <2>1, <2>2, <3>1, <3>2
  <2>4. ASSUME ~(p < q) PROVE ~(p * u < a)
    <3>1. q * u <= p * u
      BY <1>1, <1>2, <2>4
    <3> QED
      BY <1>1, <1>2, <2>1, <2>2, <3>1
  <2> QED
    BY <2>3, <2>4
<1> QED
  BY <1>2, <1>3 DEF CeilFrame

\* The units of a frame.
LEMMA FrameHolds ==
    ASSUME NEW p \in Nat
    PROVE  UnitsOf(p) = p * FrameUnits .. p * FrameUnits + FrameUnits - 1
           /\ p * FrameUnits \in Nat
<1>1. PICK a : a = p * FrameUnits
  OBVIOUS
<1>2. (p + 1) * FrameUnits = a + FrameUnits /\ a \in Nat /\ FrameUnits \in Nat
  BY <1>1, UnitAssumption
<1>3. UnitsOf(p) = a .. (a + FrameUnits) - 1
  BY <1>1, <1>2 DEF UnitsOf
<1> QED
  BY <1>1, <1>2, <1>3

LEMMA EntryEnds ==
    ASSUME NEW e \in Regions
    PROVE  /\ EndOf(e) \in Nat /\ LastPfn(e) \in Nat /\ CeilFrame(e.base) \in Nat
           /\ WholeFrames(e) = CeilFrame(e.base) .. LastPfn(e) - 1
<1>1. EndOf(e) \in Nat /\ e.base \in Nat
  BY DEF Regions, EndOf
<1> QED
  BY <1>1, FloorBound, CeilBound DEF LastPfn, WholeFrames

\* A whole frame of an entry is inside it.
LEMMA WholeInside ==
    ASSUME NEW e \in Regions, NEW p \in WholeFrames(e)
    PROVE  p \in Nat /\ UnitsOf(p) \subseteq Units(e) /\ p * FrameUnits \in UnitsOf(p)
<1>1. e.base \in Nat /\ EndOf(e) \in Nat
  BY EntryEnds DEF Regions
<1>2. p \in Nat /\ CeilFrame(e.base) <= p /\ p < FloorFrame(EndOf(e))
  BY EntryEnds DEF LastPfn
<1>3. e.base <= p * FrameUnits /\ p * FrameUnits + FrameUnits <= EndOf(e)
      /\ p * FrameUnits \in Nat
  <2>1. ~(p * FrameUnits < e.base)
    BY <1>1, <1>2, CeilBound
  <2>2. p * FrameUnits + FrameUnits <= EndOf(e)
    BY <1>1, <1>2, FloorBound
  <2> QED
    BY <1>1, <1>2, <2>1, <2>2, FrameHolds, SMTT(30)
<1>4. FrameUnits \in Nat /\ FrameUnits > 0
  BY UnitAssumption
<1>5. UnitsOf(p) = p * FrameUnits .. p * FrameUnits + FrameUnits - 1
  BY <1>2, FrameHolds
<1>6. PICK a : a = p * FrameUnits
  OBVIOUS
<1>7. UnitsOf(p) \subseteq Units(e) /\ a \in UnitsOf(p)
  BY <1>1, <1>3, <1>4, <1>5, <1>6 DEF Units
<1> QED
  BY <1>2, <1>6, <1>7

\* Entries that share no unit share no frame.
LEMMA FramesApart ==
    ASSUME Disjoint, e820 \in Seq(Regions), NEW j \in EntryIds, NEW k \in EntryIds, j # k,
           NEW p \in WholeFrames(e820[j]), p \in WholeFrames(e820[k])
    PROVE  FALSE
<1>1. e820[j] \in Regions /\ e820[k] \in Regions
  BY DEF EntryIds
<1>2. p * FrameUnits \in Units(e820[j]) /\ p * FrameUnits \in Units(e820[k])
  BY <1>1, WholeInside
<1> QED
  BY <1>2 DEF Disjoint, EntryIds

LEMMA CoveredFrames ==
    ASSUME NEW e \in Regions, NEW z \in ZoneSet, Covers(e, z)
    PROVE  FramesOf(z) \subseteq WholeFrames(e)
<1>1. z.start \in Nat /\ z.end \in Nat
  BY DEF ZoneSet
<1> QED
  BY <1>1, EntryEnds DEF Covers, FramesOf
-----------------------------------------------------------------------------
(* The zones of one entry.                                                 *)

SizeOfEntry(e) == IF e.type = RAM THEN Cardinality(WholeFrames(e)) ELSE 0

\* What new zones there are, none, one or two, and what each one is like.
LEMMA NewZonesAre ==
    ASSUME NEW e \in Regions, NEW zs, zs = NewZones(e)
    PROVE  /\ zs \in Seq(ZoneSet) /\ Len(zs) \in 0 .. 2
           /\ \A k \in 1 .. Len(zs) :
                 zs[k].start < zs[k].end /\ Splits(zs[k]) /\ Covers(e, zs[k])
           /\ \A j, k \in 1 .. Len(zs) : j # k => FramesOf(zs[j]) \cap FramesOf(zs[k]) = {}
           /\ SizeOfEntry(e) \in Nat
           /\ SizeOfEntry(e) = IF Len(zs) = 0 THEN 0
                               ELSE IF Len(zs) = 1 THEN zs[1].end - zs[1].start
                               ELSE (zs[1].end - zs[1].start) + (zs[2].end - zs[2].start)
<1> DEFINE s == CeilFrame(e.base)
           t == LastPfn(e)
<1>1. s \in Nat /\ t \in Nat /\ WholeFrames(e) = s .. t - 1 /\ t = FloorFrame(EndOf(e))
  BY EntryEnds DEF LastPfn
<1>2. DmaFrames \in Nat
  BY UnitAssumption
<1>3. Cardinality(WholeFrames(e)) = IF t <= s THEN 0 ELSE t - s
  <2>1. Cardinality(s .. t - 1) = IF s > t - 1 THEN 0 ELSE (t - 1) - s + 1
    <3> HIDE DEF s, t
    <3>1. t - 1 \in Int /\ s \in Int
      BY <1>1
    <3> QED
      BY <3>1, FS_Interval
  <2> QED
    BY <1>1, <2>1
<1>4. CASE e.type # RAM \/ t <= s
  <2>1. zs = <<>>
    BY <1>1, <1>4 DEF NewZones, ZonesOf
  <2>2. SizeOfEntry(e) = 0
    BY <1>3, <1>4 DEF SizeOfEntry
  <2> QED
    BY <2>1, <2>2
<1>5. CASE e.type = RAM /\ ~(t <= s) /\ s < DmaFrames /\ t > DmaFrames
  <2>1. zs = <<Zone(s, DmaFrames, "DMA"), Zone(DmaFrames, t, "NORMAL")>>
    BY <1>1, <1>5 DEF NewZones, ZonesOf
  <2>2. /\ Zone(s, DmaFrames, "DMA") \in ZoneSet
        /\ Zone(DmaFrames, t, "NORMAL") \in ZoneSet
    BY <1>1, <1>2 DEF Zone, ZoneSet
  <2>3. Len(zs) = 2 /\ zs \in Seq(ZoneSet)
        /\ zs[1] = Zone(s, DmaFrames, "DMA") /\ zs[2] = Zone(DmaFrames, t, "NORMAL")
    BY <2>1, <2>2
  <2>4. /\ zs[1].start = s /\ zs[1].end = DmaFrames /\ zs[1].type = "DMA"
        /\ zs[2].start = DmaFrames /\ zs[2].end = t /\ zs[2].type = "NORMAL"
    BY <2>3 DEF Zone
  <2>5. SizeOfEntry(e) = t - s
    BY <1>3, <1>5 DEF SizeOfEntry
  <2>6. \A k \in 1 .. 2 : zs[k].start < zs[k].end /\ Splits(zs[k]) /\ Covers(e, zs[k])
    <3>1. 1 .. 2 = {1, 2}
      OBVIOUS
    <3> HIDE DEF s, t
    <3>2. Splits(zs[1]) /\ Splits(zs[2])
      BY <1>2, <2>4 DEF Splits
    <3>3. Covers(e, zs[1]) /\ Covers(e, zs[2])
      BY <1>1, <1>2, <1>5, <2>4 DEF Covers, s, t
    <3> QED
      BY <1>5, <2>4, <3>1, <3>2, <3>3
  <2>7. FramesOf(zs[1]) \cap FramesOf(zs[2]) = {}
    <3> HIDE DEF s, t
    <3> QED
      BY <1>1, <1>2, <2>4 DEF FramesOf
  <2>8. \A j, k \in 1 .. 2 : j # k => FramesOf(zs[j]) \cap FramesOf(zs[k]) = {}
    <3>1. 1 .. 2 = {1, 2}
      OBVIOUS
    <3> QED
      BY <2>7, <3>1
  <2>9. SizeOfEntry(e) \in Nat
        /\ SizeOfEntry(e) = (zs[1].end - zs[1].start) + (zs[2].end - zs[2].start)
    <3> HIDE DEF s, t
    <3> QED
      BY <1>1, <1>2, <1>5, <2>4, <2>5
  <2> QED
    BY <2>3, <2>6, <2>8, <2>9
<1>6. CASE e.type = RAM /\ ~(t <= s) /\ ~(s < DmaFrames /\ t > DmaFrames)
  <2> DEFINE z == Zone(s, t, IF s < DmaFrames THEN "DMA" ELSE "NORMAL")
  <2>1. zs = <<z>>
    BY <1>1, <1>6 DEF NewZones, ZonesOf
  <2>2. z \in ZoneSet
    BY <1>1, <1>2 DEF Zone, ZoneSet
  <2>3. z.start = s /\ z.end = t /\ z.type = IF s < DmaFrames THEN "DMA" ELSE "NORMAL"
    BY DEF Zone
  <2>4. Len(zs) = 1 /\ zs \in Seq(ZoneSet) /\ zs[1] = z
    BY <2>1, <2>2
  <2>5. Splits(z) /\ Covers(e, z) /\ z.start < z.end
    <3> HIDE DEF z
    <3>1. Splits(z)
      BY <1>1, <1>2, <1>6, <2>3 DEF Splits
    <3> QED
      BY <1>1, <1>6, <2>3, <3>1 DEF Covers
  <2>6. SizeOfEntry(e) = z.end - z.start /\ SizeOfEntry(e) \in Nat
    <3>1. SizeOfEntry(e) = t - s
      BY <1>3, <1>6 DEF SizeOfEntry
    <3> HIDE DEF z, s, t
    <3> QED
      BY <1>1, <1>6, <2>3, <3>1
  <2> HIDE DEF z
  <2>7. \A k \in 1 .. Len(zs) : k = 1
    BY <2>4
  <2> QED
    BY <2>4, <2>5, <2>6, <2>7
<1> QED
  BY <1>4, <1>5, <1>6
-----------------------------------------------------------------------------
(* The loops over the map.                                                 *)

LEMMA MapStays ==
    ASSUME e820' = e820
    PROVE  /\ EntryIds' = EntryIds /\ RamFrames' = RamFrames
           /\ Disjoint' <=> Disjoint
BY DEF EntryIds, RamFrames, Disjoint, WholeFrames, CeilFrame, FloorFrame, EndOf, Units

LEMMA ZonesStay ==
    ASSUME zones' = zones
    PROVE  ZoneIds' = ZoneIds /\ ZonePages' = ZonePages /\ (ZonesApart' <=> ZonesApart)
BY DEF ZoneIds, ZonePages, NrPages, ZonesApart, FramesOf

LEMMA RamFramesAre ==
    ASSUME e820 \in Seq(Regions)
    PROVE  /\ IsFiniteSet(EntryIds) /\ Len(e820) \in Nat
           /\ RamFrames \in [EntryIds -> Nat]
           /\ \A k \in EntryIds : e820[k] \in Regions /\ RamFrames[k] = SizeOfEntry(e820[k])
<1>1. Len(e820) \in Nat /\ \A k \in EntryIds : e820[k] \in Regions
  BY DEF EntryIds
<1>2. IsFiniteSet(EntryIds)
  BY <1>1, FS_Interval DEF EntryIds
<1>3. \A k \in EntryIds : RamFrames[k] = SizeOfEntry(e820[k])
  BY DEF RamFrames, SizeOfEntry
<1>4. \A k \in EntryIds : SizeOfEntry(e820[k]) \in Nat
  BY <1>1, NewZonesAre
<1> QED
  BY <1>1, <1>2, <1>3, <1>4 DEF RamFrames

LEMMA MaxOfTwo ==
    ASSUME NEW a \in Nat, NEW b \in Nat
    PROVE  Max({a, b}) \in {a, b} /\ Max({a, b}) >= a /\ Max({a, b}) >= b
<1>1. \E m \in {a, b} : \A x \in {a, b} : m >= x
  OBVIOUS
<1> QED
  BY <1>1 DEF Max

LEMMA InitHolds == Init => InitInv
<1> SUFFICES ASSUME Init PROVE InitInv
  OBVIOUS
<1>1. /\ pc = "copy" /\ i = 1 /\ zones = <<>> /\ maxPfn = 0 /\ total2m = 0 /\ free2m = 0
      /\ e820 \in Seq(Regions) /\ e820 \in Maps
  BY MapAssumption DEF Init, Regions
<1>2. \A k \in EntryIds : StructUnits[LastPfn(e820[k]) + 1] \in Nat
  BY <1>1, ArrayAssumption DEF EntryIds, LastPfn
<1>3. MapInv
  BY <1>1, <1>2, ArrayAssumption DEF MapInv
<1>4. ZonesInv
  <2>1. ZoneIds = {} /\ zones \in Seq(ZoneSet)
    BY <1>1 DEF ZoneIds
  <2> QED
    BY <1>1, <2>1 DEF ZonesInv, ZonesApart
<1> QED
  BY <1>1, <1>3, <1>4 DEF InitInv, CountInv, BitmapInv, FramesInv, AllocatorReady

\* The map that is kept begins like the one the loader left.
LEMMA CopyKeeps ==
    ASSUME InitInv, CopyMap
    PROVE  InitInv'
<1>1. PICK m : m = Min({Len(e820), MaxEntries})
  OBVIOUS
<1>2. /\ pc = "copy" /\ pc' = "count" /\ i' = 1 /\ e820' = SubSeq(e820, 1, m)
      /\ UNCHANGED <<maxPfn, total2m, free2m, bitmap, frame, zones>>
      /\ zones = <<>> /\ maxPfn = 0 /\ total2m = 0 /\ e820 \in Seq(Regions)
  BY <1>1 DEF CopyMap, FirstEntry, InitInv, MapInv, ZonesInv
<1>3. m \in Nat /\ m <= Len(e820)
  <2>1. {Len(e820), MaxEntries} \in SUBSET Nat
    BY <1>2, MapAssumption
  <2> QED
    BY <1>1, <2>1, MinOf
<1>4. e820' \in Seq(Regions) /\ Len(e820') = m
      /\ \A k \in 1 .. m : e820'[k] = e820[k] /\ k \in EntryIds
  BY <1>2, <1>3 DEF EntryIds
<1>5. \A k \in EntryIds' : StructUnits[LastPfn(e820'[k]) + 1] \in Nat
  BY <1>4 DEF InitInv, MapInv, EntryIds
<1>6. MapInv'
  <2>1. StructUnits[0 + 1] \in Nat
    <3>1. 0 + 1 = 1
      OBVIOUS
    <3> QED
      BY <3>1, ArrayAssumption
  <2>2. i' \in Nat \ {0} /\ i' <= Len(e820') + 1
    BY <1>2, <1>3, <1>4
  <2>3. maxPfn' = 0 /\ pc' # "copy"
    BY <1>2
  <2> QED
    BY <1>4, <1>5, <2>1, <2>2, <2>3 DEF MapInv
<1>7. CountInv'
  <2>1. 1 .. 1 - 1 = {}
    OBVIOUS
  <2>2. SumOver(RamFrames', {}) = 0
    BY SumOfNothing
  <2>3. Counted(i - 1)'
    BY <1>2, <2>1, <2>2 DEF Counted
  <2> QED
    BY <1>2, <2>3 DEF CountInv
<1>8. ZonesInv'
  <2>1. ZoneIds' = {} /\ zones' \in Seq(ZoneSet)
    BY <1>2 DEF ZoneIds
  <2> QED
    BY <1>2, <2>1 DEF ZonesInv, ZonesApart
<1> QED
  BY <1>2, <1>6, <1>7, <1>8 DEF InitInv, BitmapInv, FramesInv, AllocatorReady

\* One entry more is counted.
LEMMA CountKeeps ==
    ASSUME InitInv, CountEntry
    PROVE  InitInv'
<1>1. /\ pc = "count" /\ pc' = "count" /\ i <= Len(e820) /\ i' = i + 1
      /\ maxPfn' = Max({maxPfn, LastPfn(e820[i])})
      /\ total2m' = IF e820[i].type = RAM THEN total2m + Cardinality(WholeFrames(e820[i]))
                    ELSE total2m
      /\ e820' = e820 /\ zones' = zones /\ zones = <<>> /\ free2m' = free2m
      /\ i \in Nat \ {0} /\ Counted(i - 1) /\ maxPfn \in Nat /\ e820 \in Seq(Regions)
  BY DEF CountEntry, AtEntry, Entry, InitInv, MapInv, CountInv, ZonesInv
<1>2. i \in EntryIds /\ Len(e820) \in Nat
  BY <1>1 DEF EntryIds
<1>3. LastPfn(e820[i]) \in Nat
  BY <1>1, <1>2, RamFramesAre, EntryEnds
<1>4. /\ maxPfn' \in Nat /\ maxPfn' >= maxPfn /\ maxPfn' >= LastPfn(e820[i])
      /\ maxPfn' \in {maxPfn, LastPfn(e820[i])}
  BY <1>1, <1>3, MaxOfTwo
<1>5. MapInv'
  <2>1. StructUnits[maxPfn' + 1] \in Nat
    BY <1>2, <1>4 DEF InitInv, MapInv
  <2>2. \A k \in EntryIds : StructUnits[LastPfn(e820[k]) + 1] \in Nat
    BY DEF InitInv, MapInv
  <2>3. i' \in Nat \ {0} /\ i' <= Len(e820) + 1
    BY <1>1, <1>2
  <2> QED
    BY <1>1, <1>4, <2>1, <2>2, <2>3, MapStays DEF MapInv
<1>6. (\A k \in 1 .. i : LastPfn(e820[k]) <= maxPfn') /\ total2m' = SumOver(RamFrames, 1 .. i)
  <2>1. \A k \in 1 .. i : LastPfn(e820[k]) <= maxPfn'
    <3> TAKE k \in 1 .. i
    <3>1. CASE k = i
      BY <1>3, <1>4, <3>1
    <3>2. CASE k # i
      <4>1. k \in 1 .. i - 1 /\ k \in EntryIds
        BY <1>1, <1>2, <3>2 DEF EntryIds
      <4>2. LastPfn(e820[k]) \in Nat /\ LastPfn(e820[k]) <= maxPfn
        BY <1>1, <4>1, RamFramesAre, EntryEnds DEF Counted
      <4> QED
        BY <1>1, <1>4, <4>2
    <3> QED
      BY <3>1, <3>2
  <2>2. total2m' = SumOver(RamFrames, 1 .. i)
    <3>1. PICK n : n = i - 1
      OBVIOUS
    <3>2. n \in Nat /\ n + 1 = i /\ 1 .. n + 1 \subseteq EntryIds
      BY <1>1, <1>2, <3>1 DEF EntryIds
    <3>3. SumOver(RamFrames, 1 .. n + 1) = SumOver(RamFrames, 1 .. n) + RamFrames[n + 1]
      BY <1>1, <3>2, RamFramesAre, SumStep
    <3>4. SumOver(RamFrames, 1 .. n) \in Nat
      <4>1. 1 .. n \in SUBSET EntryIds
        BY <3>2
      <4> QED
        BY <1>1, <4>1, RamFramesAre, CopiesFinite
    <3>5. total2m = SumOver(RamFrames, 1 .. n)
      BY <1>1, <3>1 DEF Counted
    <3> QED
      BY <1>1, <1>2, <3>2, <3>3, <3>4, <3>5 DEF RamFrames
  <2> QED
    BY <2>1, <2>2
<1>7. CountInv'
  <2>1. i' - 1 = i /\ e820' = e820 /\ RamFrames' = RamFrames
    BY <1>1, MapStays
  <2>2. Counted(i - 1)'
    BY <1>6, <2>1 DEF Counted
  <2> QED
    BY <1>1, <2>2 DEF CountInv
<1>8. ZonesInv'
  <2>1. ZoneIds' = {} /\ zones' \in Seq(ZoneSet)
    BY <1>1 DEF ZoneIds
  <2> QED
    BY <1>1, <2>1 DEF ZonesInv, ZonesApart
<1> QED
  BY <1>1, <1>5, <1>7, <1>8 DEF InitInv, BitmapInv, FramesInv, AllocatorReady
\* The loops over the map begin, and the first does nothing to the counts.
LEMMA ClearKeeps ==
    ASSUME InitInv, ClearBitmap
    PROVE  InitInv'
<1>1. /\ pc = "count" /\ pc' = "reserve" /\ i > Len(e820) /\ i' = 1 /\ bitmap' = {}
      /\ UNCHANGED <<e820, maxPfn, total2m, free2m, frame, zones>>
      /\ zones = <<>> /\ Counted(i - 1) /\ i <= Len(e820) + 1 /\ i \in Nat \ {0}
      /\ e820 \in Seq(Regions)
  BY DEF ClearBitmap, PastEntries, FirstEntry, InitInv, CountInv, ZonesInv, MapInv
<1>2. Len(e820) \in Nat
  BY <1>1
<1>3. i - 1 = Len(e820)
  BY <1>1, <1>2
<1>4. Counted(Len(e820))'
  BY <1>1, <1>3, MapStays DEF Counted
<1>5. MapInv'
  BY <1>1, <1>2, MapStays DEF InitInv, MapInv
<1>6. ZonesInv'
  <2>1. ZoneIds' = {} /\ zones' \in Seq(ZoneSet)
    BY <1>1 DEF ZoneIds
  <2> QED
    BY <1>1, <2>1 DEF ZonesInv, ZonesApart
<1> QED
  BY <1>1, <1>4, <1>5, <1>6 DEF InitInv, CountInv, BitmapInv, FramesInv, AllocatorReady

\* The frames of an entry that is not RAM are marked.
LEMMA ReserveKeeps ==
    ASSUME InitInv, ReserveEntry
    PROVE  InitInv'
<1>1. /\ pc = "reserve" /\ pc' = "reserve" /\ i <= Len(e820) /\ i' = i + 1
      /\ bitmap' = IF e820[i].type = RAM THEN bitmap ELSE bitmap \cup WholeFrames(e820[i])
      /\ UNCHANGED <<e820, maxPfn, total2m, free2m, frame, zones>>
      /\ zones = <<>> /\ Counted(Len(e820)) /\ i \in Nat \ {0} /\ e820 \in Seq(Regions)
  BY DEF ReserveEntry, AtEntry, Entry, InitInv, CountInv, ZonesInv, MapInv
<1>2. Len(e820) \in Nat /\ i \in EntryIds
  BY <1>1 DEF EntryIds
<1>3. Counted(Len(e820))'
  BY <1>1, MapStays DEF Counted
<1>4. MapInv'
  <2>1. i' \in Nat \ {0} /\ i' <= Len(e820) + 1
    BY <1>1, <1>2
  <2> QED
    BY <1>1, <2>1, MapStays DEF InitInv, MapInv
<1>5. ZonesInv'
  <2>1. ZoneIds' = {} /\ zones' \in Seq(ZoneSet)
    BY <1>1 DEF ZoneIds
  <2> QED
    BY <1>1, <2>1 DEF ZonesInv, ZonesApart
<1>6. BitmapInv'
  <2>1. \A p \in bitmap : \E k \in EntryIds : e820[k].type # RAM /\ p \in WholeFrames(e820[k])
    BY <1>1 DEF InitInv, BitmapInv
  <2> QED
    BY <1>1, <1>2, <2>1, MapStays DEF BitmapInv
<1> QED
  BY <1>1, <1>3, <1>4, <1>5, <1>6 DEF InitInv, CountInv, FramesInv, AllocatorReady

\* Every frame begins as reserved.
LEMMA FramesKeep ==
    ASSUME InitInv, InitFrames
    PROVE  InitInv'
<1>1. /\ pc = "reserve" /\ pc' = "zones" /\ i' = 1
      /\ frame' = [p \in Frames |-> [zone |-> 0, flags |-> {"RESERVED"}, ref |-> 0]]
      /\ UNCHANGED <<e820, maxPfn, total2m, free2m, bitmap, zones>>
      /\ zones = <<>> /\ Counted(Len(e820)) /\ e820 \in Seq(Regions)
  BY DEF InitFrames, PastEntries, FirstEntry, InitInv, CountInv, ZonesInv, MapInv
<1>2. Len(e820) \in Nat
  BY <1>1
<1>3. Counted(Len(e820))'
  BY <1>1, MapStays DEF Counted
<1>4. MapInv'
  <2>1. i' \in Nat \ {0} /\ i' <= Len(e820) + 1
    BY <1>1, <1>2
  <2> QED
    BY <1>1, <2>1, MapStays DEF InitInv, MapInv
<1>5. ZoneIds' = {} /\ zones' \in Seq(ZoneSet)
  BY <1>1 DEF ZoneIds
<1>6. ZonesInv'
  <2>1. 1 .. 1 - 1 = {}
    OBVIOUS
  <2>2. SumOver(ZonePages', {}) = 0 /\ SumOver(RamFrames', {}) = 0
    BY SumOfNothing
  <2> QED
    BY <1>1, <1>5, <2>1, <2>2 DEF ZonesInv, ZonesApart
<1>7. FramesInv'
  <2>1. frame' \in [Frames' -> FrameSet]
    BY <1>1 DEF Frames, FrameSet
  <2> QED
    BY <1>5, <2>1 DEF FramesInv
<1>8. BitmapInv'
  BY <1>1, MapStays DEF InitInv, BitmapInv
<1> QED
  BY <1>1, <1>3, <1>4, <1>6, <1>7, <1>8 DEF InitInv, CountInv, AllocatorReady

\* Where the run leaves the model, nothing has changed.
LEMMA WildKeeps ==
    ASSUME InitInv, pc' = "wild",
           UNCHANGED <<e820, maxPfn, total2m, free2m, bitmap, frame, zones, i>>
    PROVE  InitInv'
<1>1. MapInv'
  BY MapStays DEF InitInv, MapInv
<1>2. ZonesInv'
  BY MapStays, ZonesStay DEF InitInv, ZonesInv
<1> QED
  BY <1>1, <1>2 DEF InitInv, CountInv, BitmapInv, FramesInv, AllocatorReady
-----------------------------------------------------------------------------
(* The zones of an entry join those there are.                             *)

\* The zones there were keep their place, and the new ones follow.
LEMMA ZonesJoin ==
    ASSUME ZonesInv, NEW e \in Regions, NEW zs, zs = NewZones(e), zones' = zones \o zs
    PROVE  /\ zones' \in Seq(ZoneSet) /\ Len(zones) \in Nat
           /\ Len(zones') = Len(zones) + Len(zs)
           /\ \A k \in 1 .. Len(zones) : zones'[k] = zones[k]
           /\ \A k \in 1 .. Len(zs) : zones'[Len(zones) + k] = zs[k]
<1>1. zones \in Seq(ZoneSet) /\ zs \in Seq(ZoneSet)
  BY NewZonesAre DEF ZonesInv
<1>2. Len(zones) \in Nat /\ Len(zs) \in Nat
  BY <1>1
<1>3. zones' \in Seq(ZoneSet) /\ Len(zones') = Len(zones) + Len(zs)
  BY <1>1
<1>4. \A k \in 1 .. Len(zones) : zones'[k] = zones[k]
  BY <1>1, <1>2
<1>5. \A k \in 1 .. Len(zs) : zones'[Len(zones) + k] = zs[k]
  BY <1>1, <1>2
<1> QED
  BY <1>2, <1>3, <1>4, <1>5

\* The pages of the zones grow by those of the entry.
LEMMA PagesGrow ==
    ASSUME ZonesInv, NEW e \in Regions, NEW zs, zs = NewZones(e), zones' = zones \o zs
    PROVE  /\ SumOver(ZonePages, ZoneIds) \in Nat
           /\ SumOver(ZonePages, ZoneIds)' = SumOver(ZonePages, ZoneIds) + SizeOfEntry(e)
<1>1. PICK n : n = Len(zones)
  OBVIOUS
<1>2. PICK c : c = ZonePages'
  OBVIOUS
<1>3. PICK d : d = ZonePages
  OBVIOUS
<1>4. PICK m : m = Len(zs)
  OBVIOUS
<1>5. /\ zones' \in Seq(ZoneSet) /\ n \in Nat /\ Len(zones') = n + m
      /\ \A k \in 1 .. n : zones'[k] = zones[k]
      /\ \A k \in 1 .. m : zones'[n + k] = zs[k]
  BY <1>1, <1>4, ZonesJoin
<1>6. /\ m \in 0 .. 2 /\ zs \in Seq(ZoneSet)
      /\ \A k \in 1 .. m : zs[k].start < zs[k].end
      /\ SizeOfEntry(e) \in Nat
      /\ SizeOfEntry(e) = IF m = 0 THEN 0
                          ELSE IF m = 1 THEN zs[1].end - zs[1].start
                          ELSE (zs[1].end - zs[1].start) + (zs[2].end - zs[2].start)
  BY <1>4, NewZonesAre
<1>7. ZoneIds = 1 .. n /\ ZoneIds' = 1 .. n + m
  BY <1>1, <1>5 DEF ZoneIds
<1>8. \A k \in 1 .. m : zs[k].end - zs[k].start \in Nat
  <2> TAKE k \in 1 .. m
  <2>1. zs[k] \in ZoneSet /\ zs[k].start < zs[k].end
    BY <1>4, <1>6
  <2> QED
    BY <2>1 DEF ZoneSet
<1>9. \A k \in 1 .. n : zones[k].end - zones[k].start \in Nat
  <2> TAKE k \in 1 .. n
  <2>1. zones[k] \in ZoneSet /\ zones[k].start < zones[k].end
    BY <1>1, <1>7 DEF ZonesInv
  <2> QED
    BY <2>1 DEF ZoneSet
<1>10. d \in [1 .. n -> Nat] /\ \A k \in 1 .. n : d[k] = zones[k].end - zones[k].start
  BY <1>3, <1>7, <1>9 DEF ZonePages, NrPages
<1>11. /\ DOMAIN c = 1 .. n + m
       /\ \A k \in 1 .. n + m : c[k] = zones'[k].end - zones'[k].start
  BY <1>2, <1>7 DEF ZonePages, NrPages
<1>12. /\ \A k \in 1 .. n : k \in 1 .. n + m /\ c[k] = d[k]
       /\ \A k \in 1 .. m : n + k \in 1 .. n + m /\ c[n + k] = zs[k].end - zs[k].start
  <2>1. \A k \in 1 .. n : k \in 1 .. n + m
    BY <1>5, <1>6
  <2>2. \A k \in 1 .. m : n + k \in 1 .. n + m
    BY <1>5, <1>6
  <2>3. ASSUME NEW k \in 1 .. n PROVE c[k] = d[k]
    <3>1. zones'[k] = zones[k] /\ k \in 1 .. n + m
      BY <1>5, <2>1
    <3>2. c[k] = zones'[k].end - zones'[k].start
      BY <1>11, <3>1
    <3>3. d[k] = zones[k].end - zones[k].start
      BY <1>10
    <3> QED
      BY <3>1, <3>2, <3>3
  <2>4. \A k \in 1 .. m : c[n + k] = zs[k].end - zs[k].start
    BY <1>5, <1>11, <2>2
  <2> QED
    BY <2>1, <2>2, <2>3, <2>4
<1>13. c \in [1 .. n + m -> Nat]
  <2>1. \A k \in 1 .. n + m : c[k] \in Nat
    <3> TAKE k \in 1 .. n + m
    <3>1. CASE k \in 1 .. n
      BY <1>10, <1>12, <3>1
    <3>2. CASE k \notin 1 .. n
      <4>1. PICK j : j = k - n
        OBVIOUS
      <4>2. j \in 1 .. m /\ k = n + j
        BY <1>5, <1>6, <3>2, <4>1
      <4> QED
        BY <1>8, <1>12, <4>2
    <3> QED
      BY <3>1, <3>2
  <2> DEFINE g == [k \in 1 .. n + m |-> c[k]]
  <2>2. g \in [1 .. n + m -> Nat]
    BY <2>1
  <2>3. c = g
    BY <1>2, <1>7, <1>11 DEF ZonePages
  <2> QED
    BY <2>2, <2>3
<1>14. IsFiniteSet(1 .. n) /\ IsFiniteSet(1 .. n + m)
  BY <1>5, <1>6, FS_Interval
<1>15. SumOver(d, 1 .. n) \in Nat /\ SumOver(c, 1 .. n) = SumOver(d, 1 .. n)
  BY <1>10, <1>12, <1>14, CopiesFinite, SumSame, ZenonT(40)
<1>16. SumOver(c, 1 .. n + m) = SumOver(d, 1 .. n) + SizeOfEntry(e)
  <2>1. CASE m = 0
    <3>1. n + m = n
      BY <1>5, <2>1
    <3> QED
      BY <1>6, <1>15, <2>1, <3>1
  <2>2. CASE m = 1
    <3>1. SumOver(c, 1 .. n + 1) = SumOver(c, 1 .. n) + c[n + 1]
      BY <1>5, <1>13, <1>14, <2>2, SumStep
    <3>2. c[n + 1] = SizeOfEntry(e)
      BY <1>6, <1>12, <2>2
    <3> QED
      BY <1>15, <2>2, <3>1, <3>2
  <2>3. CASE m = 2
    <3>1. PICK o : o = n + 1
      OBVIOUS
    <3>2. o \in Nat /\ o + 1 = n + 2 /\ 1 .. o \subseteq 1 .. n + 2 /\ 1 .. o + 1 \subseteq 1 .. n + 2
      BY <1>5, <3>1
    <3>3. SumOver(c, 1 .. n + 1) = SumOver(c, 1 .. n) + c[n + 1]
      BY <1>5, <1>13, <1>14, <2>3, <3>1, <3>2, SumStep
    <3>4. SumOver(c, 1 .. o + 1) = SumOver(c, 1 .. o) + c[o + 1]
      BY <1>13, <1>14, <2>3, <3>2, SumStep
    <3>5. c[n + 1] = zs[1].end - zs[1].start /\ c[n + 2] = zs[2].end - zs[2].start
      BY <1>12, <2>3
    <3>6. c[n + 1] \in Nat /\ c[n + 2] \in Nat
      BY <1>8, <2>3, <3>5
    <3>7. SizeOfEntry(e) = c[n + 1] + c[n + 2]
      BY <1>6, <2>3, <3>5
    <3>8. SumOver(c, 1 .. n + 2) = SumOver(c, 1 .. n + 1) + c[n + 2]
      BY <3>1, <3>2, <3>4
    <3> QED
      BY <1>15, <2>3, <3>3, <3>6, <3>7, <3>8
  <2> QED
    BY <1>6, <2>1, <2>2, <2>3
<1> QED
  BY <1>2, <1>3, <1>7, <1>15, <1>16 DEF SumOver, Copies
LEMMA MakeKeeps ==
    ASSUME InitInv, MakeZones
    PROVE  InitInv'
<1>1. PICK e : e = e820[i]
  OBVIOUS
<1>2. PICK zs : zs = NewZones(e)
  OBVIOUS
<1>3. PICK n : n = Len(zones)
  OBVIOUS
<1>4. PICK m : m = Len(zs)
  OBVIOUS
<1>5. /\ pc = "zones" /\ i <= Len(e820) /\ i' = i + 1 /\ zones' = zones \o zs
      /\ UNCHANGED <<e820, maxPfn, total2m, free2m, bitmap>>
      /\ i \in Nat \ {0} /\ maxPfn \in Nat /\ Counted(Len(e820)) /\ e820 \in Seq(Regions)
      /\ ZonesInv /\ Len(e820) \in Nat
  BY <1>1, <1>2 DEF MakeZones, AtEntry, Entry, InitInv, MapInv, CountInv
<1>6. i \in EntryIds /\ e \in Regions
  BY <1>1, <1>5 DEF EntryIds
<1>7. /\ zs \in Seq(ZoneSet) /\ m \in 0 .. 2
      /\ \A k \in 1 .. m : zs[k].start < zs[k].end /\ Splits(zs[k]) /\ Covers(e, zs[k])
      /\ \A j, k \in 1 .. m : j # k => FramesOf(zs[j]) \cap FramesOf(zs[k]) = {}
  BY <1>2, <1>4, <1>6, NewZonesAre
<1>8. /\ zones' \in Seq(ZoneSet) /\ n \in Nat /\ Len(zones') = n + m
      /\ \A k \in 1 .. n : zones'[k] = zones[k]
      /\ \A k \in 1 .. m : zones'[n + k] = zs[k]
  <2>1. /\ zones' \in Seq(ZoneSet) /\ Len(zones) \in Nat
        /\ Len(zones') = Len(zones) + Len(zs)
        /\ \A k \in 1 .. Len(zones) : zones'[k] = zones[k]
        /\ \A k \in 1 .. Len(zs) : zones'[Len(zones) + k] = zs[k]
    BY <1>2, <1>5, <1>6, ZonesJoin, SMTT(30)
  <2> QED
    BY <1>3, <1>4, <2>1
<1>9. ZoneIds = 1 .. n /\ ZoneIds' = 1 .. n + m
  BY <1>3, <1>8 DEF ZoneIds
<1>10. \A k \in EntryIds : LastPfn(e820[k]) <= maxPfn /\ LastPfn(e820[k]) \in Nat
  BY <1>5, RamFramesAre, EntryEnds DEF Counted, EntryIds
<1>11. ~Exceeds(zs)
  <2> SUFFICES ASSUME m = 1 PROVE ~(zs[1].end > maxPfn)
    BY <1>4 DEF Exceeds
  <2>1. zs[1] \in ZoneSet /\ zs[1].end <= LastPfn(e)
    BY <1>4, <1>7 DEF Covers
  <2> QED
    BY <1>1, <1>5, <1>6, <1>10, <2>1 DEF ZoneSet
<1>12. pc' = "zones" /\ frame' = [p \in Frames |-> Assign(zones', p)]
  BY <1>1, <1>2, <1>5, <1>11 DEF MakeZones, Entry
<1>13. \A k \in 1 .. n + m : k \in 1 .. n \/ \E j \in 1 .. m : k = n + j
  <2> TAKE k \in 1 .. n + m
  <2>1. PICK j : j = k - n
    OBVIOUS
  <2>2. k \in 1 .. n \/ (j \in 1 .. m /\ k = n + j)
    BY <1>7, <1>8, <2>1
  <2> QED
    BY <2>2
<1>14. ASSUME NEW k \in 1 .. n + m
       PROVE  /\ zones'[k].start < zones'[k].end /\ Splits(zones'[k]) /\ zones'[k] \in ZoneSet
              /\ \E j \in EntryIds : j < i + 1 /\ Covers(e820[j], zones'[k])
                    /\ (k \in 1 .. n => j < i) /\ (k \notin 1 .. n => j = i)
  <2>1. CASE k \in 1 .. n
    <3>1. zones'[k] = zones[k] /\ zones[k] \in ZoneSet
      BY <1>3, <1>5, <1>8, <2>1 DEF ZonesInv
    <3>2. PICK j \in EntryIds : j < i /\ Covers(e820[j], zones[k])
      BY <1>5, <1>9, <2>1 DEF ZonesInv
    <3>3. zones[k].start < zones[k].end /\ Splits(zones[k])
      BY <1>5, <1>9, <2>1 DEF ZonesInv
    <3>4. j < i + 1
      BY <1>5, <3>2 DEF EntryIds
    <3> QED
      BY <2>1, <3>1, <3>2, <3>3, <3>4
  <2>2. CASE k \notin 1 .. n
    <3>1. PICK j \in 1 .. m : k = n + j
      BY <1>13, <2>2
    <3>2. zones'[k] = zs[j] /\ zs[j] \in ZoneSet
      BY <1>4, <1>7, <1>8, <3>1
    <3>3. zs[j].start < zs[j].end /\ Splits(zs[j]) /\ Covers(e, zs[j])
      BY <1>7
    <3>4. i < i + 1
      BY <1>5
    <3> QED
      BY <1>1, <1>6, <2>2, <3>2, <3>3, <3>4
  <2> QED
    BY <2>1, <2>2
<1>15. ASSUME NEW k \in 1 .. n + m, NEW p \in FramesOf(zones'[k])
       PROVE  /\ p \in Frames
              /\ \E j \in EntryIds : p \in WholeFrames(e820[j])
                    /\ (k \in 1 .. n => j < i) /\ (k \notin 1 .. n => j = i)
  <2>1. PICK j \in EntryIds : /\ Covers(e820[j], zones'[k])
                              /\ (k \in 1 .. n => j < i) /\ (k \notin 1 .. n => j = i)
    BY <1>14
  <2>2. zones'[k] \in ZoneSet /\ e820[j] \in Regions
    BY <1>5, <1>14, RamFramesAre
  <2>3. p \in WholeFrames(e820[j])
    BY <2>1, <2>2, CoveredFrames
  <2>4. p \in Nat /\ p < zones'[k].end /\ zones'[k].end \in Nat
    BY <2>2 DEF FramesOf, ZoneSet
  <2>5. p \in Frames
    <3>1. /\ zones'[k].end <= LastPfn(e820[j])
          /\ LastPfn(e820[j]) <= maxPfn /\ LastPfn(e820[j]) \in Nat
      BY <1>10, <2>1 DEF Covers
    <3>2. p < LastPfn(e820[j])
      BY <2>4, <3>1
    <3>3. 0 <= p /\ p <= maxPfn
      BY <1>5, <2>4, <3>1, <3>2
    <3> QED
      BY <1>5, <2>4, <3>3 DEF Frames
  <2> QED
    BY <2>1, <2>3, <2>5
<1>16. ASSUME Disjoint PROVE ZonesApart'
  <2>1. ASSUME NEW j \in 1 .. n, NEW k \in 1 .. n + m, k \notin 1 .. n,
               NEW p \in FramesOf(zones'[j]), p \in FramesOf(zones'[k])
        PROVE  FALSE
    <3>1. j \in 1 .. n + m
      BY <1>7, <1>8
    <3>2. PICK a \in EntryIds : p \in WholeFrames(e820[a]) /\ a < i
      BY <1>15, <2>1, <3>1
    <3>3. p \in WholeFrames(e820[i])
      BY <1>15, <2>1
    <3>4. a # i
      BY <1>5, <3>2 DEF EntryIds
    <3> QED
      BY <1>5, <1>6, <1>16, <3>2, <3>3, <3>4, FramesApart
  <2>2. ASSUME NEW j \in 1 .. n, NEW k \in 1 .. n, j # k
        PROVE  FramesOf(zones'[j]) \cap FramesOf(zones'[k]) = {}
    BY <1>5, <1>8, <1>9, <1>16, <2>2 DEF ZonesInv, ZonesApart
  <2>3. ASSUME NEW j \in 1 .. n + m, NEW k \in 1 .. n + m, j # k, j \notin 1 .. n, k \notin 1 .. n
        PROVE  FramesOf(zones'[j]) \cap FramesOf(zones'[k]) = {}
    <3>1. PICK a \in 1 .. m : j = n + a
      BY <1>13, <2>3
    <3>2. PICK b \in 1 .. m : k = n + b
      BY <1>13, <2>3
    <3>3. a # b
      BY <2>3, <3>1, <3>2
    <3> QED
      BY <1>7, <1>8, <3>1, <3>2, <3>3
  <2>4. ASSUME NEW j \in 1 .. n + m, NEW k \in 1 .. n + m, j # k
        PROVE  FramesOf(zones'[j]) \cap FramesOf(zones'[k]) = {}
    BY <2>1, <2>2, <2>3, <2>4
  <2>5. FramesOf(zones[1])' = FramesOf(zones'[1])
    BY DEF FramesOf
  <2> QED
    BY <1>9, <2>4 DEF ZonesApart, FramesOf
<1>17. frame \in [Frames -> FrameSet] /\ Frames' = Frames
  BY <1>5 DEF InitInv, FramesInv, Frames
<1>18. ASSUME NEW p \in Frames,
              NEW O, O = {k \in 1 .. Len(zones') : k > Len(zones) /\ p \in FramesOf(zones'[k])}
       PROVE  /\ O \in SUBSET (1 .. n + m) /\ \A k \in O : k \notin 1 .. n
              /\ O = {} => frame'[p] = frame[p]
              /\ O # {} => frame'[p] = [zone |-> Max(O), flags |-> {}, ref |-> 0]
              /\ O # {} => Max(O) \in O
              /\ frame'[p] \in FrameSet
  <2>1. O \in SUBSET (1 .. n + m) /\ \A k \in O : k \notin 1 .. n
    BY <1>3, <1>8, <1>18
  <2>2. frame'[p] = IF O = {} THEN frame[p] ELSE [zone |-> Max(O), flags |-> {}, ref |-> 0]
    BY <1>12, <1>18 DEF Assign
  <2>3. ASSUME O # {} PROVE Max(O) \in O /\ Max(O) \in Nat
    <3>1. O \in SUBSET Nat /\ n + m \in Nat /\ \A x \in O : x <= n + m
      BY <1>7, <1>8, <2>1
    <3>2. Max(O) \in O
      BY <2>3, <3>1, MaxOf
    <3> QED
      BY <3>1, <3>2
  <2>4. frame'[p] \in FrameSet
    <3>1. CASE O = {}
      BY <1>17, <2>2, <3>1
    <3>2. CASE O # {}
      BY <2>2, <2>3, <3>2 DEF FrameSet
    <3> QED
      BY <3>1, <3>2
  <2> QED
    BY <2>1, <2>2, <2>3, <2>4
<1>19. FramesInv'
  <2>1. frame' \in [Frames' -> FrameSet]
    BY <1>12, <1>17, <1>18
  <2>2. ASSUME Disjoint, NEW k \in 1 .. n + m, NEW p \in FramesOf(zones'[k])
        PROVE  frame'[p].flags = {} /\ frame'[p].ref = 0 /\ (p # 0 => frame'[p].zone = k)
    <3>1. p \in Frames
      BY <1>15
    <3>2. PICK O : O = {j \in 1 .. Len(zones') : j > Len(zones) /\ p \in FramesOf(zones'[j])}
      OBVIOUS
    <3>3. \A j \in O : j = k
      <4> TAKE j \in O
      <4>1. p \in FramesOf(zones'[j]) /\ j \in 1 .. n + m
        BY <1>8, <3>2
      <4>2. j # k => FramesOf(zones'[j]) \cap FramesOf(zones'[k]) = {}
        BY <1>9, <1>16, <2>2, <4>1 DEF ZonesApart, FramesOf
      <4> QED
        BY <2>2, <4>1, <4>2
    <3>4. CASE k \in 1 .. n
      <4>0. \A j \in O : j \notin 1 .. n
        BY <1>3, <1>8, <3>2
      <4>1. O = {}
        BY <3>3, <3>4, <4>0
      <4>2. frame'[p] = frame[p]
        BY <1>18, <3>1, <3>2, <4>1
      <4>3. p \in FramesOf(zones[k]) /\ k \in ZoneIds
        BY <1>8, <1>9, <2>2, <3>4
      <4> QED
        BY <1>5, <2>2, <4>2, <4>3 DEF InitInv, FramesInv
    <3>5. CASE k \notin 1 .. n
      <4>1. k > Len(zones) /\ k \in 1 .. Len(zones')
        BY <1>3, <1>8, <3>5
      <4>2. k \in O
        BY <2>2, <3>2, <4>1
      <4>3. frame'[p] = [zone |-> Max(O), flags |-> {}, ref |-> 0] /\ Max(O) \in O
        BY <1>18, <3>1, <3>2, <4>2
      <4> QED
        BY <3>3, <4>3
    <3> QED
      BY <3>4, <3>5
  <2>3. Disjoint' <=> Disjoint
    BY <1>5, MapStays
  <2> QED
    BY <1>9, <2>1, <2>2, <2>3 DEF FramesInv, FramesOf
<1>20. SumOver(ZonePages, ZoneIds)' = SumOver(RamFrames', 1 .. i' - 1)
  <2>1. PICK a : a = i - 1
    OBVIOUS
  <2>2. a \in Nat /\ a + 1 = i /\ i' - 1 = i /\ 1 .. a + 1 \subseteq EntryIds
    BY <1>5, <1>6, <2>1 DEF EntryIds
  <2>3. SumOver(RamFrames, 1 .. a + 1) = SumOver(RamFrames, 1 .. a) + RamFrames[a + 1]
    BY <1>5, <2>2, RamFramesAre, SumStep
  <2>4. SumOver(ZonePages, ZoneIds) = SumOver(RamFrames, 1 .. a)
    BY <1>5, <2>1 DEF ZonesInv
  <2>5. SumOver(ZonePages, ZoneIds)' = SumOver(ZonePages, ZoneIds) + SizeOfEntry(e)
    BY <1>2, <1>5, <1>6, PagesGrow
  <2>6. RamFrames[i] = SizeOfEntry(e) /\ RamFrames' = RamFrames
    BY <1>1, <1>5, <1>6, RamFramesAre, MapStays
  <2> QED
    BY <2>2, <2>3, <2>4, <2>5, <2>6
<1>21. ZonesInv'
  <2>1. \A k \in ZoneIds' :
           /\ zones'[k].start < zones'[k].end /\ Splits(zones'[k])
           /\ \E j \in EntryIds' : j < i' /\ Covers(e820'[j], zones'[k])
    BY <1>5, <1>9, <1>14, MapStays
  <2>2. Disjoint' => ZonesApart'
    BY <1>5, <1>16, MapStays
  <2> QED
    BY <1>8, <1>12, <1>20, <2>1, <2>2 DEF ZonesInv, Splits, Covers
<1>22. MapInv'
  <2>1. i' \in Nat \ {0} /\ i' <= Len(e820) + 1
    BY <1>5
  <2> QED
    BY <1>5, <1>12, <2>1, MapStays DEF InitInv, MapInv
<1>23. CountInv' /\ BitmapInv'
  <2>1. Counted(Len(e820))'
    BY <1>5, MapStays DEF Counted
  <2> QED
    BY <1>5, <1>12, <2>1, MapStays DEF InitInv, CountInv, BitmapInv
<1> QED
  BY <1>5, <1>12, <1>19, <1>21, <1>22, <1>23 DEF InitInv, AllocatorReady
-----------------------------------------------------------------------------
(* The code after the loops.                                               *)

\* Page 0 is made free; no other frame changes.
LEMMA PageZeroKeeps ==
    ASSUME InitInv, SetPageZero
    PROVE  InitInv'
<1>1. /\ pc = "zones" /\ i > Len(e820) /\ pc' = "test"
      /\ frame' = [frame EXCEPT ![0] = [zone |-> 1, flags |-> {}, ref |-> 0]]
      /\ bitmap' = bitmap \ {0}
      /\ UNCHANGED <<e820, maxPfn, total2m, free2m, zones, i>>
      /\ i \in Nat \ {0} /\ i <= Len(e820) + 1 /\ e820 \in Seq(Regions)
      /\ Counted(Len(e820)) /\ ZonesInv /\ maxPfn \in Nat
  BY DEF SetPageZero, PastEntries, InitInv, MapInv, CountInv
<1>2. MapInv' /\ Len(e820) \in Nat
  BY <1>1, MapStays DEF InitInv, MapInv
<1>3. CountInv' /\ BitmapInv'
  <2>1. Counted(Len(e820))'
    BY <1>1, MapStays DEF Counted
  <2> QED
    BY <1>1, <2>1, MapStays DEF InitInv, CountInv, BitmapInv
<1>4. ZonesInv'
  <2>1. SumOver(ZonePages, ZoneIds) = SumOver(RamFrames, EntryIds)
    <3>1. 1 .. i - 1 = EntryIds
      BY <1>1, <1>2 DEF EntryIds
    <3> QED
      BY <1>1, <3>1 DEF ZonesInv
  <2> QED
    BY <1>1, <2>1, MapStays, ZonesStay DEF ZonesInv
<1>5. FramesInv'
  <2>1. frame \in [Frames -> FrameSet] /\ Frames' = Frames /\ 0 \in Frames
    BY <1>1 DEF InitInv, FramesInv, Frames
  <2>2. [zone |-> 1, flags |-> {}, ref |-> 0] \in FrameSet
    BY DEF FrameSet
  <2>3. frame' \in [Frames' -> FrameSet]
    BY <1>1, <2>1, <2>2
  <2>4. ASSUME Disjoint, NEW k \in ZoneIds, NEW p \in FramesOf(zones[k])
        PROVE  frame'[p].flags = {} /\ frame'[p].ref = 0 /\ (p # 0 => frame'[p].zone = k)
    <3>1. frame[p].flags = {} /\ frame[p].ref = 0 /\ (p # 0 => frame[p].zone = k)
      BY <1>1, <2>4 DEF InitInv, FramesInv
    <3>2. CASE p = 0
      BY <1>1, <2>1, <3>2
    <3>3. CASE p # 0
      BY <1>1, <2>1, <3>1, <3>3
    <3> QED
      BY <3>2, <3>3
  <2> QED
    BY <1>1, <2>3, <2>4, MapStays, ZonesStay DEF FramesInv, FramesOf
<1> QED
  BY <1>1, <1>2, <1>3, <1>4, <1>5 DEF InitInv, AllocatorReady

LEMMA TestKeeps ==
    ASSUME InitInv, TestBitmap
    PROVE  InitInv'
<1>1. /\ pc = "test" /\ pc' = "kernel" /\ bitmap' \subseteq bitmap
      /\ UNCHANGED <<e820, maxPfn, total2m, free2m, frame, zones, i>>
  BY DEF TestBitmap
<1>2. MapInv'
  BY <1>1, MapStays DEF InitInv, MapInv
<1>3. CountInv' /\ BitmapInv'
  <2>1. Counted(Len(e820))'
    BY <1>1, MapStays DEF InitInv, CountInv, Counted
  <2> QED
    BY <1>1, <2>1, MapStays DEF InitInv, CountInv, BitmapInv
<1>4. ZonesInv'
  BY <1>1, MapStays, ZonesStay DEF InitInv, ZonesInv
<1>5. FramesInv'
  BY <1>1, MapStays, ZonesStay DEF InitInv, FramesInv, Frames, FramesOf
<1> QED
  BY <1>1, <1>2, <1>3, <1>4, <1>5 DEF InitInv, AllocatorReady
\* A frame of a zone is in the page array, in RAM, and not marked before the kernel is.
LEMMA ZoneFrameIs ==
    ASSUME InitInv, pc \in {"zones", "test", "kernel", "done"},
           NEW k \in ZoneIds, NEW p \in FramesOf(zones[k])
    PROVE  /\ p \in Frames /\ p \in Nat /\ zones[k].end <= maxPfn
           /\ \E j \in EntryIds : e820[j] \in Regions /\ e820[j].type = RAM
                                  /\ p \in WholeFrames(e820[j])
<1>1. ZonesInv /\ Counted(Len(e820)) /\ e820 \in Seq(Regions) /\ maxPfn \in Nat
  BY DEF InitInv, CountInv, MapInv
<1>2. PICK j \in EntryIds : Covers(e820[j], zones[k])
  BY <1>1 DEF ZonesInv
<1>3. e820[j] \in Regions
  BY <1>1, RamFramesAre
<1>4. zones[k] \in ZoneSet
  BY <1>1 DEF ZonesInv, ZoneIds
<1>5. p \in WholeFrames(e820[j])
  BY <1>2, <1>3, <1>4, CoveredFrames
<1>6. PICK b : b = zones[k].end
  OBVIOUS
<1>7. PICK l : l = LastPfn(e820[j])
  OBVIOUS
<1>8. b \in Nat /\ l \in Nat /\ b <= l /\ l <= maxPfn
  BY <1>1, <1>2, <1>3, <1>4, <1>6, <1>7, EntryEnds DEF ZoneSet, Covers, Counted, EntryIds
<1>9. p \in Nat /\ p < b
  BY <1>4, <1>6 DEF FramesOf, ZoneSet
<1>10. p \in Frames /\ b <= maxPfn
  BY <1>1, <1>8, <1>9 DEF Frames
<1> QED
  BY <1>2, <1>3, <1>5, <1>6, <1>9, <1>10 DEF Covers

LEMMA KernelFramesFinite ==
    ASSUME MapInv
    PROVE  /\ StructEnd \in Nat /\ IsFiniteSet(KernelFrames)
           /\ KernelFrames = CeilFrame(KernelEnd) .. CeilFrame(StructEnd + FrameUnits) - 1
           /\ \A S : S \subseteq KernelFrames => Cardinality(S) \in Nat
<1>1. StructEnd \in Nat /\ KernelEnd \in Nat /\ FrameUnits \in Nat
  BY ArrayAssumption, UnitAssumption DEF MapInv, StructEnd
<1>2. StructEnd + FrameUnits \in Nat
  BY <1>1
<1>3. CeilFrame(KernelEnd) \in Nat /\ CeilFrame(StructEnd + FrameUnits) \in Nat
  BY <1>1, <1>2, CeilBound
<1>4. IsFiniteSet(KernelFrames)
  <2>1. CeilFrame(KernelEnd) \in Int /\ CeilFrame(StructEnd + FrameUnits) - 1 \in Int
    BY <1>3
  <2> QED
    BY <2>1, FS_Interval DEF KernelFrames
<1>5. \A S : S \subseteq KernelFrames => Cardinality(S) \in Nat
  BY <1>4, FS_Subset, FS_CardinalityType
<1> QED
  BY <1>1, <1>4, <1>5 DEF KernelFrames

\* A counter that wraps is a number of its width.
LEMMA LessRange ==
    ASSUME NEW c \in Int, NEW k \in Int
    PROVE  Less(c, k) \in 0 .. CounterMod - 1 /\ Less(c, k) \in Int
<1>1. c - k \in Int /\ CounterMod \in Nat \ {0}
  BY UnitAssumption
<1>2. \A a \in Int, m \in Nat \ {0} : a % m \in 0 .. m - 1 /\ a % m \in Int
  BY SMT
<1> QED
  BY <1>1, <1>2 DEF Less

LEMMA KernelKeeps ==
    ASSUME InitInv, MarkKernel
    PROVE  InitInv'
<1>1. /\ pc = "kernel" /\ pc' = "done" /\ KernelFrames \subseteq Frames
      /\ bitmap' = bitmap \cup KernelFrames
      /\ frame' = [p \in Frames |->
                     IF p \in KernelFrames
                     THEN [frame[p] EXCEPT !.flags = {"KERNEL", "USED"}, !.ref = 1]
                     ELSE frame[p]]
      /\ zones' = [k \in 1 .. Len(zones) |->
                     [zones[k] EXCEPT !.nrFree = Less(@, Cardinality(ChargedTo(k)))]]
      /\ free2m' = Less(free2m, Cardinality(UNION {ChargedTo(k) : k \in 1 .. Len(zones)}))
      /\ UNCHANGED <<e820, maxPfn, total2m, i>>
  BY DEF MarkKernel
<1>2. /\ MapInv /\ ZonesInv /\ e820 \in Seq(Regions) /\ maxPfn \in Nat /\ free2m \in Int
      /\ zones \in Seq(ZoneSet) /\ Len(zones) \in Nat
  BY DEF InitInv, MapInv, ZonesInv
<1>3. MapInv'
  BY <1>1, MapStays DEF InitInv, MapInv
<1>4. CountInv'
  <2>1. Counted(Len(e820))'
    BY <1>1, MapStays DEF InitInv, CountInv, Counted
  <2> QED
    BY <1>1, <2>1, MapStays DEF CountInv
<1>5. /\ free2m' \in 0 .. CounterMod - 1 /\ free2m' \in Int
      /\ \A k \in ZoneIds : Less(zones[k].nrFree, Cardinality(ChargedTo(k)))
                              \in 0 .. CounterMod - 1
      /\ \A k \in ZoneIds : Less(zones[k].nrFree, Cardinality(ChargedTo(k))) \in Int
  <2>1. \A k : ChargedTo(k) \subseteq KernelFrames
    BY DEF ChargedTo
  <2>2. UNION {ChargedTo(k) : k \in 1 .. Len(zones)} \subseteq KernelFrames
    BY <2>1
  <2>3. /\ Cardinality(UNION {ChargedTo(k) : k \in 1 .. Len(zones)}) \in Int
        /\ \A k : Cardinality(ChargedTo(k)) \in Int
    BY <1>2, <2>1, <2>2, KernelFramesFinite
  <2>4. \A k \in ZoneIds : zones[k].nrFree \in Int
    <3> TAKE k \in ZoneIds
    <3>1. zones[k] \in ZoneSet
      BY <1>2 DEF ZoneIds
    <3> QED
      BY <3>1 DEF ZoneSet
  <2> QED
    BY <1>1, <1>2, <2>3, <2>4, LessRange
<1>6. /\ DOMAIN zones' = ZoneIds /\ Len(zones') = Len(zones) /\ zones' \in Seq(ZoneSet)
      /\ \A k \in ZoneIds :
            /\ zones'[k].start = zones[k].start /\ zones'[k].end = zones[k].end
            /\ zones'[k].type = zones[k].type
            /\ zones'[k].nrFree \in 0 .. CounterMod - 1
  <2>1. ASSUME NEW k \in ZoneIds
        PROVE  /\ zones'[k].start = zones[k].start /\ zones'[k].end = zones[k].end
               /\ zones'[k].type = zones[k].type
               /\ zones'[k].nrFree \in 0 .. CounterMod - 1
               /\ zones'[k] \in ZoneSet
    <3>1. zones[k] \in ZoneSet
      BY <1>2 DEF ZoneIds
    <3>2. zones'[k] = [zones[k] EXCEPT !.nrFree = Less(@, Cardinality(ChargedTo(k)))]
      BY <1>1 DEF ZoneIds
    <3> QED
      BY <1>5, <3>1, <3>2 DEF ZoneSet
  <2>2. DOMAIN zones' = 1 .. Len(zones)
    BY <1>1
  <2>3. zones' \in [1 .. Len(zones) -> ZoneSet]
    BY <1>1, <2>1, <2>2 DEF ZoneIds
  <2>4. zones' \in Seq(ZoneSet) /\ Len(zones') = Len(zones)
    BY <1>2, <2>3
  <2> QED
    BY <2>1, <2>2, <2>4 DEF ZoneIds
<1>7. /\ ZoneIds' = ZoneIds /\ ZonePages' = ZonePages
      /\ \A k \in ZoneIds : FramesOf(zones'[k]) = FramesOf(zones[k])
  <2>1. ZoneIds' = ZoneIds
    BY <1>6 DEF ZoneIds
  <2>2. \A k \in ZoneIds : NrPages(k)' = NrPages(k)
    BY <1>6 DEF NrPages
  <2> QED
    BY <1>6, <2>1, <2>2 DEF ZonePages, NrPages, FramesOf
<1>8. ZonesInv'
  <2>1. \A k \in ZoneIds :
           /\ zones'[k].start < zones'[k].end /\ Splits(zones'[k])
           /\ \E j \in EntryIds : Covers(e820[j], zones'[k])
    BY <1>2, <1>6 DEF ZonesInv, Splits, Covers
  <2>2. Disjoint => ZonesApart'
    BY <1>2, <1>7 DEF ZonesInv, ZonesApart, FramesOf
  <2>3. SumOver(ZonePages, ZoneIds) = SumOver(RamFrames, EntryIds)
    BY <1>1, <1>2 DEF ZonesInv
  <2> QED
    BY <1>1, <1>6, <1>7, <2>1, <2>2, <2>3, MapStays DEF ZonesInv, Splits, Covers
<1>9. ASSUME Disjoint
      PROVE  /\ \A k \in ZoneIds : zones'[k].start < zones'[k].end /\ zones'[k].end <= maxPfn
             /\ \A j, k \in ZoneIds : j # k => FramesOf(zones'[j]) \cap FramesOf(zones'[k]) = {}
             /\ \A k \in ZoneIds : \A p \in FramesOf(zones'[k]) :
                   /\ p \in bitmap' <=> p \in KernelFrames
                   /\ p \in bitmap' <=> "USED" \in frame'[p].flags
                   /\ frame'[p].ref = IF p \in bitmap' THEN 1 ELSE 0
                   /\ p # 0 => frame'[p].zone = k
  <2>1. ASSUME NEW k \in ZoneIds
        PROVE  zones'[k].start < zones'[k].end /\ zones'[k].end <= maxPfn
    <3>1. zones[k].start < zones[k].end /\ zones[k] \in ZoneSet
      BY <1>2 DEF ZonesInv, ZoneIds
    <3>2. zones[k].start \in FramesOf(zones[k])
      BY <3>1 DEF FramesOf, ZoneSet
    <3>3. zones[k].end <= maxPfn
      BY <1>1, <3>2, ZoneFrameIs
    <3> QED
      BY <1>6, <3>1, <3>3
  <2>2. \A j, k \in ZoneIds : j # k => FramesOf(zones'[j]) \cap FramesOf(zones'[k]) = {}
    BY <1>2, <1>7, <1>9 DEF ZonesInv, ZonesApart
  <2>3. ASSUME NEW k \in ZoneIds, NEW p \in FramesOf(zones'[k])
        PROVE  /\ p \in bitmap' <=> p \in KernelFrames
               /\ p \in bitmap' <=> "USED" \in frame'[p].flags
               /\ frame'[p].ref = IF p \in bitmap' THEN 1 ELSE 0
               /\ p # 0 => frame'[p].zone = k
    <3>1. p \in FramesOf(zones[k])
      BY <1>7, <2>3
    <3>2. p \in Frames /\ \E j \in EntryIds : e820[j].type = RAM /\ p \in WholeFrames(e820[j])
      BY <1>1, <3>1, ZoneFrameIs
    <3>3. p \notin bitmap
      <4>1. SUFFICES ASSUME p \in bitmap PROVE FALSE
        OBVIOUS
      <4>2. PICK a \in EntryIds : e820[a].type # RAM /\ p \in WholeFrames(e820[a])
        BY <1>1, <4>1 DEF InitInv, BitmapInv
      <4>3. PICK j \in EntryIds : e820[j].type = RAM /\ p \in WholeFrames(e820[j])
        BY <3>2
      <4> QED
        BY <1>2, <1>9, <4>2, <4>3, FramesApart
    <3>4. /\ frame[p] \in FrameSet /\ frame[p].flags = {} /\ frame[p].ref = 0
          /\ p # 0 => frame[p].zone = k
      BY <1>1, <1>9, <3>1, <3>2 DEF InitInv, FramesInv
    <3>5. p \in bitmap' <=> p \in KernelFrames
      BY <1>1, <3>3
    <3>6. CASE p \in KernelFrames
      <4>1. frame'[p] = [frame[p] EXCEPT !.flags = {"KERNEL", "USED"}, !.ref = 1]
        BY <1>1, <3>2, <3>6
      <4> QED
        BY <3>4, <3>5, <3>6, <4>1 DEF FrameSet
    <3>7. CASE p \notin KernelFrames
      BY <1>1, <3>2, <3>4, <3>5, <3>7
    <3> QED
      BY <3>6, <3>7
  <2> QED
    BY <2>1, <2>2, <2>3
<1>10. AllocatorReady'
  <2>1. KernelFrames' = KernelFrames
    BY <1>1 DEF KernelFrames, StructEnd, CeilFrame
  <2>2. ASSUME Disjoint'
        PROVE  /\ (\A k \in ZoneIds : zones[k].start < zones[k].end /\ zones[k].end <= maxPfn)'
               /\ (\A j, k \in ZoneIds : j # k => FramesOf(zones[j]) \cap FramesOf(zones[k]) = {})'
               /\ (\A k \in ZoneIds : \A p \in FramesOf(zones[k]) :
                     /\ p \in bitmap <=> p \in KernelFrames
                     /\ p \in bitmap <=> "USED" \in frame[p].flags
                     /\ frame[p].ref = IF p \in bitmap THEN 1 ELSE 0
                     /\ p # 0 => frame[p].zone = k)'
    <3>1. Disjoint /\ maxPfn' = maxPfn
      BY <1>1, <2>2, MapStays
    <3> QED
      BY <1>7, <1>9, <2>1, <3>1 DEF FramesOf
  <2>3. free2m' \in 0 .. CounterMod - 1
        /\ \A k \in ZoneIds' : zones'[k].nrFree \in 0 .. CounterMod - 1
    BY <1>5, <1>6, <1>7
  <2> QED
    BY <2>2, <2>3 DEF AllocatorReady
<1> QED
  BY <1>1, <1>3, <1>4, <1>5, <1>8, <1>10 DEF InitInv, BitmapInv, FramesInv
LEMMA StutterKeeps ==
    ASSUME InitInv, UNCHANGED vars
    PROVE  InitInv'
<1>1. UNCHANGED <<e820, maxPfn, total2m, free2m, bitmap, frame, zones, pc, i>>
  BY DEF vars
<1>2. MapInv' /\ CountInv' /\ BitmapInv'
  BY <1>1, MapStays DEF InitInv, MapInv, CountInv, Counted, BitmapInv
<1>3. ZonesInv'
  BY <1>1, MapStays, ZonesStay DEF InitInv, ZonesInv
<1>4. FramesInv'
  BY <1>1, MapStays, ZonesStay DEF InitInv, FramesInv, Frames, FramesOf
<1>5. AllocatorReady'
  <2>1. KernelFrames' = KernelFrames
    BY <1>1 DEF KernelFrames, StructEnd
  <2> QED
    BY <1>1, <2>1, MapStays, ZonesStay DEF InitInv, AllocatorReady, FramesOf
<1> QED
  BY <1>1, <1>2, <1>3, <1>4, <1>5 DEF InitInv

LEMMA InitNext == InitInv /\ [Next]_vars => InitInv'
<1> SUFFICES ASSUME InitInv, [Next]_vars PROVE InitInv'
  OBVIOUS
<1>1. CASE CountWild \/ ClearWild \/ MarkKernelWild
  BY <1>1, WildKeeps DEF CountWild, ClearWild, MarkKernelWild
<1> QED
  BY <1>1, CopyKeeps, CountKeeps, ClearKeeps, ReserveKeeps, FramesKeep, MakeKeeps,
     PageZeroKeeps, TestKeeps, KernelKeeps, StutterKeeps DEF Next

-----------------------------------------------------------------------------
\* Every loop of init_memory keeps what the next one relies on (memory.c 47-385).
THEOREM InitInvariance == Spec => []InitInv
BY InitHolds, InitNext, PTL DEF Spec

\* Whatever the map, if its entries do not overlap, the state init_memory leaves is
\* one the allocator may start from (memory.c 172-370).
THEOREM AllocatorIsReady == Spec => []AllocatorReady
<1>1. InitInv => AllocatorReady
  BY DEF InitInv
<1> QED
  BY <1>1, InitInvariance, PTL

\* "Zone end_pfn exceeds max_pfn" is never printed (memory.c 266-273).
THEOREM ZoneCheckNeverFires == Spec => []ZoneCheckHolds
<1>1. InitInv => ZoneCheckHolds
  BY DEF InitInv, ZoneCheckHolds
<1> QED
  BY <1>1, InitInvariance, PTL

\* No DMA zone reaches past the boundary, and no other zone begins below it: of the
\* two kinds that are made, each keeps to its side (memory.c 180-263).
THEOREM ZonesAreSplit == Spec => []ZoneTypesSplitMemory
<1>1. InitInv => ZoneTypesSplitMemory
  BY DEF InitInv, ZonesInv, ZoneTypesSplitMemory, Splits
<1> QED
  BY <1>1, InitInvariance, PTL

\* A frame below the ceiling of an address that is in frame 0, or at the end of a
\* frame, is frame 0 or ends before that address.
LEMMA BelowCeiling ==
    ASSUME NEW a \in Nat, a <= FrameUnits \/ a % FrameUnits = 0,
           NEW p \in Nat, p # 0, p < CeilFrame(a)
    PROVE  p * FrameUnits + FrameUnits <= a
<1> DEFINE u == FrameUnits
           q == a \div u
<1>1. u \in Nat /\ u > 0 /\ p * u < a /\ p * u \in Nat
  BY UnitAssumption, CeilBound, FrameHolds
<1>2. CASE a <= u
  <2> HIDE DEF u
  <2>1. 1 * u <= p * u
    BY <1>1
  <2> QED
    BY <1>1, <1>2, <2>1
<1>3. CASE a % u = 0
  <2>1. q \in Nat /\ a = q * u
    BY <1>1, <1>3, SMT
  <2> HIDE DEF u, q
  <2>2. p < q
    <3>1. q <= p => q * u <= p * u
      BY <1>1, <2>1
    <3> QED
      BY <1>1, <2>1, <3>1
  <2>3. (p + 1) * u <= q * u /\ (p + 1) * u = p * u + u
    BY <1>1, <2>1, <2>2
  <2> QED
    BY <2>1, <2>3 DEF u
<1> QED
  BY <1>2, <1>3

\* What the allocator may grant is RAM, and none of the kernel's structures
\* (memory.c 172-370).
THEOREM GrantedFramesAreRam == Spec => []FreeFramesAreUsableRam
<1>1. InitInv => FreeFramesAreUsableRam
  <2> SUFFICES ASSUME InitInv, pc = "done", Disjoint,
                      KernelEnd <= FrameUnits \/ KernelEnd % FrameUnits = 0,
                      NEW k \in ZoneIds, NEW p \in FramesOf(zones[k]) \ (bitmap \cup {0})
               PROVE  /\ UnitsOf(p) \subseteq RamUnits
                      /\ UnitsOf(p) \cap (KernelEnd .. StructEnd - 1) = {}
    BY DEF FreeFramesAreUsableRam
  <2>1. PICK j \in EntryIds : e820[j] \in Regions /\ e820[j].type = RAM
                              /\ p \in WholeFrames(e820[j])
    BY ZoneFrameIs
  <2>2. UnitsOf(p) \subseteq RamUnits
    <3>1. UnitsOf(p) \subseteq Units(e820[j])
      BY <2>1, WholeInside
    <3> QED
      BY <2>1, <3>1 DEF RamUnits, EntryIds
  <2>3. p \in Nat /\ p # 0 /\ p \notin KernelFrames
    BY ZoneFrameIs DEF InitInv, AllocatorReady
  <2>4. /\ StructEnd \in Nat /\ KernelEnd \in Nat /\ FrameUnits \in Nat /\ FrameUnits > 0
        /\ KernelFrames = CeilFrame(KernelEnd) .. CeilFrame(StructEnd + FrameUnits) - 1
    BY KernelFramesFinite, ArrayAssumption, UnitAssumption DEF InitInv
  <2>5. CeilFrame(KernelEnd) \in Nat /\ CeilFrame(StructEnd + FrameUnits) \in Nat
        /\ StructEnd + FrameUnits \in Nat
    BY <2>4, CeilBound
  <2>6. p < CeilFrame(KernelEnd) \/ ~(p < CeilFrame(StructEnd + FrameUnits))
    BY <2>3, <2>4, <2>5
  <2>7. PICK a : a = p * FrameUnits
    OBVIOUS
  <2>8. a \in Nat /\ UnitsOf(p) = a .. a + FrameUnits - 1
    <3>1. p * FrameUnits \in Nat
          /\ UnitsOf(p) = p * FrameUnits .. p * FrameUnits + FrameUnits - 1
      BY <2>3, FrameHolds
    <3> QED
      BY <2>7, <3>1
  <2>9. a + FrameUnits <= KernelEnd \/ StructEnd + FrameUnits <= a
    <3>1. CASE p < CeilFrame(KernelEnd)
      BY <2>3, <2>4, <2>7, <3>1, BelowCeiling
    <3>2. CASE ~(p < CeilFrame(StructEnd + FrameUnits))
      <4>1. ~(p * FrameUnits < StructEnd + FrameUnits)
        BY <2>3, <2>5, <3>2, CeilBound
      <4> QED
        BY <2>4, <2>7, <2>8, <4>1
    <3> QED
      BY <2>6, <3>1, <3>2
  <2>10. UnitsOf(p) \cap (KernelEnd .. StructEnd - 1) = {}
    BY <2>4, <2>8, <2>9
  <2> QED
    BY <2>2, <2>10
<1> QED
  BY <1>1, InitInvariance, PTL

\* The number of pages that is counted from the map is the number the zones have,
\* overlapping entries or not (total_2m_pages and nr_pages, memory.c 65-109, 198-263).
THEOREM TotalIsCountedRight == Spec => []TotalIsZonePages
<1>1. InitInv => TotalIsZonePages
  <2> SUFFICES ASSUME InitInv, pc = "done"
               PROVE  total2m = MapThenSumSet(NrPages, ZoneIds)
    BY DEF TotalIsZonePages
  <2>1. total2m = SumOver(ZonePages, ZoneIds)
    BY DEF InitInv, CountInv, Counted, ZonesInv, EntryIds
  <2>2. zones \in Seq(ZoneSet) /\ \A k \in ZoneIds : zones[k].start < zones[k].end
    BY DEF InitInv, ZonesInv
  <2>3. IsFiniteSet(ZoneIds)
    BY <2>2, FS_Interval DEF ZoneIds
  <2>4. ZonePages \in [ZoneIds -> Nat]
    <3>1. ASSUME NEW k \in ZoneIds PROVE NrPages(k) \in Nat
      <4>1. zones[k] \in ZoneSet /\ zones[k].start < zones[k].end
        BY <2>2 DEF ZoneIds
      <4> QED
        BY <4>1 DEF ZoneSet, NrPages
    <3> QED
      BY <3>1 DEF ZonePages
  <2> DEFINE Sums(f) ==
               f = [s \in SUBSET ZoneIds |->
                      IF s = {} THEN 0
                      ELSE NrPages(CHOOSE x \in s : TRUE) + f[s \ {CHOOSE x \in s : TRUE}]]
  <2>5. \A f : Sums(f) <=> SumsUp(f, ZonePages, ZoneIds)
    <3>1. \A s \in SUBSET ZoneIds : s # {} =>
             ZonePages[CHOOSE x \in s : TRUE] = NrPages(CHOOSE x \in s : TRUE)
      BY DEF ZonePages
    <3> QED
      BY <3>1 DEF SumsUp
  <2>6. Sums(CHOOSE f : Sums(f))
    <3>1. SumsUp([s \in SUBSET ZoneIds |-> SumOver(ZonePages, s)], ZonePages, ZoneIds)
      BY <2>3, <2>4, SumExists
    <3>2. \E f : Sums(f)
      BY <2>5, <3>1
    <3> HIDE DEF Sums
    <3> QED
      BY <3>2
  <2>7. MapThenSumSet(NrPages, ZoneIds) = (CHOOSE f : Sums(f))[ZoneIds]
    BY DEF MapThenSumSet, MapThenFoldSet
  <2> HIDE DEF Sums
  <2>8. (CHOOSE f : Sums(f))[ZoneIds] = SumOver(ZonePages, ZoneIds)
    BY <2>3, <2>4, <2>5, <2>6, SumUnique
  <2> QED
    BY <2>1, <2>7, <2>8
<1> QED
  BY <1>1, InitInvariance, PTL
=============================================================================
