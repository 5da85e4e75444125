----------------------------- MODULE InitMemory -----------------------------
(***************************************************************************)
(* init_memory (src/kernel/memory.c): from the E820 map the loader left to *)
(* the bitmap, the page frames and the zones that alloc_pages works on.    *)
(*                                                                         *)
(* Physical addresses count units of memory, FrameUnits of them in a 2 MB  *)
(* frame, so that an entry may begin or end inside a frame.  Every action  *)
(* is one iteration of a loop over the map, or the code between two loops. *)
(***************************************************************************)
EXTENDS Integers, FiniteSets, Sequences, FiniteSetsExt

CONSTANTS
    FrameUnits,   \* units in a page frame (PAGE_2M_SIZE)
    Maps,         \* the E820 maps the loader may leave
    MaxEntries,   \* E820_MAX_ENTRIES
    DmaFrames,    \* frames below the DMA boundary (16 MB: 8)
    TestOffset,   \* distance of the tested bit from the first frame (10)
    KernelEnd,    \* where the bitmap begins: _end rounded up
    StructUnits,  \* units the arrays take, for each number of frames
    MappedUnits,  \* units of RAM head.S maps (10 MB); video memory follows
    CounterMod    \* the uint64_t counters wrap at this value

RAM == 1

\* Indices of memory_type_array, the names of the entry types.
NamedTypes == 0 .. 4

ASSUME UnitAssumption ==
    /\ FrameUnits \in Nat \ {0}
    /\ DmaFrames \in Nat \ {0}
    /\ CounterMod \in Nat \ {0}

ASSUME MapAssumption ==
    /\ MaxEntries \in Nat
    /\ Maps \subseteq Seq([base : Nat, len : Nat, type : Nat])

VARIABLES
    e820,    \* the entries kept
    maxPfn,  \* the highest frame number of the map
    total2m, \* huge_page_info.total_2m_pages
    free2m,  \* huge_page_info.free_2m_pages
    bitmap,  \* the set of set bits
    frame,   \* page.addr: zone number, flags and ref_count of each frame
    zones,   \* zone.addr
    pc,      \* the part of init_memory that runs
    i        \* the entry the current loop is at

vars == <<e820, maxPfn, total2m, free2m, bitmap, frame, zones, pc, i>>

FloorFrame(a) == a \div FrameUnits
CeilFrame_Down(a) == a \div FrameUnits

CeilFrame(a)  == (a + FrameUnits - 1) \div FrameUnits
EndOf(e)      == e.base + e.len

\* Operators named <definition>_<what is wrong> are mutants: a plausible bug in
\* the code of that definition, which a property of a run is seen to catch.
LastPfn_Inclusive(e) == FloorFrame(EndOf(e) - 1)

\* The frame number an entry raises max_pfn to.
LastPfn(e) == FloorFrame(EndOf(e))

\* The arrays take some units, for every number of frames a map leads to.
ASSUME ArrayAssumption ==
    /\ KernelEnd \in Nat /\ StructUnits[1] \in Nat
    /\ \A m \in Maps : \A k \in DOMAIN m : StructUnits[FloorFrame(EndOf(m[k])) + 1] \in Nat

WholeFrames_Touched(e) == FloorFrame(e.base) .. CeilFrame(EndOf(e)) - 1

\* The frames an entry covers from end to end.
WholeFrames(e) == CeilFrame(e.base) .. FloorFrame(EndOf(e)) - 1

Entry == e820[i]
AtEntry(phase) == pc = phase /\ i <= Len(e820)
PastEntries(phase) == pc = phase /\ i > Len(e820)

FirstEntry(phase) == pc' = phase /\ i' = 1

-----------------------------------------------------------------------------
\* Before the map is copied nothing else is set: the structure is in .bss.
Init ==
    /\ e820 \in Maps
    /\ maxPfn = 0 /\ total2m = 0 /\ free2m = 0
    /\ bitmap = {}
    /\ frame = <<>>
    /\ zones = <<>>
    /\ pc = "copy"
    /\ i = 1

\* Entries past E820_MAX_ENTRIES are dropped.
CopyMap ==
    /\ pc = "copy"
    /\ e820' = SubSeq(e820, 1, Min({Len(e820), MaxEntries}))
    /\ FirstEntry("count")
    /\ UNCHANGED <<maxPfn, total2m, free2m, bitmap, frame, zones>>

\* An entry of any type raises max_pfn; RAM adds its whole frames.
CountEntry ==
    /\ AtEntry("count")
    /\ maxPfn' = Max({maxPfn, LastPfn(Entry)})
    /\ total2m' = IF Entry.type = RAM THEN total2m + Cardinality(WholeFrames(Entry))
                  ELSE total2m
    /\ i' = i + 1
    /\ UNCHANGED <<e820, free2m, bitmap, frame, zones, pc>>

\* The log line of an entry reads the name of its type past the end of
\* memory_type_array, and may fault on what it finds there.  (What follows
\* "wild" is not modelled.)
CountWild ==
    /\ AtEntry("count") /\ Entry.type \notin NamedTypes
    /\ pc' = "wild"
    /\ UNCHANGED <<e820, maxPfn, total2m, free2m, bitmap, frame, zones, i>>

Frames == 0 .. maxPfn
StructEnd == KernelEnd + StructUnits[maxPfn + 1]

\* The bitmap is placed after the kernel and cleared.
ClearBitmap ==
    /\ PastEntries("count")
    /\ StructEnd <= MappedUnits
    /\ bitmap' = {}
    /\ FirstEntry("reserve")
    /\ UNCHANGED <<e820, maxPfn, total2m, free2m, frame, zones>>

\* The arrays do not fit in the RAM that is mapped: their end is video memory.
ClearWild ==
    /\ PastEntries("count")
    /\ StructEnd > MappedUnits
    /\ pc' = "wild"
    /\ UNCHANGED <<e820, maxPfn, total2m, free2m, bitmap, frame, zones, i>>

\* Of an entry that is not RAM, the whole frames are marked.
ReserveEntry ==
    /\ AtEntry("reserve")
    /\ bitmap' = IF Entry.type = RAM THEN bitmap ELSE bitmap \cup WholeFrames(Entry)
    /\ i' = i + 1
    /\ UNCHANGED <<e820, maxPfn, total2m, free2m, frame, zones, pc>>

InitFrames ==
    /\ PastEntries("reserve")
    /\ frame' = [p \in Frames |-> [zone |-> 0, flags |-> {"RESERVED"}, ref |-> 0]]
    /\ FirstEntry("zones")
    /\ UNCHANGED <<e820, maxPfn, total2m, free2m, bitmap, zones>>

-----------------------------------------------------------------------------
Zone_InclusiveEnd(s, e, t) ==
    [start |-> s, end |-> e + 1, type |-> t, nrFree |-> e - s]

Zone(s, e, t) == [start |-> s, end |-> e, type |-> t, nrFree |-> e - s]

ZonesOf_Undivided(e) ==
    LET s == CeilFrame(e.base)
        t == FloorFrame(EndOf(e))
    IN  IF t <= s THEN <<>>
        ELSE <<Zone(s, t, IF s < DmaFrames THEN "DMA" ELSE "NORMAL")>>

\* The zones made of one RAM entry: two when it crosses the DMA boundary.
ZonesOf(e) ==
    LET s == CeilFrame(e.base)
        t == FloorFrame(EndOf(e))
    IN  IF t <= s THEN <<>>
        ELSE IF s < DmaFrames /\ t > DmaFrames
        THEN <<Zone(s, DmaFrames, "DMA"), Zone(DmaFrames, t, "NORMAL")>>
        ELSE <<Zone(s, t, IF s < DmaFrames THEN "DMA" ELSE "NORMAL")>>

FramesOf(z) == z.start .. z.end - 1

\* A frame belongs to the zone that was made last of those that contain it.
Assign(zs, p) ==
    LET owners == {k \in 1 .. Len(zs) : k > Len(zones) /\ p \in FramesOf(zs[k])}
    IN  IF owners = {} THEN frame[p]
        ELSE [zone |-> Max(owners), flags |-> {}, ref |-> 0]

\* "Zone end_pfn exceeds max_pfn", tested at the first frame of an undivided
\* zone: the machine halts with the zone made and its frames unset.
Exceeds(zs) == Len(zs) = 1 /\ zs[1].end > maxPfn

NewZones(e) == IF e.type = RAM THEN ZonesOf(e) ELSE <<>>

MakeZones ==
    /\ AtEntry("zones")
    /\ zones' = zones \o NewZones(Entry)
    /\ frame' = IF Exceeds(NewZones(Entry)) THEN frame
                ELSE [p \in Frames |-> Assign(zones \o NewZones(Entry), p)]
    /\ pc' = IF Exceeds(NewZones(Entry)) THEN "halted" ELSE pc
    /\ i' = i + 1
    /\ UNCHANGED <<e820, maxPfn, total2m, free2m, bitmap>>

\* Page 0 is given the first zone and its bit is reset.
SetPageZero ==
    /\ PastEntries("zones")
    /\ frame' = [frame EXCEPT ![0] = [zone |-> 1, flags |-> {}, ref |-> 0]]
    /\ bitmap' = bitmap \ {0}
    /\ pc' = "test"
    /\ UNCHANGED <<e820, maxPfn, total2m, free2m, zones, i>>

TestPfn == (IF zones = <<>> THEN 0 ELSE zones[1].start) + TestOffset

\* One bit is set, and cleared again whatever it was.
TestBitmap ==
    /\ pc = "test"
    /\ bitmap' = (bitmap \cup {TestPfn}) \ {TestPfn}
    /\ pc' = "kernel"
    /\ UNCHANGED <<e820, maxPfn, total2m, free2m, frame, zones, i>>

-----------------------------------------------------------------------------
(***************************************************************************)
(* The frames marked for the kernel's structures.  The first one is        *)
(* rounded up; the end is rounded up twice, so the frame after the last    *)
(* one that is used may be marked too.                                     *)
(***************************************************************************)
KernelFrames == CeilFrame(KernelEnd) .. CeilFrame(StructEnd + FrameUnits) - 1

\* The zone whose counter a kernel frame is taken from: the first with
\* start_pfn <= pfn <= end_pfn.
Near(z, p) == z.start <= p /\ p <= z.end

ChargedTo(k) ==
    {p \in KernelFrames :
        Near(zones[k], p) /\ \A j \in 1 .. k - 1 : ~Near(zones[j], p)}

\* A counter lowered by k.
Less(c, k) == (c - k) % CounterMod

MarkKernel ==
    /\ pc = "kernel"
    /\ KernelFrames \subseteq Frames
    /\ bitmap' = bitmap \cup KernelFrames
    /\ frame' = [p \in Frames |->
                   IF p \in KernelFrames
                   THEN [frame[p] EXCEPT !.flags = {"KERNEL", "USED"}, !.ref = 1]
                   ELSE frame[p]]
    /\ zones' = [k \in 1 .. Len(zones) |->
                   [zones[k] EXCEPT !.nrFree =
                       Less(@, Cardinality(ChargedTo(k)))]]
    /\ free2m' = Less(free2m, Cardinality(UNION {ChargedTo(k) : k \in 1 .. Len(zones)}))
    /\ pc' = "done"
    /\ UNCHANGED <<e820, maxPfn, total2m, i>>

\* A kernel frame lies past the page array: the marking leaves the array.
MarkKernelWild ==
    /\ pc = "kernel"
    /\ ~(KernelFrames \subseteq Frames)
    /\ pc' = "wild"
    /\ UNCHANGED <<e820, maxPfn, total2m, free2m, bitmap, frame, zones, i>>

Next ==
    \/ CopyMap \/ CountEntry \/ CountWild \/ ClearBitmap \/ ClearWild
    \/ ReserveEntry \/ InitFrames \/ MakeZones \/ SetPageZero
    \/ TestBitmap \/ MarkKernel \/ MarkKernelWild

Spec == Init /\ [][Next]_vars

-----------------------------------------------------------------------------
ZoneIds == 1 .. Len(zones)

Units(e) == e.base .. EndOf(e) - 1
Disjoint == \A j, k \in 1 .. Len(e820) :
                j # k => Units(e820[j]) \cap Units(e820[k]) = {}
RamUnits == UNION {Units(e820[k]) : k \in {j \in 1 .. Len(e820) : e820[j].type = RAM}}
UnitsOf(p) == p * FrameUnits .. (p + 1) * FrameUnits - 1

\* The state the allocator starts from, when the map's entries are disjoint:
\* disjoint zones inside the page array; in a zone, the bitmap, the USED flag
\* and ref_count agree, a set bit is a kernel frame and a frame names its own
\* zone; the counters are words.  (LayoutAssumption and Init of PageAlloc.)
AllocatorReady ==
    pc = "done" /\ Disjoint =>
        /\ free2m \in 0 .. CounterMod - 1
        /\ \A k \in ZoneIds : zones[k].nrFree \in 0 .. CounterMod - 1
        /\ \A k \in ZoneIds : zones[k].start < zones[k].end /\ zones[k].end <= maxPfn
        /\ \A j, k \in ZoneIds : j # k => FramesOf(zones[j]) \cap FramesOf(zones[k]) = {}
        /\ \A k \in ZoneIds : \A p \in FramesOf(zones[k]) :
              /\ p \in bitmap <=> p \in KernelFrames
              /\ p \in bitmap <=> "USED" \in frame[p].flags
              /\ frame[p].ref = IF p \in bitmap THEN 1 ELSE 0
              /\ p # 0 => frame[p].zone = k

\* A frame the allocator may grant (in a zone, clear, not frame 0) is RAM from
\* end to end and holds none of the kernel's structures, as long as the
\* kernel ends inside frame 0, as it does, or at the end of a frame.
FreeFramesAreUsableRam ==
    pc = "done" /\ Disjoint /\ (KernelEnd <= FrameUnits \/ KernelEnd % FrameUnits = 0) =>
        \A k \in ZoneIds : \A p \in FramesOf(zones[k]) \ (bitmap \cup {0}) :
            /\ UnitsOf(p) \subseteq RamUnits
            /\ UnitsOf(p) \cap (KernelEnd .. StructEnd - 1) = {}

\* total_2m_pages, counted before the zones exist, is the size of the zones,
\* also when entries overlap; the two passes over the map round alike.
NrPages(k) == zones[k].end - zones[k].start
TotalIsZonePages == pc = "done" => total2m = MapThenSumSet(NrPages, ZoneIds)

\* The zone check of init_memory never fires, whatever the map.
ZoneCheckHolds == pc # "halted"

\* No DMA zone reaches past the DMA boundary, and no other zone below it.
ZoneTypesSplitMemory ==
    \A k \in ZoneIds :
        IF zones[k].type = "DMA" THEN zones[k].end <= DmaFrames
        ELSE zones[k].start >= DmaFrames
=============================================================================
