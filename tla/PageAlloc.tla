----------------------------- MODULE PageAlloc -----------------------------
(***************************************************************************)
(* The physical page allocator of the kernel (src/kernel/memory.c):        *)
(* alloc_pages, page_init and free_pages over the bitmap, the page frame   *)
(* array and the zone counters that init_memory leaves behind.             *)
(*                                                                         *)
(* Frames are 2 MB page frames, named by their page frame number (pfn).    *)
(* The kernel is single threaded, so at most one call is under way; `call' *)
(* holds its arguments and locals and `pc' the loop it is in.  One action  *)
(* is one iteration of a loop or one exit of a function.                   *)
(***************************************************************************)
EXTENDS Integers, FiniteSets, FiniteSetsExt

CONSTANTS
    WordBits,      \* bits in a word of the bitmap (64 in the code)
    CounterMod,    \* the uint64_t counters wrap at this value (2^64)
    RefMod,        \* the uint16_t ref_count wraps at this value (2^16)
    FrameCount,    \* page.count: max_pfn + 1
    ZoneCount,     \* zone.count
    ZoneStart,     \* start_pfn of each zone
    ZoneEnd,       \* end_pfn of each zone, exclusive
    ZoneType,      \* type of each zone
    KernelFrames,  \* frames init_memory marks for its own structures
    Requests,      \* values of nr_pages in alloc_pages
    RequestFlags,  \* values of flags in alloc_pages
    FreeSizes,     \* values of nr_pages in free_pages
    ClaimBound     \* bound: no new request once a frame has this many claims

Frames     == 0 .. FrameCount - 1
Zones      == 1 .. ZoneCount
NoZone     == 0
WordCount  == (FrameCount + WordBits - 1) \div WordBits
Bits       == 0 .. WordCount * WordBits - 1
PageFlags  == {"USED", "RESERVED", "KERNEL", "USER"}
ZoneTypes  == {"DMA", "DMA32", "NORMAL"}

ZoneFrames(z) == ZoneStart[z] .. ZoneEnd[z] - 1
InSomeZone(p) == \E z \in Zones : p \in ZoneFrames(z)

ASSUME WordAssumption ==
    /\ WordBits \in Nat \ {0}
    /\ RefMod \in Nat \ {0, 1}

ASSUME LayoutAssumption ==
    /\ FrameCount \in Nat \ {0}
    /\ ZoneCount \in Nat \ {0}
    /\ ZoneStart \in [Zones -> Nat]
    /\ ZoneEnd \in [Zones -> Nat]
    /\ ZoneType \in [Zones -> ZoneTypes]
    /\ \A z \in Zones : ZoneStart[z] < ZoneEnd[z] /\ ZoneEnd[z] < FrameCount
    /\ \A y, z \in Zones : y # z => ZoneFrames(y) \cap ZoneFrames(z) = {}
    /\ KernelFrames \subseteq Frames \ {0}

ASSUME RequestAssumption ==
    /\ Requests \subseteq Nat
    /\ RequestFlags \subseteq SUBSET PageFlags
    /\ FreeSizes \subseteq Nat
    /\ ClaimBound \in Nat

ASSUME CounterAssumption ==
    /\ CounterMod \in Nat
    /\ FrameCount + 2 * WordBits < CounterMod

VARIABLES
    bitmap,    \* the set of set bits
    flags,     \* page.addr[p].flags
    refCount,  \* page.addr[p].ref_count
    nrFree,    \* zone.addr[z].nr_free
    free2m,    \* huge_page_info.free_2m_pages
    pc,        \* "idle", or the part of the current call that runs
    call,      \* arguments and locals of the current call
    claims,    \* history: grants of a frame that were not given back yet
    granted    \* history: frames ever returned by alloc_pages, mod CounterMod

vars == <<bitmap, flags, refCount, nrFree, free2m, pc, call, claims, granted>>

NoCall == [n |-> 0, flags |-> {}, zone |-> NoZone, pos |-> 0, i |-> 0]

\* Operators named <definition>_<what is wrong> are mutants: a plausible bug in
\* the code of that definition, which a property of a run is seen to catch.
Up_Missing(x)  == x
Up(x)   == (x + 1) % CounterMod
Down(x) == (x - 1) % CounterMod

(***************************************************************************)
(* page->zone: the zone whose frames contain p.  Page 0 is given the first *)
(* zone even when no zone contains it, and frames of holes have none.      *)
(***************************************************************************)
FrameZone(p) ==
    IF p = 0 THEN 1
    ELSE IF InSomeZone(p) THEN CHOOSE z \in Zones : p \in ZoneFrames(z)
    ELSE NoZone

-----------------------------------------------------------------------------
(***************************************************************************)
(* The state init_memory leaves.  A kernel frame is charged to the first   *)
(* zone with start_pfn <= pfn <= end_pfn, and free_2m_pages, never set to  *)
(* the total, starts at zero.  Bits of frames outside the zones are set    *)
(* where the E820 map has a whole non-RAM frame; bit 0 is reset.           *)
(***************************************************************************)
ChargedTo(z) ==
    {p \in KernelFrames :
        /\ ZoneStart[z] <= p /\ p <= ZoneEnd[z]
        /\ \A y \in Zones : y < z => ~(ZoneStart[y] <= p /\ p <= ZoneEnd[y])}

Charged == UNION {ChargedTo(z) : z \in Zones}

HoleFrames == {p \in Frames \ {0} : ~InSomeZone(p)}

Init ==
    /\ \E reserved \in SUBSET HoleFrames : bitmap = reserved \cup KernelFrames
    /\ flags = [p \in Frames |->
                  IF p \in KernelFrames THEN {"KERNEL", "USED"}
                  ELSE IF FrameZone(p) = NoZone THEN {"RESERVED"} ELSE {}]
    /\ refCount = [p \in Frames |-> IF p \in KernelFrames THEN 1 ELSE 0]
    /\ nrFree = [z \in Zones |->
                   (ZoneEnd[z] - ZoneStart[z] - Cardinality(ChargedTo(z)))
                       % CounterMod]
    /\ free2m = (0 - Cardinality(Charged)) % CounterMod
    /\ pc = "idle"
    /\ call = NoCall
    /\ claims = [p \in Frames |-> 0]
    /\ granted = 0

-----------------------------------------------------------------------------
(***************************************************************************)
(* alloc_pages, zone selection: the first zone of the type whose nr_free   *)
(* covers the request.                                                     *)
(***************************************************************************)
ZoneFits(z, type, n) == ZoneType[z] = type /\ nrFree[z] >= n

SelectsZone(z, type, n) ==
    /\ ZoneFits(z, type, n)
    /\ \A y \in Zones : y < z => ~ZoneFits(y, type, n)

\* "No enough pages in zone": alloc_pages returns NULL.
AllocRefused(type, n) ==
    /\ pc = "idle"
    /\ \A z \in Zones : ~ZoneFits(z, type, n)
    /\ UNCHANGED vars

AllocBegin(type, n, f) ==
    /\ pc = "idle"
    /\ \A p \in Frames : claims[p] < ClaimBound
    /\ \E z \in Zones :
         /\ SelectsZone(z, type, n)
         /\ call' = [n |-> n, flags |-> f, zone |-> z,
                     pos |-> ZoneStart[z], i |-> 0]
    /\ pc' = "search"
    /\ UNCHANGED <<bitmap, flags, refCount, nrFree, free2m, claims, granted>>

(***************************************************************************)
(* The bits one iteration of the search tests from position b, and how far *)
(* it moves when one of them is set.  A request of at least a word at a    *)
(* word boundary tests whole words only; a request that fits in the rest   *)
(* of the word tests its n bits; any other tests the rest of the word and, *)
(* in the next word, as many bits as the x86 shift of (1UL << k) - 1       *)
(* leaves, which takes k modulo the word size.                             *)
(***************************************************************************)
WordsPath(b, n) == n >= WordBits /\ b % WordBits = 0
Remaining(b)    == WordBits - (b % WordBits)

Probed_OneShort(b, n) == b .. b + n - 2
Probed_ThisWordOnly(b, n) ==
    b .. b + (IF n <= Remaining(b) THEN n ELSE Remaining(b)) - 1

Probed(b, n) ==
    IF WordsPath(b, n) THEN b .. b + (n \div WordBits) * WordBits - 1
    ELSE IF n <= Remaining(b) THEN b .. b + n - 1
    ELSE b .. b + Remaining(b) + ((n - Remaining(b)) % WordBits) - 1

Stride_OneMore(b, n) == n + 1
Stride_StopsAtWord(b, n) == IF n <= Remaining(b) THEN n ELSE 0

Stride(b, n) ==
    IF WordsPath(b, n) THEN (n \div WordBits) * WordBits
    ELSE IF n <= Remaining(b) THEN n ELSE Remaining(b)

\* The loop condition bit <= zone_end_bit - nr_pages, in uint64_t arithmetic.
InLoop_ToZoneEnd == call.pos < ZoneEnd[call.zone]

InLoop == call.pos <= (ZoneEnd[call.zone] - call.n) % CounterMod

Occupied_Never == FALSE

Occupied == Probed(call.pos, call.n) \cap bitmap # {}
OnBitmap == Probed(call.pos, call.n) \subseteq Bits

ProbeOccupied ==
    /\ pc = "search" /\ InLoop /\ Occupied
    /\ call' = [call EXCEPT !.pos = @ + Stride(@, call.n)]
    /\ UNCHANGED <<bitmap, flags, refCount, nrFree, free2m, pc, claims, granted>>

ProbeFound ==
    /\ pc = "search" /\ InLoop /\ ~Occupied /\ OnBitmap
    /\ call.pos # 0
    /\ pc' = "mark"
    /\ UNCHANGED <<bitmap, flags, refCount, nrFree, free2m, call, claims, granted>>

\* found_start = 0 is taken for "not found": alloc_pages returns NULL.
FoundAtZero ==
    /\ pc = "search" /\ InLoop /\ ~Occupied /\ OnBitmap
    /\ call.pos = 0
    /\ pc' = "idle" /\ call' = NoCall
    /\ UNCHANGED <<bitmap, flags, refCount, nrFree, free2m, claims, granted>>

\* The test reads past the bitmap; what follows is not modelled.
ProbeWild ==
    /\ pc = "search" /\ InLoop /\ ~Occupied /\ ~OnBitmap
    /\ pc' = "wild" /\ call' = NoCall
    /\ UNCHANGED <<bitmap, flags, refCount, nrFree, free2m, claims, granted>>

\* "No contiguous pages": alloc_pages returns NULL.
SearchExhausted ==
    /\ pc = "search" /\ ~InLoop
    /\ pc' = "idle" /\ call' = NoCall
    /\ UNCHANGED <<bitmap, flags, refCount, nrFree, free2m, claims, granted>>

-----------------------------------------------------------------------------
(***************************************************************************)
(* alloc_pages, marking loop: set the bit of frame found_start + i, then   *)
(* page_init, whose three scenarios and whose fatal stop are the actions   *)
(* below.                                                                  *)
(***************************************************************************)
Here == call.pos + call.i

Marking_WithoutBit(p) ==
    pc = "mark" /\ call.i < call.n /\ p \in Frames /\ UNCHANGED bitmap

Marking(p) ==
    /\ pc = "mark" /\ call.i < call.n /\ p \in Frames
    /\ bitmap' = bitmap \cup {p}

NextFrame == call' = [call EXCEPT !.i = @ + 1]

MarkFresh ==
    /\ Marking(Here)
    /\ FrameZone(Here) # NoZone
    /\ "USED" \notin flags[Here]
    /\ flags' = [flags EXCEPT ![Here] = call.flags \cup {"USED"}]
    /\ refCount' = [refCount EXCEPT ![Here] = 1]
    /\ nrFree' = [nrFree EXCEPT ![FrameZone(Here)] = Down(@)]
    /\ free2m' = Down(free2m)
    /\ NextFrame
    /\ UNCHANGED <<pc, claims, granted>>

IsShared(p) == "USER" \in flags[p] \cup call.flags

MarkShared ==
    /\ Marking(Here)
    /\ FrameZone(Here) # NoZone
    /\ "USED" \in flags[Here] /\ IsShared(Here)
    /\ flags' = [flags EXCEPT ![Here] = @ \cup call.flags]
    /\ refCount' = [refCount EXCEPT ![Here] = (@ + 1) % RefMod]
    /\ NextFrame
    /\ UNCHANGED <<nrFree, free2m, pc, claims, granted>>

MarkUpdate ==
    /\ Marking(Here)
    /\ FrameZone(Here) # NoZone
    /\ "USED" \in flags[Here] /\ ~IsShared(Here)
    /\ flags' = [flags EXCEPT ![Here] = @ \cup call.flags]
    /\ NextFrame
    /\ UNCHANGED <<refCount, nrFree, free2m, pc, claims, granted>>

\* "Invalid page frame or zone": page_init halts the machine.
MarkHalts ==
    /\ Marking(Here)
    /\ FrameZone(Here) = NoZone
    /\ pc' = "halted" /\ call' = NoCall
    /\ UNCHANGED <<flags, refCount, nrFree, free2m, claims, granted>>

\* The frame is past the page array; what follows is not modelled.
MarkWild ==
    /\ pc = "mark" /\ call.i < call.n /\ Here \notin Frames
    /\ pc' = "wild" /\ call' = NoCall
    /\ UNCHANGED <<bitmap, flags, refCount, nrFree, free2m, claims, granted>>

\* The counters are lowered by nr_pages once more and the range is returned.
AllocReturn ==
    /\ pc = "mark" /\ call.i = call.n
    /\ nrFree' = [nrFree EXCEPT ![call.zone] = (@ - call.n) % CounterMod]
    /\ free2m' = (free2m - call.n) % CounterMod
    /\ claims' = [p \in Frames |->
                    IF p \in call.pos .. call.pos + call.n - 1
                    THEN claims[p] + 1 ELSE claims[p]]
    /\ granted' = (granted + call.n) % CounterMod
    /\ pc' = "idle" /\ call' = NoCall
    /\ UNCHANGED <<bitmap, flags, refCount>>

-----------------------------------------------------------------------------
(***************************************************************************)
(* free_pages(page, m) for the frames lo .. lo + m - 1.  A caller names    *)
(* frames it was granted, or frames that are already unused (the code      *)
(* warns and skips those), and a range inside the page array.  It gives up *)
(* its claim by making the call.                                           *)
(***************************************************************************)
MayFree(lo, m) ==
    \A p \in lo .. lo + m - 1 :
        p \in Frames /\ ("USED" \in flags[p] => claims[p] > 0)

FreeRefused(lo, m) ==
    /\ pc = "idle"
    /\ m = 0 \/ FrameZone(lo) = NoZone
    /\ UNCHANGED vars

FreeBegin(lo, m) ==
    /\ pc = "idle" /\ MayFree(lo, m)
    /\ m # 0 /\ FrameZone(lo) # NoZone
    /\ pc' = "free"
    /\ call' = [n |-> m, flags |-> {}, zone |-> FrameZone(lo), pos |-> lo, i |-> 0]
    /\ claims' = [p \in Frames |->
                    IF p \in lo .. lo + m - 1 /\ claims[p] > 0
                    THEN claims[p] - 1 ELSE claims[p]]
    /\ UNCHANGED <<bitmap, flags, refCount, nrFree, free2m, granted>>

Freeing == pc = "free" /\ call.i < call.n

\* "Attempting to free unused page": the frame is skipped.
FreeSkips ==
    /\ Freeing /\ "USED" \notin flags[Here]
    /\ NextFrame
    /\ UNCHANGED <<bitmap, flags, refCount, nrFree, free2m, pc, claims, granted>>

\* Other users remain: only the reference count drops.
FreeDrops ==
    /\ Freeing /\ "USED" \in flags[Here]
    /\ refCount[Here] > 1
    /\ refCount' = [refCount EXCEPT ![Here] = @ - 1]
    /\ NextFrame
    /\ UNCHANGED <<bitmap, flags, nrFree, free2m, pc, claims, granted>>

Unmark_Missing(p) == UNCHANGED bitmap

Unmark(p) == bitmap' = bitmap \ {p}

\* The last reference: the frame is free again, credited to the zone of the
\* first frame of the call.
FreeReleases ==
    /\ Freeing /\ "USED" \in flags[Here]
    /\ refCount[Here] <= 1
    /\ refCount' = [refCount EXCEPT ![Here] = 0]
    /\ flags' = [flags EXCEPT ![Here] = {}]
    /\ Unmark(Here)
    /\ nrFree' = [nrFree EXCEPT ![call.zone] = Up(@)]
    /\ free2m' = Up(free2m)
    /\ NextFrame
    /\ UNCHANGED <<pc, claims, granted>>

FreeReturn ==
    /\ pc = "free" /\ call.i = call.n
    /\ pc' = "idle" /\ call' = NoCall
    /\ UNCHANGED <<bitmap, flags, refCount, nrFree, free2m, claims, granted>>

-----------------------------------------------------------------------------
Search == ProbeOccupied \/ ProbeFound \/ FoundAtZero \/ ProbeWild \/ SearchExhausted

Mark == MarkFresh \/ MarkShared \/ MarkUpdate \/ MarkHalts \/ MarkWild \/ AllocReturn

Free == FreeSkips \/ FreeDrops \/ FreeReleases \/ FreeReturn

CallStep == Search \/ Mark \/ Free

Next ==
    \/ \E type \in ZoneTypes, n \in Requests : AllocRefused(type, n)
    \/ \E type \in ZoneTypes, n \in Requests, f \in RequestFlags : AllocBegin(type, n, f)
    \/ \E lo \in Frames, m \in FreeSizes : FreeRefused(lo, m)
    \/ \E lo \in Frames, m \in FreeSizes : FreeBegin(lo, m)
    \/ CallStep

Spec == Init /\ [][Next]_vars

\* A call, once made, is executed to its end: nothing preempts the kernel.
FairSpec == Spec /\ WF_vars(CallStep)

-----------------------------------------------------------------------------
(***************************************************************************)
(* The requests the search is written for: at most a word of the bitmap    *)
(* and at most the end of every zone.  The properties marked (S) are       *)
(* claimed for these requests only.                                        *)
(***************************************************************************)
SmallRequests ==
    \A n \in Requests : n <= WordBits /\ \A z \in Zones : n <= ZoneEnd[z]

\* Every variable keeps the type of its C declaration: the counters stay in
\* the range of their width, and the current call names frames and a zone.
TypeOK ==
    /\ bitmap \subseteq Frames
    /\ flags \in [Frames -> SUBSET PageFlags]
    /\ refCount \in [Frames -> 0 .. RefMod - 1]
    /\ nrFree \in [Zones -> 0 .. CounterMod - 1]
    /\ free2m \in 0 .. CounterMod - 1
    /\ pc \in {"idle", "search", "mark", "free", "halted", "wild"}
    /\ call \in [n : Nat, flags : SUBSET PageFlags, zone : Zones \cup {NoZone},
                 pos : Nat, i : Nat]
    /\ pc \in {"search", "mark", "free"} => call.zone \in Zones /\ call.i <= call.n
    /\ claims \in [Frames -> Nat]
    /\ granted \in 0 .. CounterMod - 1

\* The two records of what is allocated, the bitmap the search reads and the
\* USED flag that page_init and free_pages read, agree on every frame that has
\* a zone, whatever is requested and freed.
BitmapAgreesWithFlags ==
    \A p \in Frames :
        FrameZone(p) # NoZone => (p \in bitmap <=> "USED" \in flags[p])

\* (S) No frame is granted while an earlier grant of it is outstanding.
NoDoubleGrant == \A p \in Frames : claims[p] <= 1

InCall(p) == pc \in {"mark", "free"} /\ p \in call.pos .. call.pos + call.n - 1

\* (S) A frame a caller holds is never available to the search, and a frame of
\* a zone that nobody holds is never lost: outside the call under way, the bits
\* set in the zones are exactly the frames held and the kernel's own.
HeldIffMarked ==
    /\ \A p \in Frames : claims[p] > 0 => p \in bitmap
    /\ \A p \in bitmap \ KernelFrames :
           InSomeZone(p) /\ ~InCall(p) => claims[p] > 0

\* (S) The frames init_memory marked for the bitmap, the frame array and the
\* zones stay marked and used, and are never granted.
KernelFramesKept ==
    \A p \in KernelFrames :
        p \in bitmap /\ "USED" \in flags[p] /\ claims[p] = 0

\* (S) The frames alloc_pages returns lie in the zone it selected.
GrantWithinZone ==
    [][ \A p \in Frames : claims'[p] > claims[p] => p \in ZoneFrames(call.zone) ]_vars

\* (S) When the search gives up ("No contiguous pages"), the zone has no run of
\* 2n - 1 clear frames: a run of n may be stepped over, a longer one never.
SearchFindsLongRuns ==
    [][ SearchExhausted /\ call.n # 0 =>
          \A a \in ZoneFrames(call.zone) :
              LET run == a .. a + 2 * call.n - 2
              IN  run \subseteq ZoneFrames(call.zone) => run \cap bitmap # {} ]_vars

\* What the counters count.  Each frame lowers free_2m_pages when it is marked
\* and raises it when it is released, and each grant lowers it by its length
\* once more; the zones' nr_free differ from it by the pages they started with.
UsedFrames == {p \in Frames : "USED" \in flags[p]}
NrFreeOf(z) == nrFree[z]
SizeOf(z) == ZoneEnd[z] - ZoneStart[z]

CountersFollowFrames ==
    /\ free2m = (Cardinality(KernelFrames) - Cardinality(Charged)
                   - Cardinality(UsedFrames) - granted) % CounterMod
    /\ MapThenSumSet(NrFreeOf, Zones) % CounterMod
         = (MapThenSumSet(SizeOf, Zones) + free2m) % CounterMod

\* Every call returns, whatever its length, while the bound of the search does not
\* wrap: the search advances and both loops end.
CallReturns == pc # "idle" ~> pc = "idle"

\* (S) The allocator implements the pool of frames of module FramePool.
Abstract == INSTANCE FramePool
              WITH AllFrames <- Frames, Pools <- Zones, Sizes <- Requests,
                   Pool <- [z \in Zones |-> ZoneFrames(z) \ KernelFrames],
                   held <- claims
ImplementsFramePool == Abstract!Spec

-----------------------------------------------------------------------------
(***************************************************************************)
(* The inductive invariant behind the properties marked (S): what the      *)
(* locals of the call under way say about the frames it works on, and what *)
(* the search has ruled out so far.                                        *)
(***************************************************************************)
CallFrames == call.pos .. call.pos + call.n - 1

SearchInv ==
    pc = "search" /\ call.n # 0 =>
        \A a \in ZoneFrames(call.zone) :
            LET run == a .. a + 2 * call.n - 2
            IN  a + call.n - 1 < call.pos /\ run \subseteq ZoneFrames(call.zone)
                    => run \cap bitmap # {}

MarkInv ==
    pc = "mark" =>
        /\ call.pos + call.n <= ZoneEnd[call.zone]
        /\ \A p \in CallFrames :
              claims[p] = 0 /\ p \notin KernelFrames /\ (p \in bitmap <=> p < Here)

FreeInv ==
    pc = "free" =>
        \A p \in CallFrames :
            /\ p \in Frames \ KernelFrames /\ claims[p] = 0
            /\ p < Here /\ InSomeZone(p) => p \notin bitmap

CallInv ==
    /\ pc \notin {"halted", "wild"}
    /\ pc \in {"search", "mark"} =>
           call.n \in Requests /\ ZoneStart[call.zone] <= call.pos
    /\ pc = "search" => call.i = 0

RefCountsUse ==
    \A p \in Frames : refCount[p] = IF "USED" \in flags[p] THEN 1 ELSE 0

\* (S) The inductive invariant, a conjunction of the above.
IInv ==
    /\ TypeOK /\ BitmapAgreesWithFlags /\ RefCountsUse
    /\ NoDoubleGrant /\ HeldIffMarked /\ KernelFramesKept
    /\ CallInv /\ SearchInv /\ MarkInv /\ FreeInv
=============================================================================
