--------------------------- MODULE PageAllocProof ---------------------------
(***************************************************************************)
(* Theorems about PageAlloc, for every layout of memory, every word size   *)
(* and every counter width.  The first part holds for any request; the     *)
(* second assumes SmallRequests.                                           *)
(***************************************************************************)
EXTENDS PageAlloc, NumberLemmas, FiniteSetTheorems, TLAPS

-----------------------------------------------------------------------------
(* Arithmetic of the counters and of the search.                           *)

\* A counter that wraps stays in the range of its width.
LEMMA ModRange ==
    ASSUME NEW a \in Int, NEW m \in Nat \ {0}
    PROVE  a % m \in 0 .. m - 1
BY SMT

\* A value that fits in the width of a counter is not changed by wrapping.
LEMMA ModSmall ==
    ASSUME NEW m \in Nat \ {0}, NEW a \in 0 .. m - 1
    PROVE  a % m = a
BY SMT

\* The bitmap has a bit for every frame.
LEMMA BitsCoverFrames ==
    ASSUME NEW f \in Nat \ {0}, NEW w \in Nat \ {0}
    PROVE  ((f + w - 1) \div w) * w >= f
BY SMT

LEMMA CounterModPositive == CounterMod \in Nat \ {0}
BY WordAssumption, LayoutAssumption, CounterAssumption

\* The search never moves backwards.
LEMMA StrideNat ==
    ASSUME NEW b \in Nat, NEW n \in Nat
    PROVE  Stride(b, n) \in Nat
BY WordAssumption DEF Stride, WordsPath, Remaining

\* A request of at most a word is tested on exactly the frames it would get.
LEMMA ProbedSmall ==
    ASSUME NEW b \in Nat, NEW n \in Nat, n <= WordBits
    PROVE  Probed(b, n) = b .. b + n - 1
BY WordAssumption DEF Probed, WordsPath, Remaining

\* A request of at most a word never moves the search past its own length.
LEMMA StrideSmall ==
    ASSUME NEW b \in Nat, NEW n \in Nat, n <= WordBits
    PROVE  Stride(b, n) <= n
BY WordAssumption DEF Stride, WordsPath, Remaining

-----------------------------------------------------------------------------
(* Types.                                                                  *)

\* page->zone is a zone, or none; it is never none for a frame of a zone.
LEMMA FrameZoneType ==
    ASSUME NEW p \in Frames
    PROVE  /\ FrameZone(p) \in Zones \cup {NoZone}
           /\ InSomeZone(p) => FrameZone(p) \in Zones
<1>1. 1 \in Zones
  BY LayoutAssumption DEF Zones
<1>2. CASE InSomeZone(p)
  <2>1. (CHOOSE z \in Zones : p \in ZoneFrames(z)) \in Zones
    BY <1>2 DEF InSomeZone
  <2> QED
    BY <1>1, <1>2, <2>1 DEF FrameZone
<1>3. CASE ~InSomeZone(p)
  BY <1>1, <1>3 DEF FrameZone
<1> QED
  BY <1>2, <1>3

\* The sets of kernel frames are finite, so their sizes are numbers.
LEMMA ChargedFinite ==
    /\ \A z \in Zones : Cardinality(ChargedTo(z)) \in Nat
    /\ Cardinality(Charged) \in Nat
<1>1. IsFiniteSet(Frames)
  <2>1. 0 \in Int /\ FrameCount - 1 \in Int
    BY LayoutAssumption
  <2> QED
    BY <2>1, FS_Interval DEF Frames
<1>2. Charged \subseteq Frames /\ \A z \in Zones : ChargedTo(z) \subseteq Frames
  BY LayoutAssumption DEF Charged, ChargedTo
<1>3. \A S : S \subseteq Frames => IsFiniteSet(S)
  BY <1>1, FS_Subset
<1>4. \A S : S \subseteq Frames => Cardinality(S) \in Nat
  BY <1>3, FS_CardinalityType
<1> QED
  BY <1>2, <1>4

LEMMA InitTypeOK == Init => TypeOK
<1> SUFFICES ASSUME Init PROVE TypeOK
  OBVIOUS
<1> USE DEF Init
<1>1. bitmap \subseteq Frames
  BY LayoutAssumption DEF HoleFrames
<1>2. /\ flags \in [Frames -> SUBSET PageFlags]
      /\ refCount \in [Frames -> 0 .. RefMod - 1]
      /\ claims \in [Frames -> Nat]
  BY WordAssumption DEF PageFlags
<1>3. nrFree \in [Zones -> 0 .. CounterMod - 1]
  <2> SUFFICES ASSUME NEW z \in Zones
               PROVE  (ZoneEnd[z] - ZoneStart[z] - Cardinality(ChargedTo(z)))
                          % CounterMod \in 0 .. CounterMod - 1
    OBVIOUS
  <2>1. ZoneEnd[z] - ZoneStart[z] - Cardinality(ChargedTo(z)) \in Int
    BY LayoutAssumption, ChargedFinite
  <2> QED
    BY <2>1, ModRange, CounterModPositive
<1>4. free2m \in 0 .. CounterMod - 1 /\ granted \in 0 .. CounterMod - 1
  <2>1. Cardinality(Charged) \in Int
    BY ChargedFinite
  <2>2. \A c \in Int : (0 - c) % CounterMod \in 0 .. CounterMod - 1
    BY CounterModPositive
  <2> QED
    BY <2>1, <2>2, CounterModPositive
<1>5. call \in [n : Nat, flags : SUBSET PageFlags, zone : Zones \cup {NoZone},
                pos : Nat, i : Nat]
  BY DEF NoCall
<1> QED
  BY <1>1, <1>2, <1>3, <1>4, <1>5 DEF TypeOK

CallType == [n : Nat, flags : SUBSET PageFlags, zone : Zones \cup {NoZone},
             pos : Nat, i : Nat]

LEMMA NextTypeOK == TypeOK /\ [Next]_vars => TypeOK'
<1> SUFFICES ASSUME TypeOK, [Next]_vars PROVE TypeOK'
  OBVIOUS
<1> USE DEF TypeOK
<1>1. ASSUME NEW type \in ZoneTypes, NEW n \in Requests, NEW f \in RequestFlags,
             AllocBegin(type, n, f)
      PROVE  TypeOK'
  <2>1. PICK z \in Zones : call' = [n |-> n, flags |-> f, zone |-> z,
                                   pos |-> ZoneStart[z], i |-> 0]
    BY <1>1 DEF AllocBegin
  <2>2. call' \in CallType /\ call'.zone \in Zones /\ call'.i <= call'.n
    BY <2>1, RequestAssumption, LayoutAssumption DEF CallType
  <2> QED
    BY <1>1, <2>2 DEF AllocBegin, CallType
<1>2. ASSUME NEW lo \in Frames, NEW m \in FreeSizes, FreeBegin(lo, m)
      PROVE  TypeOK'
  <2>1. lo \in Nat /\ m \in Nat
    BY RequestAssumption, LayoutAssumption DEF Frames
  <2>2. call' \in CallType /\ call'.zone \in Zones /\ call'.i <= call'.n
    BY <1>2, <2>1, FrameZoneType DEF FreeBegin, CallType
  <2>3. claims' \in [Frames -> Nat]
    BY <1>2 DEF FreeBegin
  <2> QED
    BY <1>2, <2>2, <2>3 DEF FreeBegin, CallType
<1>3. CASE ProbeOccupied
  <2>1. call.pos \in Nat /\ call.n \in Nat
    OBVIOUS
  <2>2. Stride(call.pos, call.n) \in Nat
    BY <2>1, StrideNat
  <2>3. call.pos + Stride(call.pos, call.n) \in Nat
    BY <2>1, <2>2
  <2> QED
    BY <1>3, <2>3 DEF ProbeOccupied
<1>4. CASE ProbeFound
  BY <1>4 DEF ProbeFound
<1>5. CASE FoundAtZero \/ ProbeWild \/ SearchExhausted \/ MarkWild \/ FreeReturn
  BY <1>5 DEF FoundAtZero, ProbeWild, SearchExhausted, MarkWild, FreeReturn, NoCall
<1>6. CASE MarkFresh
  <2> DEFINE h == Here
  <2>1. h \in Frames /\ FrameZone(h) \in Zones /\ call.i + 1 <= call.n
    BY <1>6, FrameZoneType DEF MarkFresh, Marking
  <2>2. call' \in CallType /\ call'.zone = call.zone /\ call'.i <= call'.n
    BY <1>6, <2>1 DEF MarkFresh, NextFrame, CallType
  <2>3. \A c \in Int : Down(c) \in 0 .. CounterMod - 1
    BY CounterModPositive DEF Down
  <2>4. nrFree' \in [Zones -> 0 .. CounterMod - 1] /\ free2m' \in 0 .. CounterMod - 1
    BY <1>6, <2>1, <2>3 DEF MarkFresh
  <2>5. flags' \in [Frames -> SUBSET PageFlags] /\ refCount' \in [Frames -> 0 .. RefMod - 1]
    BY <1>6, <2>1, WordAssumption DEF MarkFresh, PageFlags
  <2> QED
    BY <1>6, <2>1, <2>2, <2>4, <2>5 DEF MarkFresh, Marking, CallType
<1>7. CASE MarkShared \/ MarkUpdate
  <2>1. Here \in Frames /\ call.i + 1 <= call.n
    BY <1>7 DEF MarkShared, MarkUpdate, Marking
  <2>2. call' \in CallType /\ call'.zone = call.zone /\ call'.i <= call'.n
    BY <1>7, <2>1 DEF MarkShared, MarkUpdate, NextFrame, CallType
  <2>3. flags' \in [Frames -> SUBSET PageFlags]
    BY <1>7, <2>1 DEF MarkShared, MarkUpdate
  <2>4. \A c \in Nat : (c + 1) % RefMod \in 0 .. RefMod - 1
    BY WordAssumption
  <2>5. refCount' \in [Frames -> 0 .. RefMod - 1]
    BY <1>7, <2>1, <2>4 DEF MarkShared, MarkUpdate
  <2> QED
    BY <1>7, <2>1, <2>2, <2>3, <2>5 DEF MarkShared, MarkUpdate, Marking, CallType
<1>8. CASE MarkHalts
  BY <1>8 DEF MarkHalts, Marking, NoCall
<1>9. CASE AllocReturn
  <2>1. call.zone \in Zones /\ call.n \in Nat
    BY <1>9 DEF AllocReturn
  <2>2. \A c \in Int : c % CounterMod \in 0 .. CounterMod - 1
    BY CounterModPositive
  <2>3. nrFree' \in [Zones -> 0 .. CounterMod - 1]
    BY <1>9, <2>1, <2>2 DEF AllocReturn
  <2>4. free2m' \in 0 .. CounterMod - 1 /\ granted' \in 0 .. CounterMod - 1
    BY <1>9, <2>1, <2>2 DEF AllocReturn
  <2>5. claims' \in [Frames -> Nat]
    BY <1>9 DEF AllocReturn
  <2> QED
    BY <1>9, <2>3, <2>4, <2>5 DEF AllocReturn, NoCall
<1>10. CASE FreeSkips
  BY <1>10 DEF FreeSkips, Freeing, NextFrame
<1>11. CASE FreeDrops
  <2>1. call.i + 1 <= call.n
    BY <1>11 DEF FreeDrops, Freeing
  <2>2. call' \in CallType /\ call'.zone = call.zone /\ call'.i <= call'.n
    BY <1>11, <2>1 DEF FreeDrops, NextFrame, CallType
  <2>3. refCount' \in [Frames -> 0 .. RefMod - 1]
    <3>1. refCount' = [refCount EXCEPT ![Here] = @ - 1] /\ refCount[Here] > 1
      BY <1>11 DEF FreeDrops
    <3>2. \A c \in 0 .. RefMod - 1 : c > 1 => c - 1 \in 0 .. RefMod - 1
      BY WordAssumption
    <3> QED
      BY <3>1, <3>2
  <2> QED
    BY <1>11, <2>2, <2>3 DEF FreeDrops, Freeing, CallType
<1>12. CASE FreeReleases
  <2>1. call.zone \in Zones /\ call.i + 1 <= call.n
    BY <1>12 DEF FreeReleases, Freeing
  <2>2. call' \in CallType /\ call'.zone = call.zone /\ call'.i <= call'.n
    BY <1>12, <2>1 DEF FreeReleases, NextFrame, CallType
  <2>3. \A c \in Int : Up(c) \in 0 .. CounterMod - 1
    BY CounterModPositive DEF Up
  <2>4. nrFree' \in [Zones -> 0 .. CounterMod - 1] /\ free2m' \in 0 .. CounterMod - 1
    BY <1>12, <2>1, <2>3 DEF FreeReleases
  <2>5. flags' \in [Frames -> SUBSET PageFlags]
    BY <1>12 DEF FreeReleases
  <2>6. refCount' \in [Frames -> 0 .. RefMod - 1]
    <3>1. refCount' = [refCount EXCEPT ![Here] = 0]
      BY <1>12 DEF FreeReleases
    <3>2. 0 \in 0 .. RefMod - 1
      BY WordAssumption
    <3> QED
      BY <3>1, <3>2
  <2> QED
    BY <1>12, <2>1, <2>2, <2>4, <2>5, <2>6 DEF FreeReleases, Unmark, Freeing, CallType
<1>13. CASE UNCHANGED vars
  BY <1>13 DEF vars
<1> QED
  BY <1>1, <1>2, <1>3, <1>4, <1>5, <1>6, <1>7, <1>8, <1>9, <1>10, <1>11, <1>12, <1>13
     DEF Next, CallStep, Search, Mark, Free, AllocRefused, FreeRefused

(* Whatever is requested and freed, and however the counters wrap, every    *)
(* variable keeps the type of its declaration in memory.h.                  *)
THEOREM TypeCorrect == Spec => []TypeOK
<1>1. Init => TypeOK
  BY InitTypeOK
<1>2. TypeOK /\ [Next]_vars => TypeOK'
  BY NextTypeOK
<1> QED
  BY <1>1, <1>2, PTL DEF Spec

-----------------------------------------------------------------------------
(* The bitmap and the page flags.                                          *)

\* A frame that has no zone is the frame of a hole.
LEMMA HolesHaveNoZone ==
    ASSUME NEW p \in HoleFrames
    PROVE  FrameZone(p) = NoZone
BY DEF HoleFrames, FrameZone

LEMMA InitAgrees == Init => BitmapAgreesWithFlags
<1> SUFFICES ASSUME Init, NEW p \in Frames, FrameZone(p) # NoZone
             PROVE  p \in bitmap <=> "USED" \in flags[p]
  BY DEF BitmapAgreesWithFlags
<1>1. p \in bitmap <=> p \in KernelFrames
  BY HolesHaveNoZone DEF Init
<1>2. "USED" \in flags[p] <=> p \in KernelFrames
  BY DEF Init
<1> QED
  BY <1>1, <1>2

LEMMA NextAgrees ==
    TypeOK /\ BitmapAgreesWithFlags /\ [Next]_vars => BitmapAgreesWithFlags'
<1> SUFFICES ASSUME TypeOK, BitmapAgreesWithFlags, [Next]_vars,
                    NEW p \in Frames, FrameZone(p) # NoZone
             PROVE  p \in bitmap' <=> "USED" \in flags'[p]
  BY DEF BitmapAgreesWithFlags
<1>0. /\ p \in bitmap <=> "USED" \in flags[p]
      /\ flags \in [Frames -> SUBSET PageFlags]
  BY DEF BitmapAgreesWithFlags, TypeOK
<1>1. CASE UNCHANGED <<bitmap, flags>>
  BY <1>0, <1>1
<1>2. CASE MarkFresh \/ MarkShared \/ MarkUpdate
  BY <1>0, <1>2 DEF MarkFresh, MarkShared, MarkUpdate, Marking
<1>3. CASE MarkHalts
  <2>1. bitmap' = bitmap \cup {Here} /\ Here # p /\ flags' = flags
    BY <1>3 DEF MarkHalts, Marking
  <2> QED
    BY <1>0, <2>1
<1>4. CASE FreeReleases
  BY <1>0, <1>4 DEF FreeReleases, Unmark
<1> QED
  BY <1>1, <1>2, <1>3, <1>4
     DEF Next, vars, CallStep, Search, Mark, Free, AllocRefused, FreeRefused,
         AllocBegin, FreeBegin, ProbeOccupied, ProbeFound, FoundAtZero, ProbeWild,
         SearchExhausted, MarkWild, AllocReturn, FreeSkips, FreeDrops, FreeReturn

(* On every frame that has a zone, the bit that alloc_pages searches and the *)
(* USED flag that page_init and free_pages test never disagree, not even for *)
(* requests that the search misjudges.                                       *)
THEOREM BitmapAgrees == Spec => []BitmapAgreesWithFlags
<1>1. Init => BitmapAgreesWithFlags
  BY InitAgrees
<1>2. TypeOK /\ BitmapAgreesWithFlags /\ [Next]_vars => BitmapAgreesWithFlags'
  BY NextAgrees
<1> QED
  BY <1>1, <1>2, TypeCorrect, PTL DEF Spec

--------------------------------------------------------------------------
(* What the counters count.                                                *)

LEMMA ZonesFinite == IsFiniteSet(Zones)
BY LayoutAssumption, FS_Interval DEF Zones

LEMMA FrameSetsFinite ==
    ASSUME NEW S \in SUBSET Frames
    PROVE  IsFiniteSet(S) /\ Cardinality(S) \in Nat
<1>1. 0 \in Int /\ FrameCount - 1 \in Int
  BY LayoutAssumption
<1>2. IsFiniteSet(Frames)
  BY <1>1, FS_Interval DEF Frames
<1> QED
  BY <1>2, FS_Subset, FS_CardinalityType

Sizes == [z \in Zones |-> SizeOf(z)]

LEMMA SizesAreNumbers ==
    /\ Sizes \in [Zones -> Nat]
    /\ SumOver(Sizes, Zones) \in Nat
<1>1. \A z \in Zones : SizeOf(z) \in Nat
  BY LayoutAssumption DEF SizeOf
<1>2. Sizes \in [Zones -> Nat]
  BY <1>1 DEF Sizes
<1> QED
  BY <1>2, ZonesFinite, CopiesFinite

\* CountersFollowFrames with its sums as numbers of pairs.
CountersInv ==
    /\ free2m = (Cardinality(KernelFrames) - Cardinality(Charged)
                   - Cardinality(UsedFrames) - granted) % CounterMod
    /\ SumOver(nrFree, Zones) % CounterMod = (SumOver(Sizes, Zones) + free2m) % CounterMod

LEMMA SumOfNrFree ==
    TypeOK => MapThenSumSet(NrFreeOf, Zones) = SumOver(nrFree, Zones)
<1> SUFFICES ASSUME TypeOK
             PROVE  MapThenSumSet(NrFreeOf, Zones) = SumOver(nrFree, Zones)
  OBVIOUS
<1> DEFINE Sums(f) ==
             f = [s \in SUBSET Zones |->
                    IF s = {} THEN 0
                    ELSE NrFreeOf(CHOOSE x \in s : TRUE) + f[s \ {CHOOSE x \in s : TRUE}]]
<1>1. nrFree \in [Zones -> Nat]
  BY CounterModPositive DEF TypeOK
<1>2. \A f : Sums(f) <=> SumsUp(f, nrFree, Zones)
  BY DEF SumsUp, NrFreeOf
<1>3. SumsUp([s \in SUBSET Zones |-> SumOver(nrFree, s)], nrFree, Zones)
  BY <1>1, ZonesFinite, SumExists
<1>4. MapThenSumSet(NrFreeOf, Zones) = (CHOOSE f : Sums(f))[Zones]
  BY DEF MapThenSumSet, MapThenFoldSet
<1> HIDE DEF Sums
<1>5. Sums(CHOOSE f : Sums(f))
  BY <1>2, <1>3
<1>6. (CHOOSE f : Sums(f))[Zones] = SumOver(nrFree, Zones)
  BY <1>1, <1>2, <1>5, ZonesFinite, SumUnique
<1> QED
  BY <1>4, <1>6

LEMMA SumOfSizes == MapThenSumSet(SizeOf, Zones) = SumOver(Sizes, Zones)
<1> DEFINE Sums(f) ==
             f = [s \in SUBSET Zones |->
                    IF s = {} THEN 0
                    ELSE SizeOf(CHOOSE x \in s : TRUE) + f[s \ {CHOOSE x \in s : TRUE}]]
<1>1. \A s \in SUBSET Zones : s # {} =>
         Sizes[CHOOSE x \in s : TRUE] = SizeOf(CHOOSE x \in s : TRUE)
  BY DEF Sizes
<1>2. \A f : Sums(f) <=> SumsUp(f, Sizes, Zones)
  BY <1>1 DEF SumsUp
<1>3. SumsUp([s \in SUBSET Zones |-> SumOver(Sizes, s)], Sizes, Zones)
  BY SizesAreNumbers, ZonesFinite, SumExists
<1>4. MapThenSumSet(SizeOf, Zones) = (CHOOSE f : Sums(f))[Zones]
  BY DEF MapThenSumSet, MapThenFoldSet
<1> HIDE DEF Sums
<1>5. Sums(CHOOSE f : Sums(f))
  BY <1>2, <1>3
<1>6. (CHOOSE f : Sums(f))[Zones] = SumOver(Sizes, Zones)
  BY <1>2, <1>5, SizesAreNumbers, ZonesFinite, SumUnique
<1> QED
  BY <1>4, <1>6

LEMMA CountersInvSuffices == TypeOK /\ CountersInv => CountersFollowFrames
BY SumOfNrFree, SumOfSizes DEF CountersInv, CountersFollowFrames

\* A zone's counter and free_2m_pages moved by the same d stay in step.
LEMMA CountersMove ==
    ASSUME NEW c \in [Zones -> Nat], NEW z \in Zones, NEW d \in Int,
           NEW t \in [Zones -> Nat], t[z] = (c[z] + d) % CounterMod,
           \A x \in Zones \ {z} : t[x] = c[x],
           NEW f \in Int, NEW s \in Int,
           SumOver(c, Zones) % CounterMod = (s + f) % CounterMod
    PROVE  SumOver(t, Zones) % CounterMod = (s + ((f + d) % CounterMod)) % CounterMod
<1>1. PICK m \in Nat \ {0} : m = CounterMod
  BY CounterModPositive
<1>2. PICK v \in Nat : v = (c[z] + d) % m
  <2>1. c[z] + d \in Int
    BY <1>1
  <2>2. (c[z] + d) % m \in Nat
    BY <2>1
  <2> QED
    BY <2>2
<1>3. PICK a \in Nat, b \in Nat, e \in Nat :
          /\ a = SumOver(c, Zones) /\ e = SumOver(t, Zones) /\ b = c[z]
          /\ e = (a - b) + v
  <2>1. t[z] = v
    BY <1>1, <1>2
  <2>3. SumOver(t, Zones) = (SumOver(c, Zones) - c[z]) + t[z]
    BY ZonesFinite, SumChanges
  <2>4. SumOver(t, Zones) \in Nat /\ SumOver(c, Zones) \in Nat /\ c[z] \in Nat
    BY ZonesFinite, CopiesFinite
  <2> QED
    BY <2>1, <2>3, <2>4
<1>4. PICK g \in Int, h \in Int, i \in Int, j \in Int, k \in Int :
          g = a - b /\ h = b + d /\ i = a + d /\ j = s + f /\ k = f + d
  <2>1. a - b \in Int /\ b + d \in Int /\ a + d \in Int /\ s + f \in Int /\ f + d \in Int
    OBVIOUS
  <2> QED
    BY <2>1
<1>5. e % m = i % m
  <2>1. ((h % m) + g) % m = (h + g) % m
    BY ModAdd
  <2>2. h + g = i /\ e = v + g
    BY <1>3, <1>4
  <2> QED
    BY <1>2, <1>3, <1>4, <2>1, <2>2
<1>6. i % m = (j + d) % m
  <2>1. ((a % m) + d) % m = (a + d) % m
    <3>1. a \in Int
      OBVIOUS
    <3> QED
      BY <3>1, ModAdd
  <2>2. ((j % m) + d) % m = (j + d) % m
    BY ModAdd
  <2> QED
    BY <1>1, <1>3, <1>4, <2>1, <2>2
<1>7. (s + (k % m)) % m = (j + d) % m
  <2>1. ((k % m) + s) % m = (k + s) % m
    BY ModAdd
  <2>2. k + s = j + d /\ s + (k % m) = (k % m) + s
    BY <1>4
  <2> QED
    BY <2>1, <2>2
<1> QED
  BY <1>1, <1>2, <1>3, <1>4, <1>5, <1>6, <1>7

ChargedUpTo(k) == UNION {ChargedTo(z) : z \in 1 .. k}

\* No kernel frame is charged to two zones.
LEMMA ChargedApart ==
    ASSUME NEW k \in Nat, k + 1 <= ZoneCount
    PROVE  Cardinality(ChargedUpTo(k + 1))
             = Cardinality(ChargedUpTo(k)) + Cardinality(ChargedTo(k + 1))
<1> DEFINE A == ChargedUpTo(k)
           B == ChargedTo(k + 1)
<1>1. \A z \in 1 .. k : z \in Zones /\ z < k + 1
  BY LayoutAssumption DEF Zones
<1>2. ChargedUpTo(k + 1) = A \cup B
  BY DEF ChargedUpTo
<1>3. A \cap B = {}
  BY <1>1 DEF ChargedUpTo, ChargedTo
<1>4. A \in SUBSET Frames /\ B \in SUBSET Frames
  BY LayoutAssumption DEF ChargedUpTo, ChargedTo
<1> HIDE DEF A, B
<1>5. /\ IsFiniteSet(A) /\ Cardinality(A) \in Nat
      /\ IsFiniteSet(B) /\ Cardinality(B) \in Nat
  BY <1>4, FrameSetsFinite
<1>6. Cardinality(A \cup B) = Cardinality(A) + Cardinality(B) - Cardinality(A \cap B)
  BY <1>5, FS_Union
<1>7. Cardinality(A \cap B) = 0
  BY <1>3, FS_EmptySet
<1>8. Cardinality(A \cup B) = Cardinality(A) + Cardinality(B)
  BY <1>5, <1>6, <1>7
<1> QED
  BY <1>2, <1>8 DEF A, B

\* What init_memory leaves in the zones' counters, up to a zone.
LEMMA InitSums ==
    ASSUME Init
    PROVE  SumOver(nrFree, Zones) % CounterMod
             = (SumOver(Sizes, Zones) - Cardinality(Charged)) % CounterMod
<1> DEFINE S(k) == SumOver(nrFree, 1 .. k)
           N(k) == SumOver(Sizes, 1 .. k)
           C(k) == Cardinality(ChargedUpTo(k))
           Wrong == {k \in Nat : k <= ZoneCount /\ S(k) % CounterMod # (N(k) - C(k)) % CounterMod}
<1>1. PICK m \in Nat \ {0} : m = CounterMod
  BY CounterModPositive
<1>2. nrFree \in [Zones -> Nat] /\ Sizes \in [Zones -> Nat] /\ ZoneCount \in Nat
  BY InitTypeOK, CounterModPositive, SizesAreNumbers, LayoutAssumption DEF TypeOK
<1>3. ASSUME NEW k \in Nat, k <= ZoneCount
      PROVE  1 .. k \subseteq Zones /\ S(k) \in Nat /\ N(k) \in Nat /\ C(k) \in Nat
  <2>1. 1 .. k \subseteq Zones
    BY <1>2, <1>3 DEF Zones
  <2>2. S(k) \in Nat
    BY <1>2, <2>1, ZonesFinite, CopiesFinite
  <2>3. N(k) \in Nat
    BY <1>2, <2>1, ZonesFinite, CopiesFinite
  <2>4. C(k) \in Nat
    <3>1. ChargedUpTo(k) \in SUBSET Frames
      BY LayoutAssumption DEF ChargedUpTo, ChargedTo
    <3> QED
      BY <3>1, FrameSetsFinite
  <2> QED
    BY <2>1, <2>2, <2>3, <2>4
<1>4. 0 \notin Wrong
  <2>1. \A c : SumOver(c, 1 .. 0) = 0
    <3>1. 1 .. 0 = {}
      OBVIOUS
    <3> QED
      BY <3>1, SumOfNothing
  <2>2. ChargedUpTo(0) = {}
    BY DEF ChargedUpTo
  <2>3. C(0) = 0
    BY <2>2, FS_EmptySet
  <2>4. S(0) = 0 /\ N(0) = 0
    BY <2>1
  <2> QED
    BY <2>3, <2>4
<1>5. ASSUME NEW k \in Nat, k + 1 <= ZoneCount, k \notin Wrong
      PROVE  k + 1 \notin Wrong
  <2>0. k <= ZoneCount /\ S(k) % CounterMod = (N(k) - C(k)) % CounterMod
    BY <1>2, <1>5
  <2>1. PICK s \in Int, n \in Int, c \in Int :
            s = S(k) /\ n = N(k) /\ c = C(k) /\ s % m = (n - c) % m
    <3>1. S(k) \in Int /\ N(k) \in Int /\ C(k) \in Int
      BY <1>3, <2>0
    <3> HIDE DEF S, N, C
    <3> QED
      BY <1>1, <2>0, <3>1
  <2>2. k + 1 \in Zones /\ Cardinality(ChargedTo(k + 1)) \in Nat /\ Sizes[k + 1] \in Nat
    BY <1>2, <1>5, ChargedFinite DEF Zones
  <2>3. PICK x \in Int, y \in Int, d \in Int :
            x = Sizes[k + 1] /\ y = Cardinality(ChargedTo(k + 1)) /\ d = x - y
    <3>1. PICK x \in Int, y \in Int : x = Sizes[k + 1] /\ y = Cardinality(ChargedTo(k + 1))
      BY <2>2
    <3>2. x - y \in Int
      OBVIOUS
    <3> QED
      BY <3>1, <3>2
  <2>4. nrFree[k + 1] = d % m
    BY <1>1, <2>2, <2>3 DEF Init, Sizes, SizeOf
  <2>5. PICK v \in Int : v = d % m
    BY <1>1, SMT
  <2>5a. 1 .. k + 1 \subseteq Zones
    BY <1>2, <1>5 DEF Zones
  <2>6. S(k + 1) = s + v
    <3>1. S(k + 1) = S(k) + nrFree[k + 1]
      BY <1>2, <2>5a, ZonesFinite, SumStep
    <3> QED
      BY <2>1, <2>4, <2>5, <3>1
  <2>7. N(k + 1) = n + x
    <3>1. N(k + 1) = N(k) + Sizes[k + 1]
      BY <1>2, <2>5a, ZonesFinite, SumStep
    <3> QED
      BY <2>1, <2>3, <3>1
  <2>8. C(k + 1) = c + y
    BY <1>5, <2>1, <2>3, ChargedApart
  <2> HIDE DEF S, N, C
  <2>9. PICK e \in Int : e = n - c
    OBVIOUS
  <2>10. (v + s) % m = (d + s) % m
    BY <2>5, ModAdd
  <2>11. ((s % m) + d) % m = (s + d) % m
    BY ModAdd
  <2>12. ((e % m) + d) % m = (e + d) % m
    BY ModAdd
  <2>13. s + v = v + s /\ s + d = d + s /\ e + d = (n + x) - (c + y)
    BY <2>3, <2>9
  <2>14. (s + v) % m = ((n + x) - (c + y)) % m
    BY <2>1, <2>9, <2>10, <2>11, <2>12, <2>13
  <2>15. S(k + 1) % CounterMod = (N(k + 1) - C(k + 1)) % CounterMod
    BY <1>1, <2>6, <2>7, <2>8, <2>14
  <2> QED
    BY <2>15
<1>6. Wrong = {}
  <2>1. ASSUME NEW k \in Wrong PROVE \E j \in Wrong : j < k
    <3>1. k \in Nat /\ k # 0 /\ k <= ZoneCount
      BY <1>4
    <3>2. PICK j \in Nat : k = j + 1
      <4>1. k - 1 \in Nat /\ k = (k - 1) + 1
        BY <3>1
      <4> QED
        BY <4>1
    <3> HIDE DEF Wrong
    <3>3. j \in Wrong
      BY <1>5, <3>1, <3>2
    <3> QED
      BY <3>2, <3>3
  <2>2. Wrong \in SUBSET Nat
    OBVIOUS
  <2> HIDE DEF Wrong
  <2> QED
    BY <2>1, <2>2, NoLeast
<1>7. S(ZoneCount) % CounterMod = (N(ZoneCount) - C(ZoneCount)) % CounterMod
  <2>1. ZoneCount \notin Wrong
    BY <1>6
  <2> QED
    BY <1>2, <2>1
<1> QED
  BY <1>7 DEF Zones, ChargedUpTo, Charged

LEMMA InitCounters == Init => CountersInv
<1> SUFFICES ASSUME Init PROVE CountersInv
  OBVIOUS
<1>1. KernelFrames \in SUBSET Frames /\ Charged \in SUBSET Frames
  BY LayoutAssumption DEF Charged, ChargedTo
<1>2. PICK m \in Nat \ {0}, k \in Nat, c \in Nat, n \in Int :
          /\ m = CounterMod /\ k = Cardinality(KernelFrames) /\ c = Cardinality(Charged)
          /\ n = SumOver(Sizes, Zones)
  BY <1>1, FrameSetsFinite, CounterModPositive, SizesAreNumbers
<1>3. UsedFrames = KernelFrames
  BY <1>1 DEF Init, UsedFrames
<1>4. free2m = (0 - c) % m /\ granted = 0
  BY <1>2 DEF Init
<1>5. k - c - k - 0 = 0 - c
  OBVIOUS
<1>6. free2m = (Cardinality(KernelFrames) - Cardinality(Charged)
                   - Cardinality(UsedFrames) - granted) % CounterMod
  BY <1>2, <1>3, <1>4, <1>5
<1>7. SumOver(nrFree, Zones) % m = (n - c) % m
  BY <1>2, InitSums
<1>8. (n + ((0 - c) % m)) % m = (n - c) % m
  <2>1. PICK d \in Int : d = 0 - c
    OBVIOUS
  <2>2. ((d % m) + n) % m = (d + n) % m
    BY ModAdd
  <2>3. (d % m) + n = n + (d % m) /\ d + n = n - c
    BY <2>1
  <2> QED
    BY <2>1, <2>2, <2>3
<1> QED
  BY <1>2, <1>4, <1>6, <1>7, <1>8 DEF CountersInv

\* The frames a caller frees are in the page array.
FreeRange == pc = "free" => \A p \in CallFrames : p \in Frames

LEMMA NextFreeRange == TypeOK /\ FreeRange /\ [Next]_vars => FreeRange'
<1> SUFFICES ASSUME TypeOK, FreeRange, [Next]_vars, pc' = "free",
                    NEW p \in CallFrames'
             PROVE  p \in Frames
  BY DEF FreeRange
<1>1. ASSUME NEW lo \in Frames, NEW m \in FreeSizes, FreeBegin(lo, m)
      PROVE  p \in Frames
  BY <1>1 DEF FreeBegin, MayFree, CallFrames
<1>2. CASE FreeSkips \/ FreeDrops \/ FreeReleases
  <2>1. pc = "free" /\ call' = [call EXCEPT !.i = @ + 1]
    BY <1>2 DEF FreeSkips, FreeDrops, FreeReleases, Freeing, NextFrame
  <2>2. call'.pos = call.pos /\ call'.n = call.n
    BY <2>1 DEF TypeOK
  <2> QED
    BY <2>1, <2>2 DEF FreeRange, CallFrames
<1>3. CASE UNCHANGED vars
  BY <1>3 DEF vars, FreeRange, CallFrames
<1> QED
  BY <1>1, <1>2, <1>3
     DEF Next, CallStep, Search, Mark, Free, AllocRefused, FreeRefused,
         AllocBegin, ProbeOccupied, ProbeFound, FoundAtZero, ProbeWild,
         SearchExhausted, MarkFresh, MarkShared, MarkUpdate, MarkHalts, MarkWild,
         Marking, AllocReturn, FreeReturn

LEMMA NextCounters == TypeOK /\ FreeRange /\ CountersInv /\ [Next]_vars => CountersInv'
<1> SUFFICES ASSUME TypeOK, FreeRange, CountersInv, [Next]_vars PROVE CountersInv'
  OBVIOUS
<1>1. /\ KernelFrames \in SUBSET Frames /\ Charged \in SUBSET Frames
      /\ UsedFrames \in SUBSET Frames /\ UsedFrames' \in SUBSET Frames
  BY LayoutAssumption DEF Charged, ChargedTo, UsedFrames
<1>2. PICK m \in Nat \ {0}, k \in Nat, c \in Nat, u \in Nat, s \in Int, g \in Int, f \in Int :
          /\ m = CounterMod /\ k = Cardinality(KernelFrames) /\ c = Cardinality(Charged)
          /\ u = Cardinality(UsedFrames) /\ s = SumOver(Sizes, Zones)
          /\ g = granted /\ f = free2m
  <2>1. /\ Cardinality(KernelFrames) \in Nat /\ Cardinality(Charged) \in Nat
        /\ Cardinality(UsedFrames) \in Nat
    BY <1>1, FrameSetsFinite
  <2>2. granted \in Int /\ free2m \in Int
    BY CounterModPositive DEF TypeOK
  <2>3. SumOver(Sizes, Zones) \in Int
    BY SizesAreNumbers
  <2> QED
    BY <2>1, <2>2, <2>3, CounterModPositive
<1>3. PICK b \in Int : b = k - c - u - g /\ f = b % m
  <2>1. k - c - u - g \in Int
    OBVIOUS
  <2> QED
    BY <1>2, <2>1 DEF CountersInv
<1>4. nrFree \in [Zones -> Nat]
  BY CounterModPositive DEF TypeOK
<1>5. \* The same move on both sides.
      ASSUME NEW z \in Zones, NEW d \in Int, NEW v \in Nat, NEW h \in Int,
             nrFree' = [nrFree EXCEPT ![z] = (nrFree[z] + d) % CounterMod],
             free2m' = (free2m + d) % CounterMod,
             Cardinality(UsedFrames') = v,
             (granted' = h \/ granted' = h % CounterMod), (k - c - v) - h = b + d
      PROVE  CountersInv'
  <2>1. SumOver(nrFree', Zones) % CounterMod = (s + free2m') % CounterMod
    <3>1. SumOver(nrFree, Zones) % CounterMod = (s + f) % CounterMod
      BY <1>2 DEF CountersInv
    <3>2. PICK a, t : a = nrFree /\ t = nrFree'
      OBVIOUS
    <3>3. /\ a \in [Zones -> Nat] /\ SumOver(a, Zones) % CounterMod = (s + f) % CounterMod
          /\ t \in [Zones -> Nat] /\ t[z] = (a[z] + d) % CounterMod
          /\ \A x \in Zones \ {z} : t[x] = a[x]
      <4>1. a[z] + d \in Int
        BY <1>4, <3>2
      <4>2. (a[z] + d) % CounterMod \in Nat
        BY <4>1, ModRange, CounterModPositive
      <4> QED
        BY <1>4, <1>5, <3>1, <3>2, <4>2
    <3>4. SumOver(t, Zones) % CounterMod = (s + ((f + d) % CounterMod)) % CounterMod
      BY <3>3, CountersMove
    <3> QED
      BY <1>2, <1>5, <3>2, <3>4
  <2>2. (f + d) % m = (b + d) % m
    BY <1>3, ModAdd
  <2>3. PICK a \in Int : a = k - c - v
    OBVIOUS
  <2>4. (b + d) % m = (a - granted') % m
    <3>1. CASE granted' = h
      BY <1>5, <2>3, <3>1
    <3>2. CASE granted' = h % CounterMod
      <4>1. (a - (h % m)) % m = (a - h) % m
        BY ModSubtract
      <4> QED
        BY <1>2, <1>5, <2>3, <3>2, <4>1
    <3> QED
      BY <1>5, <3>1, <3>2
  <2>5. free2m' = (Cardinality(KernelFrames) - Cardinality(Charged)
                     - Cardinality(UsedFrames') - granted') % CounterMod
    BY <1>2, <1>5, <2>2, <2>3, <2>4
  <2> QED
    BY <1>2, <2>1, <2>5 DEF CountersInv
<1>6. CASE UNCHANGED <<nrFree, free2m, granted>> /\ UsedFrames' = UsedFrames
  BY <1>6 DEF CountersInv
<1>7. CASE MarkFresh
  <2>1. PICK p : p = Here
    OBVIOUS
  <2>2. p \in Frames /\ FrameZone(p) \in Zones /\ p \notin UsedFrames
    BY <1>7, <2>1, FrameZoneType DEF MarkFresh, Marking, UsedFrames
  <2>3. flags' = [flags EXCEPT ![p] = call.flags \cup {"USED"}]
    BY <1>7, <2>1 DEF MarkFresh
  <2>4. UsedFrames' = UsedFrames \cup {p}
    BY <2>2, <2>3 DEF UsedFrames, TypeOK
  <2>5. Cardinality(UsedFrames') = u + 1
    <3>1. IsFiniteSet(UsedFrames)
      BY <1>1, FrameSetsFinite
    <3> QED
      BY <1>2, <2>2, <2>4, <3>1, FS_AddElement
  <2>6. PICK d \in Int : d = 0 - 1
    OBVIOUS
  <2>7. nrFree' = [nrFree EXCEPT ![FrameZone(p)] = (nrFree[FrameZone(p)] + d) % CounterMod]
    <3>1. nrFree[FrameZone(p)] \in Int
      BY <1>4, <2>2
    <3>2. nrFree[FrameZone(p)] - 1 = nrFree[FrameZone(p)] + d
      BY <2>6, <3>1
    <3> QED
      BY <1>7, <2>1, <3>2 DEF MarkFresh, Down
  <2>8. free2m' = (free2m + d) % CounterMod
    <3>1. free2m - 1 = free2m + d
      BY <1>2, <2>6
    <3> QED
      BY <1>7, <3>1 DEF MarkFresh, Down
  <2>9. PICK v \in Nat : v = u + 1 /\ (k - c - v) - g = b + d
    BY <1>3, <2>6
  <2>10. granted' = g
    BY <1>2, <1>7 DEF MarkFresh
  <2> QED
    BY <1>5, <2>2, <2>5, <2>7, <2>8, <2>9, <2>10
<1>8. CASE FreeReleases
  <2>1. PICK p : p = Here
    OBVIOUS
  <2>2. call.zone \in Zones
    BY <1>8 DEF FreeReleases, Freeing, TypeOK
  <2>3. p \in UsedFrames
    <3>1. call.pos \in Nat /\ call.n \in Nat /\ call.i \in Nat /\ call.i < call.n
      BY <1>8 DEF FreeReleases, Freeing, TypeOK
    <3>2. p \in call.pos .. call.pos + call.n - 1
      BY <2>1, <3>1 DEF Here
    <3>3. p \in Frames
      BY <1>8, <3>2 DEF FreeReleases, Freeing, FreeRange, CallFrames
    <3> QED
      BY <1>8, <2>1, <3>3 DEF FreeReleases, UsedFrames
  <2>4. flags' = [flags EXCEPT ![p] = {}]
    BY <1>8, <2>1 DEF FreeReleases
  <2>5. UsedFrames' = UsedFrames \ {p}
    BY <2>3, <2>4 DEF UsedFrames, TypeOK
  <2>6. Cardinality(UsedFrames') = u - 1 /\ u - 1 \in Nat
    <3>1. IsFiniteSet(UsedFrames) /\ IsFiniteSet(UsedFrames')
      BY <1>1, FrameSetsFinite
    <3>2. Cardinality(UsedFrames') = u - 1 /\ Cardinality(UsedFrames') \in Nat
      BY <1>1, <1>2, <2>3, <2>5, <3>1, FS_RemoveElement, FrameSetsFinite
    <3> QED
      BY <3>2
  <2>6a. PICK d \in Int : d = 1
    OBVIOUS
  <2>7. nrFree' = [nrFree EXCEPT ![call.zone] = (nrFree[call.zone] + d) % CounterMod]
    BY <1>8, <2>6a DEF FreeReleases, Up
  <2>8. free2m' = (free2m + d) % CounterMod
    BY <1>8, <2>6a DEF FreeReleases, Up
  <2>9. PICK v \in Nat : v = u - 1 /\ (k - c - v) - g = b + d
    BY <1>3, <2>6, <2>6a
  <2>10. granted' = g
    BY <1>2, <1>8 DEF FreeReleases
  <2> QED
    BY <1>5, <2>2, <2>6, <2>7, <2>8, <2>9, <2>10
<1>9. CASE AllocReturn
  <2>1. call.zone \in Zones /\ call.n \in Nat
    BY <1>9 DEF AllocReturn, TypeOK
  <2>2. PICK d \in Int, h \in Int : d = 0 - call.n /\ h = g + call.n
    BY <2>1
  <2>3. UsedFrames' = UsedFrames
    BY <1>9 DEF AllocReturn, UsedFrames
  <2>4. nrFree' = [nrFree EXCEPT ![call.zone] = (nrFree[call.zone] + d) % CounterMod]
    <3>1. nrFree[call.zone] - call.n = nrFree[call.zone] + d
      BY <1>4, <2>1, <2>2
    <3> QED
      BY <1>9, <3>1 DEF AllocReturn
  <2>5. free2m' = (free2m + d) % CounterMod
    <3>1. free2m - call.n = free2m + d
      BY <1>2, <2>1, <2>2
    <3> QED
      BY <1>9, <3>1 DEF AllocReturn
  <2>6. granted' = h % CounterMod
    BY <1>2, <1>9, <2>2 DEF AllocReturn
  <2>7. (k - c - u) - h = b + d
    <3>1. PICK n \in Nat : n = call.n
      BY <2>1
    <3>2. d = 0 - n /\ h = g + n
      BY <2>2, <3>1
    <3> QED
      BY <1>3, <3>2
  <2> QED
    BY <1>2, <1>5, <2>1, <2>3, <2>4, <2>5, <2>6, <2>7
<1>10. CASE MarkShared \/ MarkUpdate
  <2>1. /\ "USED" \in flags[Here] /\ flags' = [flags EXCEPT ![Here] = @ \cup call.flags]
        /\ UNCHANGED <<nrFree, free2m, granted>>
    BY <1>10 DEF MarkShared, MarkUpdate
  <2>2. UsedFrames' = UsedFrames
    BY <2>1 DEF UsedFrames, TypeOK
  <2> QED
    BY <1>6, <2>1, <2>2
<1>11. CASE UNCHANGED <<nrFree, free2m, granted, flags>>
  BY <1>6, <1>11 DEF UsedFrames
<1> QED
  BY <1>7, <1>8, <1>9, <1>10, <1>11
     DEF Next, vars, CallStep, Search, Mark, Free, AllocRefused, FreeRefused,
         AllocBegin, FreeBegin, ProbeOccupied, ProbeFound, FoundAtZero, ProbeWild,
         SearchExhausted, MarkHalts, MarkWild, FreeSkips, FreeDrops, FreeReturn

(* free_2m_pages and the zones' nr_free follow the frames that are marked and  *)
(* the pages that are granted, modulo the width of the counters, whatever is   *)
(* requested, freed and shared, and however often page_init lowers them twice. *)
THEOREM CountersAreRight == Spec => []CountersFollowFrames
<1>1. Init => CountersInv /\ FreeRange
  BY InitCounters DEF Init, FreeRange
<1>2. TypeOK /\ FreeRange /\ CountersInv /\ [Next]_vars => CountersInv' /\ FreeRange'
  BY NextCounters, NextFreeRange
<1>3. TypeOK /\ CountersInv => CountersFollowFrames
  BY CountersInvSuffices
<1> QED
  BY <1>1, <1>2, <1>3, TypeCorrect, PTL DEF Spec

-----------------------------------------------------------------------------
(* Ownership of the frames: under SmallRequests, IInv is an invariant of   *)
(* PageAlloc.  The safety properties of the allocator and its refinement   *)
(* of FramePool follow from it.                                            *)

\* The loop bound of the search does not wrap.
LEMMA LoopBoundSmall ==
    ASSUME SmallRequests, NEW n \in Requests, NEW z \in Zones
    PROVE  (ZoneEnd[z] - n) % CounterMod = ZoneEnd[z] - n
<1>1. ZoneEnd[z] - n \in 0 .. CounterMod - 1
  BY LayoutAssumption, RequestAssumption, WordAssumption, CounterAssumption
     DEF SmallRequests
<1> QED
  BY <1>1, ModSmall, CounterModPositive

\* The frames of a zone are frames, and none of them lacks a zone.
LEMMA ZoneFramesHaveZone ==
    ASSUME NEW z \in Zones, NEW p \in ZoneFrames(z)
    PROVE  p \in Frames /\ InSomeZone(p) /\ FrameZone(p) # NoZone
<1>1. p \in Frames
  BY LayoutAssumption DEF ZoneFrames, Frames
<1>2. InSomeZone(p)
  BY DEF InSomeZone
<1> QED
  BY <1>1, <1>2, FrameZoneType DEF Zones, NoZone

\* The frames of the arrays have their bits on the bitmap.
LEMMA FramesOnBitmap == Frames \subseteq Bits
<1>1. WordCount * WordBits >= FrameCount
  BY BitsCoverFrames, LayoutAssumption, WordAssumption DEF WordCount
<1>2. WordCount * WordBits \in Int
  BY LayoutAssumption, WordAssumption DEF WordCount
<1> QED
  BY <1>1, <1>2, LayoutAssumption DEF Frames, Bits

LEMMA InitIInv == Init => IInv
<1> SUFFICES ASSUME Init PROVE IInv
  OBVIOUS
<1>1. TypeOK /\ BitmapAgreesWithFlags
  BY InitTypeOK, InitAgrees
<1>2. RefCountsUse /\ NoDoubleGrant
  BY DEF Init, RefCountsUse, NoDoubleGrant
<1>3. KernelFramesKept
  BY LayoutAssumption DEF Init, KernelFramesKept
<1>4. HeldIffMarked
  <2>1. \A p \in HoleFrames : ~InSomeZone(p)
    BY DEF HoleFrames
  <2> QED
    BY <2>1 DEF Init, HeldIffMarked
<1>5. CallInv /\ SearchInv /\ MarkInv /\ FreeInv
  BY DEF Init, CallInv, SearchInv, MarkInv, FreeInv
<1> QED
  BY <1>1, <1>2, <1>3, <1>4, <1>5 DEF IInv

-----------------------------------------------------------------------------
(* The search.                                                             *)

\* What one iteration of the search tests, and where the next one starts.
LEMMA ProbeFacts ==
    ASSUME SmallRequests, IInv, pc = "search"
    PROVE  /\ call.n \in Nat /\ call.pos \in Nat /\ call.zone \in Zones
           /\ Probed(call.pos, call.n) = CallFrames
           /\ Stride(call.pos, call.n) \in 0 .. call.n
           /\ InLoop <=> call.pos + call.n <= ZoneEnd[call.zone]
<1>1. call.n \in Nat /\ call.pos \in Nat /\ call.zone \in Zones
  BY DEF IInv, TypeOK
<1>2. call.n \in Requests
  BY DEF IInv, CallInv
<1>3. call.n <= WordBits
  BY <1>2 DEF SmallRequests
<1>4. Probed(call.pos, call.n) = CallFrames
  BY <1>1, <1>3, ProbedSmall DEF CallFrames
<1>5. Stride(call.pos, call.n) \in Nat /\ Stride(call.pos, call.n) <= call.n
  BY <1>1, <1>3, StrideNat, StrideSmall
<1>6. (ZoneEnd[call.zone] - call.n) % CounterMod = ZoneEnd[call.zone] - call.n
  BY <1>1, <1>2, LoopBoundSmall
<1>7. InLoop <=> call.pos + call.n <= ZoneEnd[call.zone]
  BY <1>1, <1>6, LayoutAssumption DEF InLoop
<1> QED
  BY <1>1, <1>4, <1>5, <1>7

\* A position inside the loop covers frames of the zone only.
LEMMA InLoopInZone ==
    ASSUME SmallRequests, IInv, pc = "search", InLoop
    PROVE  CallFrames \subseteq ZoneFrames(call.zone)
<1>1. /\ call.n \in Nat /\ call.pos \in Nat /\ call.zone \in Zones
      /\ call.pos + call.n <= ZoneEnd[call.zone]
  BY ProbeFacts
<1>2. ZoneStart[call.zone] <= call.pos
  BY DEF IInv, CallInv
<1> QED
  BY <1>1, <1>2, LayoutAssumption DEF CallFrames, ZoneFrames

\* A set bit in the frames that were tested rules out every long run that
\* starts before the next position.
LEMMA OccupiedRulesOut ==
    ASSUME NEW pos \in Nat, NEW n \in Nat, NEW s \in 0 .. n, NEW a \in Nat,
           (pos .. pos + n - 1) \cap bitmap # {},
           a + n - 1 < pos + s, ~(a + n - 1 < pos)
    PROVE  (a .. a + 2 * n - 2) \cap bitmap # {}
<1>1. PICK p \in pos .. pos + n - 1 : p \in bitmap
  OBVIOUS
<1>2. p \in a .. a + 2 * n - 2
  BY <1>1
<1> QED
  BY <1>1, <1>2

LEMMA ProbeOccupiedIInv == SmallRequests /\ IInv /\ ProbeOccupied => IInv'
<1> SUFFICES ASSUME SmallRequests, IInv, ProbeOccupied PROVE IInv'
  OBVIOUS
<1> DEFINE step == Stride(call.pos, call.n)
<1>0. pc = "search" /\ pc' = "search" /\ InLoop /\ Occupied
  BY DEF ProbeOccupied
<1>1. /\ call.n \in Nat /\ call.pos \in Nat /\ call.zone \in Zones
      /\ Probed(call.pos, call.n) = CallFrames
      /\ step \in 0 .. call.n
  BY <1>0, ProbeFacts
<1>2. call' = [call EXCEPT !.pos = call.pos + step]
  BY DEF ProbeOccupied
<1>3. /\ call'.n = call.n /\ call'.zone = call.zone
      /\ call'.pos = call.pos + step /\ call'.i = call.i
  BY <1>1, <1>2 DEF IInv, TypeOK
<1>4. UNCHANGED <<bitmap, flags, refCount, claims>>
  BY DEF ProbeOccupied
<1>5. TypeOK' /\ BitmapAgreesWithFlags'
  BY NextTypeOK, NextAgrees DEF IInv, Next, CallStep, Search
<1>6. RefCountsUse' /\ NoDoubleGrant' /\ KernelFramesKept'
  BY <1>4 DEF IInv, RefCountsUse, NoDoubleGrant, KernelFramesKept
<1>7. HeldIffMarked'
  BY <1>0, <1>4 DEF IInv, HeldIffMarked, InCall
<1>8. CallInv'
  BY <1>0, <1>1, <1>3, LayoutAssumption DEF IInv, CallInv
<1>9. SearchInv'
  <2> SUFFICES ASSUME NEW a \in ZoneFrames(call.zone), call.n # 0,
                      a + call.n - 1 < call.pos + step,
                      a .. a + 2 * call.n - 2 \subseteq ZoneFrames(call.zone)
               PROVE  (a .. a + 2 * call.n - 2) \cap bitmap # {}
    BY <1>3, <1>4 DEF SearchInv
  <2>1. CASE a + call.n - 1 < call.pos
    BY <1>0, <2>1 DEF IInv, SearchInv
  <2>2. CASE ~(a + call.n - 1 < call.pos)
    <3>1. (call.pos .. call.pos + call.n - 1) \cap bitmap # {}
      BY <1>0, <1>1 DEF Occupied, CallFrames
    <3>2. a \in Nat
      BY <1>1, LayoutAssumption DEF ZoneFrames
    <3> QED
      BY <1>1, <2>2, <3>1, <3>2, OccupiedRulesOut
  <2> QED
    BY <2>1, <2>2
<1>10. MarkInv' /\ FreeInv'
  BY <1>0 DEF MarkInv, FreeInv
<1> QED
  BY <1>5, <1>6, <1>7, <1>8, <1>9, <1>10 DEF IInv

LEMMA ProbeFoundIInv == SmallRequests /\ IInv /\ ProbeFound => IInv'
<1> SUFFICES ASSUME SmallRequests, IInv, ProbeFound PROVE IInv'
  OBVIOUS
<1>0. /\ pc = "search" /\ pc' = "mark" /\ InLoop /\ ~Occupied
      /\ UNCHANGED <<bitmap, flags, refCount, call, claims>>
  BY DEF ProbeFound
<1>1. /\ call.n \in Nat /\ call.pos \in Nat /\ call.zone \in Zones
      /\ Probed(call.pos, call.n) = CallFrames
      /\ call.pos + call.n <= ZoneEnd[call.zone]
  BY <1>0, ProbeFacts
<1>2. CallFrames \subseteq Frames
  BY <1>0, <1>1, InLoopInZone, ZoneFramesHaveZone
<1>3. CallFrames \cap bitmap = {}
  BY <1>0, <1>1 DEF Occupied
<1>4. TypeOK' /\ BitmapAgreesWithFlags'
  BY NextTypeOK, NextAgrees DEF IInv, Next, CallStep, Search
<1>5. RefCountsUse' /\ NoDoubleGrant' /\ KernelFramesKept'
  BY <1>0 DEF IInv, RefCountsUse, NoDoubleGrant, KernelFramesKept
<1>6. HeldIffMarked'
  BY <1>0 DEF IInv, HeldIffMarked, InCall
<1>7. CallInv' /\ SearchInv' /\ FreeInv'
  BY <1>0 DEF IInv, CallInv, SearchInv, FreeInv
<1>8. MarkInv'
  <2>1. \A p \in CallFrames : claims[p] = 0 /\ p \notin KernelFrames /\ p \notin bitmap
    BY <1>2, <1>3 DEF IInv, HeldIffMarked, KernelFramesKept, TypeOK
  <2>2. call.i = 0
    BY <1>0 DEF IInv, CallInv
  <2>3. \A p \in CallFrames : ~(p < Here)
    BY <1>1, <2>2 DEF CallFrames, Here
  <2> QED
    BY <1>0, <1>1, <2>1, <2>3 DEF MarkInv, CallFrames, Here
<1> QED
  BY <1>4, <1>5, <1>6, <1>7, <1>8 DEF IInv

\* The calls that end without a grant leave nothing behind.
LEMMA GiveUpIInv ==
    SmallRequests /\ IInv /\ (FoundAtZero \/ SearchExhausted) => IInv'
<1> SUFFICES ASSUME SmallRequests, IInv, FoundAtZero \/ SearchExhausted PROVE IInv'
  OBVIOUS
<1>0. /\ pc = "search" /\ pc' = "idle" /\ call' = NoCall
      /\ UNCHANGED <<bitmap, flags, refCount, claims>>
  BY DEF FoundAtZero, SearchExhausted
<1>1. TypeOK' /\ BitmapAgreesWithFlags'
  BY NextTypeOK, NextAgrees DEF IInv, Next, CallStep, Search
<1>2. RefCountsUse' /\ NoDoubleGrant' /\ KernelFramesKept'
  BY <1>0 DEF IInv, RefCountsUse, NoDoubleGrant, KernelFramesKept
<1>3. HeldIffMarked'
  BY <1>0 DEF IInv, HeldIffMarked, InCall
<1>4. CallInv' /\ SearchInv' /\ MarkInv' /\ FreeInv'
  BY <1>0 DEF IInv, CallInv, SearchInv, MarkInv, FreeInv
<1> QED
  BY <1>1, <1>2, <1>3, <1>4 DEF IInv

\* A search for a small request never reads past the bitmap.
LEMMA NoProbeWild == SmallRequests /\ IInv => ~ProbeWild
<1> SUFFICES ASSUME SmallRequests, IInv, ProbeWild PROVE FALSE
  OBVIOUS
<1>0. pc = "search" /\ InLoop /\ ~OnBitmap
  BY DEF ProbeWild
<1>1. CallFrames \subseteq Frames
  BY <1>0, InLoopInZone, ZoneFramesHaveZone, ProbeFacts
<1>2. Probed(call.pos, call.n) = CallFrames
  BY <1>0, ProbeFacts
<1> QED
  BY <1>0, <1>1, <1>2, FramesOnBitmap DEF OnBitmap

-----------------------------------------------------------------------------
(* The marking loop and the return of alloc_pages.                         *)

\* The frame that is marked next is a free frame of the zone.
LEMMA HereIsFree ==
    ASSUME SmallRequests, IInv, pc = "mark", call.i < call.n
    PROVE  /\ Here \in CallFrames /\ Here \in Frames
           /\ FrameZone(Here) # NoZone
           /\ Here \notin bitmap /\ "USED" \notin flags[Here]
<1>1. /\ call.n \in Nat /\ call.pos \in Nat /\ call.i \in Nat /\ call.zone \in Zones
      /\ ZoneStart[call.zone] <= call.pos /\ call.pos + call.n <= ZoneEnd[call.zone]
  BY DEF IInv, TypeOK, CallInv, MarkInv
<1>2. Here \in CallFrames /\ Here \in ZoneFrames(call.zone)
  BY <1>1, LayoutAssumption DEF Here, CallFrames, ZoneFrames
<1>3. Here \in Frames /\ FrameZone(Here) # NoZone
  BY <1>1, <1>2, ZoneFramesHaveZone
<1>4. Here \notin bitmap
  BY <1>1, <1>2 DEF IInv, MarkInv, Here
<1> QED
  BY <1>2, <1>3, <1>4 DEF IInv, BitmapAgreesWithFlags

\* A small request never finds a frame in use, without a zone or past the array.
LEMMA OnlyMarkFresh ==
    SmallRequests /\ IInv => ~(MarkShared \/ MarkUpdate \/ MarkHalts \/ MarkWild)
BY HereIsFree DEF MarkShared, MarkUpdate, MarkHalts, MarkWild, Marking

LEMMA MarkFreshIInv == SmallRequests /\ IInv /\ MarkFresh => IInv'
<1> SUFFICES ASSUME SmallRequests, IInv, MarkFresh PROVE IInv'
  OBVIOUS
<1> DEFINE h == Here
<1>0. /\ pc = "mark" /\ pc' = "mark" /\ call.i < call.n
      /\ bitmap' = bitmap \cup {h} /\ claims' = claims
      /\ flags' = [flags EXCEPT ![h] = call.flags \cup {"USED"}]
      /\ refCount' = [refCount EXCEPT ![h] = 1]
      /\ call' = [call EXCEPT !.i = call.i + 1]
  BY DEF MarkFresh, Marking, NextFrame
<1>1. /\ call.n \in Nat /\ call.pos \in Nat /\ call.i \in Nat
      /\ call'.n = call.n /\ call'.zone = call.zone /\ call'.pos = call.pos
      /\ call'.i = call.i + 1 /\ h = call.pos + call.i /\ Here' = h + 1
      /\ CallFrames' = CallFrames
  BY <1>0 DEF IInv, TypeOK, Here, CallFrames
<1>2. h \in CallFrames /\ h \in Frames /\ h \notin bitmap
  BY <1>0, HereIsFree
<1>3. h \notin KernelFrames
  BY <1>0, <1>2 DEF IInv, MarkInv
<1>4. TypeOK' /\ BitmapAgreesWithFlags'
  BY NextTypeOK, NextAgrees DEF IInv, Next, CallStep, Mark
<1>5. RefCountsUse' /\ NoDoubleGrant' /\ KernelFramesKept'
  <2>1. RefCountsUse'
    BY <1>0, <1>2 DEF IInv, RefCountsUse, TypeOK
  <2>2. KernelFramesKept'
    BY <1>0, <1>2, <1>3 DEF IInv, KernelFramesKept, TypeOK
  <2> QED
    BY <1>0, <2>1, <2>2 DEF IInv, NoDoubleGrant
<1>6. HeldIffMarked'
  <2>1. InCall(h) /\ \A p : InCall(p)' <=> InCall(p)
    BY <1>0, <1>1, <1>2 DEF InCall, CallFrames
  <2>2. \A p \in bitmap' \ KernelFrames : InSomeZone(p) /\ ~InCall(p) => claims[p] > 0
    BY <1>0, <2>1 DEF IInv, HeldIffMarked
  <2> QED
    BY <1>0, <2>1, <2>2 DEF IInv, HeldIffMarked
<1>7. CallInv' /\ SearchInv' /\ FreeInv'
  BY <1>0, <1>1 DEF IInv, CallInv, SearchInv, FreeInv
<1>8. MarkInv'
  <2>1. \A p \in CallFrames : p \in bitmap' <=> p < h + 1
    <3> SUFFICES ASSUME NEW p \in CallFrames PROVE p \in bitmap' <=> p < h + 1
      OBVIOUS
    <3>1. p \in Int /\ h \in Int
      BY <1>1 DEF CallFrames
    <3>2. p \in bitmap <=> p < h
      BY <1>0 DEF IInv, MarkInv
    <3>3. p \in bitmap' <=> p \in bitmap \/ p = h
      BY <1>0
    <3> QED
      BY <3>1, <3>2, <3>3
  <2>2. /\ call.pos + call.n <= ZoneEnd[call.zone]
        /\ \A p \in CallFrames : claims[p] = 0 /\ p \notin KernelFrames
    BY <1>0 DEF IInv, MarkInv
  <2> QED
    BY <1>0, <1>1, <2>1, <2>2 DEF MarkInv
<1> QED
  BY <1>4, <1>5, <1>6, <1>7, <1>8 DEF IInv

LEMMA AllocReturnIInv == SmallRequests /\ IInv /\ AllocReturn => IInv'
<1> SUFFICES ASSUME SmallRequests, IInv, AllocReturn PROVE IInv'
  OBVIOUS
<1>0. /\ pc = "mark" /\ pc' = "idle" /\ call.i = call.n /\ call' = NoCall
      /\ UNCHANGED <<bitmap, flags, refCount>>
      /\ claims' = [p \in Frames |-> IF p \in CallFrames THEN claims[p] + 1 ELSE claims[p]]
  BY DEF AllocReturn, CallFrames
<1>1. call.n \in Nat /\ call.pos \in Nat /\ claims \in [Frames -> Nat]
  BY DEF IInv, TypeOK
<1>2. \A p \in CallFrames : claims[p] = 0 /\ p \notin KernelFrames /\ p \in bitmap
  <2>1. \A p \in CallFrames : p < Here
    BY <1>0, <1>1 DEF CallFrames, Here
  <2> QED
    BY <1>0, <2>1 DEF IInv, MarkInv
<1>3. TypeOK' /\ BitmapAgreesWithFlags'
  BY NextTypeOK, NextAgrees DEF IInv, Next, CallStep, Mark
<1>4. RefCountsUse'
  BY <1>0 DEF IInv, RefCountsUse
<1>5. NoDoubleGrant'
  BY <1>0, <1>1, <1>2 DEF IInv, NoDoubleGrant
<1>6. KernelFramesKept'
  BY <1>0, <1>1, <1>2, LayoutAssumption DEF IInv, KernelFramesKept
<1>7. HeldIffMarked'
  <2>1. \A p \in Frames : claims'[p] > 0 => p \in bitmap'
    BY <1>0, <1>1, <1>2 DEF IInv, HeldIffMarked
  <2>2. ASSUME NEW p \in bitmap \ KernelFrames, InSomeZone(p)
        PROVE  claims'[p] > 0
    <3>1. p \in Frames
      BY DEF IInv, TypeOK
    <3>2. CASE p \in CallFrames
      BY <1>0, <1>1, <3>1, <3>2
    <3>3. CASE p \notin CallFrames
      <4>1. ~InCall(p)
        BY <3>3 DEF InCall, CallFrames
      <4>2. claims[p] > 0
        BY <2>2, <4>1 DEF IInv, HeldIffMarked
      <4> QED
        BY <1>0, <3>1, <3>3, <4>2
    <3> QED
      BY <3>2, <3>3
  <2> QED
    BY <1>0, <2>1, <2>2 DEF HeldIffMarked
<1>8. CallInv' /\ SearchInv' /\ MarkInv' /\ FreeInv'
  BY <1>0 DEF CallInv, SearchInv, MarkInv, FreeInv
<1> QED
  BY <1>3, <1>4, <1>5, <1>6, <1>7, <1>8 DEF IInv

-----------------------------------------------------------------------------
(* The calls that begin, and free_pages.                                   *)

LEMMA AllocBeginIInv ==
    ASSUME SmallRequests, IInv, NEW type \in ZoneTypes, NEW n \in Requests,
           NEW f \in RequestFlags, AllocBegin(type, n, f)
    PROVE  IInv'
<1>1. PICK z \in Zones : call' = [n |-> n, flags |-> f, zone |-> z,
                                 pos |-> ZoneStart[z], i |-> 0]
  BY DEF AllocBegin
<1>2. /\ pc = "idle" /\ pc' = "search"
      /\ UNCHANGED <<bitmap, flags, refCount, claims>>
  BY DEF AllocBegin
<1>3. TypeOK' /\ BitmapAgreesWithFlags'
  BY NextTypeOK, NextAgrees DEF IInv, Next
<1>4. RefCountsUse' /\ NoDoubleGrant' /\ KernelFramesKept'
  BY <1>2 DEF IInv, RefCountsUse, NoDoubleGrant, KernelFramesKept
<1>5. HeldIffMarked'
  BY <1>2 DEF IInv, HeldIffMarked, InCall
<1>6. CallInv'
  BY <1>1, <1>2, LayoutAssumption DEF CallInv
<1>7. SearchInv'
  <2> SUFFICES ASSUME NEW a \in ZoneFrames(z), n # 0, a + n - 1 < ZoneStart[z],
                      a .. a + 2 * n - 2 \subseteq ZoneFrames(z)
               PROVE  (a .. a + 2 * n - 2) \cap bitmap # {}
    BY <1>1, <1>2 DEF SearchInv
  <2>1. ~(a + n - 1 < ZoneStart[z])
    BY LayoutAssumption, RequestAssumption DEF ZoneFrames
  <2> QED
    BY <2>1
<1>8. MarkInv' /\ FreeInv'
  BY <1>2 DEF MarkInv, FreeInv
<1> QED
  BY <1>3, <1>4, <1>5, <1>6, <1>7, <1>8 DEF IInv

LEMMA FreeBeginIInv ==
    ASSUME IInv, NEW lo \in Frames, NEW m \in FreeSizes, FreeBegin(lo, m)
    PROVE  IInv'
<1> DEFINE run == lo .. lo + m - 1
<1>0. /\ pc = "idle" /\ pc' = "free" /\ MayFree(lo, m)
      /\ UNCHANGED <<bitmap, flags, refCount>>
      /\ call' = [n |-> m, flags |-> {}, zone |-> FrameZone(lo), pos |-> lo, i |-> 0]
      /\ claims' = [p \in Frames |->
                      IF p \in run /\ claims[p] > 0 THEN claims[p] - 1 ELSE claims[p]]
  BY DEF FreeBegin
<1>1. claims \in [Frames -> Nat] /\ lo \in Nat /\ m \in Nat
  <2>1. claims \in [Frames -> Nat]
    BY DEF IInv, TypeOK
  <2>2. lo \in Nat /\ m \in Nat
    BY LayoutAssumption, RequestAssumption DEF Frames
  <2> QED
    BY <2>1, <2>2
<1>2. CallFrames' = run /\ Here' = lo
  BY <1>0, <1>1 DEF CallFrames, Here
<1>3. ASSUME NEW p \in run
      PROVE  p \in Frames \ KernelFrames /\ claims'[p] = 0
  <2>1. p \in Frames /\ ("USED" \in flags[p] => claims[p] > 0)
    BY <1>0 DEF MayFree
  <2>2. p \notin KernelFrames
    BY <2>1 DEF IInv, KernelFramesKept
  <2>3. claims[p] \in {0, 1}
    BY <1>1, <2>1 DEF IInv, NoDoubleGrant
  <2> QED
    BY <1>0, <2>1, <2>2, <2>3
<1>4. TypeOK' /\ BitmapAgreesWithFlags'
  BY NextTypeOK, NextAgrees DEF IInv, Next
<1>5. RefCountsUse'
  BY <1>0 DEF IInv, RefCountsUse
<1>6. \A p \in Frames : claims'[p] \in Nat /\ claims'[p] <= claims[p]
  BY <1>0, <1>1
<1>7. NoDoubleGrant' /\ KernelFramesKept'
  <2>1. NoDoubleGrant'
    BY <1>1, <1>6 DEF IInv, NoDoubleGrant
  <2>2. \A p \in KernelFrames : claims'[p] = 0
    BY <1>1, <1>6, LayoutAssumption DEF IInv, KernelFramesKept
  <2> QED
    BY <1>0, <2>1, <2>2 DEF IInv, KernelFramesKept
<1>8. HeldIffMarked'
  <2>1. \A p \in Frames : claims'[p] > 0 => p \in bitmap
    BY <1>1, <1>6 DEF IInv, HeldIffMarked
  <2>2. ASSUME NEW p \in bitmap \ KernelFrames, InSomeZone(p), ~InCall(p)'
        PROVE  claims'[p] > 0
    <3>1. p \in Frames /\ p \notin run /\ ~InCall(p)
      BY <1>0, <1>2, <2>2 DEF InCall, CallFrames, IInv, TypeOK
    <3>2. claims[p] > 0
      BY <2>2, <3>1 DEF IInv, HeldIffMarked
    <3> QED
      BY <1>0, <3>1, <3>2
  <2> QED
    BY <1>0, <2>1, <2>2 DEF HeldIffMarked
<1>9. CallInv' /\ SearchInv' /\ MarkInv'
  BY <1>0 DEF CallInv, SearchInv, MarkInv
<1>10. FreeInv'
  <2>1. \A p \in run : ~(p < lo)
    BY <1>1
  <2> QED
    BY <1>0, <1>2, <1>3, <2>1 DEF FreeInv
<1> QED
  BY <1>4, <1>5, <1>7, <1>8, <1>9, <1>10 DEF IInv

\* With at most one claim on a frame, its reference count never exceeds one.
LEMMA NoFreeDrops == IInv => ~FreeDrops
<1> SUFFICES ASSUME IInv, FreeDrops PROVE FALSE
  OBVIOUS
<1>1. pc = "free" /\ call.i < call.n /\ refCount[Here] > 1
  BY DEF FreeDrops, Freeing
<1>2. Here \in CallFrames
  BY <1>1 DEF IInv, TypeOK, Here, CallFrames
<1>3. Here \in Frames
  BY <1>1, <1>2 DEF IInv, FreeInv
<1> QED
  BY <1>1, <1>3 DEF IInv, RefCountsUse

LEMMA FreeStepIInv == IInv /\ (FreeSkips \/ FreeReleases) => IInv'
<1> SUFFICES ASSUME IInv, FreeSkips \/ FreeReleases PROVE IInv'
  OBVIOUS
<1> DEFINE h == Here
<1>0. /\ pc = "free" /\ pc' = "free" /\ call.i < call.n /\ claims' = claims
      /\ call' = [call EXCEPT !.i = call.i + 1]
  BY DEF FreeSkips, FreeReleases, Freeing, NextFrame
<1>1. /\ call.n \in Nat /\ call.pos \in Nat /\ call.i \in Nat
      /\ h = call.pos + call.i /\ Here' = h + 1 /\ CallFrames' = CallFrames
  BY <1>0 DEF IInv, TypeOK, Here, CallFrames
<1>2. h \in CallFrames
  BY <1>0, <1>1 DEF CallFrames
<1>3. h \in Frames \ KernelFrames /\ claims[h] = 0
  BY <1>0, <1>2 DEF IInv, FreeInv
<1>4. \/ bitmap' = bitmap /\ flags' = flags /\ refCount' = refCount /\ "USED" \notin flags[h]
      \/ /\ bitmap' = bitmap \ {h}
         /\ flags' = [flags EXCEPT ![h] = {}]
         /\ refCount' = [refCount EXCEPT ![h] = 0]
  BY DEF FreeSkips, FreeReleases, Unmark
<1>5. InSomeZone(h) => h \notin bitmap'
  <2>1. InSomeZone(h) => FrameZone(h) # NoZone
    BY <1>3, FrameZoneType DEF Zones, NoZone
  <2> QED
    BY <1>3, <1>4, <2>1 DEF IInv, BitmapAgreesWithFlags
<1>6. TypeOK' /\ BitmapAgreesWithFlags'
  BY NextTypeOK, NextAgrees DEF IInv, Next, CallStep, Free
<1>7. RefCountsUse'
  BY <1>3, <1>4 DEF IInv, RefCountsUse, TypeOK
<1>8. NoDoubleGrant' /\ KernelFramesKept'
  BY <1>0, <1>3, <1>4, LayoutAssumption DEF IInv, NoDoubleGrant, KernelFramesKept, TypeOK
<1>9. HeldIffMarked'
  <2>1. \A p : InCall(p)' <=> InCall(p)
    BY <1>0, <1>1 DEF InCall, CallFrames
  <2>2. \A p \in Frames : claims[p] > 0 => p \in bitmap'
    BY <1>3, <1>4 DEF IInv, HeldIffMarked
  <2>3. \A p \in bitmap' \ KernelFrames : InSomeZone(p) /\ ~InCall(p) => claims[p] > 0
    BY <1>4 DEF IInv, HeldIffMarked
  <2> QED
    BY <1>0, <2>1, <2>2, <2>3 DEF HeldIffMarked
<1>10. CallInv' /\ SearchInv' /\ MarkInv'
  BY <1>0 DEF CallInv, SearchInv, MarkInv
<1>11. FreeInv'
  <2> SUFFICES ASSUME NEW p \in CallFrames
               PROVE  /\ p \in Frames \ KernelFrames /\ claims[p] = 0
                      /\ p < h + 1 /\ InSomeZone(p) => p \notin bitmap'
    BY <1>0, <1>1 DEF FreeInv
  <2>1. /\ p \in Frames \ KernelFrames /\ claims[p] = 0
        /\ p < h /\ InSomeZone(p) => p \notin bitmap
    BY <1>0 DEF IInv, FreeInv
  <2>2. p < h + 1 => p < h \/ p = h
    BY <1>1 DEF CallFrames
  <2> QED
    BY <1>4, <1>5, <2>1, <2>2
<1> QED
  BY <1>6, <1>7, <1>8, <1>9, <1>10, <1>11 DEF IInv

LEMMA FreeReturnIInv == IInv /\ FreeReturn => IInv'
<1> SUFFICES ASSUME IInv, FreeReturn PROVE IInv'
  OBVIOUS
<1>0. /\ pc = "free" /\ pc' = "idle" /\ call.i = call.n /\ call' = NoCall
      /\ UNCHANGED <<bitmap, flags, refCount, claims>>
  BY DEF FreeReturn
<1>1. TypeOK' /\ BitmapAgreesWithFlags'
  BY NextTypeOK, NextAgrees DEF IInv, Next, CallStep, Free
<1>2. RefCountsUse' /\ NoDoubleGrant' /\ KernelFramesKept'
  BY <1>0 DEF IInv, RefCountsUse, NoDoubleGrant, KernelFramesKept
<1>3. HeldIffMarked'
  <2>1. \A p \in CallFrames : InSomeZone(p) => p \notin bitmap
    <3>1. \A p \in CallFrames : p < Here
      BY <1>0 DEF IInv, TypeOK, CallFrames, Here
    <3> QED
      BY <1>0, <3>1 DEF IInv, FreeInv
  <2>2. \A p \in bitmap \ KernelFrames : InSomeZone(p) => ~InCall(p)
    BY <2>1 DEF InCall, CallFrames
  <2> QED
    BY <1>0, <2>2 DEF IInv, HeldIffMarked
<1>4. CallInv' /\ SearchInv' /\ MarkInv' /\ FreeInv'
  BY <1>0 DEF CallInv, SearchInv, MarkInv, FreeInv
<1> QED
  BY <1>1, <1>2, <1>3, <1>4 DEF IInv

-----------------------------------------------------------------------------
(* The invariant and what follows from it.                                 *)

LEMMA NextIInv == SmallRequests /\ IInv /\ [Next]_vars => IInv'
<1> SUFFICES ASSUME SmallRequests, IInv, [Next]_vars PROVE IInv'
  OBVIOUS
<1>1. CASE UNCHANGED vars
  <2>1. /\ UNCHANGED <<bitmap, flags, refCount, claims, pc, call>>
        /\ UNCHANGED <<nrFree, free2m, granted>>
    BY <1>1 DEF vars
  <2>2. TypeOK' /\ BitmapAgreesWithFlags'
    BY NextTypeOK, NextAgrees DEF IInv
  <2>3. RefCountsUse' /\ NoDoubleGrant' /\ KernelFramesKept' /\ HeldIffMarked'
    BY <2>1 DEF IInv, RefCountsUse, NoDoubleGrant, KernelFramesKept, HeldIffMarked, InCall
  <2>4. CallInv' /\ SearchInv' /\ MarkInv' /\ FreeInv'
    BY <2>1 DEF IInv, CallInv, SearchInv, MarkInv, FreeInv, CallFrames, Here
  <2> QED
    BY <2>2, <2>3, <2>4 DEF IInv
<1>2. CASE Search
  BY <1>2, ProbeOccupiedIInv, ProbeFoundIInv, GiveUpIInv, NoProbeWild DEF Search
<1>3. CASE Mark
  BY <1>3, MarkFreshIInv, OnlyMarkFresh, AllocReturnIInv DEF Mark
<1>4. CASE Free
  BY <1>4, NoFreeDrops, FreeStepIInv, FreeReturnIInv DEF Free
<1>5. ASSUME NEW type \in ZoneTypes, NEW n \in Requests, NEW f \in RequestFlags,
             AllocBegin(type, n, f)
      PROVE  IInv'
  BY <1>5, AllocBeginIInv
<1>6. ASSUME NEW lo \in Frames, NEW m \in FreeSizes, FreeBegin(lo, m)
      PROVE  IInv'
  BY <1>6, FreeBeginIInv
<1> QED
  BY <1>1, <1>2, <1>3, <1>4, <1>5, <1>6
     DEF Next, CallStep, AllocRefused, FreeRefused

(* With requests that fit in a word of the bitmap and in every zone, IInv    *)
(* holds in every state.                                                     *)
THEOREM Invariance == SmallRequests => (Spec => []IInv)
<1> SUFFICES ASSUME SmallRequests PROVE Spec => []IInv
  OBVIOUS
<1>1. Init => IInv
  BY InitIInv
<1>2. IInv /\ [Next]_vars => IInv'
  BY NextIInv
<1> QED
  BY <1>1, <1>2, PTL DEF Spec

(* No frame is granted twice without having been freed in between, although  *)
(* alloc_pages marks frames without looking at them again (memory.c, 484).   *)
THEOREM NoFrameGrantedTwice == SmallRequests => (Spec => []NoDoubleGrant)
<1>1. IInv => NoDoubleGrant
  BY DEF IInv
<1> QED
  BY <1>1, Invariance, PTL

(* A frame somebody holds is marked, a marked frame of a zone that is not    *)
(* the kernel's is held: nothing is taken away and nothing leaks.            *)
THEOREM NothingLost == SmallRequests => (Spec => []HeldIffMarked)
<1>1. IInv => HeldIffMarked
  BY DEF IInv
<1> QED
  BY <1>1, Invariance, PTL

(* The frames of the bitmap, the page array and the zones are never granted, *)
(* and no free of a caller reaches them.                                     *)
THEOREM KernelSafe == SmallRequests => (Spec => []KernelFramesKept)
<1>1. IInv => KernelFramesKept
  BY DEF IInv
<1> QED
  BY <1>1, Invariance, PTL

(* The frames alloc_pages returns lie in the zone it selected, however its   *)
(* nr_free counters have drifted or wrapped.                                 *)
THEOREM GrantsStayInZone == SmallRequests => (Spec => GrantWithinZone)
<1> SUFFICES ASSUME SmallRequests PROVE Spec => GrantWithinZone
  OBVIOUS
<1> DEFINE Stays == \A p \in Frames :
                        claims'[p] > claims[p] => p \in ZoneFrames(call.zone)
<1>1. IInv /\ [Next]_vars => [Stays]_vars
  <2> SUFFICES ASSUME IInv, Next, NEW p \in Frames, claims'[p] > claims[p]
               PROVE  p \in ZoneFrames(call.zone)
    OBVIOUS
  <2>1. claims \in [Frames -> Nat]
    BY DEF IInv, TypeOK
  <2>2. CASE AllocReturn
    <3>1. /\ pc = "mark" /\ p \in CallFrames /\ call.n \in Nat /\ call.pos \in Nat
          /\ call.zone \in Zones
      BY <2>1, <2>2 DEF AllocReturn, CallFrames, IInv, TypeOK
    <3>2. ZoneStart[call.zone] <= call.pos /\ call.pos + call.n <= ZoneEnd[call.zone]
      BY <3>1 DEF IInv, CallInv, MarkInv
    <3> QED
      BY <3>1, <3>2, LayoutAssumption DEF CallFrames, ZoneFrames
  <2>3. ASSUME NEW lo \in Frames, NEW m \in FreeSizes, FreeBegin(lo, m)
        PROVE  FALSE
    BY <2>1, <2>3 DEF FreeBegin
  <2>4. CASE claims' = claims
    BY <2>1, <2>4
  <2> QED
    BY <2>2, <2>3, <2>4
       DEF Next, vars, CallStep, Search, Mark, Free, AllocRefused, FreeRefused,
           AllocBegin, ProbeOccupied, ProbeFound, FoundAtZero, ProbeWild,
           SearchExhausted, MarkFresh, MarkShared, MarkUpdate, MarkHalts, MarkWild,
           FreeSkips, FreeDrops, FreeReleases, FreeReturn
<1> QED
  BY <1>1, Invariance, PTL DEF Spec, GrantWithinZone

(* A search that gives up has seen that every run of 2n - 1 frames of the    *)
(* zone has a frame in use: the strides skip short runs only.                *)
THEOREM LongRunsFound == SmallRequests => (Spec => SearchFindsLongRuns)
<1> SUFFICES ASSUME SmallRequests PROVE Spec => SearchFindsLongRuns
  OBVIOUS
<1> DEFINE Ruled == SearchExhausted /\ call.n # 0 =>
              \A a \in ZoneFrames(call.zone) :
                  LET run == a .. a + 2 * call.n - 2
                  IN  run \subseteq ZoneFrames(call.zone) => run \cap bitmap # {}
<1>1. IInv => Ruled
  <2> SUFFICES ASSUME IInv, SearchExhausted, call.n # 0, NEW a \in ZoneFrames(call.zone),
                      a .. a + 2 * call.n - 2 \subseteq ZoneFrames(call.zone)
               PROVE  (a .. a + 2 * call.n - 2) \cap bitmap # {}
    OBVIOUS
  <2>1. /\ pc = "search" /\ call.n \in Nat /\ call.pos \in Nat /\ call.zone \in Zones
        /\ ~(call.pos + call.n <= ZoneEnd[call.zone])
    BY ProbeFacts DEF SearchExhausted
  <2>2. a \in Nat /\ ZoneEnd[call.zone] \in Nat
    BY <2>1, LayoutAssumption DEF ZoneFrames
  <2>3. a + 2 * call.n - 2 \in a .. a + 2 * call.n - 2
    BY <2>1, <2>2
  <2>4. a + 2 * call.n - 2 < ZoneEnd[call.zone]
    BY <2>1, <2>2, <2>3, LayoutAssumption DEF ZoneFrames
  <2>5. a + call.n - 1 < call.pos
    BY <2>1, <2>2, <2>4
  <2> QED
    BY <2>1, <2>5 DEF IInv, SearchInv
<1> QED
  BY <1>1, Invariance, PTL DEF Spec, SearchFindsLongRuns

-----------------------------------------------------------------------------
(* Refinement.                                                             *)

\* A grant of the allocator is a grant of the pool.
LEMMA ReturnGrants ==
    ASSUME SmallRequests, IInv, AllocReturn, claims' # claims
    PROVE  Abstract!Next
<1> DEFINE Pool == [z \in Zones |-> ZoneFrames(z) \ KernelFrames]
<1>1. /\ pc = "mark" /\ call.i = call.n
      /\ claims' = [p \in Frames |-> IF p \in CallFrames THEN claims[p] + 1 ELSE claims[p]]
  BY DEF AllocReturn, CallFrames
<1>2. /\ call.n \in Nat /\ call.pos \in Nat /\ call.zone \in Zones
      /\ claims \in [Frames -> Nat] /\ call.n \in Requests
  BY <1>1 DEF IInv, TypeOK, CallInv
<1>3. CallFrames \subseteq ZoneFrames(call.zone)
  <2>1. ZoneStart[call.zone] <= call.pos /\ call.pos + call.n <= ZoneEnd[call.zone]
    BY <1>1 DEF IInv, CallInv, MarkInv
  <2> QED
    BY <1>2, <2>1, LayoutAssumption DEF CallFrames, ZoneFrames
<1>4. \A p \in CallFrames : claims[p] = 0 /\ p \notin KernelFrames
  BY <1>1 DEF IInv, MarkInv
<1>5. CallFrames # {}
  BY <1>1, <1>2
<1>6. call.pos \in CallFrames
  BY <1>2, <1>5 DEF CallFrames
<1>7. call.pos \in Pool[call.zone] /\ CallFrames \subseteq Pool[call.zone]
  BY <1>2, <1>3, <1>4, <1>6
<1>8. claims' = [p \in Frames |-> IF p \in CallFrames THEN 1 ELSE claims[p]]
  BY <1>1, <1>4
<1>9. Abstract!Grant(call.zone, call.pos, call.n)
  BY <1>4, <1>7, <1>8 DEF Abstract!Grant, Abstract!Run, CallFrames
<1> QED
  BY <1>2, <1>7, <1>9 DEF Abstract!Next

\* The begin of a free gives the frames of the call back to the pool.
LEMMA FreeBeginReleases ==
    ASSUME IInv, NEW lo \in Frames, NEW m \in FreeSizes, FreeBegin(lo, m)
    PROVE  Abstract!Next
<1> DEFINE hi == lo + m - 1
<1>1. /\ MayFree(lo, m) /\ m # 0
      /\ claims' = [p \in Frames |->
                      IF p \in lo .. hi /\ claims[p] > 0 THEN claims[p] - 1 ELSE claims[p]]
  BY DEF FreeBegin
<1>2. lo \in Nat /\ m \in Nat
  BY LayoutAssumption, RequestAssumption DEF Frames
<1>3. hi \in Frames
  <2>1. hi \in lo .. lo + m - 1
    BY <1>1, <1>2
  <2> QED
    BY <1>1, <2>1 DEF MayFree
<1>4. \A p \in Frames : claims[p] \in {0, 1}
  BY DEF IInv, TypeOK, NoDoubleGrant
<1>5. claims' = [p \in Frames |-> IF p \in lo .. hi THEN 0 ELSE claims[p]]
  BY <1>1, <1>4
<1>6. lo + (hi - lo + 1) - 1 = hi
  BY <1>2
<1>7. Abstract!Release(lo, hi - lo + 1)
  BY <1>5, <1>6 DEF Abstract!Release, Abstract!Run
<1> QED
  BY <1>3, <1>7 DEF Abstract!Next

(* Every step of the allocator is a step of FramePool on the claims, or      *)
(* leaves them alone: callers see runs of frames nobody else holds.          *)
THEOREM Refinement == SmallRequests => (Spec => ImplementsFramePool)
<1> SUFFICES ASSUME SmallRequests PROVE Spec => ImplementsFramePool
  OBVIOUS
<1>1. Init => Abstract!Init
  BY DEF Init, Abstract!Init
<1>2. IInv /\ [Next]_vars => [Abstract!Next]_claims
  <2> SUFFICES ASSUME IInv, Next, claims' # claims PROVE Abstract!Next
    BY DEF vars
  <2>1. CASE AllocReturn
    BY <2>1, ReturnGrants
  <2>2. ASSUME NEW lo \in Frames, NEW m \in FreeSizes, FreeBegin(lo, m)
        PROVE  Abstract!Next
    BY <2>2, FreeBeginReleases
  <2> QED
    BY <2>1, <2>2
       DEF Next, vars, CallStep, Search, Mark, Free, AllocRefused, FreeRefused,
           AllocBegin, ProbeOccupied, ProbeFound, FoundAtZero, ProbeWild,
           SearchExhausted, MarkFresh, MarkShared, MarkUpdate, MarkHalts, MarkWild,
           FreeSkips, FreeDrops, FreeReleases, FreeReturn
<1> QED
  BY <1>1, <1>2, Invariance, PTL DEF Spec, ImplementsFramePool, Abstract!Spec
=============================================================================
