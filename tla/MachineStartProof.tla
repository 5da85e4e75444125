------------------------- MODULE MachineStartProof -------------------------
(***************************************************************************)
(* Theorems about LoaderSetup and KernelStart, for every set of vectors,   *)
(* every memory map and every list of video modes: the start of the kernel *)
(* finds its pages, no stale translation and no interrupt without a gate,  *)
(* and what the loader leaves in low memory is what the BIOS gave it.      *)
(***************************************************************************)
EXTENDS LoaderSetup, NumberLemmas, TLAPS

AfterHead   == {"entry", "video", "ignore", "own", "mask", "sti", "tss", "tss sti",
                "ltr", "memory", "flush", "test", "loop"}
AfterVideo  == AfterHead \ {"entry", "video"}
AfterIgnore == AfterVideo \ {"ignore"}
AfterMask   == AfterIgnore \ {"own", "mask"}
AfterSti    == AfterMask \ {"sti"}
LowHalfGone == {"flush", "test", "loop"}
Flushed     == {"test", "loop"}

\* Gates: the loop of setup_idt gives every vector a gate before any gets its own.
GateInv ==
    /\ pc \in AfterHead \cup {"head"}
    /\ todo \subseteq Vectors
    /\ gates \in [Vectors -> {NoGate, IgnoreGate} \cup {OwnGate(v) : v \in Vectors}]
    /\ \A v \in Vectors : gates[v] \in {NoGate, IgnoreGate, OwnGate(v)}
    /\ pc = "ignore" => todo # {} /\ \A v \in Vectors \ todo : gates[v].entry # "none"
    /\ pc \in AfterIgnore => \A v \in Vectors : gates[v].entry # "none"
    /\ pc \notin AfterIgnore => \A v \in Vectors : gates[v].entry # "own"

\* Interrupts: enabled after the controllers were masked.
InterruptInv ==
    /\ pc \in AfterMask => masked = TRUE
    /\ pc \notin AfterSti => enabled = FALSE

\* Pages: the low half goes at one step, and its translations at the next.
PageInv ==
    /\ cr3 = IF pc = "head" THEN "loader" ELSE "kernel"
    /\ HighHalf \in pml4
    /\ LowHalf \in pml4 <=> pc \notin LowHalfGone
    /\ pc \in Flushed => Kernel(LowHalf) \notin tlb

StartInv == GateInv /\ InterruptInv /\ PageInv

-----------------------------------------------------------------------------
LEMMA StartInvInit == Init => StartInv
<1> SUFFICES ASSUME Init PROVE StartInv
  OBVIOUS
<1>1. GateInv
  BY DEF Init, GateInv, NoGate, AfterHead, AfterIgnore, AfterVideo
<1>2. InterruptInv
  BY DEF Init, InterruptInv, AfterMask, AfterSti, AfterIgnore, AfterVideo, AfterHead
<1>3. PageInv
  BY DEF Init, PageInv, LowHalfGone, Flushed, HighHalf, LowHalf
<1> QED
  BY <1>1, <1>2, <1>3 DEF StartInv

\* The loops of setup_idt.
LEMMA SetupKeepsGates ==
    ASSUME StartInv, IgnoreVector \/ SetVector
    PROVE  GateInv'
<1> USE DEF StartInv, GateInv, AfterHead, AfterVideo, AfterIgnore
<1>1. CASE IgnoreVector
  <2> DEFINE v == Min(todo)
  <2>1. /\ pc = "ignore" /\ pc' = IF todo = {v} THEN "own" ELSE "ignore"
        /\ gates' = [gates EXCEPT ![v] = IgnoreGate]
        /\ todo' = IF todo = {v} THEN Vectors \cap OwnVectors ELSE todo \ {v}
    BY <1>1 DEF IgnoreVector, Step
  <2> HIDE DEF v
  <2>2. /\ gates' \in [Vectors -> {NoGate, IgnoreGate} \cup {OwnGate(w) : w \in Vectors}]
        /\ \A w \in Vectors : gates'[w] \in {NoGate, IgnoreGate, OwnGate(w)}
    BY <2>1
  <2>3. \A w \in Vectors : gates'[w].entry # "own"
    BY <2>1, Zenon DEF IgnoreGate
  <2>4. \A w \in Vectors : w \notin todo \/ w = v => gates'[w].entry # "none"
    BY <2>1, Zenon DEF IgnoreGate
  <2>5. CASE todo = {v}
    BY <2>1, <2>2, <2>3, <2>4, <2>5
  <2>6. CASE todo # {v}
    <3>1. todo \ {v} # {}
      BY <2>1, <2>6
    <3> QED
      BY <2>1, <2>2, <2>3, <2>4, <2>6, <3>1
  <2> QED
    BY <2>5, <2>6
<1>2. CASE SetVector
  <2> DEFINE v == Min(todo)
  <2>1. /\ pc = "own" /\ pc' \in {"own", "mask"}
        /\ gates' = [gates EXCEPT ![v] = OwnGate(v)]
        /\ todo' = todo \ {v}
    BY <1>2 DEF SetVector, Step
  <2> HIDE DEF v
  <2>2. /\ gates' \in [Vectors -> {NoGate, IgnoreGate} \cup {OwnGate(w) : w \in Vectors}]
        /\ \A w \in Vectors : gates'[w] \in {NoGate, IgnoreGate, OwnGate(w)}
    BY <2>1
  <2>3. \A w \in Vectors : gates'[w].entry # "none"
    BY <2>1, Zenon DEF OwnGate
  <2> QED
    BY <2>1, <2>2, <2>3
<1> QED
  BY <1>1, <1>2

LEMMA StartInvStart == StartInv /\ Start => StartInv'
<1> SUFFICES ASSUME StartInv, Start PROVE StartInv'
  OBVIOUS
<1>1. CASE LoadTables
  BY <1>1 DEF LoadTables, Step, StartInv, GateInv, InterruptInv, PageInv, AfterHead, AfterVideo,
     AfterIgnore, AfterMask, AfterSti, LowHalfGone, Flushed
<1>2. CASE Entry64
  BY <1>2 DEF Entry64, Step, StartInv, GateInv, InterruptInv, PageInv, AfterHead, AfterVideo,
     AfterIgnore, AfterMask, AfterSti, LowHalfGone, Flushed
<1>3. CASE TestVideo
  BY <1>3, VectorAssumption DEF TestVideo, Step, StartInv, GateInv, InterruptInv, PageInv, AfterHead,
     AfterVideo, AfterIgnore, AfterMask, AfterSti, LowHalfGone, Flushed
<1>4. CASE IgnoreVector \/ SetVector
  <2>1. GateInv'
    BY <1>4, SetupKeepsGates
  <2>2. InterruptInv' /\ PageInv'
    BY <1>4 DEF IgnoreVector, SetVector, Step, StartInv, InterruptInv, PageInv, AfterHead,
       AfterVideo, AfterIgnore, AfterMask, AfterSti, LowHalfGone, Flushed
  <2> QED
    BY <2>1, <2>2 DEF StartInv
<1>5. CASE MaskControllers \/ Sti("sti", "tss") \/ WriteDescriptor \/ Sti("tss sti", "ltr") \/ LoadTR
  BY <1>5 DEF MaskControllers, Sti, WriteDescriptor, LoadTR, Step, StartInv, GateInv, InterruptInv,
     PageInv, AfterHead, AfterVideo, AfterIgnore, AfterMask, AfterSti, LowHalfGone, Flushed
<1>6. CASE ClearLowHalf
  BY <1>6 DEF ClearLowHalf, ClearPML4, Step, StartInv, GateInv, InterruptInv, PageInv, AfterHead,
     AfterVideo, AfterIgnore, AfterMask, AfterSti, LowHalfGone, Flushed, HighHalf, LowHalf
<1>7. CASE FlushTlbAll
  BY <1>7 DEF FlushTlbAll, FlushTLB, Step, StartInv, GateInv, InterruptInv, PageInv, AfterHead,
     AfterVideo, AfterIgnore, AfterMask, AfterSti, LowHalfGone, Flushed
<1>8. CASE TestAllocator
  BY <1>8 DEF TestAllocator, Step, StartInv, GateInv, InterruptInv, PageInv, AfterHead,
     AfterVideo, AfterIgnore, AfterMask, AfterSti, LowHalfGone, Flushed
<1> QED
  BY <1>1, <1>2, <1>3, <1>4, <1>5, <1>6, <1>7, <1>8 DEF Start

\* What an exception does leaves the tables alone.
LEMMA TrapKeepsStart == Trap \/ (\E v \in Vectors : Raise(v)) => UNCHANGED <<start, tlb>>
  BY DEF Trap, GateMissing, StackMissing, EnterHandler, RunStub, RunIgnore, Dispatch, Raise

\* The processor caches no translation of a half that is gone.
LEMMA StartInvCache ==
    ASSUME StartInv, NEW page \in Pages, Cache(page)
    PROVE  StartInv'
<1>1. GateInv' /\ InterruptInv'
  BY DEF Cache, start, StartInv, GateInv, InterruptInv
<1>2. PageInv'
  <2>1. pc \in Flushed => page # Kernel(LowHalf)
    BY DEF Cache, Walk, StartInv, PageInv, Kernel, Flushed, LowHalfGone
  <2> QED
    BY <2>1 DEF Cache, start, StartInv, PageInv
<1> QED
  BY <1>1, <1>2 DEF StartInv

LEMMA StartInvNext == StartInv /\ [Next]_vars => StartInv'
<1> SUFFICES ASSUME StartInv, [Next]_vars PROVE StartInv'
  OBVIOUS
<1>1. CASE Start
  BY <1>1, StartInvStart
<1>2. CASE UNCHANGED <<start, tlb>>
  BY <1>2 DEF start, StartInv, GateInv, InterruptInv, PageInv
<1>3. CASE \E page \in Pages : Cache(page)
  BY <1>3, StartInvCache
<1> QED
  BY <1>1, <1>2, <1>3, TrapKeepsStart DEF Next, vars

-----------------------------------------------------------------------------
(* The machine: the loader's part leaves the kernel's state alone.         *)

\* Every step of the machine is one of the kernel's start, or none for it.
THEOREM MachineRunsStart == MachineSpec => Spec
<1>1. MachineInit => Init
  BY DEF MachineInit
<1>2. [MachineNext]_<<vars, setupVars>> => [Next]_vars
  BY DEF MachineNext
<1> QED
  BY <1>1, <1>2, PTL DEF MachineSpec, Spec

THEOREM StartInvariance == MachineSpec => []StartInv
<1>1. Spec => []StartInv
  BY StartInvInit, StartInvNext, PTL DEF Spec
<1> QED
  BY <1>1, MachineRunsStart, PTL

\* Every step of the start finds the pages it uses mapped (head.S, main.c, vbe.c,
\* and the removal of the low half in memory.c).
THEOREM StepsFindTheirPages == MachineSpec => []StartNeverFaults
<1>1. StartInv => StartNeverFaults
  <2> SUFFICES ASSUME StartInv, NEW page \in Uses(pc) PROVE Walk(page) # "none"
    BY DEF StartNeverFaults, Mapped
  <2>1. CASE pc = "head"
    <3>1. page = Kernel(LowHalf)
      BY <2>1 DEF Uses
    <3> QED
      BY <2>1, <3>1 DEF StartInv, PageInv, Walk, LoaderPD, Kernel, RAM
  <2>2. CASE pc # "head"
    <3>1. /\ page \in {<<LowHalf, 0>>, <<HighHalf, 0>>, <<HighHalf, 13>>, <<HighHalf, 14>>}
          /\ page = <<LowHalf, 0>> => pc \in {"entry", "video"}
      BY <2>2 DEF Uses, Kernel, FrameBuffer, LowHalf, HighHalf
    <3>2. page[1] \in pml4
      BY <3>1 DEF StartInv, PageInv, LowHalfGone
    <3>3. KernelPD(page[2]) # "none"
      BY <3>1 DEF KernelPD, RAM, Video
    <3> QED
      BY <2>2, <3>2, <3>3 DEF Walk, StartInv, PageInv
  <2> QED
    BY <2>1, <2>2
<1> QED
  BY <1>1, StartInvariance, PTL

\* After flush_tlb_all no cached translation reaches the low half.
THEOREM LowHalfIsGone == MachineSpec => []NoStaleTranslation
<1>1. StartInv => NoStaleTranslation
  BY DEF StartInv, PageInv, NoStaleTranslation, Flushed
<1> QED
  BY <1>1, StartInvariance, PTL

\* No interrupt finds a vector without a gate, or a controller that is not masked.
THEOREM InterruptsFindGates == MachineSpec => []InterruptsOnlyWhenReady
<1>1. StartInv => InterruptsOnlyWhenReady
  BY DEF StartInv, GateInv, InterruptInv, InterruptsOnlyWhenReady, AfterSti, AfterMask, AfterIgnore
<1> QED
  BY <1>1, StartInvariance, PTL

-----------------------------------------------------------------------------
(* Exceptions: nothing of the start changes while one is handled.          *)

\* Once the gates are written the first exception finds its gate, and of the two
\* gates whose stack is missing only that of the NMI is met: a page fault follows,
\* whose gate names no stack.
TrapInv ==
    cpu # "run" /\ raised.ready =>
        pc \in AfterIgnore /\ exc.vector \in Vectors \ {DoubleFault} /\ cpu # "shutdown"

LEMMA TrapInvRaise ==
    ASSUME StartInv, TrapInv, NEW v \in Vectors, Raise(v)
    PROVE  TrapInv'
<1>1. v # DoubleFault
  BY VectorAssumption DEF Raise, NMI, DoubleFault
<1>2. /\ exc'.vector = v /\ cpu' = "deliver" /\ pc' = pc
      /\ raised'.ready => gates[NMI].entry = "own"
  BY DEF Raise, start
<1>3. gates[NMI].entry = "own" => pc \in AfterIgnore
  BY VectorAssumption DEF StartInv, GateInv
<1> QED
  BY <1>1, <1>2, <1>3 DEF TrapInv

LEMMA TrapInvTrap == StartInv /\ TrapInv /\ Trap => TrapInv'
<1> SUFFICES ASSUME StartInv, TrapInv, Trap, raised'.ready
             PROVE  pc' \in AfterIgnore /\ exc'.vector \in Vectors \ {DoubleFault} /\ cpu' # "shutdown"
  BY DEF TrapInv
<1>1. pc' = pc /\ raised' = raised /\ cpu # "run"
  BY DEF Trap, GateMissing, StackMissing, EnterHandler, RunStub, RunIgnore, Dispatch, start
<1>2. pc \in AfterIgnore /\ exc.vector \in Vectors \ {DoubleFault}
  BY <1>1 DEF TrapInv
<1>3. CASE GateMissing
  BY <1>2, <1>3 DEF GateMissing, StartInv, GateInv
<1>4. CASE StackMissing
  <2>1. exc.vector # PageFault
    <3>1. gates[PageFault].ist = 0
      BY VectorAssumption DEF StartInv, GateInv, NoGate, IgnoreGate, OwnGate, IstOf, PageFault, NMI,
         DoubleFault
    <3> QED
      BY <1>4, <3>1 DEF StackMissing
  <2>2. exc' = [vector |-> PageFault, after |-> exc.vector] /\ cpu' = cpu
    BY <1>2, <1>4, <2>1 DEF StackMissing, Failed, Contributory, PageFault, DoubleFault
  <2> QED
    BY <1>1, <1>2, <1>4, <2>2, VectorAssumption DEF StackMissing, PageFault, DoubleFault
<1>5. CASE EnterHandler \/ RunStub \/ RunIgnore \/ Dispatch
  BY <1>1, <1>2, <1>5 DEF EnterHandler, RunStub, RunIgnore, Dispatch
<1> QED
  BY <1>3, <1>4, <1>5 DEF Trap

LEMMA TrapInvNext == StartInv /\ TrapInv /\ [Next]_vars => TrapInv'
<1> SUFFICES ASSUME StartInv, TrapInv, [Next]_vars PROVE TrapInv'
  OBVIOUS
<1>1. CASE Start
  <2>1. cpu' = "run"
    BY <1>1 DEF Start, LoadTables, Entry64, TestVideo, IgnoreVector, SetVector, MaskControllers, Sti,
       WriteDescriptor, LoadTR, ClearLowHalf, FlushTlbAll, TestAllocator, Step, trap
  <2> QED
    BY <2>1 DEF TrapInv
<1>2. CASE Trap
  BY <1>2, TrapInvTrap
<1>3. CASE \E v \in Vectors : Raise(v)
  BY <1>3, TrapInvRaise
<1>4. CASE (\E page \in Pages : Cache(page)) \/ UNCHANGED vars
  BY <1>4 DEF Cache, vars, start, trap, TrapInv
<1> QED
  BY <1>1, <1>2, <1>3, <1>4 DEF Next

\* No exception raised after setup_idt wrote its gates resets the machine (idt.c,
\* gdt.c: the TSS of zeros costs the NMI its name, and no more).
THEOREM ReadyNeverShutsDown == MachineSpec => []NoShutdownOnceReady
<1>1. Init => TrapInv
  BY DEF Init, TrapInv
<1>2. Spec => [](StartInv /\ TrapInv)
  BY <1>1, StartInvInit, StartInvNext, TrapInvNext, PTL DEF Spec
<1>3. TrapInv => NoShutdownOnceReady
  BY DEF TrapInv, NoShutdownOnceReady
<1> QED
  BY <1>2, <1>3, MachineRunsStart, PTL

-----------------------------------------------------------------------------
(* The loader: the map below the VBE block stays as the BIOS gave it, and  *)
(* the mode that is set is the mode whose block was copied.                *)

MapInv ==
    /\ low \in [Places -> Places \cup {Nothing, Block}]
    /\ entries \in 0 .. MapBound
    /\ \A k \in 1 .. entries : k <= MapRoom => low[k] = k
    /\ phase \notin {"map", "stopped"} => count = entries

ModeInv ==
    /\ phase = "list" => candidate = 0
    /\ candidate # 0 => candidate \in WantedModes /\ selected = candidate
    /\ phase \in {"protect", "kernel"} => video = candidate
    /\ phase \in {"map", "vbe"} => candidate = 0

LEMMA OverlaidKeepsLow ==
    ASSUME low \in [Places -> Places \cup {Nothing, Block}], NEW from \in Nat, NEW to \in Nat
    PROVE  /\ Overlaid(from, to) \in [Places -> Places \cup {Nothing, Block}]
           /\ \A k \in Places : k < from => Overlaid(from, to)[k] = low[k]
  BY SetupAssumption DEF Overlaid, Places

LEMMA MapInvSetup == MapInv /\ Setup => MapInv'
<1> SUFFICES ASSUME MapInv, Setup PROVE MapInv'
  OBVIOUS
<1> USE SetupAssumption
<1>1. CASE \E last \in BOOLEAN : GetEntry(last)
  <2> PICK last \in BOOLEAN : GetEntry(last)
    BY <1>1
  <2>1. entries + 1 \in Places /\ entries' = entries + 1
    BY DEF GetEntry, MapInv, Places
  <2>2. low' = [low EXCEPT ![entries + 1] = entries + 1]
    BY DEF GetEntry
  <2>3. low' \in [Places -> Places \cup {Nothing, Block}]
    BY <2>1, <2>2 DEF MapInv
  <2>4. \A k \in 1 .. entries' : k <= MapRoom => low'[k] = k
    BY <2>1, <2>2 DEF MapInv, Places
  <2>5. phase' \notin {"map", "stopped"} => count' = entries'
    BY DEF GetEntry
  <2> QED
    BY <2>1, <2>3, <2>4, <2>5 DEF MapInv, Places
<1>2. CASE GetVbeInfo
  <2>1. low' = Overlaid(MapRoom + 1, MapRoom + BlockRoom) /\ UNCHANGED <<entries, count>> /\ phase = "vbe"
    BY <1>2 DEF GetVbeInfo, VbeInfo
  <2> QED
    BY <2>1, OverlaidKeepsLow DEF MapInv, Places
<1>3. CASE \E mode \in Modes : NextMode(mode)
  <2>1. /\ low' = Overlaid(MapRoom + BlockRoom + 1, MapRoom + 2 * BlockRoom)
        /\ UNCHANGED <<entries, count>> /\ phase = "list"
    BY <1>3 DEF NextMode
  <2> QED
    BY <2>1, OverlaidKeepsLow DEF MapInv, Places
<1>4. CASE ListEnds \/ CheckCandidate \/ SetMode \/ EnterKernel
  BY <1>4 DEF ListEnds, CheckCandidate, SetMode, EnterKernel, MapInv
<1>5. CASE MapFails \/ VbeFails \/ ModeFails \/ SetModeFails \/ NoLongMode
  BY <1>5 DEF MapFails, VbeFails, ModeFails, SetModeFails, NoLongMode, Stopped, MapInv
<1> QED
  BY <1>1, <1>2, <1>3, <1>4, <1>5 DEF Setup

LEMMA ModeInvSetup == ModeInv /\ Setup => ModeInv'
<1> SUFFICES ASSUME ModeInv, Setup PROVE ModeInv'
  OBVIOUS
<1>1. CASE \E last \in BOOLEAN : GetEntry(last)
  BY <1>1 DEF GetEntry, ModeInv
<1>2. CASE \E mode \in Modes : NextMode(mode)
  BY <1>2 DEF NextMode, TakeMode, ModeInv
<1>3. CASE GetVbeInfo \/ ListEnds \/ CheckCandidate \/ SetMode \/ EnterKernel
  BY <1>3 DEF GetVbeInfo, ListEnds, CheckCandidate, SetMode, EnterKernel, ModeInv
<1>4. CASE MapFails \/ VbeFails \/ ModeFails \/ SetModeFails \/ NoLongMode
  BY <1>4 DEF MapFails, VbeFails, ModeFails, SetModeFails, NoLongMode, Stopped, ModeInv
<1> QED
  BY <1>1, <1>2, <1>3, <1>4 DEF Setup

THEOREM SetupInvariance == MachineSpec => [](MapInv /\ ModeInv)
<1>1. MachineInit => MapInv /\ ModeInv
  BY SetupAssumption DEF MachineInit, SetupInit, MapInv, ModeInv, Places
<1>2. MapInv /\ ModeInv /\ [MachineNext]_<<vars, setupVars>> => (MapInv /\ ModeInv)'
  <2> SUFFICES ASSUME MapInv, ModeInv, [MachineNext]_<<vars, setupVars>> PROVE (MapInv /\ ModeInv)'
    OBVIOUS
  <2>1. CASE Setup
    BY <2>1, MapInvSetup, ModeInvSetup
  <2>2. CASE UNCHANGED setupVars
    BY <2>2 DEF setupVars, MapInv, ModeInv
  <2> QED
    BY <2>1, <2>2 DEF MachineNext
<1> QED
  BY <1>1, <1>2, PTL DEF MachineSpec

\* A map of at most MapRoom entries reaches the kernel whole (loader.asm: the VBE
\* blocks are fetched behind it).
THEOREM MapArrives == MachineSpec => []MapReachesKernel
<1>1. MapInv => MapReachesKernel
  BY SetupAssumption DEF MapInv, MapReachesKernel
<1> QED
  BY <1>1, SetupInvariance, PTL

\* The adapter is in the mode whose block the kernel reads (loader.asm, vbe.c).
THEOREM ModeIsDescribed == MachineSpec => []VideoAsDescribed
<1>1. ModeInv => VideoAsDescribed
  BY DEF ModeInv, VideoAsDescribed
<1> QED
  BY <1>1, SetupInvariance, PTL

-----------------------------------------------------------------------------
(* What is reported.                                                       *)

\* The second loop of setup_idt gives the vectors of their own their entries.
OwnInv ==
    /\ pc \in AfterIgnore => todo \subseteq OwnVectors
    /\ pc = "own" => todo # {}
    /\ pc \in AfterIgnore => \A v \in (Vectors \cap OwnVectors) \ todo : gates[v] = OwnGate(v)
    /\ \A v \in Vectors \ OwnVectors : gates[v] \in {NoGate, IgnoreGate}

LEMMA OwnInvStart == StartInv /\ OwnInv /\ Start => OwnInv'
<1> SUFFICES ASSUME StartInv, OwnInv, Start PROVE OwnInv'
  OBVIOUS
<1> USE DEF AfterHead, AfterVideo, AfterIgnore
<1>1. CASE IgnoreVector
  <2> DEFINE v == Min(todo)
  <2>1. /\ pc = "ignore" /\ pc' = IF todo = {v} THEN "own" ELSE "ignore"
        /\ gates' = [gates EXCEPT ![v] = IgnoreGate]
        /\ todo' = IF todo = {v} THEN Vectors \cap OwnVectors ELSE todo \ {v}
    BY <1>1 DEF IgnoreVector, Step
  <2> HIDE DEF v
  <2>2. gates \in [Vectors -> {NoGate, IgnoreGate} \cup {OwnGate(w) : w \in Vectors}]
    BY DEF StartInv, GateInv
  <2>3. \A w \in Vectors \ OwnVectors : gates'[w] \in {NoGate, IgnoreGate}
    BY <2>1, <2>2 DEF OwnInv
  <2>4. Vectors \cap OwnVectors # {}
    BY VectorAssumption DEF OwnVectors, NMI
  <2>5. CASE todo = {v}
    BY <2>1, <2>3, <2>4, <2>5 DEF OwnInv
  <2>6. CASE todo # {v}
    BY <2>1, <2>3, <2>6 DEF OwnInv
  <2> QED
    BY <2>5, <2>6
<1>2. CASE SetVector
  <2> DEFINE v == Min(todo)
  <2>1. /\ pc = "own" /\ pc' = IF todo = {v} THEN "mask" ELSE "own"
        /\ gates' = [gates EXCEPT ![v] = OwnGate(v)]
        /\ todo' = todo \ {v}
    BY <1>2 DEF SetVector, Step
  <2>2. gates \in [Vectors -> {NoGate, IgnoreGate} \cup {OwnGate(w) : w \in Vectors}]
    BY DEF StartInv, GateInv
  <2>3. v \in todo /\ v \in Vectors /\ v \in OwnVectors
    <3>1. todo # {} /\ todo \subseteq Vectors /\ todo \subseteq OwnVectors
      BY <2>1 DEF StartInv, GateInv, OwnInv
    <3>2. todo \in SUBSET Nat
      BY <3>1, VectorAssumption
    <3> QED
      BY <3>1, <3>2, MinOf
  <2> HIDE DEF v
  <2>4. \A w \in Vectors \ OwnVectors : gates'[w] = gates[w]
    BY <2>1, <2>2, <2>3
  <2>5. \A w \in (Vectors \cap OwnVectors) \ todo' : gates'[w] = OwnGate(w)
    BY <2>1, <2>2, <2>3 DEF OwnInv
  <2>6. todo' \subseteq OwnVectors /\ (pc' = "own" => todo' # {})
    BY <2>1, <2>3 DEF OwnInv
  <2> QED
    BY <2>4, <2>5, <2>6 DEF OwnInv
<1>3. CASE TestVideo
  BY <1>3 DEF TestVideo, Step, OwnInv
<1>4. CASE LoadTables \/ Entry64
  BY <1>4 DEF LoadTables, Entry64, Step, OwnInv
<1>5. CASE MaskControllers \/ Sti("sti", "tss") \/ WriteDescriptor \/ Sti("tss sti", "ltr") \/ LoadTR
  BY <1>5 DEF MaskControllers, Sti, WriteDescriptor, LoadTR, Step, OwnInv
<1>6. CASE ClearLowHalf \/ FlushTlbAll \/ TestAllocator
  BY <1>6 DEF ClearLowHalf, FlushTlbAll, TestAllocator, Step, OwnInv
<1> QED
  BY <1>1, <1>2, <1>3, <1>4, <1>5, <1>6 DEF Start

LEMMA OwnInvNext == StartInv /\ OwnInv /\ [Next]_vars => OwnInv'
<1> SUFFICES ASSUME StartInv, OwnInv, [Next]_vars PROVE OwnInv'
  OBVIOUS
<1>1. CASE Start
  BY <1>1, OwnInvStart
<1>2. CASE UNCHANGED start
  BY <1>2 DEF start, OwnInv
<1> QED
  BY <1>1, <1>2, TrapKeepsStart DEF Next, vars, Cache

FullFrame(v) == Stub(v) \o HardwareFrame(v)

\* The stub completes the frame so that every field is where dispatch_exception and
\* the handlers look for it (trap_entry.S, trap.h).
LEMMA FrameFits ==
    ASSUME NEW v \in OwnVectors, NEW f, f = FullFrame(v)
    PROVE  /\ Len(f) = Len(Fields)
           /\ f[18] = v
           /\ f[19] = IF v \in PushesError THEN Error ELSE 0
           /\ f[20] = "rip"
<1>1. v \in ErrorStubs <=> v \in PushesError
  BY DEF OwnVectors, ErrorStubs, PushesError
<1>2. Len(Fields) = 24
  BY DEF Fields
<1>3. CASE v \in ErrorStubs
  <2>1. f = (Saved \o <<v>>) \o (<<Error>> \o <<"rip", "cs", "rflags", "rsp", "ss">>)
    BY <1>1, <1>3 DEF FullFrame, Stub, HardwareFrame
  <2> QED
    BY <1>1, <1>2, <1>3, <2>1 DEF Saved
<1>4. CASE v \notin ErrorStubs
  <2>1. f = (Saved \o <<v, 0>>) \o (<<>> \o <<"rip", "cs", "rflags", "rsp", "ss">>)
    BY <1>1, <1>4 DEF FullFrame, Stub, HardwareFrame
  <2> QED
    BY <1>1, <1>2, <1>4, <2>1 DEF Saved
<1> QED
  BY <1>3, <1>4

LEMMA FieldsAre == 
    /\ (CHOOSE k \in 1 .. Len(Fields) : Fields[k] = "vector") = 18
    /\ (CHOOSE k \in 1 .. Len(Fields) : Fields[k] = "error_code") = 19
    /\ (CHOOSE k \in 1 .. Len(Fields) : Fields[k] = "rip") = 20
<1>1. Len(Fields) = 24 /\ Fields[18] = "vector" /\ Fields[19] = "error_code" /\ Fields[20] = "rip"
  BY DEF Fields
<1>2. \A k \in 1 .. 24 : /\ Fields[k] = "vector" => k = 18
                         /\ Fields[k] = "error_code" => k = 19
                         /\ Fields[k] = "rip" => k = 20
  BY DEF Fields
<1> QED
  BY <1>1, <1>2

\* What the handler of a vector prints.
Expected(v) ==
    [vector |-> IF v \in OwnVectors THEN v ELSE "unknown",
     error  |-> IF v \notin OwnVectors THEN "unknown"
                ELSE IF v \in PushesError THEN Error ELSE 0,
     rip    |-> IF v \in OwnVectors THEN "rip" ELSE "unknown"]

\* An exception that is not the NMI passes its gate, which names no stack, its stub
\* and dispatch_exception with its own vector and frame.
ReportInv ==
    cpu # "run" /\ raised.ready =>
        /\ todo = {} /\ pc \in AfterIgnore
        /\ raised.vector \in Vectors \ {DoubleFault}
        /\ raised.vector # NMI =>
              /\ cpu \in {"deliver", "entry", "dispatch", "hang"}
              /\ exc.vector = raised.vector
              /\ cpu = "entry" => frame = HardwareFrame(raised.vector)
              /\ cpu = "dispatch" =>
                    /\ raised.vector \in OwnVectors
                    /\ frame = FullFrame(raised.vector)
              /\ cpu = "hang" => report = Expected(raised.vector)

LEMMA ReportInvRaise ==
    ASSUME StartInv, OwnInv, ReportInv, NEW v \in Vectors, Raise(v)
    PROVE  ReportInv'
<1>1. v # DoubleFault
  BY VectorAssumption DEF Raise, NMI, DoubleFault
<1>2. /\ exc'.vector = v /\ cpu' = "deliver" /\ pc' = pc /\ todo' = todo
      /\ raised'.vector = v
      /\ raised'.ready => todo = {} /\ gates[NMI].entry = "own"
  BY DEF Raise, start
<1>3. gates[NMI].entry = "own" => pc \in AfterIgnore
  BY VectorAssumption DEF StartInv, GateInv
<1> QED
  BY <1>1, <1>2, <1>3 DEF ReportInv

LEMMA ReportInvTrap == StartInv /\ OwnInv /\ ReportInv /\ Trap => ReportInv'
<1> SUFFICES ASSUME StartInv, OwnInv, ReportInv, Trap, raised'.ready
             PROVE  ReportInv'
  BY DEF ReportInv
<1>1. pc' = pc /\ todo' = todo /\ raised' = raised /\ cpu # "run"
  BY DEF Trap, GateMissing, StackMissing, EnterHandler, RunStub, RunIgnore, Dispatch, start
<1>2. todo = {} /\ pc \in AfterIgnore /\ raised.vector \in Vectors \ {DoubleFault}
  BY <1>1 DEF ReportInv
<1>3. CASE raised.vector = NMI
  BY <1>1, <1>2, <1>3 DEF ReportInv
<1>4. CASE raised.vector # NMI
  <2> DEFINE v == raised.vector
  <2>1. /\ cpu \in {"deliver", "entry", "dispatch", "hang"}
        /\ exc.vector = v
        /\ cpu = "entry" => frame = HardwareFrame(v)
        /\ cpu = "dispatch" => v \in OwnVectors /\ frame = FullFrame(v)
    BY <1>1, <1>4 DEF ReportInv
  <2>2. gates[v] = IF v \in OwnVectors THEN OwnGate(v) ELSE IgnoreGate
    <3>1. v \in Vectors /\ gates[v].entry # "none"
      BY <1>2 DEF StartInv, GateInv
    <3>2. v \in OwnVectors => gates[v] = OwnGate(v)
      BY <1>2, <3>1 DEF OwnInv
    <3>3. v \notin OwnVectors => gates[v] \in {NoGate, IgnoreGate}
      BY <3>1 DEF OwnInv
    <3> QED
      BY <3>1, <3>2, <3>3 DEF NoGate
  <2>3. gates[v].ist = 0 /\ gates[v].entry = IF v \in OwnVectors THEN "own" ELSE "ignore"
    BY <1>2, <1>4, <2>2 DEF OwnGate, IgnoreGate, IstOf
  <2>4. CASE GateMissing \/ StackMissing
    BY <2>1, <2>3, <2>4 DEF GateMissing, StackMissing
  <2>5. CASE EnterHandler
    BY <1>1, <1>2, <2>1, <2>5 DEF EnterHandler, ReportInv
  <2>6. CASE RunStub
    BY <1>1, <1>2, <2>1, <2>3, <2>6 DEF RunStub, ReportInv, FullFrame
  <2>7. CASE RunIgnore
    <3>1. v \notin OwnVectors
      BY <2>1, <2>3, <2>7 DEF RunIgnore
    <3>2. report' = Expected(v) /\ cpu' = "hang" /\ exc' = exc
      BY <2>7, <3>1 DEF RunIgnore, Expected
    <3> QED
      BY <1>1, <1>2, <2>1, <3>2 DEF ReportInv
  <2>8. CASE Dispatch
    <3>1. v \in OwnVectors /\ frame = FullFrame(v)
      BY <2>1, <2>8 DEF Dispatch
    <3>2. /\ Field("vector") = v /\ Field("rip") = "rip"
          /\ Field("error_code") = IF v \in PushesError THEN Error ELSE 0
      <4>1. PICK w \in OwnVectors : w = v
        BY <3>1
      <4>2. PICK f : f = frame
        OBVIOUS
      <4>3. f = FullFrame(w)
        BY <3>1, <4>1, <4>2
      <4>4. f[18] = w /\ f[20] = "rip" /\ f[19] = IF w \in PushesError THEN Error ELSE 0
        BY <4>3, FrameFits
      <4> QED
        BY <4>1, <4>2, <4>4, FieldsAre DEF Field
    <3>3. report' = Expected(v) /\ cpu' = "hang" /\ exc' = exc
      BY <2>8, <3>1, <3>2 DEF Dispatch, Expected
    <3> QED
      BY <1>1, <1>2, <2>1, <3>3 DEF ReportInv
  <2> QED
    BY <2>4, <2>5, <2>6, <2>7, <2>8 DEF Trap
<1> QED
  BY <1>3, <1>4

LEMMA ReportInvNext == StartInv /\ OwnInv /\ ReportInv /\ [Next]_vars => ReportInv'
<1> SUFFICES ASSUME StartInv, OwnInv, ReportInv, [Next]_vars PROVE ReportInv'
  OBVIOUS
<1>1. CASE Start
  <2>1. cpu' = "run"
    BY <1>1 DEF Start, LoadTables, Entry64, TestVideo, IgnoreVector, SetVector, MaskControllers, Sti,
       WriteDescriptor, LoadTR, ClearLowHalf, FlushTlbAll, TestAllocator, Step, trap
  <2> QED
    BY <2>1 DEF ReportInv
<1>2. CASE Trap
  BY <1>2, ReportInvTrap
<1>3. CASE \E v \in Vectors : Raise(v)
  BY <1>3, ReportInvRaise
<1>4. CASE (\E page \in Pages : Cache(page)) \/ UNCHANGED vars
  BY <1>4 DEF Cache, vars, start, trap, ReportInv
<1> QED
  BY <1>1, <1>2, <1>3, <1>4 DEF Next

LEMMA ReportInvariance == Spec => [](StartInv /\ OwnInv /\ ReportInv)
<1>1. Init => OwnInv /\ ReportInv
  BY DEF Init, OwnInv, ReportInv, AfterHead, AfterVideo, AfterIgnore
<1> QED
  BY <1>1, StartInvInit, StartInvNext, OwnInvNext, ReportInvNext, PTL DEF Spec

\* An exception that is raised once setup_idt is done, and is not the NMI, is
\* reported as what it is: gate, entry stub, register frame and dispatch agree on
\* every vector (idt.c, trap_entry.S, trap.h, trap.c).
THEOREM ExceptionsAreReported == MachineSpec => []ExceptionsReported
<1>1. ReportInv => ExceptionsReported
  BY DEF ReportInv, ExceptionsReported, Expected
<1> QED
  BY <1>1, ReportInvariance, MachineRunsStart, PTL

-----------------------------------------------------------------------------
(* Types.                                                                  *)

TableTypes ==
    /\ enabled \in BOOLEAN /\ masked \in BOOLEAN
    /\ pml4 \subseteq {LowHalf, HighHalf} /\ tlb \subseteq Pages

TrapTypes ==
    /\ cpu \in {"run", "deliver", "entry", "dispatch", "hang", "shutdown"}
    /\ cpu = "run" => exc = None
    /\ cpu # "run" => exc # None /\ exc.vector \in Vectors
    /\ cpu = "entry" => frame = HardwareFrame(exc.vector)
    /\ cpu = "dispatch" => Len(frame) = Len(Fields)

LEMMA TableTypesNext == TableTypes /\ [Next]_vars => TableTypes'
<1> SUFFICES ASSUME TableTypes, [Next]_vars PROVE TableTypes'
  OBVIOUS
<1>1. CASE LoadTables \/ Entry64 \/ TestVideo \/ IgnoreVector \/ SetVector
  BY <1>1 DEF LoadTables, Entry64, TestVideo, IgnoreVector, SetVector, TableTypes
<1>2. CASE MaskControllers \/ Sti("sti", "tss") \/ WriteDescriptor \/ Sti("tss sti", "ltr") \/ LoadTR
  BY <1>2 DEF MaskControllers, Sti, WriteDescriptor, LoadTR, TableTypes
<1>3. CASE ClearLowHalf \/ FlushTlbAll \/ TestAllocator
  BY <1>3 DEF ClearLowHalf, ClearPML4, FlushTlbAll, FlushTLB, TestAllocator, TableTypes
<1>4. CASE UNCHANGED <<start, tlb>>
  BY <1>4 DEF start, TableTypes
<1>5. CASE \E page \in Pages : Cache(page)
  BY <1>5 DEF Cache, start, TableTypes
<1> QED
  BY <1>1, <1>2, <1>3, <1>4, <1>5, TrapKeepsStart DEF Next, Start, vars

LEMMA TrapTypesNext == StartInv /\ OwnInv /\ TrapTypes /\ [Next]_vars => TrapTypes'
<1> SUFFICES ASSUME StartInv, OwnInv, TrapTypes, [Next]_vars PROVE TrapTypes'
  OBVIOUS
<1>a. \A v, w : [vector |-> v, after |-> w] # None
  <2> TAKE v, w
  <2>1. DOMAIN [vector |-> v, after |-> w] # DOMAIN None
    BY DEF None
  <2> QED
    BY <2>1
<1>b. {PageFault, DoubleFault, GeneralProtection} \subseteq Vectors
  BY VectorAssumption
<1>1. CASE Start \/ UNCHANGED trap
  <2>1. UNCHANGED trap
    BY <1>1 DEF Start, LoadTables, Entry64, TestVideo, IgnoreVector, SetVector, MaskControllers, Sti,
       WriteDescriptor, LoadTR, ClearLowHalf, FlushTlbAll, TestAllocator, Step
  <2> QED
    BY <2>1 DEF trap, TrapTypes
<1>2. CASE \E v \in Vectors : Raise(v)
  BY <1>2, <1>a DEF Raise, TrapTypes
<1>3. CASE GateMissing \/ StackMissing
  <2>1. /\ cpu = "deliver" /\ UNCHANGED frame
        /\ \/ cpu' = "shutdown" /\ exc' = exc
           \/ /\ cpu' = cpu
              /\ \E v \in Vectors : exc' = [vector |-> v, after |-> exc.vector]
    BY <1>3, <1>b DEF GateMissing, StackMissing, Failed
  <2> QED
    BY <2>1, <1>a DEF TrapTypes
<1>4. CASE EnterHandler
  BY <1>4 DEF EnterHandler, TrapTypes
<1>5. CASE RunStub
  <2>1. PICK v \in Vectors : v = exc.vector
    BY <1>5 DEF RunStub, TrapTypes
  <2>2. v \in OwnVectors
    <3>1. gates[v].entry = "own"
      BY <1>5, <2>1 DEF RunStub
    <3> QED
      BY <3>1 DEF OwnInv, NoGate, IgnoreGate
  <2>3. PICK f : f = frame'
    OBVIOUS
  <2>4. f = FullFrame(v)
    BY <1>5, <2>1, <2>3 DEF RunStub, TrapTypes, FullFrame
  <2>5. Len(f) = Len(Fields)
    BY <2>2, <2>4, FrameFits
  <2> QED
    BY <1>5, <2>3, <2>5 DEF RunStub, TrapTypes
<1>6. CASE RunIgnore \/ Dispatch
  BY <1>6 DEF RunIgnore, Dispatch, TrapTypes
<1>7. CASE \E page \in Pages : Cache(page)
  BY <1>1, <1>7 DEF Cache
<1> QED
  BY <1>1, <1>2, <1>3, <1>4, <1>5, <1>6, <1>7 DEF Next, Trap, vars

SetupTypes ==
    /\ phase \in {"map", "vbe", "list", "check", "set", "protect", "kernel", "stopped"}
    /\ phase = "map" => count = 0
    /\ count \in {0, entries}
    /\ listed \in 0 .. ModeBound
    /\ candidate \in WantedModes \cup {0} /\ selected \in Modes \cup {0}
    /\ video \in Modes \cup {-1, 0}

LEMMA SetupTypesSetup == SetupTypes /\ Setup => SetupTypes'
<1> SUFFICES ASSUME SetupTypes, Setup PROVE SetupTypes'
  OBVIOUS
<1>1. CASE \E last \in BOOLEAN : GetEntry(last)
  BY <1>1 DEF GetEntry, SetupTypes
<1>2. CASE \E mode \in Modes : NextMode(mode)
  <2>1. listed' \in 0 .. ModeBound
    BY <1>2, SetupAssumption DEF NextMode, SetupTypes
  <2> QED
    BY <1>2, <2>1 DEF NextMode, TakeMode, SetupTypes
<1>3. CASE SetMode
  BY <1>3, SetupAssumption DEF SetMode, SetupTypes
<1>4. CASE GetVbeInfo \/ ListEnds \/ CheckCandidate \/ EnterKernel
  BY <1>4 DEF GetVbeInfo, ListEnds, CheckCandidate, EnterKernel, SetupTypes
<1>5. CASE MapFails \/ VbeFails \/ ModeFails \/ SetModeFails \/ NoLongMode
  BY <1>5 DEF MapFails, VbeFails, ModeFails, SetModeFails, NoLongMode, Stopped, SetupTypes
<1> QED
  BY <1>1, <1>2, <1>3, <1>4, <1>5 DEF Setup

\* Every variable of the loader and of the kernel's start keeps its type; the frame a
\* handler is given is as long as struct register_frame, whatever was raised.
THEOREM MachineTypeCorrect == MachineSpec => []MachineTypeOK
<1>1. Init => TableTypes /\ TrapTypes
  BY DEF Init, TableTypes, TrapTypes
<1>2. Spec => []TableTypes
  BY <1>1, TableTypesNext, PTL DEF Spec
<1>3. Spec => []TrapTypes
  BY <1>1, TrapTypesNext, ReportInvariance, PTL DEF Spec
<1>4. MachineSpec => []SetupTypes
  <2>1. MachineInit => SetupTypes
    BY SetupAssumption DEF MachineInit, SetupInit, SetupTypes
  <2>2. SetupTypes /\ [MachineNext]_<<vars, setupVars>> => SetupTypes'
    <3> SUFFICES ASSUME SetupTypes, [MachineNext]_<<vars, setupVars>> PROVE SetupTypes'
      OBVIOUS
    <3>1. CASE Setup
      BY <3>1, SetupTypesSetup
    <3>2. CASE UNCHANGED setupVars
      BY <3>2 DEF setupVars, SetupTypes
    <3> QED
      BY <3>1, <3>2 DEF MachineNext
  <2> QED
    BY <2>1, <2>2, PTL DEF MachineSpec
<1>5. StartInv /\ TableTypes /\ TrapTypes /\ SetupTypes /\ MapInv => MachineTypeOK
  BY DEF StartInv, GateInv, TableTypes, TrapTypes, SetupTypes, MapInv, MachineTypeOK, TypeOK
<1> QED
  BY <1>2, <1>3, <1>4, <1>5, MachineRunsStart, StartInvariance, SetupInvariance, PTL
=============================================================================
