---------------------------- MODULE KernelStart ----------------------------
(***************************************************************************)
(* The start of the kernel: _start (src/kernel/head.S), Start_Kernel       *)
(* (main.c) with setup_idt (idt.c), setup_tss64 (gdt.c) and the end of     *)
(* init_memory (memory.c), which takes the low half of the address space   *)
(* away; and what an exception meets at every point of it: the gates as    *)
(* they stand, the stack they name, the entry stub (trap_entry.S),         *)
(* dispatch_exception and its handlers (trap.c).                           *)
(*                                                                         *)
(* IDTR names IDT_Table from _start on, so a gate works as soon as it is   *)
(* written.  What the handlers draw is module Console; here a handler      *)
(* reports the fields of its frame and hangs.                              *)
(***************************************************************************)
EXTENDS Integers, Sequences, FiniteSetsExt

CONSTANTS
    Vectors,  \* vectors of the IDT that are followed
    Faults    \* those an instruction of the kernel may raise

NMI               == 2
DoubleFault       == 8
GeneralProtection == 13
PageFault         == 14
MachineCheck      == 18  \* not enabled in CR4: it stops the machine

ASSUME VectorAssumption ==
    /\ Vectors \subseteq 0 .. 255
    /\ {NMI, DoubleFault, GeneralProtection, PageFault} \subseteq Vectors
    /\ Faults \subseteq Vectors \ {NMI, DoubleFault, MachineCheck}

VARIABLES
    pc,      \* the next step of the start
    todo,    \* vectors the loop of setup_idt has still to do
    gates,   \* IDT_Table
    tr,      \* the task register: "reset", or "kernel" once ltr has run
    enabled, \* interrupts may reach the IDT
    masked,  \* both interrupt controllers are masked
    cr3,     \* whose page tables are in use
    pml4,    \* present entries of the kernel's PML4
    tlb,     \* translations the processor has cached
    cpu,     \* "run", "deliver", "entry", "dispatch", "hang", "shutdown"
    exc,     \* the exception that is delivered: its vector and error code
    frame,   \* the stack of its handler, lowest address first
    report,  \* what a handler has printed
    raised   \* history: the exception that was raised first, and where

start == <<pc, todo, gates, tr, enabled, masked, cr3, pml4>>
trap  == <<cpu, exc, frame, report, raised>>
vars  == <<start, tlb, trap>>

None == [none |-> TRUE]

-----------------------------------------------------------------------------
(***************************************************************************)
(* Page tables.  A page of 2 MB is the index of its PML4 entry and of its  *)
(* entry in the page directory that all of them share.                     *)
(***************************************************************************)
LowHalf  == 0
HighHalf == 256
Kernel(half) == <<half, 0>>  \* the kernel, its stack, and what the loader left below it
FrameBuffer  == {<<HighHalf, 13>>, <<HighHalf, 14>>}  \* 0xffff800001a00000, 3 MB
Pages == FrameBuffer \cup {Kernel(LowHalf), Kernel(HighHalf)}

RAM   == "ram"
Video == "video"

\* __PDE: five pages of RAM and two windows of eight, for two video adapters.
KernelPD(k) == IF k < 5 THEN RAM ELSE IF k < 21 THEN Video ELSE "none"

\* The loader's tables: six pages of RAM, at both ends of the PML4.
LoaderPD(k) == IF k < 6 THEN RAM ELSE "none"

Walk(page) ==
    IF cr3 = "loader" THEN LoaderPD(page[2])
    ELSE IF page[1] \in pml4 THEN KernelPD(page[2]) ELSE "none"

Mapped(page) == Walk(page) # "none" \/ page \in tlb

\* The processor may cache what a walk finds at any time.
Cache(page) ==
    /\ Walk(page) # "none"
    /\ tlb' = tlb \cup {page}
    /\ UNCHANGED <<start, trap>>

-----------------------------------------------------------------------------
(***************************************************************************)
(* Gates: none, the one of ignore_interrupt, or a vector's own, with the   *)
(* number of its stack in the TSS (0: the stack in use).                   *)
(***************************************************************************)
NoGate     == [entry |-> "none", ist |-> 0]
IgnoreGate == [entry |-> "ignore", ist |-> 0]

OwnVectors == (0 .. 8) \cup (10 .. 14) \cup (16 .. 20)

\* Operators named <definition>_<what is wrong> are mutants: a plausible bug in
\* the code of that definition, which a property of a run is seen to catch.
IstOf_PageFault(v) == IF v \in {NMI, PageFault} THEN 1 ELSE IF v = DoubleFault THEN 2 ELSE 0

IstOf(v) == IF v = NMI THEN 1 ELSE IF v = DoubleFault THEN 2 ELSE 0

OwnGate(v) == [entry |-> "own", ist |-> IstOf(v)]

Init ==
    /\ pc = "head" /\ todo = {}
    /\ gates = [v \in Vectors |-> NoGate]
    /\ tr = "reset" /\ enabled = FALSE /\ masked = FALSE
    /\ cr3 = "loader" /\ pml4 = {LowHalf, HighHalf} /\ tlb = {}
    /\ cpu = "run" /\ exc = None /\ frame = <<>> /\ report = None /\ raised = None

-----------------------------------------------------------------------------
(***************************************************************************)
(* The pages a step reads, writes or runs from.                            *)
(***************************************************************************)
Uses_KeptPointer(step) ==
    IF step = "head" THEN {Kernel(LowHalf)}
    ELSE FrameBuffer \cup {Kernel(HighHalf), Kernel(LowHalf)}

\* head.S runs low until its far return; everything later is linked high, and
\* prints.  (_start pushes on the loader's stack, which lies in the same page.)
\* vbe_info is the low address 0x8400 for good: only the first step reads it.
Uses(step) ==
    (IF step = "head" THEN {} ELSE {Kernel(HighHalf)})
    \cup (IF step \in {"head", "entry", "video"} THEN {Kernel(LowHalf)} ELSE {})
    \cup (IF step \in {"head", "entry"} THEN {} ELSE FrameBuffer)

\* One step of the start, when the pages it uses are mapped.
Step(from, to) ==
    /\ cpu = "run" /\ pc = from
    /\ \A page \in Uses(from) : Mapped(page)
    /\ pc' = to
    /\ UNCHANGED trap

\* cli, lgdt, lidt, the segments, and CR3: a load of CR3 empties the TLB.
LoadTables ==
    /\ Step("head", "entry")
    /\ enabled' = FALSE /\ cr3' = "kernel" /\ tlb' = {}
    /\ UNCHANGED <<todo, gates, tr, masked, pml4>>

\* The far returns to entry64 and to Start_Kernel, with the kernel's stack.
Entry64 ==
    /\ Step("entry", "video")
    /\ UNCHANGED <<todo, gates, tr, enabled, masked, cr3, pml4, tlb>>

\* init_vbe_info, the colour bars and the tests of printk.
TestVideo ==
    /\ Step("video", "ignore")
    /\ todo' = Vectors
    /\ UNCHANGED <<gates, tr, enabled, masked, cr3, pml4, tlb>>

IgnoreVector_ByteIndex ==
    /\ Step("ignore", "ignore")
    /\ LET v == Min(todo)
       IN  /\ gates' = [gates EXCEPT ![v] = IgnoreGate]
           /\ todo' = IF todo = {v} THEN Vectors ELSE todo \ {v}
    /\ UNCHANGED <<tr, enabled, masked, cr3, pml4, tlb>>

\* setup_idt: first every vector is ignored, then some have their own entry.
IgnoreVector ==
    /\ LET v == Min(todo)
       IN  /\ Step("ignore", IF todo = {v} THEN "own" ELSE "ignore")
           /\ gates' = [gates EXCEPT ![v] = IgnoreGate]
           /\ todo' = IF todo = {v} THEN Vectors \cap OwnVectors ELSE todo \ {v}
    /\ UNCHANGED <<tr, enabled, masked, cr3, pml4, tlb>>

SetVector ==
    /\ LET v == Min(todo)
       IN  /\ Step("own", IF todo = {v} THEN "mask" ELSE "own")
           /\ gates' = [gates EXCEPT ![v] = OwnGate(v)]
           /\ todo' = todo \ {v}
    /\ UNCHANGED <<tr, enabled, masked, cr3, pml4, tlb>>

Sti(from, to) ==
    /\ Step(from, to)
    /\ enabled' = TRUE
    /\ UNCHANGED <<todo, gates, tr, masked, cr3, pml4, tlb>>

MaskControllers_Forgotten ==
    /\ Step("mask", "sti")
    /\ UNCHANGED <<todo, gates, tr, enabled, masked, cr3, pml4, tlb>>

MaskControllers ==
    /\ Step("mask", "sti")
    /\ masked' = TRUE
    /\ UNCHANGED <<todo, gates, tr, enabled, cr3, pml4, tlb>>

\* setup_tss64: the descriptor is written with interrupts off.
WriteDescriptor ==
    /\ Step("tss", "tss sti")
    /\ enabled' = FALSE
    /\ UNCHANGED <<todo, gates, tr, masked, cr3, pml4, tlb>>

\* The TSS itself stays as head.S filled it, with zeros.
LoadTR ==
    /\ Step("ltr", "memory")
    /\ tr' = "kernel"
    /\ UNCHANGED <<todo, gates, enabled, masked, cr3, pml4, tlb>>

\* The first ten entries.
ClearPML4 == pml4 \ (0 .. 9)

\* init_memory: the low half is removed from the tables, then from the TLB.
ClearLowHalf ==
    /\ Step("memory", "flush")
    /\ pml4' = ClearPML4
    /\ UNCHANGED <<todo, gates, tr, enabled, masked, cr3, tlb>>

FlushTLB_Page == tlb \ {Kernel(HighHalf)}

\* flush_tlb_all reloads CR3.
FlushTLB == {}

FlushTlbAll ==
    /\ Step("flush", "test")
    /\ tlb' = FlushTLB
    /\ UNCHANGED <<todo, gates, tr, enabled, masked, cr3, pml4>>

\* The test of the allocator (module PageAlloc), and the loop of hlt.
TestAllocator ==
    /\ Step("test", "loop")
    /\ UNCHANGED <<todo, gates, tr, enabled, masked, cr3, pml4, tlb>>

Start ==
    \/ LoadTables \/ Entry64 \/ TestVideo
    \/ IgnoreVector \/ SetVector \/ MaskControllers \/ Sti("sti", "tss")
    \/ WriteDescriptor \/ Sti("tss sti", "ltr") \/ LoadTR
    \/ ClearLowHalf \/ FlushTlbAll \/ TestAllocator

-----------------------------------------------------------------------------
(***************************************************************************)
(* An exception.  The processor pushes an error code for some vectors; the *)
(* value stands for whatever it is.                                        *)
(***************************************************************************)
PushesError == {8, 10, 11, 12, 13, 14, 17, 21, 29, 30}
Contributory == {0, 10, 11, 12, 13}
Error == "error code"

Raise(v) ==
    /\ cpu = "run"
    /\ v \in Faults \cup {NMI}
    /\ exc' = [vector |-> v, after |-> None]
    /\ raised' = [vector |-> v, at |-> pc, ready |-> todo = {} /\ gates[NMI].entry = "own"]
    /\ cpu' = "deliver"
    /\ UNCHANGED <<frame, report, start, tlb>>

\* A second exception while the first is delivered: one after the other, or a
\* double fault, or the end.
Failed(second) ==
    LET v == exc.vector
        double == \/ v \in Contributory /\ second \in Contributory
                  \/ v = PageFault /\ second \in Contributory \cup {PageFault}
    IN  IF v = DoubleFault THEN cpu' = "shutdown" /\ UNCHANGED exc
        ELSE /\ exc' = [vector |-> IF double THEN DoubleFault ELSE second, after |-> v]
             /\ UNCHANGED cpu

\* A gate that is all zero.
GateMissing ==
    /\ cpu = "deliver" /\ gates[exc.vector].entry = "none"
    /\ Failed(GeneralProtection)
    /\ UNCHANGED <<frame, report, raised, start, tlb>>

\* The stack of a gate with an IST number is 0 in the zeroed TSS: the first push
\* is to the top of the address space, which is not mapped.
StackMissing ==
    /\ cpu = "deliver" /\ gates[exc.vector].ist # 0
    /\ Failed(PageFault)
    /\ UNCHANGED <<frame, report, raised, start, tlb>>

\* Before ltr the TSS is read at address 0: a stack that may be anything.
StackUsable(gate) == gate.ist = 0 \/ tr = "reset"

\* What the processor pushes; the last is at the lowest address.
HardwareFrame(v) ==
    (IF v \in PushesError THEN <<Error>> ELSE <<>>) \o <<"rip", "cs", "rflags", "rsp", "ss">>

EnterHandler ==
    /\ cpu = "deliver" /\ gates[exc.vector].entry # "none"
    /\ StackUsable(gates[exc.vector])
    /\ frame' = HardwareFrame(exc.vector)
    /\ cpu' = "entry"
    /\ UNCHANGED <<exc, report, raised, start, tlb>>

-----------------------------------------------------------------------------
(***************************************************************************)
(* The entry stubs, and ignore_interrupt.                                  *)
(***************************************************************************)
\* EXCEPTION_ENTRY_ERRCODE; the others push 0 where an error code would be.
ErrorStubs == {8, 10, 11, 12, 13, 14, 17}

Saved == <<"es", "ds", "r15", "r14", "r13", "r12", "r11", "r10", "r9", "r8",
           "rdi", "rsi", "rbp", "rdx", "rcx", "rbx", "rax">>

Stub_ErrorFirst(v) == Saved \o (IF v \in ErrorStubs THEN <<v>> ELSE <<0, v>>)

Stub(v) == Saved \o (IF v \in ErrorStubs THEN <<v>> ELSE <<v, 0>>)

RunStub ==
    /\ cpu = "entry" /\ gates[exc.vector].entry = "own"
    /\ frame' = Stub(exc.vector) \o frame
    /\ cpu' = "dispatch"
    /\ UNCHANGED <<exc, report, raised, start, tlb>>

\* ignore_interrupt saves no vector; its handler prints the same for all.
RunIgnore ==
    /\ cpu = "entry" /\ gates[exc.vector].entry = "ignore"
    /\ frame' = Saved \o frame
    /\ report' = [vector |-> "unknown", error |-> "unknown", rip |-> "unknown"]
    /\ cpu' = "hang"
    /\ UNCHANGED <<exc, raised, start, tlb>>

\* struct register_frame
Fields == <<"r15", "r14", "r13", "r12", "r11", "r10", "r9", "r8",
            "rdi", "rsi", "rbp", "rdx", "rcx", "rbx", "rax", "es", "ds",
            "vector", "error_code", "rip", "cs", "rflags", "rsp", "ss">>

Field(name) == frame[CHOOSE k \in 1 .. Len(Fields) : Fields[k] = name]

\* dispatch_exception calls the handler of frame->vector, which prints and hangs.
Dispatch ==
    /\ cpu = "dispatch"
    /\ report' = [vector |-> Field("vector"), error |-> Field("error_code"), rip |-> Field("rip")]
    /\ cpu' = "hang"
    /\ UNCHANGED <<exc, frame, raised, start, tlb>>

Trap == GateMissing \/ StackMissing \/ EnterHandler \/ RunStub \/ RunIgnore \/ Dispatch

Next ==
    \/ Start \/ Trap
    \/ \E v \in Vectors : Raise(v)
    \/ \E page \in Pages : Cache(page)

Spec == Init /\ [][Next]_vars

-----------------------------------------------------------------------------
TypeOK ==
    /\ todo \subseteq Vectors
    /\ gates \in [Vectors -> {NoGate, IgnoreGate} \cup {OwnGate(v) : v \in Vectors}]
    /\ enabled \in BOOLEAN /\ masked \in BOOLEAN
    /\ pml4 \subseteq {LowHalf, HighHalf} /\ tlb \subseteq Pages
    /\ cpu \in {"run", "deliver", "entry", "dispatch", "hang", "shutdown"}
    /\ exc = None <=> cpu = "run"
    /\ cpu = "dispatch" => Len(frame) = Len(Fields)

\* Every step finds the pages it uses mapped: nothing that the rest of the start
\* needs goes with the low half, and no exception is the start's own doing.
StartNeverFaults == cpu = "run" => \A page \in Uses(pc) : Mapped(page)

\* Once the low half is gone, no cached translation reaches it.
NoStaleTranslation == pc \in {"test", "loop"} => Kernel(LowHalf) \notin tlb

\* Interrupts are never enabled before every vector has a gate and the controllers
\* are masked: setup_tss64, which enables them again, comes after setup_idt.
InterruptsOnlyWhenReady ==
    enabled => masked /\ \A v \in Vectors : gates[v].entry # "none"

\* An exception raised after setup_idt wrote its gates, and whose gate names no
\* stack of the TSS, is reported with its own vector, error code and address.
ExceptionsReported ==
    cpu = "hang" /\ raised.ready /\ raised.vector # NMI =>
        report = [vector |-> IF raised.vector \in OwnVectors THEN raised.vector ELSE "unknown",
                  error  |-> IF raised.vector \notin OwnVectors THEN "unknown"
                             ELSE IF raised.vector \in PushesError THEN Error ELSE 0,
                  rip    |-> IF raised.vector \in OwnVectors THEN "rip" ELSE "unknown"]

\* From then on no exception resets the machine, the NMI included, whose stack is
\* not there: it is reported, though as a page fault.
NoShutdownOnceReady == cpu = "shutdown" => ~raised.ready
=============================================================================
