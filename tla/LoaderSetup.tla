---------------------------- MODULE LoaderSetup ----------------------------
(***************************************************************************)
(* The loader (src/bootloader/loader.asm) from the loaded kernel file to   *)
(* the jump into it, and the kernel's start after it (KernelStart): the    *)
(* memory map, the video mode, protected and long mode.  What the BIOS     *)
(* answers varies: the number of entries and modes, and every failure.     *)
(*                                                                         *)
(* The map is stored from 0x7e04 on, the VBE block at 0x8000 and a mode's  *)
(* block at 0x8200: low memory is seen as places for entries of the map,   *)
(* of which the blocks take some.                                          *)
(***************************************************************************)
EXTENDS KernelStart

CONSTANTS
    MapBound,    \* entries the BIOS may report
    MapRoom,     \* entries below the VBE block (25)
    BlockRoom,   \* entries the VBE block overlaps (26)
    ModeBound,   \* modes in the list of the BIOS
    Modes,       \* mode numbers of the list, 0 not among them
    WantedModes  \* those of 1024 x 768 and 32 bits

ASSUME SetupAssumption ==
    /\ MapBound \in Nat \ {0} /\ MapRoom \in Nat /\ BlockRoom \in Nat
    /\ ModeBound \in Nat
    /\ Modes \subseteq Nat \ {0} /\ WantedModes \subseteq Modes

VARIABLES
    phase,     \* what the loader does next, "kernel", or "stopped"
    low,       \* places for entries: the entry that is there, or a block, or nothing
    entries,   \* ESI: entries the BIOS has given
    count,     \* the word at 0x7e00
    listed,    \* modes of the list seen
    candidate, \* CandidateMode, 0 when none was found
    selected,  \* the mode the block at 0x8400 describes, 0 before
    video      \* the mode the adapter is in, -1 for the BIOS's text mode

setupVars == <<phase, low, entries, count, listed, candidate, selected, video>>

Places  == 1 .. MapBound
Nothing == 0
Block   == -1

SetupInit ==
    /\ phase = "map"
    /\ low = [k \in Places |-> Nothing]
    /\ entries = 0 /\ count = 0 /\ listed = 0
    /\ candidate = 0 /\ selected = 0 /\ video = -1

\* A message, and a loop without end.
Stopped ==
    /\ phase' = "stopped"
    /\ UNCHANGED <<low, entries, count, listed, candidate, selected, video>>

-----------------------------------------------------------------------------
(***************************************************************************)
(* INT 15h, E820: an entry, and whether it is the last (EBX); or carry.    *)
(***************************************************************************)
GetEntry_CountsBefore(last) ==
    /\ phase = "map" /\ entries < MapBound
    /\ low' = [low EXCEPT ![entries + 1] = entries + 1]
    /\ entries' = entries + 1
    /\ IF last THEN count' = entries /\ phase' = "vbe" ELSE UNCHANGED <<count, phase>>
    /\ UNCHANGED <<listed, candidate, selected, video>>

\* Operators named <definition>_<what is wrong> are mutants, as in KernelStart.
GetEntry(last) ==
    /\ phase = "map" /\ entries < MapBound
    /\ low' = [low EXCEPT ![entries + 1] = entries + 1]
    /\ entries' = entries + 1
    /\ IF last THEN count' = entries + 1 /\ phase' = "vbe" ELSE UNCHANGED <<count, phase>>
    /\ UNCHANGED <<listed, candidate, selected, video>>

\* Carry after the last entry, as some BIOSes end the map, is taken for this too.
MapFails == phase = "map" /\ Stopped

\* INT 10h, 4F00h, and its block.
Overlaid(from, to) == [k \in Places |-> IF k \in from .. to THEN Block ELSE low[k]]

VbeInfo_OneEarly == Overlaid(MapRoom, MapRoom + BlockRoom)

VbeInfo == Overlaid(MapRoom + 1, MapRoom + BlockRoom)

GetVbeInfo ==
    /\ phase = "vbe"
    /\ low' = VbeInfo
    /\ phase' = "list"
    /\ UNCHANGED <<entries, count, listed, candidate, selected, video>>

VbeFails == phase = "vbe" /\ Stopped

-----------------------------------------------------------------------------
(***************************************************************************)
(* The list of modes: of each the block is fetched (4F01h) until one is    *)
(* the wanted mode; a block that cannot be had ends the boot.              *)
(***************************************************************************)
TakeMode_CopiesEach(mode) ==
    /\ selected' = mode
    /\ candidate' = IF mode \in WantedModes THEN mode ELSE candidate
    /\ UNCHANGED phase

\* The block is copied to 0x8400 and the list is left.
TakeMode(mode) ==
    IF mode \in WantedModes
    THEN candidate' = mode /\ selected' = mode /\ phase' = "check"
    ELSE UNCHANGED <<candidate, selected, phase>>

NextMode(mode) ==
    /\ phase = "list" /\ listed < ModeBound
    /\ listed' = listed + 1
    /\ low' = Overlaid(MapRoom + BlockRoom + 1, MapRoom + 2 * BlockRoom)
    /\ TakeMode(mode)
    /\ UNCHANGED <<entries, count, video>>

ModeFails == phase = "list" /\ listed < ModeBound /\ Stopped

\* 0xFFFF
ListEnds ==
    /\ phase = "list"
    /\ phase' = "check"
    /\ UNCHANGED <<low, entries, count, listed, candidate, selected, video>>

\* Four bytes are compared, and the word after CandidateMode, the "St" of a
\* message, is among them: the branch to the error message is never taken.
NextWord == 29779

NoCandidate == candidate = 0 /\ NextWord = 0

CheckCandidate ==
    /\ phase = "check" /\ ~NoCandidate
    /\ phase' = "set"
    /\ UNCHANGED <<low, entries, count, listed, candidate, selected, video>>

\* INT 10h, 4F02h, with bit 14 for the linear frame buffer.  Mode 0, when none was
\* found, the BIOS refuses or sets.
SetMode ==
    /\ phase = "set"
    /\ video' = candidate
    /\ phase' = "protect"
    /\ UNCHANGED <<low, entries, count, listed, candidate, selected>>

SetModeFails == phase = "set" /\ Stopped

-----------------------------------------------------------------------------
\* Protected mode; when the processor has long mode, the page tables at 0x90000,
\* PAE, CR3, LME and paging, and the jump to 0x100000.
EnterKernel ==
    /\ phase = "protect"
    /\ phase' = "kernel"
    /\ UNCHANGED <<low, entries, count, listed, candidate, selected, video>>

NoLongMode == phase = "protect" /\ Stopped

Setup ==
    \/ \E last \in BOOLEAN : GetEntry(last)
    \/ GetVbeInfo
    \/ \E mode \in Modes : NextMode(mode)
    \/ ListEnds \/ CheckCandidate \/ SetMode \/ EnterKernel
    \/ MapFails \/ VbeFails \/ ModeFails \/ SetModeFails \/ NoLongMode

MachineInit == Init /\ SetupInit

MachineNext ==
    \/ Setup /\ UNCHANGED vars
    \/ phase = "kernel" /\ Next /\ UNCHANGED setupVars

MachineSpec == MachineInit /\ [][MachineNext]_<<vars, setupVars>>

\* One processor, and nothing else that runs; the BIOS returns.
MachineFairSpec ==
    /\ MachineSpec
    /\ WF_<<vars, setupVars>>(Setup /\ UNCHANGED vars)
    /\ WF_<<vars, setupVars>>(phase = "kernel" /\ Start /\ UNCHANGED setupVars)
    /\ WF_<<vars, setupVars>>(phase = "kernel" /\ Trap /\ UNCHANGED setupVars)

-----------------------------------------------------------------------------
\* The types of the loader's variables and of the kernel's after them; the word at
\* 0x7e00 is zero or the number of entries, and no mode is taken that is not wanted.
MachineTypeOK ==
    /\ TypeOK
    /\ phase \in {"map", "vbe", "list", "check", "set", "protect", "kernel", "stopped"}
    /\ low \in [Places -> Places \cup {Nothing, Block}]
    /\ entries \in 0 .. MapBound /\ count \in {0, entries}
    /\ listed \in 0 .. ModeBound
    /\ candidate \in WantedModes \cup {0} /\ selected \in Modes \cup {0}
    /\ video \in Modes \cup {-1, 0}

\* A map of at most MapRoom entries reaches the kernel whole and in order, though
\* the VBE blocks are fetched next to it afterwards.
MapReachesKernel ==
    phase = "kernel" /\ count <= MapRoom =>
        count = entries /\ \A k \in 1 .. count : low[k] = k

\* The block the kernel takes its resolution from describes the mode the adapter
\* is in, whenever the list had a wanted mode: the first of them.
VideoAsDescribed ==
    phase = "kernel" /\ candidate # 0 =>
        /\ video = selected /\ video \in WantedModes

\* The loader stops with a message or starts the kernel, which reaches its last
\* loop, or is stopped by an exception.
MachineStarts == <>(phase = "stopped" \/ pc = "loop" \/ cpu \in {"hang", "shutdown"})
=============================================================================
