# A TLA+ model of KNOS

KNOS is a small 64-bit kernel with its own boot sector, loader and floppy image
tool. These modules model the parts of it whose correctness is a matter of
state and order: physical memory, the messages on the screen, the way from the
floppy to the running kernel with its page tables, gates and exceptions, and the
tool that makes the floppy. TLC checks small instances; TLAPS proves nearly all
of their safety properties for every instance.

Contents: 1 inventory, 2 the plan, 3 the modules, 4 the runs, 5 the proofs,
6 what is not modelled, 7 what the code does not do.

## 1. Inventory

The system has one processor, one thread of control and no preemption. The
interrupt controller is masked, the handlers of exceptions print and stop. So
nothing interleaves except an exception with the code it interrupts; what is
hard is the order of calls, state kept twice, arithmetic at boundaries, and in
the boot chain and the image tool retries, unbounded input and stops half way.

| component | source | state | operations |
|---|---|---|---|
| page allocator | `kernel/memory.c` 8-45, 387-587 | bitmap, page frame array, zones, `huge_page_info` | `alloc_pages`, `page_init`, `free_pages` |
| memory initialisation | `kernel/memory.c` 47-385 | the same, and the E820 copy | `init_memory` |
| kernel start-up | `kernel/main.c` | none of its own | `Start_Kernel` |
| console | `kernel/printk.c` | `printk_pos`, `printk_buf` | `vsnprintf`, `vcolor_printk`, `put_color_char`, `logk` and its kin |
| video information | `kernel/vbe.c` | fields of `printk_pos` | `init_vbe_info` |
| traps, tables | `kernel/trap*.?`, `idt.c`, `gdt.c` | IDT, GDT, TSS | `setup_idt`, `setup_tss64`, `dispatch_exception` |
| address space | `kernel/head.S` | page tables, CR3 | `_start`; lines 372-382 of `init_memory` |
| boot sector | `bootloader/boot.asm` | loop counters, the loaded file | search, chain load, `ReadOneSectorFunction`, `DecodeFAT` |
| loader | `bootloader/loader.asm` | the same, E820 buffer, VBE blocks, processor mode | search, chain load, E820, VBE, mode switches |
| image tool | `tools/fat12img.py` | the image: FAT, directory, clusters | `format`, `save`, `load`, `del`, `write` |
| primitives | `cpu.h`, `lib.h`, `list.h` | none | port and register access, strings |

How they interact. The image tool writes the floppy the boot sector reads. The
boot sector finds LOADER.KAL in the root directory and follows its chain; the
loader does the same for KERNEL.KAL, leaves the E820 map at 0x7e00 and the VBE
block at 0x8400, and enters 64-bit mode. `head.S` sets the page tables;
`Start_Kernel` reads the VBE block, sets the IDT and the TSS, calls
`init_memory`, which reads the E820 map through the high half, and then
`alloc_pages` and `free_pages`. All of them print through `printk`.

What makes each component correct, and what is hard about it:

* **Page allocator.** No frame is granted twice; a frame that was given back
  can be granted again; the kernel's own frames are never granted; a grant lies
  in one zone of the type asked for. The bitmap, the flags, the reference
  counts and two counters record overlapping facts and are written by three
  functions. The search walks the bitmap by three different paths.
* **Memory initialisation.** What the allocator may grant is RAM from end to
  end and not the kernel; zones are disjoint and split at 16 MB; total and
  zones agree. Several passes over the map round in separate expressions, and
  four pieces of code write the bitmap one after another.
* **Console.** The cursor stays on the screen whatever is printed; formatting
  keeps to its buffer and cuts nothing but the end of a text. An exception may print while a message is drawn.
* **Traps.** Every vector reaches its handler with a valid stack.
* **Address space.** No page is mapped both as RAM and as video memory; no
  pointer of the low half is used after it was unmapped.
* **Boot chain.** The bytes at the entry point are those of the file; a read
  that fails is repeated; every chain ends; the buffers do not overlap.
* **Image tool.** A saved file stays in the image as it was; two files share no
  cluster; a stop between two writes leaves the other files intact.

The hazards, each at its line, are in `PROJECT.json`.

## 2. The plan

Done, in this order:

1. `PageAlloc`: the allocator, one action per loop iteration; `FramePool`, what
   it promises its callers, and that it keeps the promise; their proofs.
2. `InitMemory`: from the E820 map to the state `PageAlloc` starts from.
3. `Fat12Image`: the FAT and the directory under `format`, `save`, `del` and `load`,
   with a stop before any write.
4. `Printf` and `Console`: formatting into a bounded buffer; the cursor, the
   screen, and an exception that prints in the middle of a message.
5. `KernelStart`: page tables, gates, stacks and the order of `Start_Kernel`,
   with an exception at any step; `LoaderSetup`, which composes it with the
   loader before it.
6. `FloppyBoot`: boot sector and loader over an image that `Fat12Image` made.
7. A proof module for each of these, and `NumberLemmas`, what they share.

Left: an abstract file store (slots to contents) that `Fat12Image` implements
while no stopped save is deleted.

## 3. The modules

### PageAlloc

`memory.c`, the functions `alloc_pages`, `page_init`, `free_pages`. The state is
that of `global_memory_manager_struct`: `bitmap` is the set of set bits,
`flags` and `refCount` are the fields of the page frames, `nrFree` and `free2m`
the counters. `pc` and `call` are the function that runs, with its arguments and
locals. Two history variables follow the callers: `claims[p]` counts the grants
of frame p that were not given back, `granted` counts granted frames.

| code | action |
|---|---|
| zone selection, 393-408 | `AllocBegin`, `AllocRefused` |
| search loop, 420-475 | `ProbeOccupied`, `ProbeFound`, `FoundAtZero`, `SearchExhausted`, `ProbeWild` |
| marking loop and `page_init`, 480-504, 8-45 | `MarkFresh`, `MarkShared`, `MarkUpdate`, `MarkHalts`, `MarkWild` |
| counters and return, 506-510 | `AllocReturn` |
| checks of `free_pages`, 514-528 | `FreeRefused`, `FreeBegin` |
| its loop, 535-581 | `FreeSkips`, `FreeDrops`, `FreeReleases` |
| return, 583-587 | `FreeReturn` |

The three paths of the search are two functions of the position and the
request: `Probed`, the bits an iteration tests, and `Stride`, how far it moves
when one is set. `Probed` takes the shift of a mask modulo the word size, as
the x86 `shl` of the compiled code does. The counters are `uint64_t` and wrap
at `CounterMod`; `ref_count` wraps at `RefMod`. The bits of a frame's flags that
only describe its mapping (PRESENT, WRITABLE and the like) are left out, as
nothing reads them.

A caller of `free_pages` names frames it was granted, or frames that are not
used (the code warns and skips these), in any mixture and any length
(`MayFree`); other frees are programming errors of the caller and outside the
model. Accesses past the bitmap or the frame array lead to `pc = "wild"`, where
the behaviour ends, as it does when `page_init` halts the machine.

Properties marked (S) are claimed for small requests (`SmallRequests`): at most
a word of the bitmap (64 frames) and at most the end of every zone. Beyond that
the code breaks them, see section 7.

* `BitmapAgreesWithFlags`: the bit and the USED flag agree, for all requests.
* `NoDoubleGrant`, `HeldIffMarked`, `KernelFramesKept`, `GrantWithinZone` (S).
* `SearchFindsLongRuns` (S): the search may step over a run of n free frames,
  and never over one of 2n - 1.
* `CountersFollowFrames`: what the counters really are, for all requests.
  Each granted frame is subtracted twice and added back once.
* `CallReturns` (S): every call returns.
* `ImplementsFramePool` (S): refinement of `FramePool`, `held <- claims`.

### FramePool

The allocator as its callers see it: `Grant` makes a run of one zone held when
nobody holds any of it, `Release` gives a run back.

### InitMemory

`init_memory`, lines 50-370. Addresses count units, `FrameUnits` of them in a
frame, so an entry can begin or end inside a frame. `pc` names the loop and `i`
the entry it is at. `CopyMap` truncates the map; `CountEntry` computes `max_pfn`
and the total; `ClearBitmap` and `ReserveEntry` set up the bitmap; `InitFrames`,
`MakeZones` and `SetPageZero` the frames and zones; `TestBitmap` is the
self-test; `MarkKernel` marks the frames of the bitmap and the arrays. The end
of those structures is a function of the number of frames (`StructUnits`).
`CountWild`, `ClearWild` and `MarkKernelWild` are the places where the code
leaves its arrays.

* `AllocatorReady`: the assumptions and the initial state of `PageAlloc`,
  for maps whose entries are disjoint, as a BIOS reports them.
* `FreeFramesAreUsableRam`, `TotalIsZonePages`, `ZoneCheckHolds`,
  `ZoneTypesSplitMemory`; all but the first for overlapping entries too.

### Fat12Image

`tools/fat12img.py`. `fat`, `dir` and `data` are the image; `memFat` and `memDir`
the copies a command reads at its start and writes back at its end; `pc` what
the command writes next; `cmd` its locals. Sizes count units, `ClusterUnits` of
them in a cluster. The history variable `stored` holds the file that belongs in
each slot: a saved one once the FAT is written, none from the moment `del`
has written the directory.

| code | action |
|---|---|
| `format_disk`, 171-176 | `Format` |
| checks of `save`, 185-196; its start, 184-206 | `SaveRefused`, `SaveBegin` |
| an iteration of its loop, 207-221 | `WriteCluster`, `WriteOverDir` |
| `delete`, 227-235 | `DelRefused`, `DelFails`, `DelBegin` |
| `dirinfo.write()`, `fat.write()` at the end of both | `WriteDir`, `Finish` |
| a kill or a failure of the host | `Stop` |
| `load`, 244-252, which fails on every file it finds | `LoadRefused`, `LoadFails` |

Names are kept whole, with their blanks; `ShortNames` are those that end in one,
which `find` never finds. Cluster 0 lies inside the directory; `save` can take
it only when `FAT[0]` was cleared, and a write there ends the model.

* `FilesStayWhole`: a file whose save has finished stays in the image as it was saved,
  during other commands and after they stopped half way: entry, chain, and data along
  it (`Chain`, `Held`). The tool itself reads no file; the boot programs do, and what
  they get is `RunsWholeFile` of `FloppyBoot`.
* `NoClusterLost`: until a command stops, each cluster in use is one file's.
* `DamageNeedsMisuse`: `FAT[0]` and the directory stay sound.

The first and the last hold until a file is deleted whose own save stopped after
the directory was written (`misused`). Such an entry names free clusters, or by
then another file's; `del` clears them, and through free entries `FAT[0]`.

### Printf

`printk.c`, `number` and `vsnprintf`. A format is a sequence of literal
characters and directives; a directive is the record its characters are parsed
into (flags, width, precision, length modifier, conversion, argument). `str` is
the text in the buffer and `nul` the place of the terminator; the history variable `full` is what a buffer
without end would hold (`Endless`), `last` the directive handled last.

| code | definition |
|---|---|
| the loop of `vsnprintf`, 186-404 | `PutLiteral`, `Convert`; its end 407-411: `Finish` |
| flags, width, precision, modifier, 197-267 | `FlagsOf`, `WidthOf`, `PrecOf`, `BitsOf` |
| the switch, 269-404 | `Converted`, with `Padded`, `StringOf`, `Signed`, `Unsigned` |
| `number`, 54-166 | `Number`, with `DigitsOf`, `SignOf`, `PrefixOf`, `Padding` |
| each `*p++ = c` behind `p < end` | `Write`, `WritePrefix` |

Arguments are words of `LongBits`; a directive takes the bits its modifier gives
it, and the sign is extended.

* `TerminatorPlaced`: wherever the buffer ends, the characters stay in it. The terminator
  ends the text, and when that fills the buffer it is written one byte past it; this
  happens for every text that is not shorter than the buffer, and for no other.
* `TruncatedIsPrefix`: what is drawn is the beginning of the whole text.
* `NumbersReadBack`: the text of a number denotes the argument.
* `FieldsFilled`: a field has its width, and its blanks are on the right side.

### Console

`printk.c`, `vcolor_printk`, `printk`, `color_printk`, `logk_impl`. `x`, `y` are the
cursor in characters, `screen` the character in each cell, `text` the shared
buffer, `count` and `line` the locals of the loop. A message is begun by `Printk`
or `Log` (the tag, then the body as `rest`); the loop's iterations are
`DrawNewLine`, `DrawBackSpace`, `DrawTab` and `DrawTabRest`, `DrawGlyph`, and `EndText`
ends it. `Interrupt` may happen between two of them: a handler begins a message
of its own (`trap.c`, `fatalk`), in the same buffer and at the same cursor, and
then hangs. The text of a message is the result of `Printf`.

The width is a whole number of tab stops (`TabAssumption`); on another one the tape and the
screen would part at the last tab of a line.

* `CursorOnScreen`: the next glyph lies inside the frame buffer.
* `ScreenShowsText`: cursor and screen are those of a tape of cells on which the
  text so far was written; the tape knows nothing of rows and borders.
* `ReportShown`: when the machine hangs, the handler's report was drawn whole.
* `MessagesEnd`: every loop ends.

### KernelStart

`head.S`, `main.c`, `idt.c`, `gdt.c`, `trap_entry.S`, `trap.c`, `vbe.c`, and the end of
`init_memory`. `pc` is the next step of the start:

| code | action |
|---|---|
| `_start`, `head.S` 9-32; far returns, 35-54 | `LoadTables`, `Entry64` |
| `init_vbe_info`, the colour bars, tests of `printk` | `TestVideo` |
| `setup_idt`: its loop; its own vectors; the controllers; `sti` | `IgnoreVector`, `SetVector`, `MaskControllers`, `Sti` |
| `setup_tss64`: the descriptor; `sti`; `ltr` | `WriteDescriptor`, `Sti`, `LoadTR` |
| `init_memory` 372-380; 382 | `ClearLowHalf`, `FlushTlbAll` |
| the test of the allocator, the last loop | `TestAllocator` |

`Uses` names the pages of 2 MB a step touches: the kernel in the half it runs
in, the frame buffer from the first message on, and the low page the VBE block lies in.
`Walk` is the page walk in the tables of the loader or of `head.S`; `Cache` lets
the processor keep what a walk finds, at any time. `gates`, `tr`, `enabled` and
`masked` are the IDT, the task register, the interrupt flag and the state of the
controllers. The linker (`-z muldefs`) takes the `IDT_Table` of `head.S`, which IDTR names from
`_start` on.

An exception (`Raise`) may happen once, at any step. Delivery is the
processor's and external: `GateMissing` and `StackMissing` are the faults on the
way, `Failed` the rule that makes of two faults another one, a double fault or
a reset. `RunStub` pushes what `trap_entry.S` pushes on what the processor did, and
`Dispatch` reads vector, error code and address from the frame by their place
in `struct register_frame`.

* `StartNeverFaults`, `NoStaleTranslation`: no step uses a page that is gone.
* `InterruptsOnlyWhenReady`: interrupts find masked controllers and gates.
* `ExceptionsReported`: what is reported is the exception that was raised.
* `NoShutdownOnceReady`: after the gates are written, no exception resets the
  machine, though the stacks of NMI and double fault do not exist.

### LoaderSetup

`loader.asm` 308-714, before `KernelStart`. Low memory is a row of places for
entries of the memory map; the VBE block and the block of a mode take some of
them (`Overlaid`). `GetEntry`, `GetVbeInfo`, `NextMode`, `ListEnds`, `CheckCandidate`,
`SetMode` and `EnterKernel` are the steps; each has a failure (`MapFails` and so on),
after which the loader stops with a message. `NextWord` is the word after
`CandidateMode`, which the comparison of four bytes takes in: `NoCandidate` is
false whatever the list held.

* `MapReachesKernel`: a map that ends below the VBE block arrives whole.
* `VideoAsDescribed`: the block the kernel reads describes the mode that was set.
* `MachineStarts`: the loader stops with a message, or the kernel reaches its
  last loop or is stopped by an exception.

### FloppyBoot

`boot.asm`, and `loader.asm` up to the loaded kernel, over the state of
`Fat12Image`. The image is put into the machine between two commands (`PowerOn`),
also after one that stopped half way. `program` is the program that runs, `step`
its stage.

| code | action |
|---|---|
| search, `boot.asm` 63-111 and `loader.asm` 138-185 | `SearchSector`, `LoaderNotFound` |
| loading a cluster, `boot.asm` 131-154 | `LoadCluster` |
| the lookup, 155-164, with `DecodeFAT` | `FollowFat`, `JumpToLoader`, `KernelLoaded` |
| a failed read, `boot.asm` 193-213, `loader.asm` 744-748 | `ReadFails`, `ReadFailsAgain` |

Boot sector and loader are near copies of each other and share the actions;
they differ in the file, in where it goes and in what a failed read does.
`si` is the register that counts failed reads, and that the search uses too.

* `RunsWholeFile`: a program that runs is the whole file that was saved, the
  first of its name.
* `MissingIsMissing`: a missing file is reported only when it is missing.
* `BootEnds`: with both files there, the boot ends in the loaded kernel, or in a
  halt of the boot sector after a failed read.

### MC modules, mutants

The MC modules define the layouts, maps, directives, messages and vectors of the
runs, and the symmetry of names and contents where they are only compared. An
operator named `<definition>_<what is wrong>` is a mutant: a plausible bug in the
code of that definition. Substituted for it, it makes the property named in
`PROJECT.json` fail, which shows that the property depends on the code.

## 4. The runs

| run | question | bounds |
|---|---|---|
| `alloc_small` | (S) properties, `IInv` and refinement | words of 3 bits, 9 frames, DMA zone 1-3, NORMAL zone 4-7, kernel frame 1, requests of 1-3, frees of 0 and 2 |
| `alloc_any` | properties for all requests, and every call returns | words of 2 bits, zones 0-3 and 5-8 with a hole, requests of 0, 1 and 4 frames, shared frames |
| `alloc_wrap` | what remains true when the loop bound wraps and the search leaves the zone | words of 6 bits, a zone of one frame, requests of 1, 3 and 4 |
| `init_map` | `init_memory` | all maps of up to two entries in 10 units, all sorted maps of three, some of four with three kept |
| `image_files` | files and clusters, when commands may stop | 4 free clusters, 2 slots, 2 names, one that is never found, 2 contents, files of 0, 2 and 3 clusters |
| `printf_text` | formatting | a buffer of 6, shorts of 2 bits, ints of 3, longs of 5; one directive, with any literals before and after it; all sets of flags |
| `console_screen` | drawing | 4 x 2 cells, tab stops every 2, messages of all kinds in any order |
| `machine_start` | loader and start of the kernel | a map of up to 3 entries, 2 of them below the block, lists of up to 2 of 3 modes, ten vectors |
| `floppy_boot` | booting an image | as `image_files`, with the names of the two programs, one content, files of 1 and 2 clusters, one entry in a directory sector, 2 tries |
| `alloc_double_grant`, `boot_retries`, `printf_unsigned` | section 7 | as above; `boot_retries` with the 5 tries of the code |

Why these bounds are enough. The search depends on the position modulo the
word, on whether a request fits in the rest of a word, the next word, or takes
whole words, and on the ends of the zone. With words of two or three bits and
zones that begin and end inside a word every combination occurs; a zone holds
several grants, so fragmentation does. The zones include one at frame 0, one
next to a hole and one that ends where the next begins. Two units in a frame
give entries that begin and end inside a frame; five frames and a boundary
after the third give regions below, above, across and exactly at it.

For the image, four clusters and two slots give a full disk and a full
directory, chains that are not contiguous, and a stopped file beside a finished
one that took its clusters; three clusters are needed before `del` runs past
the FAT. Contents are symmetric: they are only stored and compared.

For `printf_text` the buffer is shorter than most texts, so that it ends in
every piece of one, and literals before a directive move that place. The widths
of integers are small and different, so that each sign bit is met. One
directive is enough as the code keeps nothing from one to the next but the
position. On a screen of two lines every border is next to a message; the width
is a multiple of the tab stops, as it is on the real one (128 and 8). The ten
vectors are one for each way an exception is delivered: with and without an
error code, contributory to a double fault or not, reserved, and of the
controllers. The disk of `image_files` and `floppy_boot` has one cluster fewer than its FAT, so
that files reach past its end; a directory sector of one entry makes the search
read a second one.

`CounterMod` is small so that the counters wrap within a few calls, as the real
ones do after the first decrement below zero. `ClaimBound` bounds the grants of
one frame that are outstanding at once, by accepting no request beyond it; in
the runs of (S) it is never reached, as no frame has two.

`alloc_small` and `alloc_any` check for deadlock. In the others behaviours end:
in `halted` and `wild`, in the return of `init_memory` or `vsnprintf`, in a handler's
loop, in a program that halts or was loaded.

Fairness. `FairSpec` of `PageAlloc` asks weak fairness of the steps of a call under
way, and none of the start of calls. The kernel has one thread, its interrupts are
masked and no code yields, so a call that is running takes its next step. The
same holds of the loop of `Console` (`FairSpec`), and of each of the loader, the start
of the kernel and the delivery of an exception (`MachineFairSpec`). None of them
asks that a message is printed or an exception raised. `FloppyFairSpec` is
strongly fair to a read that succeeds: a drive that fails from time to time
reads a sector in the end when it is asked for again and again. That is an
assumption on the drive, and the loader, which counts nothing, needs it.

## 5. The proofs

Each proof module extends the module it is about. Its theorems name the property of
the runs they state; the assumptions are the named ones of the module, no more. An
inductive invariant that is not obvious was checked by TLC first.

`NumberLemmas` has what several of them need. The library's induction theorems
take an operator, which the provers cannot be given; `LeastNumber` says the same of
sets: a claim that fails for some number fails for a least one. Sums over a set are
the cardinality of a set of pairs (`SumOver`), and counters that wrap are followed
through a division with remainder (`ModAdd`, `ModSubtract`).

### PageAllocProof

Words and counters of any size (the counter larger than all
frames and two words together, `CounterAssumption`), any number of frames and
disjoint zones inside the page array, kernel frames anywhere but frame 0.

* `TypeCorrect`: `TypeOK`.
* `BitmapAgrees`: `BitmapAgreesWithFlags`, for all requests. It is inductive
  with `TypeOK`: the bit and the flag of a frame change in the same step.
* `CountersAreRight`: `CountersFollowFrames`, for all requests.
  `CountersInv` is the property with its sums as numbers of pairs (`SumOver`), so that what a
  step adds to one zone is added to the sum; `FreeRange` keeps the
  range of a free inside the array.
* `Invariance`: under `SmallRequests`, `IInv`. From it follow `NoFrameGrantedTwice`,
  `NothingLost`, `KernelSafe`, `GrantsStayInZone`, `LongRunsFound` and
  `Refinement`, the theorems for the (S) properties by name.

Why `IInv`. No double grant is not inductive: that the marking loop may go on
depends on what the search saw, several steps ago. `MarkInv` keeps it: of the
run being marked nobody holds a frame, and the bits set are those before the
current one. `FreeInv` says the same of a free: the claims of the whole run were
given up at the start, the bits go one by one. `HeldIffMarked` closes the
circle: a clear bit means that nobody holds the frame, so the search is right
to believe it. `SearchInv` keeps what the search has ruled out: every run of
2n - 1 frames that ends n frames before the position has a set bit.
`RefCountsUse` says that a used frame has one reference, so that a free
releases it. The step from the search to the marking loop is where
`SmallRequests` is needed: only then does `Probed` cover the request
(`ProbedCovers`), and does the loop bound not wrap.

### InitMemoryProof

From `UnitAssumption`, `MapAssumption` and `ArrayAssumption`: any frame size, any set of
maps and any sizes of the structures. `InitInvariance` proves `InitInv`,
with a part for each loop: `MapInv` (the map and where a loop is in it), `CountInv`
(the total and `max_pfn` are those of the entries counted so far), `BitmapInv` (a bit that is
set is a frame of an entry that is not RAM), `ZonesInv` (each zone is a piece of an entry
before `i`, on one side of the boundary, and their pages are those counted of the same
entries), `FramesInv` (a frame of a zone names that zone and is free).

* `AllocatorIsReady`, `GrantedFramesAreRam`, `TotalIsCountedRight`, `ZoneCheckNeverFires`,
  `ZonesAreSplit`: the properties of the run. What they need is that the loops agree on
  the rounding: a frame of an entry, as `ClearBitmap` finds it, is one
  of its zone, as `MakeZones` does, and one the count has counted. `FramesApart` gives it for
  disjoint entries, which share no frame even when they share a boundary inside one.

### Fat12ImageProof

From `SizeAssumption`: any number of clusters and slots, any files, a stop before any
write. `FilesInvariance` proves `FileInv`, for images that no deletion of a
stopped save has damaged:

* `ImageInv`: the file of a slot is a chain that ends after as many clusters as its
  size asks for and holds its contents block by block; two files share no cluster.
* `StageInv`: at each place of a command, how far it is. A save has linked the first free
  entries in order, in its copy of the FAT, and written the data of each; on the disk
  all of them are still free, so a stop loses nothing. A del has cleared the entry
  in the directory before those in the FAT.
* `CleanInv`: without a stop, the entries in use are those of the files.

`SavedFilesStayWhole`, `ClustersAreAccountedFor` and `DamageComesFromMisuse` follow. `Chain`, the
reference of `FilesStayWhole`, is recursive over the FAT; `ChainFollowed` and `ChainCleared` show by
induction what it gives for a whole file and what `del` makes of it.

`ImageTypeCorrect` holds in damaged images too, where neither chain nor length is
what the directory says. `SaveFindsClusters` says that a save never runs out of free
clusters half way (its return at `fat12img.py` 208-210): the space it saw at its start
is still there, less what it took.

### PrintfProof

From the four assumptions of `Printf`: a buffer of any size, words of any width, any
directives whose arguments are of the kind their conversion asks for. `WordAssumption`
is arithmetic that the provers do not have, of powers of two. `EndlessAssumption` is
about the model alone: the buffer without end has room for what a directive writes.

* `TerminatorIsPlaced`, `CutTextIsPrefix`: `TerminatorPlaced`, `TruncatedIsPrefix`. The invariant
  compares the text with the one in a buffer without end: they are equal while there is
  room (`Agree`). Inside `number` that is too much: a prefix is left out when
  there is room for one character only, and then the texts differ from there on
  (`Almost`). It is restored because a number has a digit, which takes that last place,
  the last of the buffer (`WriteCloses`). The text cut is never longer than the whole one and,
  when it fills the buffer, the whole one is no shorter than that (`WriteReaches`): so the place of
  the terminator is known from the whole text. That `DigitsOf` gives a text at all, and not an
  empty one, is an induction over the number (`ListExists`, `ListedLengths`).
* `FieldsAreFilled`: `FieldsFilled`. Without an end, a number is blanks, sign, prefix,
  zeros, digits, blanks, and the padding is split between them (`NumberLayout`); lengths and
  beginnings follow by arithmetic (`PlainLayout`, `NumberField`).
* `NumbersAreRead`: `NumbersReadBack`. `ValueOf` is recursive over the text, `DigitsOf` over
  the number. What stands before the digits leaves the value zero (`SilentKeeps`), the digits of
  `n` make it `n` by induction over `n` (`DigitsRead`), and blanks after them leave it.
  `SignedIsTheOne` shows that sign extension gives the one signed number with the
  word's bits: `-2^(bits-1)`, whose magnitude is no signed number, is among them.

### ConsoleProof

From `ConsoleAssumption`, and for the tape `TabAssumption` (a line is a whole number of tab
stops, 128 columns of 8) and `ReportAssumption` (no handler reports with an empty text): any
screen and tab width, any messages.

* `TypeCorrect`, `CursorStaysOnScreen`: `TypeOK`, `CursorOnScreen`. The two are inductive
  together: the cell a glyph is drawn in is a cell of `screen` only when the cursor is on it,
  and the cursor stays there as each iteration ends in `Wrapped`, whose argument is at most
  one past a border. `TabStop` needs the division by the tab width, which is a
  lemma of its own.
* `MessagesAreDrawn`, `ReportsAreDrawn`: `ScreenShowsText`, `ReportShown`. The reference `Rendered`
  is recursive over the text; `RenderStep` unfolds it by one character, and for each
  kind of character a lemma shows that the code's move of the cursor is the tape's
  (`PlaceRight`, `PlaceBelow`, `PlaceLeft`, `TabOnTape`), at line ends and at the end of the screen
  too. In the middle of a tab the screen is between two texts; `TabInv` says how far,
  which is where a line must be a whole number of tab stops.

### MachineStartProof

From the assumptions of `KernelStart` and `LoaderSetup`: any
set of vectors, any memory map, any list of modes.

* `StartInvariance`: `StartInv`, that is `GateInv` (the loop of `setup_idt` gives every
  vector some gate before any gets its own, so none is missing from the end of
  the first loop on), `InterruptInv` (interrupts go on after the controllers are
  masked) and `PageInv` (which tables are in use at each step, and when the low half
  goes from them and from the TLB). From it follow `StepsFindTheirPages`,
  `LowHalfIsGone` and `InterruptsFindGates`. It is a statement about every step by
  its place, as each property speaks of one place and the facts it needs are
  established many steps before.
* `ReadyNeverShutsDown`: `NoShutdownOnceReady`, from `StartInv` and `TrapInv`: an exception
  raised when the gates are ready is delivered, or is an NMI without a stack
  that becomes a page fault, whose gate is there and names no stack; so a
  double fault is never raised, and never fails.
* `ExceptionsAreReported`: `ExceptionsReported`. `OwnInv` says which gate each vector has while
  `setup_idt` runs, `ReportInv` what is in the frame at each stage of a delivery: the error
  code in its place or a zero pushed for it, the address below it.
* `SetupInvariance`: `MapInv`, the places below the VBE block hold the entries read so
  far, and `ModeInv`, block and candidate are set together; `MapArrives` and
  `ModeIsDescribed` follow. `MachineTypeCorrect`: `MachineTypeOK`.

### FloppyBootProof

From the assumptions of `Fat12Image` and `FloppyBoot`: any
directory, any number of entries in a sector, any commands and any failed reads,
on a disk that has no more clusters than its FAT has entries.

* `SearchMissesNothing`: `MissingIsMissing`. The property speaks of the end of the
  search, so `SearchInv` gathers it sector by sector: the sector to read next is the
  number of sectors less those left, and no entry of the sectors before it has
  the name. `SectorsHoldSlots` says that the number of sectors, which is rounded up,
  reaches the last entry; without it the end of the search would not mean that
  all were seen.
* `BootInvariance`, `ProgramsAreWhole`: `RunsWholeFile`, from `FileInv` of the image and `LoadInv`: the
  memory of a program holds the blocks of its file before the present one, and `cluster` is
  that block's cluster in the chain. The image does not change while a program is
  read, so its chains are those that `FileInv` describes.
* `BootTypeCorrect`: `BootTypeOK`. `CountInv` bounds the count of failed reads by the register it
  shares with the search; `ClusterInv` says that only a cluster that was read is
  looked up, so that the lookup stays in the FAT.

### Model-checked only

The liveness properties `CallReturns`, `MessagesEnd`,
`MachineStarts` and `BootEnds`: liveness is out of the prover's reach. Every other
property of a passing run is a theorem.

## 6. What is not modelled

* Of the allocator: logging; the reload of CR3 after a free (there is one
  processor and no mapping changes); frees of frames the caller does not hold or
  past the array; what happens after an access outside the arrays.
* Of `init_memory`: the kernel's address fields, which are only printed, and
  addresses that wrap at 2^64.
* Of the image tool: `write`, which puts a file at a sector and knows neither FAT
  nor directory (the build uses it for sector 0 only); `dir`, which changes nothing (it calls a method
  `DirInfo` does not have, `fat12img.py` 305, and prints no entry);
  dates and times; the second FAT.
* Of formatting: the store of `%n`; base 8, which no directive
  asks for. Of drawing: pixels, colours and glyphs (`font.h` is data), resolutions
  that are no whole number of characters.
* Of exceptions: one while a character is drawn, a second one from a handler;
  machine checks, which are not enabled in CR4; the branch of `dispatch_exception` for a
  vector without a handler, which no stub passes. A handler is modelled by what
  it is handed: the page fault's prints CR2 in place of RIP, the NMI's no
  error code. The general registers of `struct register_frame` are two places away
  from where `trap_entry.S` pushes them, as it pushes DS and ES last; nothing reads
  them (`Saved`, `Fields`).
* Of the loader: its messages, A20, the copy of the kernel through a buffer below
  1 MB, exceptions before the kernel. Of the BIOS, only the answers.
* Of booting: programs whose file is empty, lies past the disk or is left of a
  save that stopped: `RunsWholeFile` and `BootEnds` do not speak of them, and in the model the
  boot may then run any clusters or read for ever.
* Modelled, but not spoken of by any property (the hazards of `PROJECT.json` that have a
  note only):
  a free run at frame 0 (`FoundAtZero`);
  what a halt in the middle of the marking loop leaves (`MarkHalts`, reached by `alloc_wrap`);
  structures of the kernel that do not fit below the frame buffer (`ClearWild`);
  a kernel that ends inside a frame above 0, which `FreeFramesAreUsableRam` excludes;
  reserved entries that overlap RAM, whose bits and flags disagree, as `AllocatorReady` assumes
  disjoint entries;
  a list without the wanted mode, which `VideoAsDescribed` excludes;
  a program with a cluster past the disk, which `RunsWholeFile` and `BootEnds` exclude.
* `cpu.h`, `lib.h` and `list.h`: instruction wrappers, string routines and CPUID
  queries without state; the start prints what they return. The build.

## 7. What the code does not do

Comments of the source that a run refutes; `PROJECT.json` quotes each under
`findings`.

* `alloc_double_grant`: a request of more than a word may be granted frames that
  are held, as part of it is not tested.
* `boot_retries`: the boot sector halts before five reads have failed; once a
  file name was searched, after the first.
* `printf_unsigned`: `%u` prints in base 16.

Others are visible in the definitions, which state what the code does:

* `nr_free` is not the number of free pages: `page_init` and `alloc_pages` both
  subtract (`CountersFollowFrames` gives what it is), and `init_memory` charges a
  kernel frame at the end of a zone to that zone though the next one, or none,
  contains it (`ChargedTo`).
* "No contiguous pages" is reported although there are some (`Stride`;
  `SearchFindsLongRuns` gives the runs that are never missed).
* After `nr_free` wrapped, a DMA request longer than the zone searches on above
  16 MB (`InLoop`, `alloc_wrap`).
* The self-test of the bitmap clears its bit where the comment says it restores
  it (`memory.c` 342-343, `TestBitmap`).
* `vsnprintf` writes the terminator past its buffer when the text fills it
  (`printk.c` 408, `Finish`, `TerminatorPlaced`), although its comments count the terminator
  in the size and say that its place is kept (171, 179). It then returns the size less one, where
  the comment promises the length the whole text would have (174, `Returned`).
* `load` never reads a file: `find` returns the number of a slot, and `load` takes it for
  the entry (`fat12img.py` 246, 252), an `AttributeError` for every file that is there (`LoadFails`).
* `save` uses clusters past the end of the disk (`FreeIn`); `del` and `load` do not find
  a file whose extension has fewer than three letters (`Found`).
* A map of more than 25 entries is overwritten by the VBE block
  (`MapReachesKernel`), although `memory.h` 29 allows 64.
* The loader never notices that no mode was found (`NextWord`).
* An NMI is reported as a page fault: the TSS that names its stack is never
  filled (`StackMissing`).
* With `#`, a field is two characters narrower than asked (`Padding`).
