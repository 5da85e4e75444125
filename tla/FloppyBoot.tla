----------------------------- MODULE FloppyBoot -----------------------------
(***************************************************************************)
(* Booting from the floppy image: the boot sector (src/bootloader/boot.asm)*)
(* searches LOADER.KAL and loads it, and the loader (src/bootloader/       *)
(* loader.asm) does the same for KERNEL.KAL.  The image is made by the     *)
(* commands of Fat12Image; it is put into the machine between two of them, *)
(* after one that stopped half way too, and is not written from then on.   *)
(*                                                                         *)
(* Both programs do one thing after the other; what varies is whether a    *)
(* read of the drive fails.  The FAT and a directory sector have buffers   *)
(* of their own during a search or a lookup and are left out.              *)
(***************************************************************************)
EXTENDS Fat12Image

CONSTANTS
    LoaderName,    \* LoaderFileName, "LOADER  KAL"
    KernelName,    \* KernelFileName, "KERNEL  KAL"
    SectorSlots,   \* directory entries in a sector (16)
    ReadTries,     \* failed reads the boot sector counts to (5)
    SegmentRoom,   \* clusters in the segment of the loader (128)
    KernelRoom     \* clusters of RAM from 1 MB on

ASSUME BootAssumption ==
    /\ {LoaderName, KernelName} \subseteq Names /\ LoaderName # KernelName
    /\ SectorSlots \in Nat \ {0} /\ ReadTries \in Nat \ {0}
    /\ SegmentRoom \in Nat \ {0} /\ KernelRoom \in Nat \ {0}
    /\ DiskClusters \in Nat /\ DiskClusters <= FatEntries

RootDirSectors == (DirSlots + SectorSlots - 1) \div SectorSlots
DirSectors     == 0 .. RootDirSectors - 1

VARIABLES
    program,   \* the program that runs: "none", "boot" or "loader"
    step,      \* what it does next: "off", "dir", "load", "fat", or how it ended
    left,      \* RootDirSearchLoop, RootDirSizeForLoop
    sector,    \* SectorNumber, SectorNo: the directory sector to read
    cluster,   \* the cluster to load, or whose entry is looked up
    at,        \* where the cluster goes, in clusters from the load address
    memory,    \* what each program has loaded
    si,        \* register SI, ReadTries standing for this and anything above
    fails      \* history: how often the current read has failed

bootVars == <<program, step, left, sector, cluster, at, memory, si, fails>>

Programs == {"boot", "loader"}
Wanted(p) == IF p = "boot" THEN LoaderName ELSE KernelName
Room(p)   == IF p = "boot" THEN SegmentRoom ELSE KernelRoom

Min2(a, b) == IF a < b THEN a ELSE b

BootInit ==
    /\ program = "none" /\ step = "off"
    /\ left = 0 /\ sector = 0 /\ cluster = 0 /\ at = 0 /\ si = 0 /\ fails = 0
    /\ memory = [p \in Programs |-> [k \in 1 .. Room(p) |-> NoData]]

Begin(p) ==
    /\ program' = p /\ step' = "dir"
    /\ left' = RootDirSectors /\ sector' = 0 /\ cluster' = 0 /\ at' = 0
    /\ fails' = 0

\* The BIOS jumps to the boot sector; SI holds what the BIOS left there.
PowerOn(s) ==
    /\ pc = "idle" /\ step = "off"
    /\ Begin("boot")
    /\ si' = s
    /\ UNCHANGED memory

-----------------------------------------------------------------------------
(***************************************************************************)
(* The search.  All entries of a sector are compared, with their blanks;   *)
(* an empty one does not end the search.  SI points into the name from the *)
(* first comparison on, and that is more than ReadTries.                   *)
(***************************************************************************)
SlotsOf(d) == {s \in Slots : (s - 1) \div SectorSlots = d}
Named(n)   == {s \in Slots : IsFile(dir[s]) /\ dir[s].name = n}
Hits(d)    == SlotsOf(d) \cap Named(Wanted(program))

\* Operators named <definition>_<what is wrong> are mutants, as in Fat12Image.
NotFound_Early == step = "dir" /\ left = 1

NotFound == step = "dir" /\ left = 0

LoaderNotFound ==
    /\ NotFound
    /\ step' = "notfound"
    /\ UNCHANGED <<program, left, sector, cluster, at, memory, si, fails>>

SearchSector_SameAgain ==
    /\ step = "dir" /\ ~NotFound
    /\ left' = left - 1
    /\ si' = ReadTries
    /\ fails' = 0
    /\ cluster' = IF Hits(sector) = {} THEN cluster ELSE dir[Min(Hits(sector))].cluster
    /\ step' = IF Hits(sector) = {} THEN step ELSE "load"
    /\ UNCHANGED <<program, at, memory, sector>>

\* The directory sector was read.
SearchSector ==
    /\ step = "dir" /\ ~NotFound
    /\ left' = left - 1
    /\ si' = ReadTries
    /\ fails' = 0
    /\ IF Hits(sector) = {}
       THEN /\ sector' = sector + 1
            /\ UNCHANGED <<step, cluster>>
       ELSE /\ cluster' = dir[Min(Hits(sector))].cluster
            /\ step' = "load"
            /\ UNCHANGED sector
    /\ UNCHANGED <<program, at, memory>>

-----------------------------------------------------------------------------
(***************************************************************************)
(* The file.  A cluster is the sector 31 + cluster: 0 and 1 lie in the     *)
(* directory, and from DiskClusters on no sector is there.  The loader's   *)
(* offset has 16 bits; the kernel is copied upwards from 1 MB.             *)
(***************************************************************************)
OnDisk(c) == c < DiskClusters

LoadCluster ==
    /\ step = "load" /\ OnDisk(cluster)
    /\ memory' = IF at + 1 \in DOMAIN memory[program]
                 THEN [memory EXCEPT ![program][at + 1] = data[cluster]]
                 ELSE memory
    /\ step' = "fat"
    /\ fails' = 0
    /\ UNCHANGED <<program, left, sector, cluster, at, si>>

NextAt(n) == IF program = "boot" THEN (n + 1) % SegmentRoom ELSE Min2(n + 1, KernelRoom)

\* Only 0xFFF ends a chain.
ChainEnds(c) == c = LastMark

FollowFat_Restart ==
    /\ step = "fat" /\ ~ChainEnds(fat[cluster])
    /\ cluster' = fat[cluster]
    /\ at' = at
    /\ step' = "load"
    /\ fails' = 0
    /\ UNCHANGED <<program, left, sector, memory, si>>

FollowFat ==
    /\ step = "fat" /\ ~ChainEnds(fat[cluster])
    /\ cluster' = fat[cluster]
    /\ at' = NextAt(at)
    /\ step' = "load"
    /\ fails' = 0
    /\ UNCHANGED <<program, left, sector, memory, si>>

\* The boot sector jumps to the loader, which starts with a search of its own.
JumpToLoader ==
    /\ program = "boot" /\ step = "fat" /\ ChainEnds(fat[cluster])
    /\ Begin("loader")
    /\ UNCHANGED <<memory, si>>

\* What the loader does from here on is in LoaderSetup.
KernelLoaded ==
    /\ program = "loader" /\ step = "fat" /\ ChainEnds(fat[cluster])
    /\ step' = "loaded"
    /\ UNCHANGED <<program, left, sector, cluster, at, memory, si, fails>>

-----------------------------------------------------------------------------
(***************************************************************************)
(* A read of the drive failed.  The boot sector adds one to SI and gives   *)
(* up when it is ReadTries or more; SI is not set before a read.  The      *)
(* loader tries again, for ever.                                           *)
(***************************************************************************)
Reading == (step = "dir" /\ ~NotFound) \/ step \in {"load", "fat"}

ReadFails ==
    /\ program = "boot" /\ Reading
    /\ si' = Min2(si + 1, ReadTries)
    /\ fails' = fails + 1
    /\ step' = IF si + 1 >= ReadTries THEN "halted" ELSE step
    /\ UNCHANGED <<program, left, sector, cluster, at, memory>>

ReadFailsAgain ==
    /\ program = "loader" /\ Reading
    /\ fails' = Min2(fails + 1, ReadTries)
    /\ UNCHANGED <<program, step, left, sector, cluster, at, memory, si>>

-----------------------------------------------------------------------------
ReadSucceeds == SearchSector \/ LoadCluster \/ FollowFat \/ JumpToLoader \/ KernelLoaded

BootNext ==
    \/ \E s \in 0 .. ReadTries : PowerOn(s)
    \/ LoaderNotFound
    \/ ReadSucceeds
    \/ ReadFails \/ ReadFailsAgain

FloppyInit == Init /\ BootInit

FloppyNext ==
    \/ step = "off" /\ Next /\ UNCHANGED bootVars
    \/ BootNext /\ UNCHANGED vars

FloppySpec == FloppyInit /\ [][FloppyNext]_<<vars, bootVars>>

\* A processor that runs goes on, and a sector that is read again and again is
\* read some time.
FloppyFairSpec ==
    /\ FloppySpec
    /\ WF_<<vars, bootVars>>(LoaderNotFound /\ UNCHANGED vars)
    /\ SF_<<vars, bootVars>>(ReadSucceeds /\ UNCHANGED vars)

-----------------------------------------------------------------------------
\* The file of that name the search finds first was saved completely, is not
\* empty, and lies on the disk.
Bootable(n) ==
    /\ Named(n) # {} /\ ~misused
    /\ LET s == Min(Named(n))
       IN  /\ IsStored(s) /\ stored[s].size > 0
           /\ \A c \in ClustersOf(dir[s]) : OnDisk(c)

\* A program keeps to its stages, the search has read one sector for each it has
\* counted down, and every cluster a lookup gives is an entry or the media type; the
\* image keeps the types of Fat12Image.
BootTypeOK ==
    /\ TypeOK
    /\ program \in Programs \cup {"none"}
    /\ step \in {"off", "dir", "load", "fat", "loaded", "notfound", "halted"}
    /\ left \in 0 .. RootDirSectors
    /\ step = "dir" => sector = RootDirSectors - left
    /\ cluster \in Entries \cup {Media}
    /\ \A p \in Programs : DOMAIN memory[p] = 1 .. Room(p)
    /\ si \in 0 .. ReadTries /\ fails \in 0 .. ReadTries
    /\ at \in 0 .. KernelRoom \cup 0 .. SegmentRoom - 1

\* When a program that was loaded runs, its memory holds the whole file that was
\* saved under its name, from the first block to the last, and nothing after it:
\* whatever was saved, deleted or stopped before, wherever the clusters lie, and
\* however often reads failed.
RunsWholeFile ==
    \A p \in Programs :
        (IF p = "boot" THEN program = "loader" ELSE step = "loaded") /\ Bootable(Wanted(p)) =>
            LET f == stored[Min(Named(Wanted(p)))]
            IN  Clusters(f.size) <= Room(p) =>
                    \A k \in 1 .. Room(p) :
                        memory[p][k] = IF k <= Clusters(f.size) THEN Blocks(f)[k] ELSE NoData

\* A program reports that a file is missing only after it has looked at every
\* entry, and no entry has the name.
MissingIsMissing == step = "notfound" => Named(Wanted(program)) = {}

\* When both files are there, whole and on the disk, the boot sector starts the
\* loader or halts on a read that failed, and the loader loads the kernel, as often
\* as its reads may fail.
BootEnds ==
    /\ program = "boot" /\ Bootable(LoaderName) ~> program = "loader" \/ step = "halted"
    /\ program = "loader" /\ Bootable(KernelName) ~> step = "loaded"

-----------------------------------------------------------------------------
(***************************************************************************)
(* What a comment of the source says, and the code does not do: a run      *)
(* refutes it.                                                             *)
(***************************************************************************)

\* The boot sector tries a read again, and gives up when five tries have failed.
GivesUpAfterAllTries == step = "halted" => fails >= ReadTries
=============================================================================
