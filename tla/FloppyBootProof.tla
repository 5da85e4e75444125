--------------------------- MODULE FloppyBootProof ---------------------------
(***************************************************************************)
(* Theorems about FloppyBoot, for every size of the directory and of its   *)
(* sectors, every image the tool can leave and every failure of a read:    *)
(* the search of boot sector and loader misses no file, and a file they    *)
(* load is the one that was saved.                                         *)
(***************************************************************************)
EXTENDS FloppyBoot, Fat12ImageProof, TLAPS

SectorOf(s) == (s - 1) \div SectorSlots

\* Of the sectors that were read none has the file.
SearchInv ==
    /\ step = "dir" =>
          /\ left \in 0 .. RootDirSectors
          /\ sector = RootDirSectors - left
          /\ \A s \in Slots : SectorOf(s) < sector => s \notin Named(Wanted(program))
    /\ step = "notfound" => Named(Wanted(program)) = {}

-----------------------------------------------------------------------------
\* The number of sectors, rounded up, is a number.
LEMMA SectorsNat == RootDirSectors \in Nat
BY SizeAssumption, BootAssumption, SMT DEF RootDirSectors

\* The sectors hold every slot: none lies behind the last one.
LEMMA SectorsHoldSlots ==
    ASSUME NEW s \in Slots
    PROVE  SectorOf(s) \in Nat /\ SectorOf(s) < RootDirSectors
<1> DEFINE k == SectorSlots
           p == (s - 1) \div k
           q == (DirSlots + k - 1) \div k
<1>1. k \in Nat /\ k > 0 /\ DirSlots \in Nat /\ s \in 1 .. DirSlots
  BY SizeAssumption, BootAssumption DEF Slots
<1>2. p \in Nat /\ p * k <= s - 1
  BY <1>1, SMT
<1>3. q \in Nat /\ DirSlots <= q * k
  BY <1>1, SMT
<1>4. p < q
  <2> HIDE DEF p, q, k
  <2>1. p * k < q * k
    BY <1>1, <1>2, <1>3
  <2> QED
    BY <1>1, <1>2, <1>3, <2>1
<1> QED
  BY <1>2, <1>4 DEF SectorOf, RootDirSectors

\* A search that begins has read nothing.
LEMMA BeginKeeps ==
    ASSUME NEW p \in Programs, Begin(p)
    PROVE  SearchInv'
<1>1. step' = "dir" /\ left' = RootDirSectors /\ sector' = 0
  BY DEF Begin
<1>2. \A s \in Slots : ~(SectorOf(s) < 0)
  BY SectorsHoldSlots
<1> QED
  BY <1>1, <1>2, SectorsNat DEF SearchInv, SectorOf, RootDirSectors, Slots

\* The next sector: a file that is not in it, nor in those before, is in none so far.
LEMMA SearchKeeps ==
    ASSUME SearchInv, SearchSector, UNCHANGED vars
    PROVE  SearchInv'
<1>1. step = "dir" /\ left \in 0 .. RootDirSectors /\ sector = RootDirSectors - left
      /\ left # 0 /\ left' = left - 1 /\ program' = program /\ dir' = dir
  BY DEF SearchInv, SearchSector, NotFound, vars
<1>2. CASE Hits(sector) = {}
  <2>1. step' = "dir" /\ sector' = sector + 1
    BY <1>1, <1>2 DEF SearchSector
  <2>2. left' \in 0 .. RootDirSectors /\ sector' = RootDirSectors - left'
    BY <1>1, <2>1, SectorsNat
  <2>3. ASSUME NEW s \in Slots, SectorOf(s) < sector + 1
        PROVE  s \notin Named(Wanted(program))
    <3>1. CASE SectorOf(s) < sector
      BY <1>1, <3>1 DEF SearchInv
    <3>2. CASE SectorOf(s) = sector
      BY <1>2, <3>2 DEF Hits, SlotsOf, SectorOf
    <3> QED
      BY <1>1, <2>3, <3>1, <3>2, SectorsHoldSlots, SectorsNat
  <2>4. Named(Wanted(program))' = Named(Wanted(program))
    BY <1>1 DEF Named, Wanted
  <2> QED
    BY <2>1, <2>2, <2>3, <2>4 DEF SearchInv, SectorOf, RootDirSectors, Slots
<1>3. CASE Hits(sector) # {}
  BY <1>3 DEF SearchSector, SearchInv
<1> QED
  BY <1>2, <1>3

\* The search reports a missing file when it has no sector left.
LEMMA NotFoundKeeps ==
    ASSUME SearchInv, LoaderNotFound, UNCHANGED vars
    PROVE  SearchInv'
<1>1. step = "dir" /\ left = 0 /\ step' = "notfound" /\ program' = program /\ dir' = dir
  BY DEF LoaderNotFound, NotFound, vars
<1>2. \A s \in Slots : s \notin Named(Wanted(program))
  BY <1>1, SectorsHoldSlots, SectorsNat DEF SearchInv
<1>3. Named(Wanted(program))' = {}
  BY <1>1, <1>2 DEF Named, Wanted
<1> QED
  BY <1>1, <1>3 DEF SearchInv

LEMMA SearchNext == SearchInv /\ [FloppyNext]_<<vars, bootVars>> => SearchInv'
<1> SUFFICES ASSUME SearchInv, [FloppyNext]_<<vars, bootVars>> PROVE SearchInv'
  OBVIOUS
<1>1. CASE step = "off" /\ Next /\ UNCHANGED bootVars
  BY <1>1 DEF SearchInv, bootVars
<1>2. CASE BootNext /\ UNCHANGED vars
  <2>1. CASE (\E s \in 0 .. ReadTries : PowerOn(s)) \/ JumpToLoader
    BY <2>1, BeginKeeps DEF PowerOn, JumpToLoader, Programs
  <2>2. CASE LoaderNotFound
    BY <1>2, <2>2, NotFoundKeeps
  <2>3. CASE SearchSector
    BY <1>2, <2>3, SearchKeeps
  <2>4. CASE LoadCluster \/ FollowFat \/ KernelLoaded
    BY <2>4 DEF LoadCluster, FollowFat, KernelLoaded, SearchInv
  <2>5. CASE ReadFails \/ ReadFailsAgain
    <3>1. /\ step' \in {step, "halted"}
          /\ left' = left /\ sector' = sector /\ program' = program /\ dir' = dir
      BY <1>2, <2>5 DEF ReadFails, ReadFailsAgain, vars
    <3>2. Named(Wanted(program))' = Named(Wanted(program))
      BY <3>1 DEF Named, Wanted
    <3> QED
      BY <3>1, <3>2 DEF SearchInv, SectorOf, RootDirSectors, Slots
  <2> QED
    BY <1>2, <2>1, <2>2, <2>3, <2>4, <2>5 DEF BootNext, ReadSucceeds
<1>3. CASE UNCHANGED <<vars, bootVars>>
  <2>1. Named(Wanted(program))' = Named(Wanted(program))
    BY <1>3 DEF Named, Wanted, vars, bootVars
  <2> QED
    BY <1>3, <2>1 DEF SearchInv, bootVars, SectorOf, RootDirSectors, Slots
<1> QED
  BY <1>1, <1>2, <1>3 DEF FloppyNext

\* "LOADER.KAL not found!" is printed only when no entry has the name, however many
\* entries and sectors there are and however often reads failed (boot.asm 70-128).
THEOREM SearchMissesNothing == FloppySpec => []MissingIsMissing
<1>1. FloppyInit => SearchInv
  BY DEF FloppyInit, BootInit, SearchInv
<1>2. SearchInv => MissingIsMissing
  BY DEF SearchInv, MissingIsMissing
<1> QED
  BY <1>1, <1>2, SearchNext, PTL DEF FloppySpec

-----------------------------------------------------------------------------
(***************************************************************************)
(* What is loaded.                                                         *)
(***************************************************************************)
FirstSlot(p) == Min(Named(Wanted(p)))
FileLoaded(p) == stored[FirstSlot(p)]
Length(p) == Clusters(FileLoaded(p).size)
ChainOf(p) == Chain(dir[FirstSlot(p)])

\* The file p looks for is there, and its memory has room for it.
Loadable(p) == Bootable(Wanted(p)) /\ Length(p) <= Room(p)

\* p has loaded the first n blocks of its file, and nothing else.
Holds(p, n) ==
    \A k \in 1 .. Room(p) :
        memory[p][k] = IF k <= n THEN <<FileLoaded(p).content, k>> ELSE NoData

Untouched(p) == memory[p] = [k \in 1 .. Room(p) |-> NoData]

\* The cluster that is loaded or looked up is the one the chain has there.
InChain(p) == at \in Nat /\ at < Length(p) /\ cluster = ChainOf(p)[at + 1]

\* Which memory is filled, and how far, at each step.
LoadInv ==
    /\ program \in Programs \cup {"none"}
    /\ step \in {"off", "dir", "load", "fat", "loaded", "notfound", "halted"}
    /\ step = "off" <=> program = "none"
    /\ DOMAIN memory = Programs /\ \A p \in Programs : DOMAIN memory[p] = 1 .. Room(p)
    /\ program = "none" => Untouched("boot")
    /\ program # "loader" => Untouched("loader")
    /\ step = "dir" => Untouched(program) /\ at = 0
    /\ program = "loader" /\ Loadable("boot") => Holds("boot", Length("boot"))
    /\ step = "loaded" => program = "loader"
    /\ program # "none" /\ Loadable(program) =>
          /\ step = "load" => InChain(program) /\ Holds(program, at)
          /\ step = "fat"  => InChain(program) /\ Holds(program, at + 1)
          /\ step = "loaded" => Holds(program, Length(program))

BootInv == FileInv /\ SearchInv /\ LoadInv

-----------------------------------------------------------------------------
\* What the image holds of a file that can be loaded.
LEMMA LoadableFacts ==
    ASSUME FileInv, NEW p \in Programs, Loadable(p)
    PROVE  /\ Length(p) \in Nat /\ 0 < Length(p) /\ Length(p) <= Room(p)
           /\ ChainOf(p) \in [1 .. Length(p) -> Usable]
           /\ ChainOf(p)[1] = dir[FirstSlot(p)].cluster
           /\ \A k \in 1 .. Length(p) :
                 /\ fat[ChainOf(p)[k]] = IF k = Length(p) THEN LastMark ELSE ChainOf(p)[k + 1]
                 /\ data[ChainOf(p)[k]] = <<FileLoaded(p).content, k>>
<1>1. PICK s : s = FirstSlot(p)
  OBVIOUS
<1>2. ~misused /\ Named(Wanted(p)) # {} /\ IsStored(s) /\ stored[s].size > 0
      /\ Length(p) <= Room(p)
  BY <1>1 DEF Loadable, Bootable, FirstSlot
<1>3. ImageInv
  BY <1>2 DEF FileInv
<1>4. s \in StoredAt
  <2>1. Named(Wanted(p)) \in SUBSET Slots /\ Slots \subseteq Nat
    BY SizeAssumption DEF Named, Slots
  <2> QED
    BY <1>1, <1>2, <2>1, MinOf DEF FirstSlot, StoredAt
<1>5. FileWhole(s) /\ stored[s] \in Files /\ Clusters(dir[s].size) \in Nat
  BY <1>3, <1>4, StoredClusters DEF ImageInv
<1>6. dir[s].size = stored[s].size /\ Clusters(dir[s].size) = Length(p)
  BY <1>1, <1>5 DEF FileWhole, Length, FileLoaded
<1>7. 0 < Length(p)
  <2>1. dir[s].size \in Nat /\ 0 < dir[s].size
    BY <1>2, <1>5, <1>6, FilesAreStored
  <2>2. 0 * ClusterUnits < dir[s].size
    BY <2>1, SizeAssumption
  <2> QED
    BY <1>6, <2>1, <2>2, ClustersHold
<1>8. IsChain(fat, dir[s], ChainOf(p)) /\ DOMAIN ChainOf(p) = 1 .. Length(p)
      /\ \A k \in DOMAIN ChainOf(p) : data[ChainOf(p)[k]] = <<stored[s].content, k>>
  BY <1>1, <1>3, <1>4, <1>5, <1>6, StoredClusters DEF FileWhole, ChainOf
<1> QED
  BY <1>1, <1>2, <1>5, <1>6, <1>7, <1>8 DEF IsChain, FileLoaded

\* The search stops at the first slot that has the name.
LEMMA SearchFinds ==
    ASSUME SearchInv, step = "dir", Hits(sector) # {}
    PROVE  Min(Hits(sector)) = FirstSlot(program) /\ FirstSlot(program) \in Slots
<1>1. PICK N : N = Named(Wanted(program))
  OBVIOUS
<1>2. N \in SUBSET Slots /\ N \in SUBSET Nat /\ Hits(sector) = {s \in N : SectorOf(s) = sector}
  BY <1>1, SizeAssumption DEF Named, Slots, Hits, SlotsOf, SectorOf
<1>3. PICK m : m = FirstSlot(program)
  OBVIOUS
<1>4. N # {} /\ Hits(sector) \in SUBSET Nat
  BY <1>2
<1>5. m \in N /\ \A s \in N : m <= s
  BY <1>1, <1>2, <1>3, <1>4, MinOf DEF FirstSlot
<1>6. PICK h \in N : SectorOf(h) = sector
  BY <1>2
<1>7. SectorOf(m) <= SectorOf(h)
  <2> DEFINE k == SectorSlots
             a == m - 1
             b == h - 1
  <2>1. k \in Nat /\ k > 0 /\ a \in Nat /\ b \in Nat /\ a <= b
    BY <1>2, <1>5, <1>6, BootAssumption DEF Slots
  <2>2. a \div k <= b \div k
    <3> HIDE DEF a, b, k
    <3> QED
      BY <2>1
  <2> QED
    BY <2>2 DEF SectorOf
<1>8. ~(SectorOf(m) < sector)
  BY <1>1, <1>2, <1>5 DEF SearchInv
<1>9. m \in Hits(sector)
  BY <1>2, <1>5, <1>6, <1>7, <1>8, SectorsHoldSlots
<1>10. Min(Hits(sector)) \in Hits(sector) /\ \A x \in Hits(sector) : Min(Hits(sector)) <= x
  BY <1>4, MinOf
<1>11. Min(Hits(sector)) = m
  BY <1>2, <1>4, <1>5, <1>9, <1>10
<1> QED
  BY <1>2, <1>3, <1>5, <1>11

\* The image does not change while the programs run.
LEMMA ImageFixed ==
    ASSUME UNCHANGED vars, NEW p
    PROVE  /\ Loadable(p)' <=> Loadable(p)
           /\ FirstSlot(p)' = FirstSlot(p) /\ FileLoaded(p)' = FileLoaded(p)
           /\ Length(p)' = Length(p) /\ ChainOf(p)' = ChainOf(p)
<1>1. dir' = dir /\ fat' = fat /\ stored' = stored /\ misused' = misused
  BY DEF vars
<1>2. Named(Wanted(p))' = Named(Wanted(p))
  BY <1>1 DEF Named, Wanted
<1>3. FirstSlot(p)' = FirstSlot(p) /\ FileLoaded(p)' = FileLoaded(p) /\ Length(p)' = Length(p)
  BY <1>1, <1>2 DEF FirstSlot, FileLoaded, Length, Clusters
<1>4. \A s : Chain(dir[s])' = Chain(dir[s]) /\ ClustersOf(dir[s])' = ClustersOf(dir[s])
  BY <1>1 DEF ClustersOf, Chain, Clusters
<1>5. ChainOf(p)' = ChainOf(p)
  BY <1>1, <1>3, <1>4 DEF ChainOf
<1>6. Bootable(Wanted(p))' <=> Bootable(Wanted(p))
  BY <1>1, <1>2, <1>4 DEF Bootable, Wanted, IsStored, IsFile, OnDisk
<1> QED
  BY <1>3, <1>5, <1>6 DEF Loadable, Room

\* The cluster at hand holds the next block, and its entry leads on until the last.
LEMMA ClusterAtHand ==
    ASSUME FileInv, NEW p \in Programs, Loadable(p), InChain(p)
    PROVE  /\ data[cluster] = <<FileLoaded(p).content, at + 1>>
           /\ fat[cluster] = IF at + 1 = Length(p) THEN LastMark ELSE ChainOf(p)[at + 2]
           /\ at + 1 # Length(p) => at + 1 < Length(p) /\ fat[cluster] # LastMark
           /\ Length(p) \in Nat /\ Length(p) <= Room(p)
<1>1. PICK n : n = Length(p)
  OBVIOUS
<1>2. PICK C : C = ChainOf(p)
  OBVIOUS
<1>3. /\ n \in Nat /\ n <= Room(p) /\ C \in [1 .. n -> Usable]
      /\ \A k \in 1 .. n : /\ fat[C[k]] = IF k = n THEN LastMark ELSE C[k + 1]
                           /\ data[C[k]] = <<FileLoaded(p).content, k>>
  BY <1>1, <1>2, LoadableFacts
<1>4. at \in Nat /\ at < n /\ cluster = C[at + 1]
  BY <1>1, <1>2 DEF InChain
<1>5. at + 1 \in 1 .. n
  BY <1>3, <1>4
<1>6. /\ fat[cluster] = IF at + 1 = n THEN LastMark ELSE C[at + 2]
      /\ data[cluster] = <<FileLoaded(p).content, at + 1>>
  <2>1. (at + 1) + 1 = at + 2
    BY <1>4
  <2> QED
    BY <1>3, <1>4, <1>5, <2>1
<1>7. ASSUME at + 1 # n PROVE at + 1 < n /\ fat[cluster] # LastMark
  <2>1. at + 1 < n /\ at + 2 \in 1 .. n
    BY <1>3, <1>4, <1>7
  <2>2. C[at + 2] \in Usable
    BY <1>3, <2>1
  <2>3. C[at + 2] # LastMark
    BY <2>2, SizeAssumption DEF Usable, Media, LastMark
  <2> QED
    BY <1>6, <1>7, <2>1, <2>3
<1> QED
  BY <1>1, <1>2, <1>3, <1>6, <1>7

\* A memory that stays as it is holds what it held.
LEMMA MemoryFixed ==
    ASSUME UNCHANGED vars, memory' = memory, NEW p, NEW n
    PROVE  (Holds(p, n)' <=> Holds(p, n)) /\ (Untouched(p)' <=> Untouched(p))
BY ImageFixed DEF Holds, Untouched, Room

LEMMA PowerOnLoads ==
    ASSUME LoadInv, UNCHANGED vars, NEW s, PowerOn(s)
    PROVE  LoadInv'
<1>1. /\ program = "none" /\ memory' = memory
      /\ program' = "boot" /\ step' = "dir" /\ at' = 0
  BY DEF PowerOn, Begin, LoadInv
<1>2. Untouched("boot")' /\ Untouched("loader")'
  BY <1>1, MemoryFixed DEF LoadInv
<1> QED
  BY <1>1, <1>2 DEF LoadInv, Programs, Room

\* The search that begins for the kernel: the loader is complete.
LEMMA JumpLoads ==
    ASSUME FileInv, LoadInv, UNCHANGED vars, JumpToLoader
    PROVE  LoadInv'
<1>1. /\ program = "boot" /\ step = "fat" /\ fat[cluster] = LastMark /\ memory' = memory
      /\ program' = "loader" /\ step' = "dir" /\ at' = 0
  BY DEF JumpToLoader, Begin, ChainEnds
<1>2. Untouched("loader")'
  BY <1>1, MemoryFixed DEF LoadInv
<1>3. ASSUME Loadable("boot") PROVE Holds("boot", Length("boot"))
  <2>1. InChain("boot") /\ Holds("boot", at + 1)
    BY <1>1, <1>3 DEF LoadInv
  <2>2. at + 1 = Length("boot")
    BY <1>1, <1>3, <2>1, ClusterAtHand DEF Programs
  <2> QED
    BY <2>1, <2>2
<1>4. Loadable("boot")' => Holds("boot", Length("boot"))'
  BY <1>1, <1>3, ImageFixed, MemoryFixed
<1> QED
  BY <1>1, <1>2, <1>4 DEF LoadInv, Programs, Room

\* The kernel is complete.
LEMMA KernelLoads ==
    ASSUME FileInv, LoadInv, UNCHANGED vars, KernelLoaded
    PROVE  LoadInv'
<1>1. /\ program = "loader" /\ step = "fat" /\ fat[cluster] = LastMark /\ memory' = memory
      /\ program' = "loader" /\ step' = "loaded"
  BY DEF KernelLoaded, ChainEnds
<1>2. ASSUME Loadable("loader") PROVE Holds("loader", Length("loader"))
  <2>1. InChain("loader") /\ Holds("loader", at + 1)
    BY <1>1, <1>2 DEF LoadInv
  <2>2. at + 1 = Length("loader")
    BY <1>1, <1>2, <2>1, ClusterAtHand DEF Programs
  <2> QED
    BY <2>1, <2>2
<1>3. Loadable("boot")' => Holds("boot", Length("boot"))'
  BY <1>1, ImageFixed, MemoryFixed DEF LoadInv
<1>4. Loadable("loader")' => Holds("loader", Length("loader"))'
  BY <1>1, <1>2, ImageFixed, MemoryFixed
<1> QED
  BY <1>1, <1>3, <1>4 DEF LoadInv, Programs, Room

\* The first cluster of the file is found.
LEMMA SearchLoads ==
    ASSUME FileInv, SearchInv, LoadInv, UNCHANGED vars, SearchSector
    PROVE  LoadInv'
<1>1. step = "dir" /\ program' = program /\ memory' = memory /\ at' = at /\ at = 0
      /\ Untouched(program) /\ program \in Programs
  BY DEF SearchSector, LoadInv, Programs
<1>2. \A p : Untouched(p)' <=> Untouched(p)
  BY <1>1, MemoryFixed
<1>3. Loadable("boot")' => (Holds("boot", Length("boot"))' <=> Holds("boot", Length("boot")))
  BY <1>1, ImageFixed, MemoryFixed
<1>4. CASE Hits(sector) = {}
  <2>1. step' = "dir"
    BY <1>1, <1>4 DEF SearchSector
  <2> QED
    BY <1>1, <1>2, <1>3, <2>1, ImageFixed DEF LoadInv, Programs, Room
<1>5. CASE Hits(sector) # {}
  <2>1. step' = "load" /\ cluster' = dir[FirstSlot(program)].cluster
    BY <1>1, <1>5, SearchFinds DEF SearchSector
  <2>2. ASSUME Loadable(program)'
        PROVE  InChain(program)' /\ Holds(program, at)'
    <3>1. Loadable(program)
      BY <1>1, <2>2, ImageFixed
    <3>2. 0 < Length(program) /\ cluster' = ChainOf(program)[1]
      BY <1>1, <2>1, <3>1, LoadableFacts
    <3>3. Length(program)' = Length(program) /\ ChainOf(program)' = ChainOf(program)
      BY <1>1, ImageFixed
    <3>4. InChain(program)'
      BY <1>1, <3>2, <3>3 DEF InChain
    <3>5. Holds(program, 0)
      BY <1>1 DEF Holds, Untouched
    <3>6. Holds(program, at)'
      BY <1>1, <3>5, MemoryFixed, ImageFixed DEF Holds
    <3> QED
      BY <3>4, <3>6
  <2> QED
    BY <1>1, <1>2, <1>3, <2>1, <2>2, ImageFixed DEF LoadInv, Programs, Room
<1> QED
  BY <1>4, <1>5

\* One cluster more is in memory.
LEMMA LoadLoads ==
    ASSUME FileInv, LoadInv, UNCHANGED vars, LoadCluster
    PROVE  LoadInv'
<1>1. /\ step = "load" /\ step' = "fat" /\ program' = program /\ program \in Programs
      /\ at' = at /\ cluster' = cluster
      /\ DOMAIN memory = Programs /\ \A p \in Programs : DOMAIN memory[p] = 1 .. Room(p)
      /\ memory' = IF at + 1 \in DOMAIN memory[program]
                   THEN [memory EXCEPT ![program][at + 1] = data[cluster]] ELSE memory
  BY DEF LoadCluster, LoadInv, Programs
<1>2. /\ DOMAIN memory' = Programs /\ \A p \in Programs : DOMAIN memory'[p] = 1 .. Room(p)
      /\ \A p \in Programs \ {program} : memory'[p] = memory[p]
  BY <1>1
<1>3. program = "boot" => Untouched("loader")'
  BY <1>1, <1>2 DEF LoadInv, Untouched, Programs, Room
<1>4. ASSUME program = "loader", Loadable("boot")' PROVE Holds("boot", Length("boot"))'
  <2>1. memory'["boot"] = memory["boot"]
    BY <1>2, <1>4 DEF Programs
  <2>2. Holds("boot", Length("boot"))
    BY <1>4, ImageFixed DEF LoadInv
  <2> QED
    BY <2>1, <2>2, ImageFixed DEF Holds, Room
<1>5. ASSUME Loadable(program)'
      PROVE  InChain(program)' /\ Holds(program, at + 1)'
  <2>1. Loadable(program) /\ InChain(program) /\ Holds(program, at)
    BY <1>1, <1>5, ImageFixed DEF LoadInv, Programs
  <2>2. InChain(program)'
    BY <1>1, <2>1, ImageFixed DEF InChain
  <2>3. at \in Nat /\ at < Length(program) /\ Length(program) \in Nat
        /\ Length(program) <= Room(program)
        /\ data[cluster] = <<FileLoaded(program).content, at + 1>>
    BY <1>1, <2>1, ClusterAtHand DEF InChain
  <2>4. Room(program) \in Nat
    BY BootAssumption DEF Room
  <2>5. at + 1 \in 1 .. Room(program)
    BY <2>3, <2>4
  <2>6. memory'[program] = [memory[program] EXCEPT ![at + 1] = data[cluster]]
        /\ DOMAIN memory[program] = 1 .. Room(program)
    BY <1>1, <2>5
  <2>7. \A k \in 1 .. Room(program) :
           memory'[program][k] = IF k <= at + 1 THEN <<FileLoaded(program).content, k>> ELSE NoData
    <3> TAKE k \in 1 .. Room(program)
    <3>1. CASE k = at + 1
      <4>1. memory'[program][k] = data[cluster]
        BY <2>6, <3>1
      <4> QED
        BY <2>3, <3>1, <4>1
    <3>2. CASE k # at + 1
      <4>1. memory'[program][k] = memory[program][k] /\ (k <= at <=> k <= at + 1)
        BY <2>3, <2>4, <2>6, <3>2
      <4> QED
        BY <2>1, <4>1 DEF Holds
    <3> QED
      BY <3>1, <3>2
  <2>8. Holds(program, at + 1)'
    BY <1>1, <2>7, ImageFixed DEF Holds, Room
  <2> QED
    BY <2>2, <2>8
<1> QED
  BY <1>1, <1>2, <1>3, <1>4, <1>5 DEF LoadInv, Programs, Room

\* The next cluster of the chain, and the next place in memory.
LEMMA FollowLoads ==
    ASSUME FileInv, LoadInv, UNCHANGED vars, FollowFat
    PROVE  LoadInv'
<1>1. /\ step = "fat" /\ step' = "load" /\ program' = program /\ program \in Programs
      /\ at' = NextAt(at) /\ cluster' = fat[cluster] /\ fat[cluster] # LastMark
      /\ memory' = memory
  BY DEF FollowFat, ChainEnds, LoadInv, Programs
<1>2. Untouched("loader")' <=> Untouched("loader")
  BY <1>1, MemoryFixed
<1>3. Loadable("boot")' => (Holds("boot", Length("boot"))' <=> Holds("boot", Length("boot")))
  BY <1>1, ImageFixed, MemoryFixed
<1>4. ASSUME Loadable(program)'
      PROVE  InChain(program)' /\ Holds(program, at)'
  <2>1. Loadable(program) /\ InChain(program) /\ Holds(program, at + 1)
    BY <1>1, <1>4, ImageFixed DEF LoadInv, Programs
  <2>2. at \in Nat /\ at + 1 < Length(program) /\ Length(program) \in Nat
        /\ Length(program) <= Room(program) /\ cluster' = ChainOf(program)[at + 2]
    BY <1>1, <2>1, ClusterAtHand DEF InChain
  <2>3. NextAt(at) = at + 1
    BY <1>1, <2>2, BootAssumption DEF NextAt, Min2, Room, Programs
  <2>4. InChain(program)'
    <3>1. (at + 1) + 1 = at + 2 /\ at + 1 \in Nat
      BY <2>2
    <3> QED
      BY <1>1, <2>2, <2>3, <3>1, ImageFixed DEF InChain
  <2>5. Holds(program, at)'
    BY <1>1, <2>1, <2>3, MemoryFixed, ImageFixed DEF Holds, Room
  <2> QED
    BY <2>4, <2>5
<1>5. /\ DOMAIN memory' = Programs /\ \A p \in Programs : DOMAIN memory'[p] = 1 .. Room(p)'
      /\ program' # "loader" => Untouched("loader")'
      /\ program' = "loader" /\ Loadable("boot")' => Holds("boot", Length("boot"))'
  BY <1>1, <1>2, <1>3, ImageFixed DEF LoadInv, Room
<1> QED
  BY <1>1, <1>4, <1>5 DEF LoadInv, Programs

\* A step that loads nothing and changes no program or cluster.
LEMMA NothingLoads ==
    ASSUME LoadInv, UNCHANGED vars, UNCHANGED <<program, cluster, at, memory>>,
           \/ step' = step
           \/ step' = "halted" /\ step # "off"
           \/ step' = "notfound" /\ step # "off"
    PROVE  LoadInv'
<1>1. \A p : Untouched(p)' <=> Untouched(p)
  BY MemoryFixed
<1>2. \A p, n : Holds(p, n)' <=> Holds(p, n)
  BY MemoryFixed
<1>3. \A p : InChain(p)' <=> InChain(p)
  BY ImageFixed DEF InChain
<1>4. \A p : /\ Loadable(p)' <=> Loadable(p)
             /\ Holds(p, Length(p))' <=> Holds(p, Length(p))
  BY ImageFixed, MemoryFixed
<1>5. \A p : /\ Holds(p, at)' <=> Holds(p, at)
             /\ Holds(p, at + 1)' <=> Holds(p, at + 1)
  BY ImageFixed, MemoryFixed DEF Holds, Room
<1> QED
  BY <1>1, <1>3, <1>4, <1>5 DEF LoadInv, Programs, Room

LEMMA LoadNext == BootInv /\ [FloppyNext]_<<vars, bootVars>> => LoadInv'
<1> SUFFICES ASSUME FileInv, SearchInv, LoadInv, [FloppyNext]_<<vars, bootVars>>
             PROVE  LoadInv'
  BY DEF BootInv
<1>1. CASE step = "off" /\ UNCHANGED bootVars
  <2>1. program = "none" /\ program' = "none" /\ step' = "off" /\ memory' = memory
    BY <1>1 DEF LoadInv, bootVars
  <2>2. \A p : Untouched(p)' <=> Untouched(p)
    BY <2>1 DEF Untouched, Room
  <2> QED
    BY <2>1, <2>2 DEF LoadInv, Programs, Room
<1>2. CASE BootNext /\ UNCHANGED vars
  <2>1. CASE \E s \in 0 .. ReadTries : PowerOn(s)
    BY <1>2, <2>1, PowerOnLoads
  <2>2. CASE ReadSucceeds
    BY <1>2, <2>2, SearchLoads, LoadLoads, FollowLoads, JumpLoads, KernelLoads DEF ReadSucceeds
  <2>3. CASE LoaderNotFound \/ ReadFails \/ ReadFailsAgain
    BY <1>2, <2>3, NothingLoads DEF LoaderNotFound, NotFound, ReadFails, ReadFailsAgain, Reading
  <2> QED
    BY <1>2, <2>1, <2>2, <2>3 DEF BootNext
<1>3. CASE UNCHANGED <<vars, bootVars>>
  BY <1>3, NothingLoads DEF vars, bootVars
<1> QED
  BY <1>1, <1>2, <1>3 DEF FloppyNext

\* The image stays what the tool made it, and the memory of a program holds as much
\* of its file as it has followed.
THEOREM BootInvariance == FloppySpec => []BootInv
<1>1. FloppyInit => BootInv
  <2> SUFFICES ASSUME FloppyInit PROVE BootInv
    OBVIOUS
  <2>1. FileInv
    BY FreshIsGood DEF FloppyInit, FileInv
  <2>2. SearchInv
    BY DEF FloppyInit, BootInit, SearchInv
  <2>3. LoadInv
    <3>1. /\ program = "none" /\ step = "off" /\ DOMAIN memory = Programs
          /\ \A p \in Programs : memory[p] = [k \in 1 .. Room(p) |-> NoData]
      BY DEF FloppyInit, BootInit
    <3>2. \A p \in Programs : DOMAIN memory[p] = 1 .. Room(p)
      BY <3>1
    <3> QED
      BY <3>1, <3>2 DEF LoadInv, Untouched, Programs
  <2> QED
    BY <2>1, <2>2, <2>3 DEF BootInv
<1>2. BootInv /\ [FloppyNext]_<<vars, bootVars>> => BootInv'
  <2> SUFFICES ASSUME BootInv, [FloppyNext]_<<vars, bootVars>> PROVE BootInv'
    OBVIOUS
  <2>1. [Next]_vars
    BY DEF FloppyNext, vars
  <2>2. FileInv'
    BY <2>1, FileNext DEF BootInv
  <2> QED
    BY <2>2, SearchNext, LoadNext DEF BootInv
<1> QED
  BY <1>1, <1>2, PTL DEF FloppySpec

\* A program that is started, the loader by the boot sector and the kernel by the
\* loader, is in memory as it was saved, from its first block to its last, in spite
\* of commands that stopped and reads that failed (boot.asm 129-166, loader.asm
\* 203-269).
THEOREM ProgramsAreWhole == FloppySpec => []RunsWholeFile
<1>1. BootInv => RunsWholeFile
  <2> SUFFICES ASSUME BootInv, NEW p \in Programs,
                      IF p = "boot" THEN program = "loader" ELSE step = "loaded",
                      Bootable(Wanted(p)), Length(p) <= Room(p), NEW k \in 1 .. Room(p)
               PROVE  memory[p][k] = IF k <= Length(p) THEN Blocks(FileLoaded(p))[k] ELSE NoData
    BY DEF RunsWholeFile, Length, FileLoaded, FirstSlot
  <2>1. Loadable(p)
    BY DEF Loadable
  <2>2. Holds(p, Length(p))
    BY <2>1 DEF BootInv, LoadInv, Programs
  <2>3. Length(p) \in Nat
    BY <2>1, LoadableFacts DEF BootInv
  <2>4. k <= Length(p) => Blocks(FileLoaded(p))[k] = <<FileLoaded(p).content, k>>
    <3>1. Blocks(FileLoaded(p)) = [j \in 1 .. Length(p) |-> <<FileLoaded(p).content, j>>]
      BY DEF Blocks, Length, Clusters
    <3>2. k <= Length(p) => k \in 1 .. Length(p)
      BY <2>3
    <3> QED
      BY <3>1, <3>2
  <2> QED
    BY <2>2, <2>4 DEF Holds
<1> QED
  BY <1>1, BootInvariance, PTL

-------------------------------------------------------------
(* Types.  The boot sector counts failures in SI: of the current read no   *)
(* more failed than SI says, and it is still below ReadTries while a read  *)
(* is tried again.                                                         *)

CountInv ==
    /\ si \in 0 .. ReadTries /\ fails \in 0 .. ReadTries
    /\ program = "boot" /\ step \in {"dir", "load", "fat"} =>
           fails = 0 \/ (fails <= si /\ si < ReadTries)

PlaceInv ==
    /\ at \in 0 .. KernelRoom \cup 0 .. SegmentRoom - 1
    /\ program = "boot" => at \in 0 .. SegmentRoom - 1
    /\ program = "loader" => at \in 0 .. KernelRoom

\* A cluster is looked up in the FAT only after it was read.
ClusterInv ==
    /\ cluster \in Entries \cup {Media}
    /\ step = "fat" => cluster \in Entries

BootTypes == ImageTypes /\ left \in 0 .. RootDirSectors /\ CountInv /\ PlaceInv /\ ClusterInv

LEMMA Sizes0 ==
    /\ ReadTries \in Nat /\ ReadTries > 0 /\ KernelRoom \in Nat /\ KernelRoom > 0
    /\ SegmentRoom \in Nat /\ SegmentRoom > 0 /\ RootDirSectors \in Nat
    /\ 0 \in Entries
BY BootAssumption, SectorsNat, Constants

\* A program that begins.
LEMMA BeginTypes ==
    ASSUME ImageTypes', NEW p \in Programs, Begin(p), si' \in 0 .. ReadTries
    PROVE  BootTypes'
<1>1. program' \in Programs /\ step' = "dir" /\ left' = RootDirSectors /\ cluster' = 0
      /\ at' = 0 /\ fails' = 0
  BY DEF Begin
<1>2. RootDirSectors' = RootDirSectors /\ Entries' = Entries
  BY DEF RootDirSectors, Entries
<1>3. CountInv'
  BY <1>1, Sizes0 DEF CountInv
<1>4. PlaceInv'
  BY <1>1, Sizes0 DEF PlaceInv
<1>5. ClusterInv'
  BY <1>1, <1>2, Sizes0 DEF ClusterInv
<1> QED
  BY <1>1, <1>2, <1>3, <1>4, <1>5, Sizes0 DEF BootTypes

LEMMA SearchTypes ==
    ASSUME BootTypes, ImageTypes', UNCHANGED vars, SearchSector
    PROVE  BootTypes'
<1>1. /\ step = "dir" /\ left # 0 /\ left' = left - 1 /\ si' = ReadTries /\ fails' = 0
      /\ program' = program /\ at' = at
  BY DEF SearchSector, NotFound
<1>2. left' \in 0 .. RootDirSectors
  BY <1>1, Sizes0 DEF BootTypes
<1>3. CountInv'
  BY <1>1, Sizes0 DEF CountInv
<1>4. PlaceInv'
  BY <1>1 DEF BootTypes, PlaceInv
<1>5. ClusterInv'
  <2>1. CASE Hits(sector) = {}
    BY <1>1, <2>1 DEF SearchSector, BootTypes, ClusterInv
  <2>2. CASE Hits(sector) # {}
    <3>1. Hits(sector) \in SUBSET Nat
      BY DEF Hits, SlotsOf, Slots
    <3>2. Min(Hits(sector)) \in Hits(sector)
      BY <2>2, <3>1, MinOf
    <3>3. PICK s \in Slots : s = Min(Hits(sector)) /\ IsFile(dir[s])
      BY <3>2 DEF Hits, SlotsOf, Named
    <3>4. dir[s].cluster \in Entries
      BY <3>3 DEF BootTypes, ImageTypes, EntryOK
    <3>5. cluster' = dir[s].cluster
      BY <2>2, <3>3 DEF SearchSector
    <3> QED
      BY <3>4, <3>5 DEF ClusterInv, Entries
  <2> QED
    BY <2>1, <2>2
<1> QED
  BY <1>2, <1>3, <1>4, <1>5 DEF BootTypes, RootDirSectors

\* The sector of a cluster that was read has an entry.
LEMMA LoadTypes ==
    ASSUME BootTypes, ImageTypes', UNCHANGED vars, LoadCluster
    PROVE  BootTypes'
<1>1. /\ step = "load" /\ cluster < DiskClusters /\ step' = "fat" /\ fails' = 0
      /\ program' = program /\ left' = left /\ cluster' = cluster /\ at' = at /\ si' = si
  BY DEF LoadCluster, OnDisk
<1>2. cluster \in Entries
  <2>1. cluster \in Entries \cup {Media}
    BY DEF BootTypes, ClusterInv
  <2>2. DiskClusters \in Nat /\ DiskClusters <= FatEntries /\ FatEntries \in Nat
        /\ FatEntries <= Media
    BY SizeAssumption, BootAssumption DEF Media
  <2>3. cluster # Media
    BY <1>1, <2>2 DEF Media
  <2> QED
    BY <2>1, <2>3
<1>3. CountInv'
  BY <1>1, Sizes0 DEF BootTypes, CountInv
<1>4. PlaceInv'
  BY <1>1 DEF BootTypes, PlaceInv
<1>5. ClusterInv'
  BY <1>1, <1>2 DEF ClusterInv, Entries
<1> QED
  BY <1>1, <1>3, <1>4, <1>5 DEF BootTypes, RootDirSectors

LEMMA FollowTypes ==
    ASSUME BootTypes, LoadInv, ImageTypes', UNCHANGED vars, FollowFat
    PROVE  BootTypes'
<1>1. /\ step = "fat" /\ fat[cluster] # LastMark /\ cluster' = fat[cluster]
      /\ at' = NextAt(at) /\ step' = "load" /\ fails' = 0
      /\ program' = program /\ left' = left /\ si' = si
  BY DEF FollowFat, ChainEnds
<1>2. fat[cluster] \in Entries \cup {Media}
  BY <1>1 DEF BootTypes, ClusterInv, ImageTypes, Links
<1>3. CountInv'
  BY <1>1, Sizes0 DEF BootTypes, CountInv
<1>4. PlaceInv'
  <2>1. program \in Programs
    BY <1>1 DEF LoadInv
  <2>2. CASE program = "boot"
    <3>1. at' = (at + 1) % SegmentRoom /\ at \in 0 .. SegmentRoom - 1
      BY <1>1, <2>2 DEF NextAt, BootTypes, PlaceInv
    <3>2. (at + 1) % SegmentRoom \in 0 .. SegmentRoom - 1
      BY <3>1, Sizes0, SMT
    <3> QED
      BY <1>1, <2>2, <3>1, <3>2 DEF PlaceInv
  <2>3. CASE program = "loader"
    <3>1. at' = Min2(at + 1, KernelRoom) /\ at \in 0 .. KernelRoom
      BY <1>1, <2>3 DEF NextAt, BootTypes, PlaceInv
    <3>2. Min2(at + 1, KernelRoom) \in 0 .. KernelRoom
      BY <3>1, Sizes0 DEF Min2
    <3> QED
      BY <1>1, <2>3, <3>1, <3>2 DEF PlaceInv
  <2> QED
    BY <2>1, <2>2, <2>3 DEF Programs
<1>5. ClusterInv'
  BY <1>1, <1>2 DEF ClusterInv, Entries
<1> QED
  BY <1>1, <1>3, <1>4, <1>5 DEF BootTypes, RootDirSectors

\* A read that failed is counted.
LEMMA FailTypes ==
    ASSUME BootTypes, ImageTypes', UNCHANGED vars, ReadFails \/ ReadFailsAgain
    PROVE  BootTypes'
<1>1. left' = left /\ cluster' = cluster /\ at' = at /\ program' = program
      /\ (step' = step \/ step' = "halted")
  BY DEF ReadFails, ReadFailsAgain
<1>2. PlaceInv' /\ ClusterInv'
  BY <1>1 DEF BootTypes, PlaceInv, ClusterInv, Entries
<1>3. si \in 0 .. ReadTries /\ fails \in 0 .. ReadTries /\ ReadTries \in Nat /\ ReadTries > 0
  BY Sizes0 DEF BootTypes, CountInv
<1>4. CASE ReadFails
  <2>1. program = "boot" /\ step \in {"dir", "load", "fat"} /\ fails' = fails + 1
        /\ si' = Min2(si + 1, ReadTries)
        /\ step' = IF si + 1 >= ReadTries THEN "halted" ELSE step
    BY <1>4 DEF ReadFails, Reading
  <2>2. fails = 0 \/ (fails <= si /\ si < ReadTries)
    BY <2>1 DEF BootTypes, CountInv
  <2>3. si' \in 0 .. ReadTries /\ fails' \in 0 .. ReadTries
    BY <1>3, <2>1, <2>2 DEF Min2
  <2>4. step' # "halted" => fails' <= si' /\ si' < ReadTries
    BY <1>3, <2>1, <2>2 DEF Min2
  <2> QED
    BY <1>1, <1>2, <2>3, <2>4 DEF BootTypes, CountInv, RootDirSectors
<1>5. CASE ReadFailsAgain
  <2>1. program = "loader" /\ fails' = Min2(fails + 1, ReadTries) /\ si' = si
    BY <1>5 DEF ReadFailsAgain
  <2>2. fails' \in 0 .. ReadTries
    BY <1>3, <2>1 DEF Min2
  <2> QED
    BY <1>1, <1>2, <1>3, <2>1, <2>2 DEF BootTypes, CountInv, RootDirSectors
<1> QED
  BY <1>4, <1>5

\* The other steps end a program, or are none of it.
LEMMA OtherTypes ==
    ASSUME BootTypes, ImageTypes', UNCHANGED <<program, left, cluster, at, si, fails>>,
           step' = step \/ step' \in {"notfound", "loaded"}
    PROVE  BootTypes'
BY DEF BootTypes, CountInv, PlaceInv, ClusterInv, RootDirSectors, Entries

LEMMA BootTypesNext ==
    BootTypes /\ BootInv /\ [FloppyNext]_<<vars, bootVars>> => BootTypes'
<1> SUFFICES ASSUME BootTypes, LoadInv, [FloppyNext]_<<vars, bootVars>>
             PROVE  BootTypes'
  BY DEF BootInv
<1>0. ImageTypes'
  <2>1. [Next]_vars
    BY DEF FloppyNext, vars
  <2> QED
    BY <2>1, TypesNext DEF BootTypes
<1>1. CASE UNCHANGED bootVars
  BY <1>0, <1>1, OtherTypes DEF bootVars
<1>2. CASE BootNext /\ UNCHANGED vars
  <2>1. CASE \E s \in 0 .. ReadTries : PowerOn(s)
    BY <1>0, <2>1, BeginTypes DEF PowerOn, Programs
  <2>2. CASE JumpToLoader
    <3>1. si' \in 0 .. ReadTries
      BY <2>2 DEF JumpToLoader, BootTypes, CountInv
    <3> QED
      BY <1>0, <2>2, <3>1, BeginTypes DEF JumpToLoader, Programs
  <2>3. CASE SearchSector \/ LoadCluster \/ FollowFat
    BY <1>0, <1>2, <2>3, SearchTypes, LoadTypes, FollowTypes
  <2>4. CASE KernelLoaded \/ LoaderNotFound
    BY <1>0, <2>4, OtherTypes DEF KernelLoaded, LoaderNotFound
  <2>5. CASE ReadFails \/ ReadFailsAgain
    BY <1>0, <1>2, <2>5, FailTypes
  <2> QED
    BY <1>2, <2>1, <2>2, <2>3, <2>4, <2>5 DEF BootNext, ReadSucceeds
<1> QED
  BY <1>1, <1>2 DEF FloppyNext

\* The programs keep to their stages, ask the FAT only of clusters it has an entry
\* for, and count no more failures than SI shows, for every image the tool can leave
\* (boot.asm 63-213, loader.asm 744-748).
THEOREM BootTypeCorrect == FloppySpec => []BootTypeOK
<1>1. FloppyInit => BootTypes
  <2> SUFFICES ASSUME FloppyInit PROVE BootTypes
    OBVIOUS
  <2>1. ImageTypes
    BY TypesInit DEF FloppyInit
  <2> QED
    BY <2>1, Sizes0 DEF FloppyInit, BootInit, BootTypes, CountInv, PlaceInv, ClusterInv
<1>2. BootTypes /\ BootInv => BootTypeOK
  BY TypesAreTypes DEF BootTypes, BootInv, CountInv, PlaceInv, ClusterInv, LoadInv, SearchInv,
     BootTypeOK, Programs
<1> QED
  BY <1>1, <1>2, BootTypesNext, BootInvariance, PTL DEF FloppySpec
=============================================================================
