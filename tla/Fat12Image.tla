----------------------------- MODULE Fat12Image -----------------------------
(***************************************************************************)
(* The floppy image tool (src/tools/fat12img.py): format, save, del and    *)
(* load on the FAT, the directory and the clusters of an image.            *)
(*                                                                         *)
(* Every command is a process of its own.  It reads the FAT and the        *)
(* directory, works on copies, writes clusters as it goes, and at its end  *)
(* the directory and then the FAT; it may stop between any two writes.     *)
(* load reads no file at all: it fails on each one it finds.  The second   *)
(* copy of the FAT is left out, nothing reads it.                          *)
(***************************************************************************)
EXTENDS Integers, FiniteSets, Sequences, FiniteSetsExt

CONSTANTS
    FatEntries,    \* entries of the FAT (3072)
    DiskClusters,  \* clusters from this number on have no sector (2849)
    DirSlots,      \* FILE_COUNT
    ClusterUnits,  \* units of size in a cluster (CLUSTER_BYTES)
    Names,         \* names of files, as eight and three characters
    ShortNames,    \* names that end in a blank, as README or A.C do
    Contents,      \* contents a file may have
    Sizes          \* sizes a file may have

Entries == 0 .. FatEntries - 1
Slots   == 1 .. DirSlots

FreeEntry == 0      \* 0x000
Media     == 4080   \* 0xFF0, FAT[0]
EndMark   == 4088   \* 0xFF8: from here on an entry ends its chain
LastMark  == 4095   \* 0xFFF, the mark save writes

ASSUME SizeAssumption ==
    /\ FatEntries \in 3 .. Media
    /\ DirSlots \in Nat \ {0}
    /\ ClusterUnits \in Nat \ {0}
    /\ Sizes \subseteq Nat
    /\ ShortNames \subseteq Names

VARIABLES
    fat,      \* the FAT of the image
    dir,      \* the directory of the image
    data,     \* what the clusters hold: block k of a content, or nothing
    pc,       \* "idle", or what the current command does next
    memFat,   \* the command's copy of the FAT
    memDir,   \* the command's copy of the directory
    cmd,      \* the arguments and locals of the command
    stored,   \* history: the file that belongs in each slot
    stopped,  \* history: a command stopped half way
    misused   \* history: a file of a save that stopped half way was deleted

vars == <<fat, dir, data, pc, memFat, memDir, cmd, stored, stopped, misused>>

Empty   == [state |-> "empty"]     \* None: first byte 0
Deleted == [state |-> "deleted"]   \* False: first byte 0xE5
FileInfo(n, c, s) == [state |-> "file", name |-> n, cluster |-> c, size |-> s]
IsFile(e) == e.state = "file"

NoFile == [size |-> 0]
NoCmd  == [op |-> "none"]
NoData == <<>>

Clusters(size) == (size + ClusterUnits - 1) \div ClusterUnits

-----------------------------------------------------------------------------
\* format: the first two entries of the FAT hold the media type.
FreshFat == [c \in Entries |-> IF c = 0 THEN Media
                               ELSE IF c = 1 THEN LastMark ELSE FreeEntry]

FreshDir    == [s \in Slots |-> Empty]
FreshData   == [c \in Entries |-> NoData]
NothingKept == [s \in Slots |-> NoFile]

Init ==
    /\ fat = FreshFat /\ dir = FreshDir /\ data = FreshData
    /\ stored = NothingKept /\ stopped = FALSE /\ misused = FALSE
    /\ pc = "idle" /\ memFat = <<>> /\ memDir = <<>> /\ cmd = NoCmd

Idle == pc' = "idle" /\ memFat' = <<>> /\ memDir' = <<>> /\ cmd' = NoCmd

\* format writes the whole image at once.
Format ==
    /\ pc = "idle"
    /\ fat' = FreshFat /\ dir' = FreshDir /\ data' = FreshData
    /\ stored' = NothingKept /\ stopped' = FALSE /\ misused' = FALSE
    /\ UNCHANGED <<pc, memFat, memDir, cmd>>

-----------------------------------------------------------------------------
(***************************************************************************)
(* save.  have_space wants as many free entries as the file has clusters,  *)
(* and one for an empty file; the file starts at the first free entry and  *)
(* takes the first slot that holds no file.                                *)
(***************************************************************************)
FreeIn(f) == {c \in Entries : f[c] = FreeEntry}
OpenSlots(d) == {s \in Slots : ~IsFile(d[s])}

HaveSpace(f, n) == Cardinality(FreeIn(f)) >= Max({n, 1})

SaveRefused(s) ==
    /\ pc = "idle"
    /\ ~HaveSpace(fat, Clusters(s)) \/ OpenSlots(dir) = {}
    /\ UNCHANGED vars

\* No file of the same name is looked for.
SaveBegin(n, c, s) ==
    /\ pc = "idle"
    /\ HaveSpace(fat, Clusters(s)) /\ OpenSlots(dir) # {}
    /\ LET slot == Min(OpenSlots(dir))
       IN  /\ memDir' = [dir EXCEPT ![slot] = FileInfo(n, Min(FreeIn(fat)), s)]
           /\ cmd' = [op |-> "save", slot |-> slot, prev |-> -1, block |-> 1,
                      left |-> s, file |-> [name |-> n, content |-> c, size |-> s]]
    /\ memFat' = fat
    /\ pc' = "write"
    /\ UNCHANGED <<fat, dir, data, stored, stopped, misused>>

\* Operators named <definition>_<what is wrong> are mutants: a plausible bug in
\* the code of that definition, which a property of a run is seen to catch.
NextFree_Again(prev) == Min({c \in FreeIn(memFat) : c >= prev})

\* find_free_cluster(prev_cluster + 1); have_space has counted enough of them.
NextFree(prev) == Min({c \in FreeIn(memFat) : c > prev})

Linked_NoNext(c) ==
    IF cmd.left <= ClusterUnits THEN [memFat EXCEPT ![c] = LastMark] ELSE memFat

Linked_EndsAtFF8(c) ==
    [e \in Entries |->
        IF e = cmd.prev THEN c
        ELSE IF e = c /\ cmd.left <= ClusterUnits THEN EndMark
        ELSE memFat[e]]

\* put_next of the cluster before, and the mark at the end of the chain.
Linked(c) ==
    [e \in Entries |->
        IF e = cmd.prev THEN c
        ELSE IF e = c /\ cmd.left <= ClusterUnits THEN LastMark
        ELSE memFat[e]]

WriteCluster ==
    /\ pc = "write" /\ cmd.left > 0
    /\ LET c == NextFree(cmd.prev)
       IN  /\ c # 0
           /\ data' = [data EXCEPT ![c] = <<cmd.file.content, cmd.block>>]
           /\ memFat' = Linked(c)
           /\ cmd' = [cmd EXCEPT !.prev = c, !.block = @ + 1, !.left = @ - ClusterUnits]
    /\ UNCHANGED <<fat, dir, pc, memDir, stored, stopped, misused>>

\* Cluster 0 lies in the directory; it is taken when FAT[0] was cleared.  The
\* write puts data where slots are, and what follows is not modelled.
WriteOverDir ==
    /\ pc = "write" /\ cmd.left > 0
    /\ NextFree(cmd.prev) = 0
    /\ pc' = "wild" /\ memFat' = <<>> /\ memDir' = <<>> /\ cmd' = NoCmd
    /\ UNCHANGED <<fat, dir, data, stored, stopped, misused>>

-----------------------------------------------------------------------------
(***************************************************************************)
(* del and load.  The name is searched with its blanks, but the names that *)
(* were read from the image have lost theirs.                              *)
(***************************************************************************)
Found(n) == {s \in Slots : IsFile(dir[s]) /\ dir[s].name = n /\ n \notin ShortNames}

DelRefused(n) ==
    /\ pc = "idle"
    /\ Found(n) = {}
    /\ UNCHANGED vars

LoadRefused(n) ==
    /\ pc = "idle"
    /\ Found(n) = {}
    /\ UNCHANGED vars

\* find returns the number of the slot, and load asks it for its cluster: an
\* exception (AttributeError), before any cluster was read.
LoadFails(n) ==
    /\ pc = "idle"
    /\ Found(n) # {}
    /\ UNCHANGED vars

(***************************************************************************)
(* del_chain: one entry is cleared for each cluster of the file, until an  *)
(* end mark.  An entry past the FAT is an exception (IndexError).          *)
(***************************************************************************)
ClearNext(st) ==
    IF st.end THEN st
    ELSE IF st.at \notin Entries THEN [st EXCEPT !.end = TRUE, !.error = TRUE]
    ELSE [fat |-> [st.fat EXCEPT ![st.at] = FreeEntry], at |-> st.fat[st.at],
          end |-> st.fat[st.at] >= EndMark, error |-> FALSE]

DelChain_FirstOnly(c, n) ==
    [fat |-> [fat EXCEPT ![c] = FreeEntry], at |-> c, end |-> TRUE, error |-> FALSE]

DelChain(c, n) ==
    LET D[k \in 0 .. n] ==
            IF k = 0 THEN [fat |-> fat, at |-> c, end |-> FALSE, error |-> FALSE]
            ELSE ClearNext(D[k - 1])
    IN  D[n]

\* The exception ends the command before it has written anything.
DelFails(n) ==
    /\ pc = "idle" /\ Found(n) # {}
    /\ LET e == dir[Min(Found(n))]
       IN  DelChain(e.cluster, Clusters(e.size)).error
    /\ UNCHANGED vars

DelBegin(n) ==
    /\ pc = "idle" /\ Found(n) # {}
    /\ LET slot  == Min(Found(n))
           chain == DelChain(dir[slot].cluster, Clusters(dir[slot].size))
       IN  /\ ~chain.error
           /\ memFat' = chain.fat
           /\ memDir' = [dir EXCEPT ![slot] = Deleted]
           /\ cmd' = [op |-> "del", slot |-> slot]
           /\ misused' = (misused \/ stored[slot] = NoFile)
    /\ pc' = "dir"
    /\ UNCHANGED <<fat, dir, data, stored, stopped>>

-----------------------------------------------------------------------------
\* DirInfo.write stops at the first empty slot.  A deleted file is gone now.
WrittenDir ==
    [s \in Slots |-> IF \E t \in 1 .. s : memDir[t] = Empty THEN dir[s] ELSE memDir[s]]

WriteDir ==
    /\ pc = "dir" \/ (pc = "write" /\ cmd.left <= 0)
    /\ dir' = WrittenDir
    /\ stored' = [stored EXCEPT ![cmd.slot] = NoFile]
    /\ pc' = "fat"
    /\ UNCHANGED <<fat, data, memFat, memDir, cmd, stopped, misused>>

\* The FAT is written last.  A file that was saved is complete now.
Finish ==
    /\ pc = "fat"
    /\ fat' = memFat
    /\ stored' = IF cmd.op = "save" THEN [stored EXCEPT ![cmd.slot] = cmd.file] ELSE stored
    /\ Idle
    /\ UNCHANGED <<dir, data, stopped, misused>>

\* The process is killed, or the host fails, before its next write.
Stop ==
    /\ pc \in {"write", "dir", "fat"}
    /\ Idle
    /\ stopped' = TRUE
    /\ UNCHANGED <<fat, dir, data, stored, misused>>

Next ==
    \/ Format
    \/ \E s \in Sizes : SaveRefused(s)
    \/ \E n \in Names, c \in Contents, s \in Sizes : SaveBegin(n, c, s)
    \/ WriteCluster \/ WriteOverDir
    \/ \E n \in Names : LoadRefused(n) \/ LoadFails(n)
    \/ \E n \in Names : DelRefused(n) \/ DelFails(n) \/ DelBegin(n)
    \/ WriteDir \/ Finish \/ Stop

Spec == Init /\ [][Next]_vars

-----------------------------------------------------------------------------
(***************************************************************************)
(* What an image holds for a directory entry: the FAT is followed from the *)
(* entry's cluster, as many clusters as the size asks for.  The readers of *)
(* an image are the boot programs; how they follow a chain is FloppyBoot's.*)
(***************************************************************************)
Chain(e) ==
    LET C[k \in 1 .. Clusters(e.size)] ==
            IF k = 1 THEN e.cluster
            ELSE IF C[k - 1] \in Entries THEN fat[C[k - 1]] ELSE LastMark
    IN  C

ClustersOf(e) == {Chain(e)[k] : k \in DOMAIN Chain(e)}

Held(e) ==
    [k \in DOMAIN Chain(e) |->
        IF Chain(e)[k] \in Entries THEN data[Chain(e)[k]] ELSE NoData]

Blocks(f) == [k \in 1 .. (f.size + ClusterUnits - 1) \div ClusterUnits |-> <<f.content, k>>]

IsStored(s) == stored[s] # NoFile

\* A command keeps to its stages, directory entries name clusters, and a chain
\* ends with 0xFFF, the only end mark the boot programs know.
TypeOK ==
    /\ fat \in [Entries -> Entries \cup {Media, LastMark}]
    /\ \A s \in Slots : IsFile(dir[s]) => dir[s].cluster \in Entries /\ dir[s].size \in Sizes
    /\ pc \in {"idle", "write", "dir", "fat", "wild"}
    /\ pc = "idle" <=> cmd = NoCmd /\ pc # "wild"
    /\ stopped \in BOOLEAN /\ misused \in BOOLEAN

\* A file whose save has finished stays in the image as it was saved, entry, chain
\* and every block of its data (save, fat12img.py 184-223), in the middle of other
\* commands too, and after any of them stopped half way; unless a file was deleted
\* whose own save had stopped (the entry of such a file names clusters that are
\* free, or by then another file's).
FilesStayWhole ==
    ~misused =>
        \A s \in Slots : IsStored(s) =>
            /\ IsFile(dir[s])
            /\ dir[s].name = stored[s].name
            /\ Held(dir[s]) = Blocks(stored[s])

\* Between commands, when none has stopped half way, the clusters in use are those
\* of the files, each of one file: no cluster is shared and none is lost.
NoClusterLost ==
    pc = "idle" /\ ~stopped =>
        /\ \A s \in Slots : IsFile(dir[s]) <=> IsStored(s)
        /\ Entries \ FreeIn(fat)
             = {0, 1} \cup UNION {ClustersOf(dir[s]) : s \in {t \in Slots : IsFile(dir[t])}}
        /\ \A s, t \in Slots :
              s # t /\ IsFile(dir[s]) /\ IsFile(dir[t])
                 => ClustersOf(dir[s]) \cap ClustersOf(dir[t]) = {}

\* Nothing but deleting a file whose save stopped clears FAT[0], and lets a later
\* save take cluster 0 and write over the directory.
DamageNeedsMisuse == ~misused => pc # "wild" /\ fat[0] = Media
=============================================================================
