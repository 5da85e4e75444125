--------------------------- MODULE Fat12ImageProof ---------------------------
(***************************************************************************)
(* Theorems about Fat12Image, for every size of FAT, directory, disk and   *)
(* clusters, all names, contents and sizes of files, and commands that     *)
(* stop before any of their writes.                                        *)
(***************************************************************************)
EXTENDS Fat12Image, NumberLemmas, FiniteSetTheorems, TLAPS

-----------------------------------------------------------------------------
\* The clusters a file may have; FAT[0] and FAT[1] are not theirs.
Usable == 2 .. FatEntries - 1

\* C lists the clusters of the file of entry e: ascending, linked and ended in f.
IsChain(f, e, C) ==
    LET n == Clusters(e.size)
    IN  /\ C \in [1 .. n -> Usable]
        /\ n > 0 => C[1] = e.cluster
        /\ \A k \in 1 .. n : f[C[k]] = IF k = n THEN LastMark ELSE C[k + 1]
        /\ \A j, k \in 1 .. n : j < k => C[j] < C[k]

Files   == [name : Names, content : Contents, size : Sizes]
Links   == Entries \cup {Media, LastMark}
StoredAt == {s \in Slots : IsStored(s)}
Kept    == {0, 1} \cup UNION {ClustersOf(dir[s]) : s \in StoredAt}
InUse(f) == Entries \ FreeIn(f)

\* The file of slot s is in the image as it was saved.
FileWhole(s) ==
    LET C == Chain(dir[s])
    IN  /\ IsFile(dir[s])
        /\ dir[s].name = stored[s].name /\ dir[s].size = stored[s].size
        /\ IsChain(fat, dir[s], C)
        /\ \A k \in DOMAIN C : data[C[k]] = <<stored[s].content, k>>

\* The image: every stored file is whole, no two share a cluster, and no file
\* lies behind an empty slot, where a write of the directory stops.
ImageInv ==
    /\ fat \in [Entries -> Links] /\ fat[0] = Media /\ fat[1] = LastMark
    /\ stored \in [Slots -> Files \cup {NoFile}]
    /\ data \in [Entries -> Contents \X Nat \cup {NoData}]
    /\ DOMAIN dir = Slots
    /\ \A s, t \in Slots : s < t /\ dir[s] = Empty => dir[t] = Empty
    /\ \A s \in StoredAt : FileWhole(s)
    /\ \A s, t \in StoredAt : s # t => ClustersOf(dir[s]) \cap ClustersOf(dir[t]) = {}

\* The clusters a save has written so far are the first free ones of the image,
\* linked in its copy of the FAT; the last one gets its mark or its successor later.
Written(C) ==
    LET w == cmd.block - 1
    IN  /\ C \in [1 .. w -> FreeIn(fat)]
        /\ cmd.prev = IF w = 0 THEN -1 ELSE C[w]
        /\ w > 0 => C[1] = Min(FreeIn(fat))
        /\ \A j, k \in 1 .. w : j < k => C[j] < C[k]
        /\ \A c \in FreeIn(fat) : c <= cmd.prev => \E k \in 1 .. w : c = C[k]
        /\ \A k \in 1 .. w :
              memFat[C[k]] = IF k < w THEN C[k + 1]
                             ELSE IF cmd.left <= 0 THEN LastMark ELSE FreeEntry
        /\ \A c \in Entries : (\A k \in 1 .. w : c # C[k]) => memFat[c] = fat[c]
        /\ \A k \in 1 .. w : data[C[k]] = <<cmd.file.content, k>>

SaveCmds == [op : {"save"}, slot : Slots, prev : Int, block : Nat \ {0}, left : Int, file : Files]

SaveInv ==
    /\ cmd \in SaveCmds /\ cmd.slot \notin StoredAt
    /\ cmd.block - 1 <= Clusters(cmd.file.size)
    /\ cmd.left = cmd.file.size - (cmd.block - 1) * ClusterUnits
    /\ HaveSpace(fat, Clusters(cmd.file.size))
    /\ memFat \in [Entries -> Links]
    /\ \E C \in [1 .. cmd.block - 1 -> Entries] : Written(C)

SavedEntry == FileInfo(cmd.file.name, Min(FreeIn(fat)), cmd.file.size)

\* The copy of the FAT that a del writes: the clusters X of its file are cleared.
Cleared(X) == memFat = [c \in Entries |-> IF c \in X THEN FreeEntry ELSE fat[c]]

StageInv ==
    \/ pc = "idle"
    \/ /\ pc = "write" /\ SaveInv
       /\ cmd.slot = Min(OpenSlots(dir)) /\ OpenSlots(dir) # {}
       /\ memDir = [dir EXCEPT ![cmd.slot] = SavedEntry]
    \/ /\ pc = "fat" /\ SaveInv /\ cmd.left <= 0
       /\ dir[cmd.slot] = SavedEntry
    \/ /\ pc = "dir" /\ cmd.op = "del"
       /\ cmd.slot \in StoredAt
       /\ memDir = [dir EXCEPT ![cmd.slot] = Deleted]
       /\ Cleared(ClustersOf(dir[cmd.slot]))
    \/ /\ pc = "fat" /\ cmd.op = "del" /\ cmd.slot \in Slots \ StoredAt
       /\ ~IsFile(dir[cmd.slot])
       /\ \E X \in SUBSET Usable : Cleared(X) /\ X \cap Kept = {}

\* When no command has stopped, what is in use is what the files use.
Entered(s) == pc = "fat" /\ cmd.op = "save" /\ s = cmd.slot

CleanInv ==
    ~stopped =>
        /\ ~misused
        /\ \A s \in Slots : IsFile(dir[s]) <=> IsStored(s) \/ Entered(s)
        /\ InUse(IF pc = "fat" /\ cmd.op = "del" THEN memFat ELSE fat) = Kept

FileInv ==
    /\ ~misused => ImageInv /\ StageInv
    /\ CleanInv
-----------------------------------------------------------------------------
LEMMA Constants ==
    /\ Entries \subseteq Nat /\ Usable \subseteq Entries /\ 0 \in Entries /\ 1 \in Entries
    /\ 0 \notin Usable /\ 1 \notin Usable
    /\ \A c \in Entries : c < Media
    /\ IsFiniteSet(Entries)
BY SizeAssumption, FS_Interval DEF Entries, Usable, Media

\* Clusters(s) clusters hold s units and no fewer do.
LEMMA ClustersHold ==
    ASSUME NEW s \in Nat
    PROVE  /\ Clusters(s) \in Nat
           /\ \A w \in Nat : w * ClusterUnits < s <=> w < Clusters(s)
<1> DEFINE u == ClusterUnits
           q == (s + u - 1) \div u
<1>1. u \in Nat /\ u > 0
  BY SizeAssumption
<1>2. q \in Nat /\ q * u <= s + u - 1 /\ s <= q * u
  BY <1>1, SMT
<1>3. ASSUME NEW w \in Nat PROVE w * u < s <=> w < q
  <2> HIDE DEF q, u
  <2>1. ASSUME w < q PROVE w * u < s
    <3>1. (w + 1) * u <= q * u
      BY <1>1, <1>2, <2>1
    <3>2. (w + 1) * u = w * u + u
      BY <1>1
    <3> QED
      BY <1>1, <1>2, <3>1, <3>2
  <2>2. ASSUME ~(w < q) PROVE ~(w * u < s)
    <3>1. q * u <= w * u
      BY <1>1, <1>2, <2>2
    <3> QED
      BY <1>1, <1>2, <3>1
  <2> QED
    BY <2>1, <2>2
<1> QED
  BY <1>2, <1>3 DEF Clusters

-----------------------------------------------------------------------------
\* What Chain computes for a FAT f.
Follow(f, e, C) ==
    [k \in 1 .. Clusters(e.size) |->
        IF k = 1 THEN e.cluster
        ELSE IF C[k - 1] \in Entries THEN f[C[k - 1]] ELSE LastMark]

ChainIn(f, e) == CHOOSE C : C = Follow(f, e, C)

LEMMA FollowUnique ==
    ASSUME NEW f, NEW e, Clusters(e.size) \in Nat,
           NEW C, C = Follow(f, e, C), NEW D, D = Follow(f, e, D)
    PROVE  C = D
<1> DEFINE n == Clusters(e.size)
           T == {k \in 1 .. n : C[k] # D[k]}
<1>1. ASSUME NEW k \in T PROVE \E j \in T : j < k
  <2>1. C[k] = (IF k = 1 THEN e.cluster
                ELSE IF C[k - 1] \in Entries THEN f[C[k - 1]] ELSE LastMark)
    BY Zenon DEF Follow
  <2>2. D[k] = (IF k = 1 THEN e.cluster
                ELSE IF D[k - 1] \in Entries THEN f[D[k - 1]] ELSE LastMark)
    BY Zenon DEF Follow
  <2>3. k # 1 /\ C[k - 1] # D[k - 1]
    BY <2>1, <2>2
  <2> QED
    BY <2>3
<1>2. T = {}
  <2>1. T \in SUBSET Nat
    OBVIOUS
  <2> QED
    BY <1>1, <2>1, NoLeast
<1>3. C = [k \in 1 .. n |-> C[k]] /\ D = [k \in 1 .. n |-> D[k]]
  BY Zenon DEF Follow
<1> QED
  BY <1>2, <1>3

\* A list of linked clusters is what a reader of the FAT follows.
LEMMA ChainFollowed ==
    ASSUME NEW f, NEW e, Clusters(e.size) \in Nat, NEW C, IsChain(f, e, C)
    PROVE  ChainIn(f, e) = C
<1> DEFINE P(D) == D = Follow(f, e, D)
<1>1. P(C)
  <2> DEFINE n == Clusters(e.size)
  <2>1. ASSUME NEW k \in 1 .. n
        PROVE C[k] = IF k = 1 THEN e.cluster
                     ELSE IF C[k - 1] \in Entries THEN f[C[k - 1]] ELSE LastMark
    <3>1. CASE k = 1
      BY <3>1 DEF IsChain
    <3>2. CASE k # 1
      <4>1. k - 1 \in 1 .. n /\ k - 1 # n
        BY <3>2
      <4>2. C[k - 1] \in Entries
        BY <4>1, Constants DEF IsChain
      <4>3. f[C[k - 1]] = C[k]
        BY <4>1 DEF IsChain
      <4> QED
        BY <3>2, <4>2, <4>3
    <3> QED
      BY <3>1, <3>2
  <2>2. C = [k \in 1 .. n |-> C[k]]
    BY DEF IsChain
  <2> QED
    BY <2>1, <2>2 DEF Follow
<1>2. ChainIn(f, e) = CHOOSE D : P(D)
  BY DEF ChainIn
<1> HIDE DEF P
<1>3. P(ChainIn(f, e))
  BY <1>1, <1>2
<1> QED
  BY <1>1, <1>3, FollowUnique DEF P

LEMMA ChainNow == \A e : Chain(e) = ChainIn(fat, e)
BY DEF Chain, ChainIn, Follow

LEMMA ChainThen == \A e : Chain(e)' = ChainIn(fat', e)
BY DEF Chain, ChainIn, Follow

-----------------------------------------------------------------------------
\* del_chain, after k entries of a file that is whole: those are cleared, and the
\* next one is the next cluster's; the last one of the chain ends it.
LEMMA ChainCleared ==
    ASSUME NEW e, Clusters(e.size) \in Nat, NEW C, IsChain(fat, e, C),
           fat \in [Entries -> Links]
    PROVE  LET d == DelChain(e.cluster, Clusters(e.size))
           IN  /\ ~d.error
               /\ d.fat = [c \in Entries |->
                             IF \E k \in DOMAIN C : c = C[k] THEN FreeEntry ELSE fat[c]]
<1> DEFINE n == Clusters(e.size)
           Start == [fat |-> fat, at |-> e.cluster, end |-> FALSE, error |-> FALSE]
           Step(D) == [k \in 0 .. n |-> IF k = 0 THEN Start ELSE ClearNext(D[k - 1])]
           P(D) == D = Step(D)
           Upto(k) == [c \in Entries |->
                         IF \E j \in 1 .. k : c = C[j] THEN FreeEntry ELSE fat[c]]
           At(k) == IF k = n THEN (IF n = 0 THEN e.cluster ELSE LastMark) ELSE C[k + 1]
           State(k) == [fat |-> Upto(k), at |-> At(k), end |-> k = n /\ n > 0, error |-> FALSE]
           G == [k \in 0 .. n |-> State(k)]
<1>1. P(G)
  <2>1. State(0) = Start
    <3>1. Upto(0) = fat
      OBVIOUS
    <3>2. At(0) = e.cluster
      BY DEF IsChain
    <3>3. (0 = n /\ n > 0) = FALSE
      OBVIOUS
    <3> HIDE DEF Upto, At
    <3> QED
      BY <3>1, <3>2, <3>3
  <2>2. ASSUME NEW k \in 1 .. n PROVE State(k) = ClearNext(State(k - 1))
    <3>1. State(k - 1) = [fat |-> Upto(k - 1), at |-> C[k], end |-> FALSE, error |-> FALSE]
      <4>1. k - 1 # n /\ At(k - 1) = C[k]
        OBVIOUS
      <4> QED
        BY <4>1, Zenon
    <3>2. C[k] \in Entries
      BY Constants DEF IsChain
    <3>3. \A j \in 1 .. k - 1 : C[j] # C[k]
      <4>1. \A j \in 1 .. n : C[j] \in Nat
        BY Constants DEF IsChain
      <4>2. \A j \in 1 .. k - 1 : j \in 1 .. n /\ j < k
        OBVIOUS
      <4> QED
        BY <4>1, <4>2 DEF IsChain
    <3>4. Upto(k - 1)[C[k]] = fat[C[k]]
      BY <3>2, <3>3
    <3>5. [Upto(k - 1) EXCEPT ![C[k]] = FreeEntry] = Upto(k)
      <4>1. \A c : (\E j \in 1 .. k : c = C[j]) <=> c = C[k] \/ \E j \in 1 .. k - 1 : c = C[j]
        OBVIOUS
      <4> QED
        BY <4>1, <3>2
    <3>6. fat[C[k]] = At(k)
      BY DEF IsChain
    <3>7. (fat[C[k]] >= EndMark) = (k = n /\ n > 0)
      <4>1. CASE k = n
        BY <3>6, <4>1 DEF EndMark, LastMark
      <4>2. CASE k # n
        <5>1. k + 1 \in 1 .. n
          BY <4>2
        <5>2. C[k + 1] \in Usable
          BY <5>1 DEF IsChain
        <5>3. C[k + 1] < Media /\ C[k + 1] \in Nat
          BY <5>2, Constants
        <5> QED
          BY <3>6, <4>2, <5>3 DEF Media, EndMark
      <4> QED
        BY <4>1, <4>2
    <3>8. ClearNext([fat |-> Upto(k - 1), at |-> C[k], end |-> FALSE, error |-> FALSE])
            = [fat |-> [Upto(k - 1) EXCEPT ![C[k]] = FreeEntry], at |-> Upto(k - 1)[C[k]],
               end |-> Upto(k - 1)[C[k]] >= EndMark, error |-> FALSE]
      <4> HIDE DEF Upto
      <4> QED
        BY <3>2 DEF ClearNext
    <3> HIDE DEF Upto, At
    <3> QED
      BY <3>1, <3>4, <3>5, <3>6, <3>7, <3>8
  <2> HIDE DEF State, Start
  <2>3. \A k \in 1 .. n : k - 1 \in 0 .. n
    OBVIOUS
  <2>4. \A k \in 0 .. n : G[k] = IF k = 0 THEN Start ELSE ClearNext(G[k - 1])
    BY <2>1, <2>2, <2>3
  <2> QED
    BY <2>4
<1>2. DelChain(e.cluster, n) = (CHOOSE D : P(D))[n]
  BY DEF DelChain
<1>3. ASSUME NEW D, P(D) PROVE D = G
  <2> DEFINE T == {k \in 0 .. n : D[k] # G[k]}
  <2>1. ASSUME NEW k \in T PROVE \E j \in T : j < k
    <3>1. D[k] = IF k = 0 THEN Start ELSE ClearNext(D[k - 1])
      BY <1>3, Zenon
    <3>2. G[k] = IF k = 0 THEN Start ELSE ClearNext(G[k - 1])
      BY <1>1, Zenon
    <3> HIDE DEF G, Start
    <3>3. k # 0 /\ D[k - 1] # G[k - 1]
      BY <3>1, <3>2
    <3> QED
      BY <3>3
  <2>2. T = {}
    <3>1. T \in SUBSET Nat
      OBVIOUS
    <3> HIDE DEF T
    <3> QED
      BY <2>1, <3>1, NoLeast
  <2>3. D = [k \in 0 .. n |-> D[k]]
    BY <1>3, Zenon
  <2> HIDE DEF State
  <2> QED
    BY <2>2, <2>3
<1>4. DelChain(e.cluster, n) = State(n)
  <2> HIDE DEF P, State
  <2>1. DelChain(e.cluster, n) = G[n]
    <3> HIDE DEF G
    <3> QED
      BY <1>1, <1>2, <1>3
  <2> QED
    BY <2>1
<1>5. DOMAIN C = 1 .. n
  BY DEF IsChain
<1>6. State(n).error = FALSE /\ State(n).fat = Upto(n)
  BY Zenon
<1> QED
  BY <1>4, <1>5, <1>6

-----------------------------------------------------------------------------
LEMMA FilesAreStored == \A f \in Files : f # NoFile /\ f.size \in Nat
<1> TAKE f \in Files
<1>1. "name" \in DOMAIN f
  BY DEF Files
<1>2. "name" \notin DOMAIN NoFile
  BY DEF NoFile
<1>3. f.size \in Nat
  BY SizeAssumption DEF Files
<1> QED
  BY <1>1, <1>2, <1>3

\* The clusters of a stored file, and that they are not free.
LEMMA StoredClusters ==
    ASSUME ImageInv, NEW s \in StoredAt
    PROVE  /\ stored[s] \in Files /\ Clusters(dir[s].size) \in Nat
           /\ DOMAIN Chain(dir[s]) = 1 .. Clusters(dir[s].size)
           /\ ClustersOf(dir[s]) \subseteq Usable
           /\ ClustersOf(dir[s]) \cap FreeIn(fat) = {}
<1> DEFINE C == Chain(dir[s])
           n == Clusters(dir[s].size)
<1>1. stored[s] \in Files /\ FileWhole(s)
  BY DEF ImageInv, StoredAt, IsStored
<1>2. n \in Nat
  BY <1>1, FilesAreStored, ClustersHold DEF FileWhole
<1>3. IsChain(fat, dir[s], C)
  BY <1>1 DEF FileWhole
<1>4. C \in [1 .. n -> Usable]
  BY <1>3 DEF IsChain
<1>5. ASSUME NEW k \in 1 .. n PROVE fat[C[k]] # FreeEntry
  <2>1. k # n => C[k + 1] \in Usable
    BY <1>2, <1>4
  <2> QED
    BY <1>3, <2>1 DEF IsChain, Usable, FreeEntry, LastMark
<1> HIDE DEF C
<1>6. ClustersOf(dir[s]) = {C[k] : k \in 1 .. n}
  BY <1>4 DEF ClustersOf, C
<1> QED
  BY <1>1, <1>2, <1>4, <1>5, <1>6 DEF FreeIn, C

\* A file stays whole when its entry and its clusters stay.
LEMMA FileKept ==
    ASSUME NEW s, FileWhole(s), Clusters(dir[s].size) \in Nat,
           stored'[s] = stored[s], dir'[s] = dir[s],
           \A c \in ClustersOf(dir[s]) : fat'[c] = fat[c] /\ data'[c] = data[c]
    PROVE  FileWhole(s)' /\ ClustersOf(dir[s])' = ClustersOf(dir[s])
<1> DEFINE e == dir[s]
           C == Chain(e)
<1>1. IsChain(fat, e, C)
  BY DEF FileWhole
<1>2. \A k \in DOMAIN C : C[k] \in ClustersOf(e)
  BY DEF ClustersOf
<1>3. IsChain(fat', e, C)
  <2> HIDE DEF C, e
  <2>1. DOMAIN C = 1 .. Clusters(e.size)
    BY <1>1 DEF IsChain
  <2>2. \A k \in 1 .. Clusters(e.size) : fat'[C[k]] = fat[C[k]]
    BY <1>2, <2>1 DEF e
  <2> QED
    BY <1>1, <2>2 DEF IsChain
<1>4. ChainIn(fat', e) = C
  BY <1>3, ChainFollowed
<1>5. Chain(dir[s])' = C
  BY <1>4, ChainThen
<1>6. ClustersOf(dir[s])' = ClustersOf(dir[s])
  BY <1>5 DEF ClustersOf
<1>7. FileWhole(s)'
  <2>1. IsChain(fat, dir[s], Chain(dir[s]))'
    BY <1>3, <1>5 DEF IsChain, Clusters
  <2>2. \A k \in DOMAIN C : data'[C[k]] = <<stored'[s].content, k>>
    BY <1>2 DEF FileWhole
  <2> QED
    BY <1>5, <2>1, <2>2 DEF FileWhole, IsFile
<1> QED
  BY <1>6, <1>7

\* The image keeps its files when their entries and clusters stay.
LEMMA ImageKept ==
    ASSUME ImageInv,
           fat' \in [Entries -> Links], fat'[0] = Media, fat'[1] = LastMark,
           stored' \in [Slots -> Files \cup {NoFile}],
           data' \in [Entries -> Contents \X Nat \cup {NoData}],
           DOMAIN dir' = Slots,
           \A s, t \in Slots : s < t /\ dir'[s] = Empty => dir'[t] = Empty,
           \A s \in StoredAt' :
              /\ s \in StoredAt /\ stored'[s] = stored[s] /\ dir'[s] = dir[s]
              /\ \A c \in ClustersOf(dir[s]) : fat'[c] = fat[c] /\ data'[c] = data[c]
    PROVE  /\ ImageInv'
           /\ \A s \in StoredAt' : ClustersOf(dir[s])' = ClustersOf(dir[s])
<1>1. ASSUME NEW s \in StoredAt'
      PROVE  FileWhole(s)' /\ ClustersOf(dir[s])' = ClustersOf(dir[s])
  BY StoredClusters, FileKept DEF ImageInv
<1>2. ASSUME NEW s \in StoredAt', NEW t \in StoredAt', s # t
      PROVE  ClustersOf(dir[s])' \cap ClustersOf(dir[t])' = {}
  <2>1. s \in StoredAt /\ t \in StoredAt
    OBVIOUS
  <2>2. ClustersOf(dir[s]) \cap ClustersOf(dir[t]) = {}
    BY <1>2, <2>1 DEF ImageInv
  <2> QED
    BY <1>1, <2>2
<1> QED
  BY <1>1, <1>2 DEF ImageInv

-----------------------------------------------------------------------------
\* The copy of the FAT and the clusters written do not leave the free ones.
LEMMA WrittenFacts ==
    ASSUME ImageInv, SaveInv, NEW C, Written(C)
    PROVE  /\ cmd.block - 1 \in Nat /\ Clusters(cmd.file.size) \in Nat
           /\ \A k \in 1 .. cmd.block - 1 : C[k] \in FreeIn(fat) /\ C[k] <= cmd.prev
           /\ cmd.prev \in Entries \cup {-1} /\ cmd.prev \in Int
           /\ \A c \in Entries : c > cmd.prev => memFat[c] = fat[c]
           /\ FreeIn(fat) \subseteq Usable
<1> DEFINE w == cmd.block - 1
<1>1. w \in Nat /\ Clusters(cmd.file.size) \in Nat
  <2>1. cmd.file \in Files /\ cmd.block \in Nat \ {0}
    BY DEF SaveInv, SaveCmds
  <2> QED
    BY <2>1, FilesAreStored, ClustersHold
<1>2. FreeIn(fat) \subseteq Usable
  BY SizeAssumption DEF ImageInv, FreeIn, Entries, Usable, Media, LastMark, FreeEntry
<1>3. \A k \in 1 .. w : C[k] \in FreeIn(fat) /\ C[k] \in Nat
  BY <1>2, Constants DEF Written
<1>4. CASE w = 0
  <2>1. cmd.prev = -1
    BY <1>4 DEF Written
  <2> QED
    BY <1>1, <1>2, <1>4, <2>1 DEF Written
<1>5. CASE w # 0
  <2>1. w \in 1 .. w /\ cmd.prev = C[w]
    <3>1. cmd.prev = IF w = 0 THEN -1 ELSE C[w]
      BY DEF Written
    <3> HIDE DEF w
    <3> QED
      BY <1>1, <1>5, <3>1
  <2>2. \A k \in 1 .. w : C[k] <= cmd.prev
    <3> TAKE k \in 1 .. w
    <3>1. CASE k = w
      BY <1>3, <2>1, <3>1
    <3>2. CASE k # w
      <4>1. k < w
        BY <1>1, <3>2
      <4>2. C[k] < C[w]
        BY <2>1, <4>1 DEF Written
      <4> QED
        BY <1>3, <2>1, <4>2
    <3> QED
      BY <3>1, <3>2
  <2>3. cmd.prev \in Entries
    BY <1>3, <2>1 DEF FreeIn
  <2>4. \A c \in Entries : c > cmd.prev => memFat[c] = fat[c]
    <3> TAKE c \in Entries
    <3> SUFFICES ASSUME c > cmd.prev PROVE memFat[c] = fat[c]
      OBVIOUS
    <3>1. ASSUME NEW k \in 1 .. w PROVE c # C[k]
      <4>1. C[k] <= cmd.prev /\ C[k] \in Nat /\ c \in Nat /\ cmd.prev \in Nat
        BY <1>3, <2>2, <2>3, Constants
      <4> HIDE DEF w
      <4> QED
        BY <4>1
    <3> QED
      BY <3>1 DEF Written
  <2>5. cmd.prev \in Int
    <3>1. \A c \in Entries : c \in Int
      BY Constants
    <3> QED
      BY <2>3, <3>1
  <2> QED
    BY <1>1, <1>2, <1>3, <2>2, <2>3, <2>4, <2>5
<1> QED
  BY <1>4, <1>5

\* have_space has counted enough: while clusters are missing there is a free one
\* behind the last, and the search takes the first of them.
LEMMA SpaceLeft ==
    ASSUME ImageInv, SaveInv, cmd.left > 0, NEW C, Written(C)
    PROVE  /\ cmd.block - 1 < Clusters(cmd.file.size)
           /\ NextFree(cmd.prev) \in FreeIn(fat) /\ NextFree(cmd.prev) > cmd.prev
           /\ \A c \in FreeIn(fat) : c > cmd.prev => NextFree(cmd.prev) <= c
<1> DEFINE w == cmd.block - 1
           n == Clusters(cmd.file.size)
           F == FreeIn(fat)
<1>1. w \in Nat /\ n \in Nat /\ w < n
  <2>1. w \in Nat /\ n \in Nat /\ w * ClusterUnits < cmd.file.size <=> w < n
    BY WrittenFacts, FilesAreStored, ClustersHold DEF SaveInv, SaveCmds
  <2>2. w * ClusterUnits \in Nat /\ cmd.file.size \in Nat
    BY <2>1, WrittenFacts, FilesAreStored, SizeAssumption DEF SaveInv, SaveCmds
  <2> QED
    BY <2>1, <2>2, WrittenFacts DEF SaveInv, SaveCmds
<1>2. IsFiniteSet(F) /\ Cardinality(F) \in Nat /\ Cardinality(F) >= n
  <2>1. IsFiniteSet(F)
    BY Constants, FS_Subset DEF FreeIn
  <2>2. Max({n, 1}) >= n
    BY <1>1 DEF Max
  <2>3. Max({n, 1}) \in Nat
    BY <1>1 DEF Max
  <2> QED
    BY <2>1, <2>2, <2>3, <1>1, FS_CardinalityType DEF SaveInv, HaveSpace
<1>3. \E c \in F : c > cmd.prev
  <2> SUFFICES ASSUME \A c \in F : ~(c > cmd.prev) PROVE FALSE
    OBVIOUS
  <2>1. \A c \in F : \E k \in 1 .. w : c = C[k]
    <3>1. \A c \in F : c <= cmd.prev
      <4>1. \A c \in F : c \in Int
        BY Constants DEF FreeIn
      <4> QED
        BY WrittenFacts, <4>1
    <3> QED
      BY <3>1 DEF Written
  <2>2. C \in Surjection(1 .. w, F)
    BY <2>1 DEF Written, Surjection
  <2>3. Cardinality(F) <= w
    BY <2>2, <1>1, FS_SurjCardinalityBound DEF ExistsSurjection
  <2> QED
    BY <1>1, <1>2, <2>3
<1> DEFINE Above == {c \in FreeIn(memFat) : c > cmd.prev}
<1>4. Above = {c \in F : c > cmd.prev}
  BY WrittenFacts DEF FreeIn
<1>5. Above \in SUBSET Nat /\ Above # {}
  BY <1>3, <1>4, Constants DEF FreeIn
<1>6. NextFree(cmd.prev) = Min(Above)
  BY DEF NextFree
<1>7. NextFree(cmd.prev) \in Above /\ \A c \in Above : NextFree(cmd.prev) <= c
  <2> HIDE DEF Above
  <2> QED
    BY <1>5, <1>6, MinOf
<1> QED
  BY <1>1, <1>4, <1>7

\* A cluster that is written: the list of those written gets one more.
LEMMA WrittenGrows ==
    ASSUME ImageInv, SaveInv, WriteCluster, NEW C, Written(C)
    PROVE  \E D \in [1 .. cmd'.block - 1 -> Entries] : Written(D)'
<1>a. PICK w : w = cmd.block - 1
  OBVIOUS
<1>b. PICK c : c = NextFree(cmd.prev)
  OBVIOUS
<1> DEFINE D == [k \in 1 .. w + 1 |-> IF k <= w THEN C[k] ELSE c]
<1>0. w \in Nat
  BY <1>a DEF SaveInv, SaveCmds
<1>1. /\ cmd.left \in Int /\ cmd.left > 0 /\ fat' = fat /\ w \in Nat
      /\ cmd'.prev = c /\ cmd'.block - 1 = w + 1 /\ cmd'.left = cmd.left - ClusterUnits
      /\ cmd'.file = cmd.file
      /\ memFat' = Linked(c)
      /\ data' = [data EXCEPT ![c] = <<cmd.file.content, cmd.block>>]
  BY <1>a, <1>b DEF WriteCluster, SaveInv, SaveCmds
<1>2. c \in FreeIn(fat) /\ c > cmd.prev /\ \A d \in FreeIn(fat) : d > cmd.prev => c <= d
  BY <1>1, <1>b, SpaceLeft
<1>3. /\ c \in Entries /\ FreeIn(fat)' = FreeIn(fat) /\ FreeIn(fat) \subseteq Entries
      /\ \A d \in Entries : d \in Int /\ d \in Nat
  BY <1>1, <1>2, Constants DEF FreeIn
<1>4. cmd.prev \in Int /\ \A k \in 1 .. w : C[k] \in FreeIn(fat) /\ C[k] <= cmd.prev
  BY <1>a, WrittenFacts
<1>5. \A k \in 1 .. w : C[k] < c /\ C[k] # c /\ D[k] = C[k]
  BY <1>1, <1>2, <1>3, <1>4
<1>6. w + 1 \in 1 .. w + 1 /\ D[w + 1] = c /\ w + 1 # 0
  BY <1>1
<1>7. /\ cmd.prev = IF w = 0 THEN -1 ELSE C[w]
      /\ w > 0 => C[1] = Min(FreeIn(fat))
      /\ \A j, k \in 1 .. w : j < k => C[j] < C[k]
      /\ \A d \in FreeIn(fat) : d <= cmd.prev => \E k \in 1 .. w : d = C[k]
      /\ \A k \in 1 .. w : k < w => memFat[C[k]] = C[k + 1]
      /\ \A d \in Entries : (\A k \in 1 .. w : d # C[k]) => memFat[d] = fat[d]
      /\ \A k \in 1 .. w : data[C[k]] = <<cmd.file.content, k>>
  BY <1>a DEF Written
<1>8. D \in [1 .. w + 1 -> FreeIn(fat)]
  BY <1>1, <1>2, <1>4
<1> HIDE DEF D
<1>9. D[1] = Min(FreeIn(fat))
  <2>1. CASE w = 0
    <3>1. D[1] = c /\ cmd.prev = -1
      BY <2>1, <1>6, <1>7
    <3>2. FreeIn(fat) \in SUBSET Nat /\ FreeIn(fat) # {}
      BY <1>2, <1>3
    <3>3. Min(FreeIn(fat)) \in FreeIn(fat) /\ Min(FreeIn(fat)) <= c
      BY <1>2, <3>2, MinOf
    <3>4. \A d \in Nat : d > -1
      OBVIOUS
    <3>5. c <= Min(FreeIn(fat))
      BY <1>2, <3>1, <3>2, <3>3, <3>4
    <3> QED
      BY <1>2, <3>1, <3>2, <3>3, <3>5
  <2>2. CASE w # 0
    <3>1. w > 0 /\ 1 \in 1 .. w
      BY <1>0, <2>2
    <3> QED
      BY <1>5, <1>7, <3>1
  <2> QED
    BY <2>1, <2>2
<1>10. \A j, k \in 1 .. w + 1 : j < k => D[j] < D[k]
  <2> TAKE j, k \in 1 .. w + 1
  <2> SUFFICES ASSUME j < k PROVE D[j] < D[k]
    OBVIOUS
  <2>1. j \in 1 .. w /\ (k = w + 1 \/ k \in 1 .. w)
    BY <1>1
  <2>2. CASE k \in 1 .. w
    BY <1>5, <1>7, <2>1, <2>2
  <2>3. CASE k = w + 1
    BY <1>5, <1>6, <2>1, <2>3
  <2> QED
    BY <2>1, <2>2, <2>3
<1>11. \A d \in FreeIn(fat) : d <= c => \E k \in 1 .. w + 1 : d = D[k]
  <2> TAKE d \in FreeIn(fat)
  <2> SUFFICES ASSUME d <= c, d # c PROVE \E k \in 1 .. w + 1 : d = D[k]
    BY <1>6
  <2>1. d <= cmd.prev
    BY <1>2, <1>3, <1>4
  <2>2. PICK k \in 1 .. w : d = C[k]
    BY <2>1, <1>7
  <2>3. k \in 1 .. w + 1
    BY <1>1
  <2> QED
    BY <1>5, <2>2, <2>3
<1>12. \A k \in 1 .. w + 1 :
          memFat'[D[k]] = IF k < w + 1 THEN D[k + 1]
                          ELSE IF cmd'.left <= 0 THEN LastMark ELSE FreeEntry
  <2> TAKE k \in 1 .. w + 1
  <2>1. CASE k = w + 1
    <3>1. memFat'[c] = IF cmd.left <= ClusterUnits THEN LastMark ELSE memFat[c]
      BY <1>1, <1>2, <1>3, <1>4 DEF Linked
    <3>2. memFat[c] = FreeEntry
      BY <1>2, <1>3, WrittenFacts DEF FreeIn
    <3>3. cmd'.left <= 0 <=> cmd.left <= ClusterUnits
      BY <1>1, SizeAssumption
    <3> QED
      BY <1>1, <1>6, <2>1, <3>1, <3>2, <3>3
  <2>2. CASE k # w + 1
    <3>1. k \in 1 .. w /\ k < w + 1 /\ D[k] = C[k] /\ C[k] # c /\ C[k] \in Entries
      BY <1>1, <1>3, <1>4, <1>5, <2>2
    <3>2. CASE k = w
      <4>1. C[k] = cmd.prev /\ D[k + 1] = c
        BY <1>6, <1>7, <3>1, <3>2
      <4> QED
        BY <1>1, <3>1, <4>1 DEF Linked
    <3>3. CASE k # w
      <4>1. k + 1 \in 1 .. w /\ k < w /\ w \in 1 .. w
        BY <1>1, <3>1, <3>3
      <4>2. memFat[C[k]] = C[k + 1] /\ C[k] < C[w]
        BY <1>7, <3>1, <4>1
      <4>3. cmd.prev = C[w] /\ C[w] \in Int /\ C[k] \in Int
        BY <1>3, <1>4, <1>7, <3>1, <4>1
      <4>4. C[k] # cmd.prev
        BY <4>2, <4>3
      <4>5. memFat'[C[k]] = memFat[C[k]]
        BY <1>1, <3>1, <4>4 DEF Linked
      <4> QED
        BY <1>5, <3>1, <4>1, <4>2, <4>5
    <3> QED
      BY <3>2, <3>3
  <2> QED
    BY <2>1, <2>2
<1>13. \A d \in Entries : (\A k \in 1 .. w + 1 : d # D[k]) => memFat'[d] = fat[d]
  <2> TAKE d \in Entries
  <2> SUFFICES ASSUME \A k \in 1 .. w + 1 : d # D[k] PROVE memFat'[d] = fat[d]
    OBVIOUS
  <2>1. d # c /\ \A k \in 1 .. w : d # C[k]
    BY <1>1, <1>5, <1>6
  <2>2. d # cmd.prev
    <3>1. CASE w = 0
      BY <1>3, <1>7, <3>1
    <3>2. CASE w # 0
      <4>1. w \in 1 .. w
        BY <1>0, <3>2
      <4> QED
        BY <1>7, <2>1, <3>2, <4>1
    <3> QED
      BY <3>1, <3>2
  <2>3. memFat[d] = fat[d]
    BY <2>1, <1>7
  <2> QED
    BY <1>1, <2>1, <2>2, <2>3 DEF Linked
<1>14. \A k \in 1 .. w + 1 : data'[D[k]] = <<cmd'.file.content, k>>
  <2> TAKE k \in 1 .. w + 1
  <2>0. DOMAIN data = Entries
    BY DEF ImageInv
  <2>1. CASE k = w + 1
    <3>1. data'[c] = <<cmd.file.content, cmd.block>> /\ cmd.block = k
      BY <1>1, <1>3, <1>a, <2>0, <2>1 DEF SaveInv, SaveCmds
    <3> QED
      BY <1>1, <1>6, <2>1, <3>1
  <2>2. CASE k # w + 1
    <3>1. k \in 1 .. w /\ D[k] = C[k] /\ C[k] # c /\ C[k] \in Entries
      BY <1>1, <1>3, <1>4, <1>5, <2>2
    <3>2. data[C[k]] = <<cmd.file.content, k>>
      BY <1>7, <3>1
    <3> QED
      BY <1>1, <2>0, <3>1, <3>2
  <2> QED
    BY <2>1, <2>2
<1>15. w + 1 > 0 /\ cmd'.prev = D[w + 1]
  BY <1>1, <1>6
<1>16. Written(D)'
  BY <1>1, <1>3, <1>6, <1>8, <1>9, <1>10, <1>11, <1>12, <1>13, <1>14, <1>15, SMTT(60) DEF Written
<1>17. D \in [1 .. cmd'.block - 1 -> Entries]
  BY <1>1, <1>3, <1>8
<1> QED
  BY <1>16, <1>17

-----------------------------------------------------------------------------
Good == ImageInv /\ StageInv

\* Slots whose files stored' holds are those stored holds, when stored stays.
LEMMA StoredAtStays == stored' = stored => StoredAt' = StoredAt
BY DEF StoredAt, IsStored

LEMMA ImageStays ==
    ASSUME ImageInv, UNCHANGED <<fat, dir, stored>>,
           data' \in [Entries -> Contents \X Nat \cup {NoData}],
           \A c \in Entries \ FreeIn(fat) : data'[c] = data[c]
    PROVE  ImageInv' /\ StoredAt' = StoredAt /\ Kept' = Kept
<1>1. StoredAt' = StoredAt
  BY StoredAtStays
<1>2. \A s \in StoredAt : \A c \in ClustersOf(dir[s]) : c \in Entries \ FreeIn(fat)
  BY StoredClusters, Constants
<1>3. /\ fat' = fat /\ dir' = dir /\ stored' = stored
      /\ DOMAIN dir' = Slots /\ fat' \in [Entries -> Links]
      /\ fat'[0] = Media /\ fat'[1] = LastMark
      /\ stored' \in [Slots -> Files \cup {NoFile}]
      /\ \A s, t \in Slots : s < t /\ dir'[s] = Empty => dir'[t] = Empty
  BY DEF ImageInv
<1>4. ImageInv' /\ \A s \in StoredAt' : ClustersOf(dir[s])' = ClustersOf(dir[s])
  BY <1>1, <1>2, <1>3, ImageKept
<1> QED
  BY <1>1, <1>4 DEF Kept

\* A fresh image holds nothing.
LEMMA FreshIsGood ==
    /\ Init => ImageInv /\ StageInv /\ CleanInv
    /\ Format => (ImageInv /\ StageInv /\ CleanInv)'
<1>1. /\ FreshFat \in [Entries -> Links] /\ FreshFat[0] = Media /\ FreshFat[1] = LastMark
      /\ InUse(FreshFat) = {0, 1}
  <2>1. FreshFat \in [Entries -> Links]
    BY Constants DEF FreshFat, Links, FreeEntry
  <2>2. FreshFat[0] = Media /\ FreshFat[1] = LastMark
    BY Constants DEF FreshFat
  <2>3. \A c \in Entries : FreshFat[c] = FreeEntry <=> c \notin {0, 1}
    BY DEF FreshFat, FreeEntry, Media, LastMark
  <2> QED
    BY <2>1, <2>2, <2>3, Constants DEF InUse, FreeIn
<1>2. /\ NothingKept \in [Slots -> Files \cup {NoFile}]
      /\ FreshData \in [Entries -> Contents \X Nat \cup {NoData}]
      /\ DOMAIN FreshDir = Slots /\ \A s \in Slots : FreshDir[s] = Empty /\ ~IsFile(FreshDir[s])
  BY DEF NothingKept, FreshData, FreshDir, Empty, IsFile
<1>3. ASSUME Init PROVE ImageInv /\ StageInv /\ CleanInv
  <2>1. StoredAt = {}
    BY <1>3 DEF Init, StoredAt, IsStored, NothingKept
  <2>2. Kept = {0, 1}
    BY <2>1 DEF Kept
  <2>3. ImageInv
    BY <1>1, <1>2, <1>3, <2>1 DEF Init, ImageInv
  <2>4. CleanInv
    BY <1>1, <1>2, <1>3, <2>1, <2>2 DEF Init, CleanInv, StoredAt, Entered
  <2> QED
    BY <1>3, <2>3, <2>4 DEF Init, StageInv
<1>4. ASSUME Format PROVE (ImageInv /\ StageInv /\ CleanInv)'
  <2>1. StoredAt' = {}
    BY <1>4 DEF Format, StoredAt, IsStored, NothingKept
  <2>2. Kept' = {0, 1}
    BY <2>1 DEF Kept
  <2>3. ImageInv'
    BY <1>1, <1>2, <1>4, <2>1 DEF Format, ImageInv
  <2>4. CleanInv'
    BY <1>1, <1>2, <1>4, <2>1, <2>2 DEF Format, CleanInv, StoredAt, Entered, InUse, FreeIn, IsFile
  <2> QED
    BY <1>4, <2>3, <2>4 DEF Format, StageInv
<1> QED
  BY <1>3, <1>4

LEMMA SaveBeginKeeps ==
    ASSUME Good, NEW n \in Names, NEW c \in Contents, NEW s \in Sizes, SaveBegin(n, c, s)
    PROVE  Good' /\ (~stopped /\ CleanInv => CleanInv')
<1> DEFINE slot == Min(OpenSlots(dir))
<1>1. pc = "idle" /\ pc' = "write" /\ memFat' = fat /\ ImageInv
      /\ OpenSlots(dir) # {} /\ HaveSpace(fat, Clusters(s))
      /\ fat' = fat /\ dir' = dir /\ data' = data /\ stored' = stored
      /\ cmd' = [op |-> "save", slot |-> slot, prev |-> -1, block |-> 1,
                 left |-> s, file |-> [name |-> n, content |-> c, size |-> s]]
      /\ memDir' = [dir EXCEPT ![slot] = FileInfo(n, Min(FreeIn(fat)), s)]
  BY DEF SaveBegin, Good
<1>2. ImageInv' /\ StoredAt' = StoredAt /\ Kept' = Kept
  BY <1>1, ImageStays DEF ImageInv
<1>3. slot \in OpenSlots(dir)
  <2>1. OpenSlots(dir) \in SUBSET Nat
    BY SizeAssumption DEF OpenSlots, Slots
  <2> QED
    BY <1>1, <2>1, MinOf
<1>4. slot \in Slots /\ slot \notin StoredAt
  BY <1>1, <1>3 DEF OpenSlots, ImageInv, FileWhole
<1> HIDE DEF slot
<1>5. s \in Nat
  BY SizeAssumption
<1>6. /\ cmd' \in SaveCmds
      /\ cmd'.op = "save" /\ cmd'.slot = slot /\ cmd'.prev = -1 /\ cmd'.block = 1
      /\ cmd'.left = s /\ cmd'.file.size = s /\ cmd'.file.name = n
  BY <1>1, <1>4, <1>5 DEF SaveCmds, Files
<1>7. SaveInv'
  <2>1. Clusters(s) \in Nat
    BY <1>5, ClustersHold
  <2>2. cmd'.block - 1 <= Clusters(s) /\ cmd'.left = s - (cmd'.block - 1) * ClusterUnits
    BY <1>5, <1>6, <2>1, SizeAssumption
  <2>3. \E C \in [1 .. cmd'.block - 1 -> Entries] : Written(C)'
    <3> DEFINE C == [k \in 1 .. 0 |-> 0]
    <3>1. C \in [1 .. cmd'.block - 1 -> Entries] /\ cmd'.block - 1 = 0
      BY <1>6
    <3>2. \A d \in Entries : ~(d <= -1)
      BY Constants
    <3>3. Written(C)'
      BY <1>1, <1>6, <3>1, <3>2 DEF Written, FreeIn
    <3> QED
      BY <3>1, <3>3
  <2>4. HaveSpace(fat, Clusters(cmd.file.size))'
    BY <1>1, <1>6 DEF HaveSpace, FreeIn, Clusters
  <2>5. memFat' \in [Entries -> Links]
    BY <1>1 DEF ImageInv
  <2> QED
    BY <1>2, <1>4, <1>6, <2>2, <2>3, <2>4, <2>5 DEF SaveInv, Clusters
<1>8. /\ Min(OpenSlots(dir))' = slot /\ OpenSlots(dir)' # {}
      /\ SavedEntry' = FileInfo(n, Min(FreeIn(fat)), s)
  BY <1>1, <1>6 DEF slot, OpenSlots, SavedEntry, FreeIn, IsFile, FileInfo
<1>9. ~stopped /\ CleanInv => CleanInv'
  BY <1>1, <1>2 DEF CleanInv, SaveBegin, Entered, IsFile, IsStored, InUse, FreeIn
<1> QED
  BY <1>1, <1>2, <1>6, <1>7, <1>8, <1>9 DEF Good, StageInv

LEMMA WriteClusterKeeps ==
    ASSUME Good, WriteCluster
    PROVE  Good' /\ (~stopped /\ CleanInv => CleanInv')
<1>1. pc = "write" /\ pc' = "write" /\ cmd.left > 0
      /\ fat' = fat /\ dir' = dir /\ stored' = stored /\ memDir' = memDir
  BY DEF WriteCluster
<1>2. ImageInv /\ SaveInv /\ cmd.slot = Min(OpenSlots(dir)) /\ OpenSlots(dir) # {}
      /\ memDir = [dir EXCEPT ![cmd.slot] = SavedEntry]
  BY <1>1 DEF Good, StageInv
<1>3. PICK C \in [1 .. cmd.block - 1 -> Entries] : Written(C)
  BY <1>2 DEF SaveInv
<1>4. PICK c : c = NextFree(cmd.prev)
  OBVIOUS
<1>5. c \in FreeIn(fat) /\ c \in Entries
  BY <1>1, <1>2, <1>3, <1>4, SpaceLeft DEF FreeIn
<1>6. /\ data' = [data EXCEPT ![c] = <<cmd.file.content, cmd.block>>]
      /\ cmd' = [cmd EXCEPT !.prev = c, !.block = @ + 1, !.left = @ - ClusterUnits]
      /\ memFat' = Linked(c)
  BY <1>4 DEF WriteCluster
<1>7. cmd \in SaveCmds /\ c \in Int
  BY <1>2, <1>5, Constants DEF SaveInv
<1>8. /\ cmd' \in SaveCmds /\ cmd'.slot = cmd.slot /\ cmd'.file = cmd.file
      /\ cmd'.block = cmd.block + 1 /\ cmd'.left = cmd.left - ClusterUnits
      /\ cmd.file \in Files /\ cmd.block \in Nat \ {0} /\ cmd.left \in Int
  <2>1. cmd.block + 1 \in Nat \ {0} /\ cmd.left - ClusterUnits \in Int
    BY <1>7, SizeAssumption DEF SaveCmds
  <2> QED
    BY <1>6, <1>7, <2>1 DEF SaveCmds
<1>9. ImageInv' /\ StoredAt' = StoredAt /\ Kept' = Kept
  <2>1. data \in [Entries -> Contents \X Nat \cup {NoData}]
    BY <1>2 DEF ImageInv
  <2>2. <<cmd.file.content, cmd.block>> \in Contents \X Nat
    BY <1>8 DEF Files
  <2>3. data' \in [Entries -> Contents \X Nat \cup {NoData}]
    BY <1>6, <2>1, <2>2
  <2>4. \A d \in Entries \ FreeIn(fat) : data'[d] = data[d]
    BY <1>5, <1>6, <2>1
  <2> QED
    BY <1>1, <1>2, <2>3, <2>4, ImageStays
<1>10. memFat' \in [Entries -> Links]
  BY <1>2, <1>5, <1>6 DEF SaveInv, Linked, Links
<1>11. /\ cmd'.block - 1 <= Clusters(cmd.file.size)
       /\ cmd'.left = cmd.file.size - (cmd'.block - 1) * ClusterUnits
  <2>1. cmd.block - 1 < Clusters(cmd.file.size) /\ Clusters(cmd.file.size) \in Nat
    BY <1>1, <1>2, <1>3, SpaceLeft, WrittenFacts
  <2>2. cmd.left = cmd.file.size - (cmd.block - 1) * ClusterUnits
    BY <1>2 DEF SaveInv
  <2>3. cmd.file.size \in Nat /\ ClusterUnits \in Nat
    BY <1>8, FilesAreStored, SizeAssumption
  <2>4. (cmd'.block - 1) * ClusterUnits = (cmd.block - 1) * ClusterUnits + ClusterUnits
    BY <1>8, <2>3
  <2>5. (cmd.block - 1) * ClusterUnits \in Int
    BY <1>8, <2>3
  <2> QED
    BY <1>8, <2>1, <2>2, <2>3, <2>4, <2>5, SMTT(30)
<1>12. \E D \in [1 .. cmd'.block - 1 -> Entries] : Written(D)'
  BY <1>2, <1>3, WrittenGrows
<1>13. SaveInv'
  BY <1>1, <1>2, <1>8, <1>9, <1>10, <1>11, <1>12 DEF SaveInv, HaveSpace, FreeIn, Clusters
<1>14. /\ Min(OpenSlots(dir))' = Min(OpenSlots(dir)) /\ OpenSlots(dir)' = OpenSlots(dir)
       /\ SavedEntry' = SavedEntry
  BY <1>1, <1>8 DEF OpenSlots, SavedEntry, FreeIn, IsFile, FileInfo
<1>15. ~stopped /\ CleanInv => CleanInv'
  BY <1>1, <1>9 DEF CleanInv, WriteCluster, Entered, IsFile, IsStored, InUse, FreeIn
<1> QED
  BY <1>1, <1>2, <1>8, <1>9, <1>13, <1>14, <1>15 DEF Good, StageInv

\* Cluster 0 is not free, so no save takes it.
LEMMA DirIsSafe == Good => ~WriteOverDir
<1> SUFFICES ASSUME Good, WriteOverDir PROVE FALSE
  OBVIOUS
<1>1. pc = "write" /\ cmd.left > 0 /\ NextFree(cmd.prev) = 0
  BY DEF WriteOverDir
<1>2. ImageInv /\ SaveInv
  BY <1>1 DEF Good, StageInv
<1>3. PICK C \in [1 .. cmd.block - 1 -> Entries] : Written(C)
  BY <1>2 DEF SaveInv
<1>4. 0 \in FreeIn(fat)
  BY <1>1, <1>2, <1>3, SpaceLeft
<1> QED
  BY <1>2, <1>4 DEF ImageInv, FreeIn, Media, FreeEntry

\* DirInfo.write leaves nothing out when no entry before the new one is empty.
LEMMA WholeDirWritten ==
    ASSUME ImageInv, NEW slot \in Slots, NEW x, x # Empty,
           memDir = [dir EXCEPT ![slot] = x], \A t \in Slots : t < slot => dir[t] # Empty
    PROVE  /\ WrittenDir = memDir /\ DOMAIN memDir = Slots
           /\ \A s, t \in Slots : s < t /\ memDir[s] = Empty => memDir[t] = Empty
<1>1. DOMAIN dir = Slots /\ \A s, t \in Slots : s < t /\ dir[s] = Empty => dir[t] = Empty
  BY DEF ImageInv
<1>2. memDir[slot] = x /\ \A s \in Slots : s # slot => memDir[s] = dir[s]
  BY <1>1
<1>3. \A s \in Slots : s \in Nat /\ \A t \in 1 .. s : t \in Slots /\ t <= s
  BY SizeAssumption DEF Slots
<1>4. ~ \E t \in 1 .. slot : memDir[t] = Empty
  BY <1>2, <1>3
<1>5. \A s \in Slots : WrittenDir[s] = memDir[s]
  BY <1>2, <1>4 DEF WrittenDir
<1>6. WrittenDir = memDir
  <2>1. WrittenDir = [s \in Slots |-> WrittenDir[s]]
    BY DEF WrittenDir
  <2>2. memDir = [s \in Slots |-> memDir[s]]
    BY <1>1
  <2> QED
    BY <1>5, <2>1, <2>2
<1>7. \A s, t \in Slots : s < t /\ memDir[s] = Empty => memDir[t] = Empty
  BY <1>1, <1>2, <1>3
<1> QED
  BY <1>1, <1>6, <1>7

LEMMA WriteDirKeeps ==
    ASSUME Good, WriteDir
    PROVE  Good' /\ (~stopped /\ CleanInv => CleanInv')
<1> DEFINE slot == cmd.slot
<1>1. /\ pc' = "fat" /\ dir' = WrittenDir /\ stored' = [stored EXCEPT ![slot] = NoFile]
      /\ fat' = fat /\ data' = data /\ memFat' = memFat /\ memDir' = memDir /\ cmd' = cmd
      /\ stopped' = stopped /\ misused' = misused
      /\ ImageInv
  BY DEF WriteDir, Good
<1>0. pc = "dir" \/ (pc = "write" /\ cmd.left <= 0)
  BY DEF WriteDir
<1>2. \A e : (IsFile(e) => e # Empty) /\ Deleted # Empty /\ SavedEntry # Empty
                /\ ~IsFile(Deleted) /\ IsFile(SavedEntry)
  BY DEF IsFile, Empty, Deleted, SavedEntry, FileInfo
<1>3. ASSUME slot \in Slots
      PROVE  /\ stored' \in [Slots -> Files \cup {NoFile}]
             /\ StoredAt' = StoredAt \ {slot}
             /\ \A s \in StoredAt' : stored'[s] = stored[s]
  BY <1>1, <1>3 DEF ImageInv, StoredAt, IsStored
<1>4. CASE pc = "write"
  <2>1. /\ SaveInv /\ cmd.left <= 0 /\ slot = Min(OpenSlots(dir)) /\ OpenSlots(dir) # {}
        /\ memDir = [dir EXCEPT ![slot] = SavedEntry]
    BY <1>0, <1>4 DEF Good, StageInv
  <2>2. slot \in Slots /\ slot \notin StoredAt /\ cmd.op = "save"
    BY <2>1 DEF SaveInv, SaveCmds
  <2>3. \A t \in Slots : t < slot => dir[t] # Empty
    <3>1. OpenSlots(dir) \in SUBSET Nat
      BY SizeAssumption DEF OpenSlots, Slots
    <3>2. \A t \in OpenSlots(dir) : slot <= t
      BY <2>1, <3>1, MinOf
    <3>3. \A t \in Slots : t \in Nat
      BY SizeAssumption DEF Slots
    <3> QED
      BY <1>2, <2>2, <3>2, <3>3 DEF OpenSlots
  <2>4. /\ dir' = memDir /\ DOMAIN memDir = Slots
        /\ \A s, t \in Slots : s < t /\ memDir[s] = Empty => memDir[t] = Empty
    BY <1>1, <1>2, <2>1, <2>2, <2>3, WholeDirWritten
  <2>5. StoredAt' = StoredAt /\ \A s \in StoredAt' : stored'[s] = stored[s] /\ dir'[s] = dir[s]
    BY <1>1, <1>3, <2>1, <2>2, <2>4 DEF ImageInv, StoredAt
  <2>6. ImageInv' /\ \A s \in StoredAt' : ClustersOf(dir[s])' = ClustersOf(dir[s])
    <3>1. /\ fat' \in [Entries -> Links] /\ fat'[0] = Media /\ fat'[1] = LastMark
          /\ data' \in [Entries -> Contents \X Nat \cup {NoData}]
      BY <1>1 DEF ImageInv
    <3> QED
      BY <1>1, <1>3, <2>2, <2>4, <2>5, <3>1, ImageKept
  <2>7. Kept' = Kept
    BY <2>5, <2>6 DEF Kept
  <2>8. SaveInv' /\ dir'[slot] = SavedEntry'
    <3>1. \E C \in [1 .. cmd'.block - 1 -> Entries] : Written(C)'
      <4>1. PICK C \in [1 .. cmd.block - 1 -> Entries] : Written(C)
        BY <2>1 DEF SaveInv
      <4>2. Written(C)'
        BY <1>1, <4>1 DEF Written, FreeIn
      <4> QED
        BY <1>1, <4>1, <4>2
    <3>2. SavedEntry' = SavedEntry
      BY <1>1 DEF SavedEntry, FreeIn, FileInfo
    <3>3. memDir[slot] = SavedEntry
      BY <1>1, <2>1, <2>2 DEF ImageInv
    <3> QED
      BY <1>1, <2>1, <2>4, <2>5, <3>1, <3>2, <3>3 DEF SaveInv, HaveSpace, FreeIn, Clusters
  <2>9. ASSUME ~stopped, CleanInv PROVE CleanInv'
    <3>1. \A s \in Slots : IsFile(dir'[s]) <=> IsStored(s)' \/ Entered(s)'
      <4> TAKE s \in Slots
      <4>1. CASE s = slot
        BY <1>1, <1>2, <2>2, <2>8, <4>1 DEF Entered, SavedEntry, IsFile, FileInfo
      <4>2. CASE s # slot
        <5>1. dir'[s] = dir[s] /\ (IsStored(s)' <=> IsStored(s)) /\ ~Entered(s) /\ ~Entered(s)'
          BY <1>1, <1>4, <2>1, <2>4, <4>2 DEF ImageInv, IsStored, Entered
        <5> QED
          BY <2>9, <5>1 DEF CleanInv
      <4> QED
        BY <4>1, <4>2
    <3> QED
      BY <1>1, <1>4, <2>2, <2>7, <2>9, <3>1 DEF CleanInv, InUse, FreeIn, IsFile
  <2> QED
    BY <1>1, <2>1, <2>6, <2>8, <2>9 DEF Good, StageInv
<1>5. CASE pc = "dir"
  <2>1. /\ cmd.op = "del" /\ slot \in StoredAt /\ slot \in Slots
        /\ memDir = [dir EXCEPT ![slot] = Deleted]
        /\ Cleared(ClustersOf(dir[slot]))
    BY <1>5 DEF Good, StageInv, StoredAt
  <2>2. PICK X : X = ClustersOf(dir[slot])
    OBVIOUS
  <2>3. X \subseteq Usable /\ Cleared(X)
    BY <1>1, <2>1, <2>2, StoredClusters
  <2>4. \A t \in Slots : t < slot => dir[t] # Empty
    <3>1. dir[slot] # Empty
      BY <1>1, <1>2, <2>1 DEF ImageInv, FileWhole
    <3> QED
      BY <1>1, <2>1, <3>1 DEF ImageInv
  <2>5. /\ dir' = memDir /\ DOMAIN memDir = Slots
        /\ \A s, t \in Slots : s < t /\ memDir[s] = Empty => memDir[t] = Empty
    BY <1>1, <1>2, <2>1, <2>4, WholeDirWritten
  <2>6. StoredAt' = StoredAt \ {slot}
        /\ \A s \in StoredAt' : stored'[s] = stored[s] /\ dir'[s] = dir[s]
    BY <1>1, <1>3, <2>1, <2>5 DEF ImageInv, StoredAt
  <2>7. ImageInv' /\ \A s \in StoredAt' : ClustersOf(dir[s])' = ClustersOf(dir[s])
    <3>1. /\ fat' \in [Entries -> Links] /\ fat'[0] = Media /\ fat'[1] = LastMark
          /\ data' \in [Entries -> Contents \X Nat \cup {NoData}]
      BY <1>1 DEF ImageInv
    <3> QED
      BY <1>1, <1>3, <2>1, <2>5, <2>6, <3>1, ImageKept
  <2>8. X \cap Kept' = {} /\ Kept = Kept' \cup X
    <3>1. \A s \in StoredAt' : X \cap ClustersOf(dir[s]) = {}
      BY <1>1, <2>1, <2>2, <2>6 DEF ImageInv
    <3>2. \A c : c \in Kept' <=> c \in {0, 1} \/ \E s \in StoredAt \ {slot} : c \in ClustersOf(dir[s])
      BY <2>6, <2>7 DEF Kept
    <3>3. \A c : c \in Kept <=> c \in {0, 1} \/ \E s \in StoredAt : c \in ClustersOf(dir[s])
      BY DEF Kept
    <3>4. \A c \in X : c \notin {0, 1}
      BY <2>3, Constants
    <3>5. X \cap Kept' = {}
      BY <2>6, <3>1, <3>2, <3>4
    <3>6. \A c : c \in Kept <=> c \in Kept' \/ c \in X
      BY <2>1, <2>2, <3>2, <3>3
    <3> QED
      BY <3>5, <3>6
  <2>9. Cleared(X)' /\ ~IsFile(dir'[slot]) /\ slot \in Slots \ StoredAt'
    BY <1>1, <1>2, <2>1, <2>3, <2>5, <2>6 DEF Cleared, ImageInv
  <2>10. ASSUME ~stopped, CleanInv PROVE CleanInv'
    <3>1. \A s \in Slots : IsFile(dir'[s]) <=> IsStored(s)' \/ Entered(s)'
      <4> TAKE s \in Slots
      <4>1. CASE s = slot
        BY <1>1, <2>1, <2>9, <4>1 DEF Entered, StoredAt
      <4>2. CASE s # slot
        <5>1. dir'[s] = dir[s] /\ (IsStored(s)' <=> IsStored(s)) /\ ~Entered(s) /\ ~Entered(s)'
          BY <1>1, <1>5, <2>1, <2>5, <4>2 DEF ImageInv, IsStored, Entered
        <5> QED
          BY <2>10, <5>1 DEF CleanInv
      <4> QED
        BY <4>1, <4>2
    <3>2. InUse(memFat) = InUse(fat) \ X
      BY <2>3 DEF InUse, FreeIn, Cleared
    <3>3. InUse(fat) = Kept
      BY <1>5, <2>10 DEF CleanInv
    <3>4. InUse(memFat') = Kept'
      BY <1>1, <2>8, <3>2, <3>3
    <3> QED
      BY <1>1, <2>1, <2>10, <3>1, <3>4 DEF CleanInv, IsFile, InUse, FreeIn
  <2> QED
    BY <1>1, <2>1, <2>3, <2>7, <2>8, <2>9, <2>10 DEF Good, StageInv, IsFile
<1> QED
  BY <1>0, <1>4, <1>5

\* The copy of the FAT, with the file a save has written and marked as ended.
LEMMA SavedIsWhole ==
    ASSUME ImageInv, SaveInv, cmd.left <= 0, NEW C, Written(C)
    PROVE  /\ IsChain(memFat, SavedEntry, C) /\ Clusters(cmd.file.size) \in Nat
           /\ \A k \in DOMAIN C : C[k] \in FreeIn(fat)
                                  /\ data[C[k]] = <<cmd.file.content, k>>
           /\ \A c \in Entries : memFat[c] = FreeEntry
                 <=> c \in FreeIn(fat) /\ \A k \in DOMAIN C : c # C[k]
           /\ \A c \in Entries \ FreeIn(fat) : memFat[c] = fat[c]
<1> DEFINE n == Clusters(cmd.file.size)
<1>1. cmd.block - 1 = n /\ n \in Nat
  <2>1. PICK w : w = cmd.block - 1
    OBVIOUS
  <2>2. w \in Nat /\ n \in Nat /\ w <= n /\ cmd.left \in Int
    BY <2>1, WrittenFacts DEF SaveInv, SaveCmds
  <2>3. cmd.file.size \in Nat /\ (w * ClusterUnits < cmd.file.size <=> w < n)
    BY <2>2, FilesAreStored, ClustersHold DEF SaveInv, SaveCmds
  <2>4. cmd.left = cmd.file.size - w * ClusterUnits
    BY <2>1 DEF SaveInv
  <2>5. w * ClusterUnits \in Nat
    BY <2>2, SizeAssumption
  <2>6. cmd.left > 0 <=> w * ClusterUnits < cmd.file.size
    BY <2>2, <2>3, <2>4, <2>5
  <2>7. w = n
    BY <2>2, <2>3, <2>6
  <2> QED
    BY <2>1, <2>2, <2>7
<1>2. /\ C \in [1 .. n -> FreeIn(fat)]
      /\ n > 0 => C[1] = Min(FreeIn(fat))
      /\ \A j, k \in 1 .. n : j < k => C[j] < C[k]
      /\ \A k \in 1 .. n : memFat[C[k]] = IF k < n THEN C[k + 1] ELSE LastMark
      /\ \A c \in Entries : (\A k \in 1 .. n : c # C[k]) => memFat[c] = fat[c]
      /\ \A k \in 1 .. n : data[C[k]] = <<cmd.file.content, k>>
  BY <1>1 DEF Written
<1>3. FreeIn(fat) \subseteq Usable
  BY WrittenFacts
<1> HIDE DEF n
<1>4. \A k \in 1 .. n : memFat[C[k]] = (IF k = n THEN LastMark ELSE C[k + 1])
                        /\ memFat[C[k]] # FreeEntry /\ C[k] \in FreeIn(fat)
  <2> TAKE k \in 1 .. n
  <2>1. CASE k = n
    BY <1>1, <1>2, <2>1 DEF LastMark, FreeEntry
  <2>2. CASE k # n
    <3>1. k < n /\ k + 1 \in 1 .. n
      BY <1>1, <2>2
    <3>2. C[k + 1] # FreeEntry
      BY <1>2, <1>3, <3>1, Constants DEF FreeEntry
    <3> QED
      BY <1>2, <2>2, <3>1, <3>2
  <2> QED
    BY <2>1, <2>2
<1>5. IsChain(memFat, SavedEntry, C)
  <2>1. Clusters(SavedEntry.size) = n /\ SavedEntry.cluster = Min(FreeIn(fat))
    BY DEF SavedEntry, FileInfo, n
  <2> QED
    BY <1>2, <1>3, <1>4, <2>1 DEF IsChain
<1>6. DOMAIN C = 1 .. n
  BY <1>2
<1>7. \A c \in Entries : memFat[c] = FreeEntry
                  <=> c \in FreeIn(fat) /\ \A k \in DOMAIN C : c # C[k]
  <2> TAKE c \in Entries
  <2>1. CASE \A k \in 1 .. n : c # C[k]
    BY <1>2, <1>6, <2>1 DEF FreeIn
  <2>2. CASE \E k \in 1 .. n : c = C[k]
    BY <1>4, <1>6, <2>2
  <2> QED
    BY <2>1, <2>2
<1>8. \A c \in Entries \ FreeIn(fat) : memFat[c] = fat[c]
  BY <1>2
<1> QED
  BY <1>1, <1>2, <1>5, <1>6, <1>7, <1>8 DEF n

LEMMA FinishSaveKeeps ==
    ASSUME Good, Finish, cmd.op = "save"
    PROVE  Good' /\ (~stopped /\ CleanInv => CleanInv')
<1>0. PICK slot : slot = cmd.slot
  OBVIOUS
<1>1. /\ pc = "fat" /\ pc' = "idle" /\ fat' = memFat /\ dir' = dir /\ data' = data
      /\ stored' = [stored EXCEPT ![slot] = cmd.file]
      /\ stopped' = stopped /\ misused' = misused /\ ImageInv
  BY <1>0 DEF Finish, Idle, Good
<1>2. SaveInv /\ cmd.left <= 0 /\ dir[slot] = SavedEntry
  BY <1>0, <1>1 DEF Good, StageInv
<1>3. /\ slot \in Slots /\ slot \notin StoredAt /\ cmd.file \in Files
      /\ memFat \in [Entries -> Links]
  BY <1>0, <1>2 DEF SaveInv, SaveCmds
<1>4. PICK C : Written(C)
  BY <1>2 DEF SaveInv
<1>5. /\ IsChain(memFat, SavedEntry, C) /\ Clusters(cmd.file.size) \in Nat
      /\ \A k \in DOMAIN C : C[k] \in FreeIn(fat) /\ data[C[k]] = <<cmd.file.content, k>>
      /\ \A c \in Entries : memFat[c] = FreeEntry
            <=> c \in FreeIn(fat) /\ \A k \in DOMAIN C : c # C[k]
      /\ \A c \in Entries \ FreeIn(fat) : memFat[c] = fat[c]
  BY <1>1, <1>2, <1>4, SavedIsWhole
<1>6. StoredAt' = StoredAt \cup {slot} /\ stored'[slot] = cmd.file
      /\ stored' \in [Slots -> Files \cup {NoFile}]
      /\ \A s \in StoredAt : stored'[s] = stored[s]
  BY <1>1, <1>3, FilesAreStored DEF ImageInv, StoredAt, IsStored
<1>7. \A s \in StoredAt : ClustersOf(dir[s]) \subseteq Entries \ FreeIn(fat)
                          /\ FileWhole(s) /\ Clusters(dir[s].size) \in Nat
  BY <1>1, StoredClusters, Constants DEF ImageInv
<1>8. ASSUME NEW s \in StoredAt
      PROVE  FileWhole(s)' /\ ClustersOf(dir[s])' = ClustersOf(dir[s])
  BY <1>1, <1>5, <1>6, <1>7, FileKept
<1>9. FileWhole(slot)' /\ ClustersOf(dir[slot])' = {C[k] : k \in DOMAIN C}
  <2>1. dir'[slot] = SavedEntry /\ SavedEntry.size = cmd.file.size
        /\ SavedEntry.name = cmd.file.name /\ IsFile(SavedEntry)
    BY <1>1, <1>2 DEF SavedEntry, FileInfo, IsFile
  <2>2. ChainIn(fat', dir'[slot]) = C
    BY <1>1, <1>5, <2>1, ChainFollowed
  <2>3. Chain(dir[slot])' = C
    BY <2>2, ChainThen
  <2>4. IsChain(fat, dir[slot], Chain(dir[slot]))'
    BY <1>1, <1>5, <2>1, <2>3 DEF IsChain, Clusters
  <2> QED
    BY <1>1, <1>5, <1>6, <2>1, <2>3, <2>4 DEF FileWhole, ClustersOf, IsFile
<1>10. ASSUME NEW s \in StoredAt', NEW t \in StoredAt', s # t
       PROVE  ClustersOf(dir[s])' \cap ClustersOf(dir[t])' = {}
  <2>1. CASE s \in StoredAt /\ t \in StoredAt
    <3>1. ClustersOf(dir[s]) \cap ClustersOf(dir[t]) = {}
      BY <1>1, <1>10, <2>1 DEF ImageInv
    <3> QED
      BY <1>8, <2>1, <3>1
  <2>2. CASE s = slot \/ t = slot
    <3>1. \A r \in StoredAt : ClustersOf(dir[r])' \cap ClustersOf(dir[slot])' = {}
      BY <1>5, <1>7, <1>8, <1>9
    <3> QED
      BY <1>6, <1>10, <2>2, <3>1
  <2> QED
    BY <1>6, <2>1, <2>2
<1>11. ImageInv'
  <2>1. fat'[0] = Media /\ fat'[1] = LastMark
    <3>1. 0 \in Entries \ FreeIn(fat) /\ 1 \in Entries \ FreeIn(fat)
      BY <1>1, Constants DEF ImageInv, FreeIn, Media, LastMark, FreeEntry
    <3> QED
      BY <1>1, <1>5, <3>1 DEF ImageInv
  <2>2. \A s \in StoredAt' : FileWhole(s)'
    BY <1>6, <1>8, <1>9
  <2> QED
    BY <1>1, <1>3, <1>6, <1>10, <2>1, <2>2 DEF ImageInv
<1>12. ASSUME ~stopped, CleanInv PROVE CleanInv'
  <2>1. \A s \in Slots : IsFile(dir'[s]) <=> IsStored(s)' \/ Entered(s)'
    <3> TAKE s \in Slots
    <3>1. IsFile(dir[s]) <=> IsStored(s) \/ Entered(s)
      BY <1>12 DEF CleanInv
    <3>2. Entered(s) <=> s = slot
      BY <1>0, <1>1, <1>2 DEF Entered, SaveInv, SaveCmds
    <3>3. IsStored(s)' <=> IsStored(s) \/ s = slot
      BY <1>6 DEF StoredAt
    <3>4. ~Entered(s)'
      BY <1>1 DEF Entered
    <3> QED
      BY <1>1, <3>1, <3>2, <3>3, <3>4
  <2>2. InUse(fat) = Kept
    BY <1>12 DEF CleanInv
  <2>3. \A c : c \in Kept' <=> c \in Kept \/ c \in {C[k] : k \in DOMAIN C}
    <3>1. \A c : c \in Kept <=> c \in {0, 1} \/ \E s \in StoredAt : c \in ClustersOf(dir[s])
      BY DEF Kept
    <3>2. \A c : c \in Kept' <=> c \in {0, 1} \/ \E s \in StoredAt' : c \in ClustersOf(dir[s])'
      BY DEF Kept
    <3> QED
      BY <1>6, <1>8, <1>9, <3>1, <3>2
  <2>4. InUse(fat') = Kept'
    <3>1. \A c \in Entries : fat'[c] = FreeEntry
             <=> fat[c] = FreeEntry /\ c \notin {C[k] : k \in DOMAIN C}
      BY <1>1, <1>5 DEF FreeIn
    <3>2. \A c : c \in InUse(fat') <=> c \in InUse(fat) \/ c \in {C[k] : k \in DOMAIN C}
      BY <1>5, <3>1 DEF InUse, FreeIn
    <3> QED
      BY <2>2, <2>3, <3>2
  <2> QED
    BY <1>1, <1>12, <2>1, <2>4 DEF CleanInv, IsFile, InUse, FreeIn
<1> QED
  BY <1>1, <1>11, <1>12 DEF Good, StageInv

LEMMA FinishDelKeeps ==
    ASSUME Good, Finish, cmd.op # "save"
    PROVE  Good' /\ (~stopped /\ CleanInv => CleanInv')
<1>1. /\ pc = "fat" /\ pc' = "idle" /\ fat' = memFat /\ dir' = dir /\ data' = data
      /\ stored' = stored /\ stopped' = stopped /\ misused' = misused /\ ImageInv
  BY DEF Finish, Idle, Good
<1>2. cmd.op = "del" /\ \E X \in SUBSET Usable : Cleared(X) /\ X \cap Kept = {}
  BY <1>1 DEF Good, StageInv, SaveInv, SaveCmds
<1>3. PICK X \in SUBSET Usable : Cleared(X) /\ X \cap Kept = {}
  BY <1>2
<1>4. memFat \in [Entries -> Links] /\ \A c \in Entries \ X : memFat[c] = fat[c]
  BY <1>1, <1>3, Constants DEF Cleared, ImageInv, Links, FreeEntry
<1>5. StoredAt' = StoredAt
  BY <1>1, StoredAtStays
<1>6. \A s \in StoredAt : \A c \in ClustersOf(dir[s]) : c \in Entries \ X
  BY <1>1, <1>3, StoredClusters, Constants DEF Kept
<1>7. fat'[0] = Media /\ fat'[1] = LastMark
  BY <1>1, <1>3, <1>4, Constants DEF ImageInv
<1>8. ImageInv' /\ \A s \in StoredAt' : ClustersOf(dir[s])' = ClustersOf(dir[s])
  <2>1. /\ fat' \in [Entries -> Links] /\ DOMAIN dir' = Slots
        /\ stored' \in [Slots -> Files \cup {NoFile}]
        /\ data' \in [Entries -> Contents \X Nat \cup {NoData}]
        /\ \A s, t \in Slots : s < t /\ dir'[s] = Empty => dir'[t] = Empty
    BY <1>1, <1>4 DEF ImageInv
  <2> QED
    BY <1>1, <1>4, <1>5, <1>6, <1>7, <2>1, ImageKept
<1>9. Kept' = Kept
  BY <1>5, <1>8 DEF Kept
<1>10. ASSUME ~stopped, CleanInv PROVE CleanInv'
  BY <1>1, <1>2, <1>9, <1>10 DEF CleanInv, Entered, IsFile, IsStored, InUse, FreeIn
<1> QED
  BY <1>1, <1>8, <1>10 DEF Good, StageInv

\* A file that was stored is deleted: its chain is cleared, and nothing else.
LEMMA DelBeginKeeps ==
    ASSUME Good, NEW n \in Names, DelBegin(n), ~misused'
    PROVE  Good' /\ (~stopped /\ CleanInv => CleanInv')
<1>0. PICK slot : slot = Min(Found(n))
  OBVIOUS
<1>1. /\ pc = "idle" /\ pc' = "dir" /\ ImageInv /\ Found(n) # {}
      /\ fat' = fat /\ dir' = dir /\ data' = data /\ stored' = stored /\ stopped' = stopped
      /\ memFat' = DelChain(dir[slot].cluster, Clusters(dir[slot].size)).fat
      /\ memDir' = [dir EXCEPT ![slot] = Deleted]
      /\ cmd' = [op |-> "del", slot |-> slot]
      /\ stored[slot] # NoFile
  BY <1>0 DEF DelBegin, Good
<1>2. slot \in StoredAt
  <2>1. Found(n) \in SUBSET Nat
    BY SizeAssumption DEF Found, Slots
  <2>2. slot \in Slots
    BY <1>0, <1>1, <2>1, MinOf DEF Found
  <2> QED
    BY <1>1, <2>2 DEF StoredAt, IsStored
<1>3. ImageInv' /\ StoredAt' = StoredAt /\ Kept' = Kept
  BY <1>1, ImageStays DEF ImageInv
<1>4. memFat' = [c \in Entries |-> IF c \in ClustersOf(dir[slot]) THEN FreeEntry ELSE fat[c]]
  <2> DEFINE C == Chain(dir[slot])
  <2>1. IsChain(fat, dir[slot], C) /\ Clusters(dir[slot].size) \in Nat
        /\ fat \in [Entries -> Links]
    BY <1>1, <1>2, StoredClusters DEF ImageInv, FileWhole
  <2>2. \A c : c \in ClustersOf(dir[slot]) <=> \E k \in DOMAIN C : c = C[k]
    BY DEF ClustersOf
  <2> HIDE DEF C
  <2>3. memFat' = [c \in Entries |-> IF \E k \in DOMAIN C : c = C[k] THEN FreeEntry ELSE fat[c]]
    BY <1>1, <2>1, ChainCleared
  <2> QED
    BY <2>2, <2>3
<1>5. ClustersOf(dir[slot])' = ClustersOf(dir[slot])
  BY <1>1 DEF ClustersOf, Chain, Clusters
<1>6. StageInv'
  BY <1>1, <1>2, <1>3, <1>4, <1>5 DEF StageInv, Cleared
<1>7. ~stopped /\ CleanInv => CleanInv'
  BY <1>1, <1>3 DEF CleanInv, Entered, IsFile, IsStored, InUse, FreeIn
<1> QED
  BY <1>3, <1>6, <1>7 DEF Good

\* What a stopped command has written stays; it had not finished.
LEMMA StopKeeps ==
    ASSUME Good, Stop
    PROVE  Good'
<1>1. UNCHANGED <<fat, dir, stored, data>> /\ pc' = "idle" /\ ImageInv
  BY DEF Stop, Idle, Good
<1>2. ImageInv'
  BY <1>1, ImageStays DEF ImageInv
<1> QED
  BY <1>1, <1>2 DEF Good, StageInv

\* A file that was saved is deleted when no command has stopped.
LEMMA CleanDel == ASSUME NEW n \in Names, DelBegin(n), CleanInv, ~stopped PROVE ~misused'
<1>1. PICK slot : slot = Min(Found(n))
  OBVIOUS
<1>2. Found(n) \in SUBSET Nat /\ Found(n) # {}
  BY SizeAssumption DEF DelBegin, Found, Slots
<1>3. slot \in Slots /\ IsFile(dir[slot]) /\ pc = "idle"
  BY <1>1, <1>2, MinOf DEF Found, DelBegin
<1> QED
  BY <1>1, <1>3 DEF CleanInv, Entered, IsStored, DelBegin

LEMMA UnchangedKeeps ==
    ASSUME UNCHANGED vars
    PROVE  (Good => Good') /\ (CleanInv => CleanInv')
<1>1. /\ fat' = fat /\ dir' = dir /\ data' = data /\ stored' = stored /\ pc' = pc
      /\ memFat' = memFat /\ memDir' = memDir /\ cmd' = cmd
      /\ stopped' = stopped /\ misused' = misused
  BY DEF vars
<1>2. StoredAt' = StoredAt
  BY <1>1, StoredAtStays
<1>3. \A s : ClustersOf(dir[s])' = ClustersOf(dir[s])
  BY <1>1 DEF ClustersOf, Chain, Clusters
<1>4. Kept' = Kept
  BY <1>2, <1>3 DEF Kept
<1>5. CleanInv => CleanInv'
  BY <1>1, <1>4 DEF CleanInv, Entered, IsFile, IsStored, InUse, FreeIn
<1>6. ASSUME Good PROVE Good'
  <2>1. ImageInv'
    BY <1>1, <1>6, ImageStays DEF Good, ImageInv
  <2>2. SaveInv => SaveInv'
    <3> SUFFICES ASSUME SaveInv PROVE SaveInv'
      OBVIOUS
    <3>1. PICK C \in [1 .. cmd.block - 1 -> Entries] : Written(C)
      BY DEF SaveInv
    <3>2. Written(C)'
      BY <1>1, <3>1 DEF Written, FreeIn
    <3> QED
      BY <1>1, <1>2, <3>1, <3>2 DEF SaveInv, HaveSpace, FreeIn, Clusters
  <2>3. SavedEntry' = SavedEntry /\ OpenSlots(dir)' = OpenSlots(dir)
    BY <1>1 DEF SavedEntry, FileInfo, FreeIn, OpenSlots, IsFile
  <2>4. \A X : Cleared(X) => Cleared(X)'
    BY <1>1 DEF Cleared
  <2>5. StageInv'
    <3>1. CASE pc = "idle"
      BY <1>1, <3>1 DEF StageInv
    <3>2. CASE pc = "write"
      BY <1>1, <1>6, <2>2, <2>3, <3>2 DEF Good, StageInv
    <3>3. CASE pc = "dir"
      <4>1. PICK X : X = ClustersOf(dir[cmd.slot])
        OBVIOUS
      <4>2. /\ cmd.op = "del" /\ cmd.slot \in StoredAt
            /\ memDir = [dir EXCEPT ![cmd.slot] = Deleted] /\ Cleared(X)
        BY <1>6, <3>3, <4>1 DEF Good, StageInv
      <4>3. ClustersOf(dir[cmd.slot])' = X
        BY <1>1, <4>1 DEF ClustersOf, Chain, Clusters
      <4> QED
        BY <1>1, <1>2, <2>4, <3>3, <4>2, <4>3 DEF StageInv, Cleared
    <3>4. CASE pc = "fat" /\ SaveInv
      BY <1>1, <1>6, <2>2, <2>3, <3>4 DEF Good, StageInv, SaveInv, SaveCmds
    <3>5. CASE pc = "fat" /\ ~SaveInv
      BY <1>1, <1>2, <1>4, <1>6, <2>4, <3>5 DEF Good, StageInv, IsFile
    <3> QED
      BY <1>6, <3>1, <3>2, <3>3, <3>4, <3>5 DEF Good, StageInv
  <2> QED
    BY <2>1, <2>5 DEF Good
<1> QED
  BY <1>5, <1>6

LEMMA FileNext == FileInv /\ [Next]_vars => FileInv'
<1> SUFFICES ASSUME FileInv, [Next]_vars PROVE FileInv'
  OBVIOUS
<1>1. (~misused => Good) /\ CleanInv /\ (~stopped => ~misused)
  BY DEF FileInv, Good, CleanInv
<1> SUFFICES (~misused' => Good') /\ CleanInv'
  BY DEF FileInv, Good
<1>2. CASE Format
  BY <1>2, FreshIsGood DEF Good
<1>3. ASSUME Good => Good' /\ (~stopped /\ CleanInv => CleanInv'),
             misused' = misused, stopped' = stopped
      PROVE  (~misused' => Good') /\ CleanInv'
  BY <1>1, <1>3 DEF CleanInv
<1>4. ASSUME NEW n \in Names, NEW c \in Contents, NEW s \in Sizes, SaveBegin(n, c, s)
      PROVE  (~misused' => Good') /\ CleanInv'
  BY <1>3, <1>4, SaveBeginKeeps DEF SaveBegin
<1>5. CASE WriteCluster
  BY <1>3, <1>5, WriteClusterKeeps DEF WriteCluster
<1>6. CASE WriteOverDir
  BY <1>1, <1>6, DirIsSafe DEF WriteOverDir, CleanInv
<1>7. ASSUME NEW n \in Names, DelBegin(n)
      PROVE  (~misused' => Good') /\ CleanInv'
  <2>1. (misused => misused') /\ stopped' = stopped
    BY <1>7 DEF DelBegin
  <2>2. ~misused' => Good' /\ (~stopped /\ CleanInv => CleanInv')
    BY <1>1, <1>7, <2>1, DelBeginKeeps
  <2>3. ~stopped => ~misused'
    BY <1>1, <1>7, CleanDel
  <2> QED
    BY <1>1, <2>1, <2>2, <2>3 DEF CleanInv
<1>8. CASE WriteDir
  BY <1>3, <1>8, WriteDirKeeps DEF WriteDir
<1>9. CASE Finish
  BY <1>3, <1>9, FinishSaveKeeps, FinishDelKeeps DEF Finish
<1>10. CASE Stop
  BY <1>1, <1>10, StopKeeps DEF Stop, CleanInv
<1>11. CASE UNCHANGED vars
  BY <1>1, <1>11, UnchangedKeeps DEF vars
<1>12. CASE \/ \E s \in Sizes : SaveRefused(s)
            \/ \E n \in Names : DelRefused(n) \/ DelFails(n) \/ LoadRefused(n) \/ LoadFails(n)
  BY <1>11, <1>12 DEF SaveRefused, DelRefused, DelFails, LoadRefused, LoadFails
<1> QED
  BY <1>2, <1>4, <1>5, <1>6, <1>7, <1>8, <1>9, <1>10, <1>11, <1>12 DEF Next

-----------------------------------------------------------------------------
\* Until a file of a stopped save is deleted, the image keeps every stored file
\* whole, and every command keeps to the free clusters; until a command stops, what
\* is in use is what the files use (fat12img.py 171-235).
THEOREM FilesInvariance == Spec => []FileInv
<1>1. Init => FileInv
  BY FreshIsGood DEF FileInv
<1> QED
  BY <1>1, FileNext, PTL DEF Spec

\* A file that was saved stays in the image as it was saved: the chain of its entry
\* holds its content block for block, whatever other commands do or leave undone
\* (save, fat12img.py 184-223; delete, 227-241).
THEOREM SavedFilesStayWhole == Spec => []FilesStayWhole
<1>1. FileInv => FilesStayWhole
  <2> SUFFICES ASSUME FileInv, ~misused, NEW s \in Slots, IsStored(s)
               PROVE  /\ IsFile(dir[s]) /\ dir[s].name = stored[s].name
                      /\ Held(dir[s]) = Blocks(stored[s])
    BY DEF FilesStayWhole
  <2> DEFINE C == Chain(dir[s])
  <2>1. ImageInv /\ s \in StoredAt
    BY DEF FileInv, StoredAt
  <2>2. /\ IsFile(dir[s]) /\ dir[s].name = stored[s].name /\ dir[s].size = stored[s].size
        /\ \A k \in DOMAIN C : data[C[k]] = <<stored[s].content, k>>
    BY <2>1 DEF ImageInv, FileWhole
  <2>3. DOMAIN C = 1 .. Clusters(dir[s].size) /\ \A k \in DOMAIN C : C[k] \in Entries
    BY <2>1, StoredClusters, Constants DEF ClustersOf
  <2>4. Held(dir[s]) = [k \in DOMAIN C |-> <<stored[s].content, k>>]
    BY <2>2, <2>3 DEF Held
  <2> QED
    BY <2>2, <2>3, <2>4 DEF Blocks, Clusters
<1> QED
  BY <1>1, FilesInvariance, PTL

\* Between commands, none of which has stopped, every cluster in use is one file's
\* (have_space and del_chain, fat12img.py 54-86).
THEOREM ClustersAreAccountedFor == Spec => []NoClusterLost
<1>1. FileInv => NoClusterLost
  <2> SUFFICES ASSUME FileInv, pc = "idle", ~stopped
               PROVE  /\ \A s \in Slots : IsFile(dir[s]) <=> IsStored(s)
                      /\ Entries \ FreeIn(fat)
                           = {0, 1} \cup UNION {ClustersOf(dir[s]) : s \in {t \in Slots : IsFile(dir[t])}}
                      /\ \A s, t \in Slots :
                            s # t /\ IsFile(dir[s]) /\ IsFile(dir[t])
                               => ClustersOf(dir[s]) \cap ClustersOf(dir[t]) = {}
    BY DEF NoClusterLost
  <2>1. ImageInv /\ CleanInv
    BY DEF FileInv, CleanInv
  <2>2. \A s \in Slots : IsFile(dir[s]) <=> IsStored(s)
    BY <2>1 DEF CleanInv, Entered
  <2>3. {t \in Slots : IsFile(dir[t])} = StoredAt
    BY <2>2 DEF StoredAt
  <2> QED
    BY <2>1, <2>2, <2>3 DEF CleanInv, ImageInv, InUse, Kept
<1> QED
  BY <1>1, FilesInvariance, PTL

\* No save writes over the directory, and the FAT keeps its media type, until a
\* file of a stopped save is deleted (find_free_cluster, fat12img.py 66-71).
THEOREM DamageComesFromMisuse == Spec => []DamageNeedsMisuse
<1>1. FileInv => DamageNeedsMisuse
  BY DEF FileInv, DamageNeedsMisuse, ImageInv, StageInv
<1> QED
  BY <1>1, FilesInvariance, PTL

-------------------------------------------------------------
(* Types, in the images that misuse leaves too.                            *)

\* What del_chain has after some clusters.
ClearStates(c) ==
    [fat : [Entries -> Links], at : Links \cup {c}, end : BOOLEAN, error : BOOLEAN]

\* One step of del_chain keeps the FAT a FAT.
LEMMA ClearNextType ==
    ASSUME NEW c, NEW st \in ClearStates(c)
    PROVE  ClearNext(st) \in ClearStates(c)
<1>1. CASE st.end \/ st.at \notin Entries
  BY <1>1 DEF ClearNext, ClearStates
<1>2. CASE ~st.end /\ st.at \in Entries
  <2>1. [st.fat EXCEPT ![st.at] = FreeEntry] \in [Entries -> Links] /\ st.fat[st.at] \in Links
    BY <1>2, Constants DEF ClearStates, Links, FreeEntry
  <2>2. (st.fat[st.at] >= EndMark) \in BOOLEAN
    BY <2>1, Constants DEF Links, EndMark, Media, LastMark
  <2> QED
    BY <1>2, <2>1, <2>2 DEF ClearNext, ClearStates
<1> QED
  BY <1>1, <1>2

\* del_chain of any entry leaves a FAT, wherever the chain leads.
LEMMA DelChainType ==
    ASSUME NEW c, NEW n \in Nat, fat \in [Entries -> Links]
    PROVE  DelChain(c, n).fat \in [Entries -> Links]
<1> DEFINE Start == [fat |-> fat, at |-> c, end |-> FALSE, error |-> FALSE]
           St == ClearStates(c)
           Steps(D, m) == D[0] = Start /\ \A k \in 1 .. m : D[k] = ClearNext(D[k - 1])
           Made(m) == \E D \in [0 .. m -> St] : Steps(D, m)
           P(D) == D = [k \in 0 .. n |-> IF k = 0 THEN Start ELSE ClearNext(D[k - 1])]
           T == {m \in 0 .. n : ~Made(m)}
<1>1. Start \in St
  BY DEF ClearStates
<1>2. Made(0)
  <2> DEFINE D == [k \in 0 .. 0 |-> Start]
  <2>1. D \in [0 .. 0 -> St] /\ D[0] = Start
    BY <1>1
  <2> HIDE DEF D, Start, St
  <2> QED
    BY <2>1
<1>3. ASSUME NEW m \in 1 .. n, Made(m - 1) PROVE Made(m)
  <2>0. m - 1 \in Nat /\ m \in Nat
    OBVIOUS
  <2>1. PICK D \in [0 .. m - 1 -> St] : Steps(D, m - 1)
    BY <1>3
  <2> DEFINE E == [k \in 0 .. m |-> IF k = m THEN ClearNext(D[m - 1]) ELSE D[k]]
  <2>2. D[m - 1] \in St
    <3> HIDE DEF St
    <3> QED
      BY <2>0, <2>1
  <2>3. ClearNext(D[m - 1]) \in St
    BY <2>2, ClearNextType
  <2>4. E \in [0 .. m -> St]
    <3> HIDE DEF St
    <3> QED
      BY <2>0, <2>1, <2>3
  <2>5. E[0] = Start
    <3> HIDE DEF Start, St
    <3>1. D[0] = Start
      BY <2>1
    <3> QED
      BY <2>0, <3>1
  <2>6. ASSUME NEW k \in 1 .. m PROVE E[k] = ClearNext(E[k - 1])
    <3> HIDE DEF Start, St
    <3>1. CASE k = m
      <4>1. k - 1 \in 0 .. m /\ k - 1 # m /\ k \in 0 .. m
        BY <2>0, <3>1
      <4>2. E[k] = ClearNext(D[k - 1]) /\ E[k - 1] = D[k - 1]
        BY <3>1, <4>1
      <4> QED
        BY <4>2
    <3>2. CASE k # m
      <4>1. k - 1 \in 0 .. m /\ k - 1 # m /\ k \in 0 .. m /\ k \in 1 .. m - 1
        BY <2>0, <3>2
      <4>2. E[k] = D[k] /\ E[k - 1] = D[k - 1]
        BY <3>2, <4>1
      <4>3. D[k] = ClearNext(D[k - 1])
        BY <2>1, <4>1
      <4> QED
        BY <4>2, <4>3
    <3> QED
      BY <3>1, <3>2
  <2> HIDE DEF E, Start, St
  <2> QED
    BY <2>4, <2>5, <2>6
<1>4. Made(n)
  <2> HIDE DEF Made
  <2>1. T \in SUBSET Nat
    OBVIOUS
  <2>2. ASSUME NEW m \in T PROVE \E j \in T : j < m
    <3>1. m \in 1 .. n /\ m - 1 \in 0 .. n /\ ~Made(m)
      BY <1>2
    <3>2. ~Made(m - 1)
      BY <1>3, <3>1
    <3> QED
      BY <3>1, <3>2
  <2>3. T = {}
    <3> HIDE DEF T
    <3> QED
      BY <2>1, <2>2, NoLeast
  <2> QED
    BY <2>3
<1>5. PICK D \in [0 .. n -> St] : Steps(D, n)
  BY <1>4
<1>6. P(D)
  <2>1. \A k \in 0 .. n : D[k] = IF k = 0 THEN Start ELSE ClearNext(D[k - 1])
    BY <1>5
  <2> QED
    BY <2>1, <1>5
<1>7. DelChain(c, n) = (CHOOSE G : P(G))[n]
  BY DEF DelChain
<1> DEFINE G == CHOOSE H : P(H)
<1>8. P(G)
  <2> HIDE DEF P
  <2> QED
    BY <1>6
<1>9. \A k \in 0 .. n : G[k] = IF k = 0 THEN Start ELSE ClearNext(G[k - 1])
  <2> HIDE DEF G
  <2> QED
    BY <1>8, Zenon
<1> HIDE DEF G, P
<1>10. G[n] \in St
  <2> DEFINE W == {k \in 0 .. n : G[k] \notin St}
  <2>1. ASSUME NEW k \in W PROVE \E j \in W : j < k
    <3>1. k # 0
      BY <1>1, <1>9
    <3>2. k - 1 \in 0 .. n /\ k - 1 < k
      BY <3>1
    <3>3. G[k] = ClearNext(G[k - 1])
      BY <1>9, <3>1
    <3>4. G[k - 1] \notin St
      BY <3>3, ClearNextType
    <3> QED
      BY <3>2, <3>4
  <2>2. W = {}
    <3>1. W \in SUBSET Nat
      OBVIOUS
    <3> HIDE DEF W
    <3> QED
      BY <2>1, <3>1, NoLeast
  <2> QED
    BY <2>2
<1> QED
  BY <1>7, <1>10 DEF ClearStates, G

EntryOK(e) == IsFile(e) => e.cluster \in Entries /\ e.size \in Sizes

\* The free entries a save has still to choose from.
Above == {c \in FreeIn(memFat) : c > cmd.prev}

\* A save has counted enough of them, whatever else is wrong with the image.
WriteTypes ==
    /\ cmd \in SaveCmds
    /\ cmd.block - 1 <= Clusters(cmd.file.size)
    /\ cmd.left = cmd.file.size - (cmd.block - 1) * ClusterUnits
    /\ Cardinality(Above) + (cmd.block - 1) >= Clusters(cmd.file.size)

ImageTypes ==
    /\ fat \in [Entries -> Links]
    /\ \A s \in Slots : EntryOK(dir[s])
    /\ pc \in {"idle", "write", "dir", "fat", "wild"}
    /\ pc \in {"idle", "wild"} => cmd = NoCmd
    /\ pc \in {"write", "dir", "fat"} => cmd # NoCmd /\ memFat \in [Entries -> Links]
    /\ pc \in {"write", "dir"} => \A s \in Slots : EntryOK(memDir[s])
    /\ pc = "write" => WriteTypes
    /\ stopped \in BOOLEAN /\ misused \in BOOLEAN

LEMMA FreeFinite ==
    ASSUME NEW f, NEW p
    PROVE  LET X == {c \in FreeIn(f) : c > p}
           IN  IsFiniteSet(X) /\ Cardinality(X) \in Nat /\ X \in SUBSET Nat
<1>1. {c \in FreeIn(f) : c > p} \subseteq Entries
  BY DEF FreeIn
<1> QED
  BY <1>1, Constants, FS_Subset, FS_CardinalityType

LEMMA TypesInit == Init => ImageTypes
<1> SUFFICES ASSUME Init PROVE ImageTypes
  OBVIOUS
<1>1. fat \in [Entries -> Links]
  BY Constants DEF Init, FreshFat, Links, FreeEntry
<1>2. \A s \in Slots : EntryOK(dir[s])
  BY DEF Init, FreshDir, Empty, EntryOK, IsFile
<1> QED
  BY <1>1, <1>2 DEF Init, ImageTypes

LEMMA TypesFormat == ImageTypes /\ Format => ImageTypes'
<1> SUFFICES ASSUME ImageTypes, Format PROVE ImageTypes'
  OBVIOUS
<1>1. fat' \in [Entries -> Links]
  BY Constants DEF Format, FreshFat, Links, FreeEntry
<1>2. \A s \in Slots : EntryOK(dir[s])'
  BY DEF Format, FreshDir, Empty, EntryOK, IsFile
<1> QED
  BY <1>1, <1>2 DEF Format, ImageTypes

\* Nothing is changed.
LEMMA TypesKept == ImageTypes /\ UNCHANGED vars => ImageTypes'
<1> SUFFICES ASSUME ImageTypes, UNCHANGED vars PROVE ImageTypes'
  OBVIOUS
<1>1. WriteTypes' <=> WriteTypes
  BY DEF vars, WriteTypes, Above, FreeIn
<1> QED
  BY <1>1 DEF vars, ImageTypes

LEMMA NoCmdIsNone == \A c : c = NoCmd => c.op = "none"
BY DEF NoCmd

\* A save that begins has all free entries to choose from.
LEMMA TypesSaveBegin ==
    ASSUME ImageTypes, NEW n \in Names, NEW c \in Contents, NEW s \in Sizes, SaveBegin(n, c, s)
    PROVE  ImageTypes'
<1>1. PICK F : F = FreeIn(fat)
  OBVIOUS
<1>2. s \in Nat /\ Clusters(s) \in Nat
  BY SizeAssumption, ClustersHold
<1>3. F \subseteq Entries /\ F \in SUBSET Nat /\ IsFiniteSet(F) /\ Cardinality(F) \in Nat
  <2>1. F \subseteq Entries
    BY <1>1 DEF FreeIn
  <2> QED
    BY <2>1, Constants, FS_Subset, FS_CardinalityType
<1>4. Cardinality(F) >= Clusters(s) /\ Cardinality(F) >= 1
  <2> DEFINE T == {Clusters(s), 1}
  <2>1. Cardinality(F) >= Max(T)
    BY <1>1 DEF SaveBegin, HaveSpace
  <2>2. T \in SUBSET Nat /\ T # {} /\ \A x \in T : x <= Clusters(s) + 1
    BY <1>2
  <2>3. Max(T) \in T /\ \A x \in T : x <= Max(T)
    <3> HIDE DEF T
    <3>1. Clusters(s) + 1 \in Nat
      BY <1>2
    <3> QED
      BY <2>2, <3>1, MaxOf
  <2> QED
    BY <1>2, <1>3, <2>1, <2>3
<1>5. Min(F) \in Entries
  <2>1. F # {}
    BY <1>3, <1>4, FS_EmptySet
  <2> QED
    BY <1>3, <2>1, MinOf
<1>6. OpenSlots(dir) \subseteq Slots /\ OpenSlots(dir) # {} /\ OpenSlots(dir) \in SUBSET Nat
  BY DEF SaveBegin, OpenSlots, Slots
<1>7. PICK slot \in Slots : slot = Min(OpenSlots(dir))
  BY <1>6, MinOf
<1>8. /\ memDir' = [dir EXCEPT ![slot] = FileInfo(n, Min(F), s)]
      /\ cmd' = [op |-> "save", slot |-> slot, prev |-> -1, block |-> 1,
                 left |-> s, file |-> [name |-> n, content |-> c, size |-> s]]
      /\ memFat' = fat /\ pc' = "write" /\ fat' = fat /\ dir' = dir
      /\ stopped' = stopped /\ misused' = misused
  BY <1>1, <1>7 DEF SaveBegin
<1>9. cmd' \in SaveCmds /\ cmd' # NoCmd
  BY <1>2, <1>8, NoCmdIsNone DEF SaveCmds, Files
<1>10. \A t \in Slots : EntryOK(memDir'[t])
  BY <1>5, <1>8 DEF ImageTypes, EntryOK, FileInfo, IsFile
<1>11. Above' = F
  <2>1. Above' = {x \in F : x > -1}
    BY <1>1, <1>8 DEF Above, FreeIn
  <2>2. \A x \in F : x > -1
    BY <1>3
  <2> QED
    BY <2>1, <2>2
<1>12. WriteTypes'
  <2>1. cmd'.block = 1 /\ cmd'.left = s /\ cmd'.file.size = s
    BY <1>8
  <2>2. Clusters(cmd'.file.size) = Clusters(s) /\ Clusters(cmd.file.size)' = Clusters(s)
    BY <2>1 DEF Clusters
  <2>3. 0 * ClusterUnits = 0 /\ ClusterUnits \in Nat
    BY SizeAssumption
  <2> QED
    BY <1>2, <1>3, <1>4, <1>9, <1>11, <2>1, <2>2, <2>3 DEF WriteTypes
<1> QED
  BY <1>8, <1>9, <1>10, <1>12 DEF ImageTypes

\* While a part of the file is left there is a free entry for it.
LEMMA SomeAbove ==
    ASSUME WriteTypes, cmd.left > 0
    PROVE  Above # {}
<1>1. PICK w \in Nat, f \in Nat, u \in Nat \ {0} :
          w = cmd.block - 1 /\ f = cmd.file.size /\ u = ClusterUnits
  <2>1. cmd.block \in Nat \ {0} /\ cmd.file \in Files
    BY DEF WriteTypes, SaveCmds
  <2>2. cmd.file.size \in Nat
    BY <2>1, SizeAssumption DEF Files
  <2>3. cmd.block - 1 \in Nat
    BY <2>1
  <2> QED
    BY <2>2, <2>3, SizeAssumption
<1>2. Clusters(f) \in Nat /\ w < Clusters(f)
  <2>1. cmd.left = f - (w * u)
    BY <1>1 DEF WriteTypes
  <2>2. w * u \in Nat
    BY <1>1
  <2>3. w * u < f
    BY <1>1, <2>1, <2>2
  <2> QED
    BY <1>1, <2>3, ClustersHold
<1>3. Cardinality(Above) + w >= Clusters(f)
  BY <1>1 DEF WriteTypes
<1>4. Cardinality({}) = 0
  BY FS_EmptySet
<1> QED
  BY <1>1, <1>2, <1>3, <1>4

\* The next free entry is the least of those above, and the others are left.
LEMMA TypesWriteCluster == ASSUME ImageTypes, WriteCluster PROVE ImageTypes'
<1>1. /\ pc = "write" /\ pc' = "write" /\ cmd.left > 0
      /\ fat' = fat /\ dir' = dir /\ memDir' = memDir
      /\ stopped' = stopped /\ misused' = misused
  BY DEF WriteCluster
<1>2. WriteTypes /\ memFat \in [Entries -> Links] /\ cmd \in SaveCmds
  BY <1>1 DEF ImageTypes, WriteTypes
<1>3. PICK w \in Nat, f \in Nat, u \in Nat \ {0}, p \in Int :
          w = cmd.block - 1 /\ f = cmd.file.size /\ u = ClusterUnits /\ p = cmd.prev
  <2>1. cmd.block \in Nat \ {0} /\ cmd.prev \in Int /\ cmd.file \in Files
    BY <1>2 DEF SaveCmds
  <2>2. cmd.file.size \in Nat
    BY <2>1, SizeAssumption DEF Files
  <2>3. cmd.block - 1 \in Nat
    BY <2>1
  <2> QED
    BY <2>1, <2>2, <2>3, SizeAssumption
<1>4. PICK A : A = Above
  OBVIOUS
<1>5. A \subseteq Entries /\ A \in SUBSET Nat /\ IsFiniteSet(A) /\ Cardinality(A) \in Nat
  <2>1. A \subseteq Entries
    BY <1>4 DEF Above, FreeIn
  <2> QED
    BY <2>1, Constants, FS_Subset, FS_CardinalityType
<1>6. Clusters(f) \in Nat /\ w < Clusters(f)
  <2>1. w * u < f
    <3>1. cmd.left = f - (w * u)
      BY <1>2, <1>3 DEF WriteTypes
    <3>2. w * u \in Nat
      BY <1>3
    <3> QED
      BY <1>1, <1>3, <3>1, <3>2
  <2> QED
    BY <1>3, <2>1, ClustersHold
<1>7. Cardinality(A) + w >= Clusters(f)
  BY <1>2, <1>3, <1>4 DEF WriteTypes
<1>8. PICK c : c = Min(A)
  OBVIOUS
<1>9. c \in A /\ \A x \in A : c <= x
  <2>1. A # {}
    BY <1>1, <1>2, <1>4, SomeAbove
  <2> QED
    BY <1>5, <1>8, <2>1, MinOf
<1>10. c = NextFree(cmd.prev)
  BY <1>4, <1>8 DEF NextFree, Above
<1>11. /\ memFat' = Linked(c)
       /\ cmd' = [cmd EXCEPT !.prev = c, !.block = @ + 1, !.left = @ - ClusterUnits]
  BY <1>10 DEF WriteCluster
<1>12. c \in Entries /\ c \in Nat /\ c > p /\ memFat[c] = FreeEntry
  BY <1>3, <1>4, <1>5, <1>9 DEF Above, FreeIn
<1>13. memFat' \in [Entries -> Links]
  BY <1>2, <1>11, <1>12 DEF Linked, Links
<1>14. /\ cmd' \in SaveCmds /\ cmd'.prev = c /\ cmd'.block = cmd.block + 1
       /\ cmd'.left = cmd.left - ClusterUnits /\ cmd'.file = cmd.file
  <2>1. c \in Int /\ cmd.block + 1 \in Nat \ {0} /\ cmd.left - ClusterUnits \in Int
    BY <1>2, <1>12, SizeAssumption DEF SaveCmds
  <2>2. cmd' \in SaveCmds
    BY <1>2, <1>11, <2>1 DEF SaveCmds
  <2> QED
    BY <1>2, <1>11, <2>2 DEF SaveCmds
<1>15. cmd' # NoCmd
  BY <1>14, NoCmdIsNone DEF SaveCmds
<1>16. Above' = A \ {c}
  <2>1. Above' = {x \in Entries : memFat'[x] = FreeEntry /\ x > c}
    BY <1>14 DEF Above, FreeIn
  <2>2. ASSUME NEW x \in Entries, x > c PROVE memFat'[x] = memFat[x]
    <3>1. x # c /\ x # cmd.prev
      BY <1>3, <1>12, <2>2, Constants
    <3> QED
      BY <1>11, <3>1 DEF Linked
  <2>3. A = {x \in Entries : memFat[x] = FreeEntry /\ x > p}
    BY <1>3, <1>4 DEF Above, FreeIn
  <2>4. ASSUME NEW x \in Above' PROVE x \in A \ {c}
    <3>1. x \in Entries /\ memFat'[x] = FreeEntry /\ x > c /\ x \in Nat
      BY <2>1, Constants
    <3>2. memFat[x] = FreeEntry /\ x > p /\ x # c
      BY <1>12, <2>2, <3>1
    <3> QED
      BY <2>3, <3>1, <3>2
  <2>5. ASSUME NEW x \in A \ {c} PROVE x \in Above'
    <3>1. x \in Entries /\ memFat[x] = FreeEntry /\ x > c
      BY <1>5, <1>9, <1>12, <2>3
    <3> QED
      BY <2>1, <2>2, <3>1
  <2> QED
    BY <2>4, <2>5
<1>17. Cardinality(A \ {c}) = Cardinality(A) - 1
  BY <1>5, <1>9, FS_RemoveElement
<1>18. WriteTypes'
  <2>1. cmd'.block - 1 = w + 1 /\ cmd'.file.size = f
    BY <1>2, <1>3, <1>14 DEF SaveCmds
  <2>2. Clusters(cmd.file.size)' = Clusters(f)
    BY <2>1 DEF Clusters
  <2>3. w + 1 <= Clusters(f)
    BY <1>3, <1>6
  <2>4. cmd'.left = f - ((w + 1) * u)
    <3>1. cmd.left = f - (w * u) /\ cmd'.left = cmd.left - u
      BY <1>2, <1>3, <1>14 DEF WriteTypes
    <3>2. (w + 1) * u = (w * u) + u /\ w * u \in Nat
      BY <1>3
    <3> QED
      BY <1>3, <3>1, <3>2
  <2>5. Cardinality(A \ {c}) + (w + 1) >= Clusters(f)
    BY <1>3, <1>5, <1>6, <1>7, <1>17
  <2> QED
    BY <1>3, <1>14, <1>16, <2>1, <2>2, <2>3, <2>4, <2>5 DEF WriteTypes
<1> QED
  BY <1>1, <1>13, <1>15, <1>18 DEF ImageTypes

LEMMA TypesDelBegin ==
    ASSUME ImageTypes, NEW n \in Names, DelBegin(n)
    PROVE  ImageTypes'
<1>1. Found(n) \subseteq Slots /\ Found(n) # {} /\ Found(n) \in SUBSET Nat
  BY DEF DelBegin, Found, Slots
<1>2. PICK slot \in Slots : slot = Min(Found(n)) /\ IsFile(dir[slot])
  <2>1. Min(Found(n)) \in Found(n)
    BY <1>1, MinOf
  <2> QED
    BY <1>1, <2>1 DEF Found
<1>3. PICK e : e = dir[slot]
  OBVIOUS
<1>4. /\ memFat' = DelChain(e.cluster, Clusters(e.size)).fat
      /\ memDir' = [dir EXCEPT ![slot] = Deleted] /\ cmd' = [op |-> "del", slot |-> slot]
      /\ misused' = (misused \/ stored[slot] = NoFile)
      /\ pc' = "dir" /\ fat' = fat /\ dir' = dir /\ stopped' = stopped
  BY <1>2, <1>3 DEF DelBegin
<1>5. Clusters(e.size) \in Nat /\ fat \in [Entries -> Links]
  BY <1>2, <1>3, SizeAssumption, ClustersHold DEF ImageTypes, EntryOK
<1>6. memFat' \in [Entries -> Links]
  BY <1>4, <1>5, DelChainType
<1>7. \A t \in Slots : EntryOK(memDir'[t])
  BY <1>4 DEF ImageTypes, EntryOK, Deleted, IsFile
<1>8. cmd' # NoCmd
  BY <1>4, NoCmdIsNone
<1> QED
  BY <1>4, <1>6, <1>7, <1>8 DEF ImageTypes

LEMMA TypesWriteDir == ASSUME ImageTypes, WriteDir PROVE ImageTypes'
<1>1. /\ pc \in {"write", "dir"} /\ pc' = "fat" /\ dir' = WrittenDir
      /\ fat' = fat /\ memFat' = memFat /\ cmd' = cmd
      /\ stopped' = stopped /\ misused' = misused
  BY DEF WriteDir
<1>2. \A s \in Slots : EntryOK(dir'[s])
  BY <1>1 DEF ImageTypes, WrittenDir
<1> QED
  BY <1>1, <1>2 DEF ImageTypes

LEMMA TypesEnd ==
    ASSUME ImageTypes, Finish \/ Stop \/ WriteOverDir
    PROVE  ImageTypes'
<1>1. CASE Finish
  BY <1>1 DEF Finish, Idle, ImageTypes
<1>2. CASE Stop
  BY <1>2 DEF Stop, Idle, ImageTypes
<1>3. CASE WriteOverDir
  BY <1>3 DEF WriteOverDir, ImageTypes
<1> QED
  BY <1>1, <1>2, <1>3

LEMMA TypesNext == ImageTypes /\ [Next]_vars => ImageTypes'
<1> SUFFICES ASSUME ImageTypes, [Next]_vars PROVE ImageTypes'
  OBVIOUS
<1>1. CASE \E n \in Names, c \in Contents, s \in Sizes : SaveBegin(n, c, s)
  BY <1>1, TypesSaveBegin
<1>2. CASE \E n \in Names : DelBegin(n)
  BY <1>2, TypesDelBegin
<1>3. CASE \/ \E s \in Sizes : SaveRefused(s)
           \/ \E n \in Names : DelRefused(n) \/ DelFails(n) \/ LoadRefused(n) \/ LoadFails(n)
           \/ UNCHANGED vars
  BY <1>3, TypesKept DEF SaveRefused, DelRefused, DelFails, LoadRefused, LoadFails
<1>4. CASE Format \/ WriteCluster \/ WriteDir \/ Finish \/ Stop \/ WriteOverDir
  BY <1>4, TypesFormat, TypesWriteCluster, TypesWriteDir, TypesEnd
<1> QED
  BY <1>1, <1>2, <1>3, <1>4 DEF Next

\* The types of the image.
LEMMA TypesAreTypes == ImageTypes => TypeOK
BY NoCmdIsNone DEF ImageTypes, TypeOK, EntryOK, Links

LEMMA TypesStay == Spec => []ImageTypes
<1>1. Init => ImageTypes
  BY TypesInit
<1>2. ImageTypes /\ [Next]_vars => ImageTypes'
  BY TypesNext
<1> QED
  BY <1>1, <1>2, PTL DEF Spec

\* The FAT stays a FAT and every entry names a cluster and a size, whatever commands
\* did to the image and wherever they stopped (fat12img.py 72-88, 119-181).
THEOREM ImageTypeCorrect == Spec => []TypeOK
BY TypesStay, TypesAreTypes, PTL

\* A save never runs out of clusters on its way, in a damaged image neither: it has
\* counted the free entries first, and finds each of them.  The return for a search
\* without success (fat12img.py 208-210) is never taken.
THEOREM SaveFindsClusters ==
    Spec => [](pc = "write" /\ cmd.left > 0 => {c \in FreeIn(memFat) : c > cmd.prev} # {})
<1>1. ImageTypes => (pc = "write" /\ cmd.left > 0 => Above # {})
  BY SomeAbove DEF ImageTypes
<1> QED
  BY <1>1, TypesStay, PTL DEF Above
=============================================================================
