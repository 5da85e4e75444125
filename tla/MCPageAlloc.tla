---------------------------- MODULE MCPageAlloc ----------------------------
(***************************************************************************)
(* Machines for model-checking PageAlloc.  Each is a memory layout as      *)
(* init_memory computes it, shrunk: a word of the bitmap has a few bits    *)
(* and the boundary between DMA and NORMAL lies at a small frame number.   *)
(***************************************************************************)
EXTENDS PageAlloc, TLC

\* RAM from frame 1 on, split at the DMA boundary (frame 4); the kernel's
\* structures in frame 1 and a reserved frame above the RAM.
SplitStart == 1 :> 1 @@ 2 :> 4
SplitEnd   == 1 :> 4 @@ 2 :> 8
SplitType  == 1 :> "DMA" @@ 2 :> "NORMAL"

\* A hole of one frame (4) between RAM that begins at frame 0 and the rest.
HoleStart == 1 :> 0 @@ 2 :> 5
HoleEnd   == 1 :> 4 @@ 2 :> 9
HoleType  == 1 :> "DMA" @@ 2 :> "NORMAL"

\* A first zone of one frame, shorter than most requests; holes at 2 and 8.
ShortStart == 1 :> 1 @@ 2 :> 3
ShortEnd   == 1 :> 2 @@ 2 :> 8
ShortType  == 1 :> "DMA" @@ 2 :> "NORMAL"

KernelAndUser == {{"KERNEL"}, {"USER"}}
KernelOnly    == {{"KERNEL"}}
=============================================================================
