----------------------------- MODULE FramePool -----------------------------
(***************************************************************************)
(* What the page allocator promises its callers, without the bitmap, the   *)
(* counters and the search: a caller is granted a run of frames of one     *)
(* zone that nobody holds, and gives frames back.  PageAlloc implements    *)
(* it as long as its requests fit in a word of the bitmap and in a zone.   *)
(***************************************************************************)
EXTENDS Integers

CONSTANTS
    AllFrames,  \* the frames of the machine
    Pools,      \* the zones
    Pool,       \* the frames of each zone that may be granted
    Sizes       \* lengths of the runs that are asked for

VARIABLE held   \* number of callers that hold each frame

Run(a, n) == a .. a + n - 1

Init == held = [p \in AllFrames |-> 0]

\* Every frame of the run becomes held, and none of them was.
Grant(z, a, n) ==
    /\ Run(a, n) \subseteq Pool[z]
    /\ \A p \in Run(a, n) : held[p] = 0
    /\ held' = [p \in AllFrames |-> IF p \in Run(a, n) THEN 1 ELSE held[p]]

\* Frames of the run that are held are given back; the others are left alone.
Release(a, n) ==
    held' = [p \in AllFrames |-> IF p \in Run(a, n) THEN 0 ELSE held[p]]

Next ==
    \/ \E z \in Pools : \E a \in Pool[z], n \in Sizes : Grant(z, a, n)
    \/ \E a, b \in AllFrames : Release(a, b - a + 1)

Spec == Init /\ [][Next]_held
=============================================================================
