-------------------------- MODULE MCLoaderSetup ---------------------------
(***************************************************************************)
(* LoaderSetup with KernelStart for TLC: an exception of each kind.        *)
(***************************************************************************)
EXTENDS LoaderSetup

\* A vector for each way an exception is delivered and reported: with and without
\* an error code, contributory or not, reserved (9), and of the controllers (33).
MCVectors == {0, 2, 3, 8, 9, 11, 13, 14, 17, 33}
MCFaults  == MCVectors \ {2, 8, 33}
=============================================================================
