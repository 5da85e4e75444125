--------------------------- MODULE MCFloppyBoot ---------------------------
(***************************************************************************)
(* FloppyBoot for TLC: every constant has a value in the configuration.    *)
(***************************************************************************)
EXTENDS FloppyBoot
=============================================================================
