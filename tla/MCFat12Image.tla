--------------------------- MODULE MCFat12Image ---------------------------
(***************************************************************************)
(* Fat12Image for TLC.  Contents are compared and stored, nothing else, so *)
(* they are symmetric; so are the names that do not end in a blank.        *)
(***************************************************************************)
EXTENDS Fat12Image, TLC

Interchangeable == Permutations(Contents) \cup Permutations(Names \ ShortNames)
=============================================================================
