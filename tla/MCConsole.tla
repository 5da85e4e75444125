----------------------------- MODULE MCConsole -----------------------------
(***************************************************************************)
(* Console for TLC: a screen of two lines, whose width is two tab stops,   *)
(* and messages that reach every border of it.                             *)
(***************************************************************************)
EXTENDS Console

MCTags   == {<<"b">>}
MCBodies == {<<"a", "a">>, <<Tab>>, <<NewLine>>, <<BackSpace, BackSpace>>}
MCFatal  == <<"b">>
MCReport == <<"b", Tab>>
=============================================================================
