---------------------------- MODULE MCTuiScreens ----------------------------
(***************************************************************************)
(* Two songs and two playlists.  Of the three native lists one is empty,   *)
(* and one longer than the preview of it.                                  *)
(***************************************************************************)
EXTENDS TuiScreens

CONSTANTS s1, s2

ThreeLists == << <<>>, <<s1, s2, s1>>, <<s2>> >>
=============================================================================
