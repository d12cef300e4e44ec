------------------------- MODULE MCPlaybackLiveness -------------------------
(***************************************************************************)
(* A small instance of PlaybackLiveness: entries are told apart by their   *)
(* index, so one track is enough.                                          *)
(***************************************************************************)
EXTENDS PlaybackLiveness

CONSTANT t1

NoDuration == [t \in Tracks |-> 0]
NoGain     == [t \in Tracks |-> 0]
=============================================================================
