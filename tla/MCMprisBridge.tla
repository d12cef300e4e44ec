---------------------------- MODULE MCMprisBridge ----------------------------
(***************************************************************************)
(* A small instance of MprisBridge for TLC.                                *)
(***************************************************************************)
EXTENDS MprisBridge

CONSTANTS t1, t2

NoDuration == [t \in Tracks |-> 0]
NoGain     == [t \in Tracks |-> 0]

OneBack == {-1}

\* Sound: nothing tells two tracks apart, and no liveness is checked.
TrackSymmetry == Permutations(Tracks)
=============================================================================
