-------------------------- MODULE MCPlaybackEngine --------------------------
(***************************************************************************)
(* Small instances of PlaybackEngine for TLC.                              *)
(***************************************************************************)
EXTENDS PlaybackEngine

CONSTANTS t1, t2

\* Entries that can be told apart, of no known duration: never scrobbled.
NoDuration == [t \in Tracks |-> 0]

\* A track that counts from its half, and a long one that counts from the cap.
ShortAndLong == [t \in Tracks |-> IF t = t1 THEN 2 ELSE 20]

NoGain == [t \in Tracks |-> 0]

\* A loud track to attenuate, and a quiet one, which is left as it is.
MixedGain == [t \in Tracks |-> IF t = t1 THEN -6 ELSE 3]

\* Sound where no constant tells two tracks apart.
TrackSymmetry == Permutations(Tracks)
=============================================================================
