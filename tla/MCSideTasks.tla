----------------------------- MODULE MCSideTasks -----------------------------
(* Two songs, of which one has no art. *)
EXTENDS SideTasks

CONSTANTS s1, s2

SecondHasNoArt == [s \in Songs |-> IF s = s1 THEN s1 ELSE NoKey]
=============================================================================
