--------------------------- MODULE MCControlSocket ---------------------------
(***************************************************************************)
(* Two connections for TLC: one that sends two commands, so that their     *)
(* order can go wrong, and one that sends a command in between.            *)
(***************************************************************************)
EXTENDS ControlSocket

CONSTANTS c1, c2

TwoAndOne == [c \in Clients |-> IF c = c1 THEN 2 ELSE 1]
=============================================================================
