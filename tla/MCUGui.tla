------------------------------- MODULE MCUGui -------------------------------
(* UGui for TLC: the memory for three windows and three bricks, which is     *)
(* used again after a delete: a window can have none, one or several bricks. *)
EXTENDS UGui, TLC

CONSTANTS w1, w2, w3, b1, b2, b3

MCWindows == {w1, w2, w3}
MCBricks == {b1, b2, b3}
SameBlocks == Permutations(MCWindows) \union Permutations(MCBricks)
=============================================================================
