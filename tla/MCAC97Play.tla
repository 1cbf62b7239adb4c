----------------------------- MODULE MCAC97Play -----------------------------
(* Small sizes for AC97Play: three descriptors of two frames.  A chunk of   *)
(* five frames ends in a short block, and a file may end in a short chunk.  *)
EXTENDS AC97Play

MCTotals == {1, 5, 7, 12}
MCBuffers == {1, 4, 6, 9}
LongFile == {7}
None == {}
=============================================================================
