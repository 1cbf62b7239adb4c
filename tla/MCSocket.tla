------------------------------ MODULE MCSocket ------------------------------
(* Socket for TLC: two slots and a struct more than slots, so that a slot is *)
(* used again and the table can be full.                                     *)
EXTENDS Socket, TLC

CONSTANTS s1, s2, s3

MCMemory == {s1, s2, s3}
Blocks == Permutations(MCMemory)
MCFds == 0..1
\* An error of a 32-bit build, and one of a 64-bit build that is a slot's number.
MCErrorFds == {-2, 1}
=============================================================================
