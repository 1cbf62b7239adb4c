---------------------------- MODULE MCAC97Codec ----------------------------
(* Small bounds for AC97Driver: two tries where the code has 102 and 201, a  *)
(* register of two bits, one value of *NewVolume that does not fit it.      *)
EXTENDS AC97Driver

MCNewVolumes == {0, 3, 6}
MCIncreases == {-1, 2}
=============================================================================
