----------------------------- MODULE MCFFPlayer -----------------------------
(* FFPlayer for TLC: a video of two packets around one of another stream,   *)
(* whose codec holds one frame back, and one of a single, larger packet.    *)
EXTENDS FFPlayer

Picture(n) == [video |-> TRUE, bytes |-> n]
Sound == [video |-> FALSE, bytes |-> 1]
MCVideos ==
  { [packets |-> <<Picture(1), Sound, Picture(1)>>, delay |-> 1, size |-> <<2, 1>>],
    [packets |-> <<Picture(2)>>, delay |-> 0, size |-> <<1, 1>>] }
MCSizes == { <<2, 1>> }
OnlyBGRA == {"pFrameBGRA"}
=============================================================================
