------------------------------ MODULE MCCaptureHold ------------------------------
(* Instances of CaptureHold for TLC: the captures of two servers. *)
EXTENDS CaptureHold

CONSTANTS c1, c2, c3, s1, s2

ByServer == [c \in Captures |-> IF c = c3 THEN s2 ELSE s1]
=============================================================================
