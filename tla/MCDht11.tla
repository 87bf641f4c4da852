------------------------------ MODULE MCDht11 ------------------------------
(* Frames of four readings and their sum, two bits each.                     *)
EXTENDS Dht11

MCFrames == { <<{0}, {}, {}, {0}, {1}>>, <<{1}, {}, {}, {}, {1}>> }
MCReplyTime == {10, 14}
MCZeroTime == {13, 14}
=============================================================================
