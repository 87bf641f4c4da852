------------------------------ MODULE MCCamera ------------------------------
(* Two viewers of a camera with two or more buffers.                         *)
EXTENDS Camera
CONSTANTS v1, v2
=============================================================================
