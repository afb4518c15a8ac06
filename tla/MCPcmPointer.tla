---------------------------- MODULE MCPcmPointer ----------------------------
(* PcmPointer on a small instance: a buffer whose time is no whole number  *)
(* of units, a device that takes one less or one more than the whole ones, *)
(* and time for three rings.                                               *)
EXTENDS PcmPointer

MCLatencies == {0, 1}
MCLengths == {11, 13}
MCErrors == {0, 1}
=============================================================================
