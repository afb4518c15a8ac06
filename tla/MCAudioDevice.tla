---------------------------- MODULE MCAudioDevice ----------------------------
(* AudioDevice on a small instance: the device with the jack, and another  *)
(* one whose buffer is the host's; and BufferStructs that name none, some  *)
(* or all of them, or one that the driver does not find.                   *)
EXTENDS AudioDevice

CONSTANTS codec, microphone, stranger, w1, w2

MCDevices == {codec, microphone}
MCHostDevices == {microphone}
MCWorks == {w1, w2}
MCPublished ==
  {<<>>, <<microphone>>, <<stranger, codec>>, <<microphone, codec>>}
=============================================================================
