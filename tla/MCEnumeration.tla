--------------------------- MODULE MCEnumeration ---------------------------
(* Enumeration on a small instance: the device with the jack, which has an *)
(* output stream only; one with more input streams than the driver takes,  *)
(* which are not linear; and one with an input stream only.  Two of them   *)
(* have no fixed ALSA number.  The buffers are interchangeable.            *)
EXTENDS Enumeration, TLC

CONSTANTS prober, w1, b1, b2, b3, b4

MCWorkers == {w1}
MCBuffers == {b1, b2, b3, b4}
MCSaid == <<
  [id |-> "d1", uid |-> "Codec Output", ins |-> <<>>, outs |-> <<"o1">>,
   linear |-> {"o1"}],
  [id |-> "d2", uid |-> "Array", ins |-> <<"i2", "i3">>, outs |-> <<"o2">>,
   linear |-> {"o2"}],
  [id |-> "d3", uid |-> "Tap", ins |-> <<"i4">>, outs |-> <<>>,
   linear |-> {"i4"}] >>
MCSymmetry == Permutations(MCBuffers)
=============================================================================
