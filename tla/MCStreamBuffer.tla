--------------------------- MODULE MCStreamBuffer ---------------------------
(* StreamBuffer on a small instance: rings of three or four frames, with   *)
(* bytes left over or not, and the periods of the driver's own buffer for  *)
(* the rates of ALSA, none, one too low and one too high for it.           *)
EXTENDS StreamBuffer

MCSizes == {6, 8, 9}
MCPackets == {2, 3}
MCRates == {0, 99, 8000, 44100, 48000, 96000, 1700000}
=============================================================================
