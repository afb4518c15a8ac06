--------------------------- MODULE MCBceTransport ---------------------------
(* BceTransport on a small instance: two callers and one deferred work,    *)
(* and so few tags that they come round while a reply is still on its way. *)
EXTENDS BceTransport

CONSTANTS c1, c2, w1, none

MCCallers == {c1, c2}
MCWorks == {w1}

=============================================================================
