---------------------------- MODULE MCEventQueue ----------------------------
(* EventQueue on a small instance: three slots and two messages, so that    *)
(* the handler can be overtaken by the device and the ring wraps.          *)
EXTENDS EventQueue

CONSTANTS m1, m2
MCMessage == {m1, m2}
=============================================================================
