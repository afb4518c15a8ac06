----------------------------- MODULE MCOutQueue -----------------------------
(* OutQueue on a small instance: three senders over a buffer of three      *)
(* slots, so that every slot is reused while others are on their way.      *)
EXTENDS OutQueue

CONSTANTS s1, s2, s3, m1, m2

MCSenders == {s1, s2, s3}
MCMessage == {m1, m2}
=============================================================================
