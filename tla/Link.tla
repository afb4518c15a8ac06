-------------------------------- MODULE Link --------------------------------
(***************************************************************************)
(* A one-way link between the driver and the T2: the messages on their way *)
(* and what its two ends do to them.  Fifo is the specification of a link  *)
(* alone; BceTransport has one in each direction.                          *)
(***************************************************************************)
EXTENDS Naturals, Sequences

CONSTANTS
  Message,   \* what a ring element can hold
  Capacity   \* the most messages on their way at once

VARIABLE
  chan       \* the messages put and not yet taken, oldest first

(* The sender's end: a message is appended while there is room. *)
Put(m) ==
  /\ Len(chan) < Capacity
  /\ chan' = Append(chan, m)

(* The receiver's end: m is the oldest message, and leaves the link. *)
Take(m) ==
  /\ chan # <<>>
  /\ m = Head(chan)
  /\ chan' = Tail(chan)
=============================================================================
