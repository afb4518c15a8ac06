-------------------------------- MODULE Fifo --------------------------------
(***************************************************************************)
(* What a queue between the driver and the T2 promises: messages are taken *)
(* unchanged, in the order they were put, and at most Capacity of them are *)
(* on their way.  OutQueue (IntelToARM) and EventQueue (ARMToIntel) are    *)
(* the two rings of protocol_bce.c that implement it.                      *)
(***************************************************************************)
EXTENDS Link

VARIABLE
  taken      \* the message the receiver took last

fifoVars == <<chan, taken>>

Init ==
  /\ chan = <<>>
  /\ taken \in Message

Send(m) == Put(m) /\ UNCHANGED taken

Receive == \E m \in Message : Take(m) /\ taken' = m

Next ==
  \/ \E m \in Message : Send(m)
  \/ Receive

Spec == Init /\ [][Next]_fifoVars
=============================================================================
