----------------------------- MODULE EventQueue -----------------------------
(***************************************************************************)
(* The ARMToIntel queue of protocol_bce.c.  The driver posts the slots of  *)
(* its DMA buffer to the device, which fills them, in the order they were  *)
(* posted, with messages.  The completion handler t2audio_bce_in_queue_    *)
(* completion reads the slot at data_head for every completion, gives the  *)
(* submission back to the ring and, when no completion is left, posts as   *)
(* many slots again as it has handled, from data_tail on.                  *)
(*                                                                         *)
(* A completion does not say which slot it is about: data_head and         *)
(* data_tail, which no lock protects, have to stay in step with the ring.  *)
(***************************************************************************)
EXTENDS Naturals, Sequences

CONSTANTS
  Message,      \* what the device sends
  ElCount       \* slots in the DMA buffer, T2AUDIO_BCE_QUEUE_ELEMENT_COUNT

ASSUME ElCountAssumption == ElCount \in Nat \ {0}

VARIABLES
  available,  \* the ring's free submissions
  posted,     \* the slots the device may fill, in order
  filled,     \* the slots it has filled and the driver has not handled
  slot,       \* qin.data, slot by slot
  dataHead,   \* qin.data_head
  dataTail,   \* qin.data_tail
  irq,        \* where the completion handler is
  cnt,        \* its count of completions handled
  handled     \* the message it handled last

vars == <<available, posted, filled, slot, dataHead, dataTail, irq, cnt,
          handled>>

Slots == 0 .. ElCount - 1

(* A submission ring of n entries keeps one empty: it hands out n - 1      *)
(* submissions at a time.                                                  *)
RingCapacity(n) == n - 1

(* The slots t2audio_bce_in_queue_submit_pending submits: count of them,   *)
(* or as many as there are reservations, from data_tail on.                *)
Submitted(count, free, tail) ==
  LET n == IF count <= free THEN count ELSE free
  IN  [i \in 1 .. n |-> (tail + i - 1) % ElCount]

(* t2audio_bce_init: a ring of ElCount + 1 entries, every slot posted. *)
Init ==
  /\ posted = Submitted(ElCount, RingCapacity(ElCount + 1), 0)
  /\ available = RingCapacity(ElCount + 1) - Len(posted)
  /\ dataTail = Len(posted) % ElCount
  /\ filled = <<>>
  /\ slot \in [Slots -> Message]
  /\ dataHead = 0
  /\ irq = "idle"
  /\ cnt = 0
  /\ handled \in Message

(* The device writes a message in the oldest slot it has, and completes    *)
(* the submission.                                                         *)
DeviceFills(m) ==
  /\ posted # <<>>
  /\ slot' = [slot EXCEPT ![Head(posted)] = m]
  /\ filled' = Append(filled, Head(posted))
  /\ posted' = Tail(posted)
  /\ UNCHANGED <<available, dataHead, dataTail, irq, cnt, handled>>

(* The completion queue calls the handler. *)
HandlerStarts ==
  /\ irq = "idle"
  /\ filled # <<>>
  /\ irq' = "looping"
  /\ cnt' = 0
  /\ UNCHANGED <<available, posted, filled, slot, dataHead, dataTail, handled>>

(* Mutant: data_head stays. *)
TakesKeepingHead ==
  /\ irq = "looping"
  /\ filled # <<>>
  /\ handled' = slot[dataHead]
  /\ filled' = Tail(filled)
  /\ available' = available + 1
  /\ cnt' = cnt + 1
  /\ UNCHANGED <<posted, slot, dataHead, dataTail, irq>>

(* One round of its loop: the message at data_head is handled, data_head   *)
(* moves on and the submission is free again.                              *)
HandlerTakes ==
  /\ irq = "looping"
  /\ filled # <<>>
  /\ handled' = slot[dataHead]
  /\ dataHead' = (dataHead + 1) % ElCount
  /\ filled' = Tail(filled)
  /\ available' = available + 1
  /\ cnt' = cnt + 1
  /\ UNCHANGED <<posted, slot, dataTail, irq>>

(* t2bce_core_next_completion finds none: the loop ends.  The device may   *)
(* complete more before the handler has returned.                          *)
HandlerDrains ==
  /\ irq = "looping"
  /\ filled = <<>>
  /\ irq' = "posting"
  /\ UNCHANGED <<available, posted, filled, slot, dataHead, dataTail, cnt,
                 handled>>

(* Mutants: one slot too few is posted; none is. *)
PostsOneLess ==
  /\ irq = "posting"
  /\ LET more == Submitted(cnt - 1, available, dataTail) IN
       /\ posted' = posted \o more
       /\ available' = available - Len(more)
       /\ dataTail' = (dataTail + Len(more)) % ElCount
  /\ irq' = "idle"
  /\ UNCHANGED <<filled, slot, dataHead, cnt, handled>>

PostsNone ==
  /\ irq = "posting"
  /\ irq' = "idle"
  /\ UNCHANGED <<available, posted, dataTail, filled, slot, dataHead, cnt,
                 handled>>

(* t2audio_bce_in_queue_submit_pending(q, cnt), and the handler returns. *)
HandlerPosts ==
  /\ irq = "posting"
  /\ LET more == Submitted(cnt, available, dataTail) IN
       /\ posted' = posted \o more
       /\ available' = available - Len(more)
       /\ dataTail' = (dataTail + Len(more)) % ElCount
  /\ irq' = "idle"
  /\ UNCHANGED <<filled, slot, dataHead, cnt, handled>>

HandlerStep == HandlerStarts \/ HandlerTakes \/ HandlerDrains \/ HandlerPosts

Next ==
  \/ \E m \in Message : DeviceFills(m)
  \/ HandlerStep

Spec == Init /\ [][Next]_vars

(* The completion interrupt is served and its handler runs to its end. *)
FairSpec == Spec /\ WF_vars(HandlerStep)

-----------------------------------------------------------------------------
TypeOK ==
  /\ available \in Nat
  /\ posted \in Seq(Slots)
  /\ filled \in Seq(Slots)
  /\ slot \in [Slots -> Message]
  /\ dataHead \in Slots
  /\ dataTail \in Slots
  /\ irq \in {"idle", "looping", "posting"}
  /\ cnt \in Nat
  /\ handled \in Message

(* The messages the driver has still to handle, as it would read them now. *)
OnTheWay == [i \in 1 .. Len(filled) |-> slot[filled[i]]]

Channel == INSTANCE Fifo WITH
  chan <- OnTheWay, taken <- handled, Capacity <- ElCount

(* The handler is handed every message the device wrote, once, in order    *)
(* and unchanged: data_head names the slot of the completion it handles,   *)
(* and no slot is posted again before its message was handled.             *)
HandlesEveryMessage == Channel!Spec

(* The submissions the handler has still to make up for. *)
Owed == IF irq = "idle" THEN 0 ELSE cnt

(* No slot is lost: the device has it, it waits for the handler, or the    *)
(* running handler will post it.  A loss would shrink the ring for ever.   *)
SlotsConserved ==
  /\ Len(posted) + Len(filled) + Owed = ElCount
  /\ available = Owed

(* The slot k places after another. *)
Ahead(head, k) == IF head + k < ElCount THEN head + k ELSE head + k - ElCount

(* Slots are filled from data_head on, and posted after those. *)
SlotsInTurn ==
  /\ \A i \in 1 .. Len(filled) : filled[i] = Ahead(dataHead, i - 1)
  /\ \A i \in 1 .. Len(posted) : posted[i] = Ahead(dataHead, Len(filled) + i - 1)
  /\ dataTail = (dataHead + Len(filled) + Len(posted)) % ElCount

IInv ==
  /\ TypeOK
  /\ SlotsConserved
  /\ SlotsInTurn

(* Every message the device wrote is handled, and the device is not left   *)
(* without a slot to fill: the handler, whose loop ends only when it finds *)
(* no completion, posts the slots it has emptied.                          *)
MessagesAreHandled == []<>(filled = <<>>) /\ []<>(posted # <<>>)
=============================================================================
