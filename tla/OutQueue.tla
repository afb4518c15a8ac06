------------------------------ MODULE OutQueue ------------------------------
(***************************************************************************)
(* The IntelToARM queue of protocol_bce.c: ElCount message slots of DMA    *)
(* memory behind a BCE submission ring.  A sender first reserves a         *)
(* submission (outside the lock, with a timeout), then takes b->spinlock,  *)
(* writes its message in the slot at data_tail, submits the slot to the    *)
(* device, advances data_tail and drops the lock.  The device reads the    *)
(* slot some time later and completes the submission; the completion       *)
(* handler then gives the reservation back.                                *)
(*                                                                         *)
(* The slot is chosen by data_tail alone: nothing in the code checks that  *)
(* the device has finished with it.  That the slot is free follows only    *)
(* from the number of submissions the ring hands out.                      *)
(***************************************************************************)
EXTENDS Naturals, Sequences, FiniteSets

CONSTANTS
  Senders,      \* the threads that send
  Message,      \* what they send
  ElCount       \* slots in the DMA buffer, T2AUDIO_BCE_QUEUE_ELEMENT_COUNT

ASSUME ElCountAssumption == ElCount \in Nat \ {0}
ASSUME SendersAssumption == IsFiniteSet(Senders)

VARIABLES
  pc,         \* where a sender is in the send macro
  available,  \* the ring's free submissions
  spinlock,   \* who holds b->spinlock: a set of at most one sender
  dataTail,   \* qout.data_tail
  slot,       \* qout.data, slot by slot
  ring,       \* the slots submitted that the device has not read, in order
  completed,  \* submissions the device has finished, not handled yet
  received    \* the message the device read last

vars == <<pc, available, spinlock, dataTail, slot, ring, completed, received>>

Slots == 0 .. ElCount - 1

PcValues == {"idle", "reserved", "locked"}

(* Mutant: the ring hands out all its entries. *)
FullRing(n) == n

(* A submission ring of n entries keeps one empty: it hands out n - 1      *)
(* submissions at a time.                                                  *)
RingCapacity(n) == n - 1

(* t2audio_bce_queue_init: the ring has one entry more than the buffer has *)
(* slots.                                                                  *)
Init ==
  /\ pc = [s \in Senders |-> "idle"]
  /\ available = RingCapacity(ElCount + 1)
  /\ spinlock = {}
  /\ dataTail = 0
  /\ slot \in [Slots -> Message]
  /\ ring = <<>>
  /\ completed = 0
  /\ received \in Message

(* t2bce_core_reserve_submission succeeds.  Its failure (no submission     *)
(* became free within the timeout) leaves the macro with nothing changed.  *)
Reserve(s) ==
  /\ pc[s] = "idle"
  /\ available > 0
  /\ available' = available - 1
  /\ pc' = [pc EXCEPT ![s] = "reserved"]
  /\ UNCHANGED <<spinlock, dataTail, slot, ring, completed, received>>

(* The rest of __t2audio_send_prepare and the macro's fn(&msg): the        *)
(* message is written in the slot at data_tail, under the lock.            *)
Prepare(s, m) ==
  /\ pc[s] = "reserved"
  /\ spinlock = {}
  /\ spinlock' = {s}
  /\ slot' = [slot EXCEPT ![dataTail] = m]
  /\ pc' = [pc EXCEPT ![s] = "locked"]
  /\ UNCHANGED <<available, dataTail, ring, completed, received>>

(* Mutant: data_tail is not advanced. *)
SubmitKeepingTail(s) ==
  /\ pc[s] = "locked"
  /\ ring' = Append(ring, dataTail)
  /\ spinlock' = {}
  /\ pc' = [pc EXCEPT ![s] = "idle"]
  /\ UNCHANGED <<available, dataTail, slot, completed, received>>

(* __t2audio_send: submit the slot, advance data_tail, drop the lock. *)
Submit(s) ==
  /\ pc[s] = "locked"
  /\ ring' = Append(ring, dataTail)
  /\ dataTail' = (dataTail + 1) % ElCount
  /\ spinlock' = {}
  /\ pc' = [pc EXCEPT ![s] = "idle"]
  /\ UNCHANGED <<available, slot, completed, received>>

(* The device reads the slot of the oldest submission it has. *)
Fetch ==
  /\ ring # <<>>
  /\ received' = slot[Head(ring)]
  /\ ring' = Tail(ring)
  /\ completed' = completed + 1
  /\ UNCHANGED <<pc, available, spinlock, dataTail, slot>>

(* Mutants: the loop ends after one completion and forgets the others; it  *)
(* does not tell the ring.                                                 *)
OneCompletion ==
  /\ completed > 0
  /\ available' = available + 1
  /\ completed' = 0
  /\ UNCHANGED <<pc, spinlock, dataTail, slot, ring, received>>

NoNotify ==
  /\ completed > 0
  /\ completed' = 0
  /\ UNCHANGED <<pc, available, spinlock, dataTail, slot, ring, received>>

(* t2audio_bce_out_queue_completion: every completion the device has       *)
(* posted by now gives its submission back to the ring.                    *)
OutQueueCompletion ==
  /\ completed > 0
  /\ available' = available + completed
  /\ completed' = 0
  /\ UNCHANGED <<pc, spinlock, dataTail, slot, ring, received>>

SenderStep(s) ==
  \/ Reserve(s)
  \/ \E m \in Message : Prepare(s, m)
  \/ Submit(s)

Next ==
  \/ \E s \in Senders : SenderStep(s)
  \/ Fetch
  \/ OutQueueCompletion

(* The scheduler runs a thread that can go on and the completion interrupt *)
(* is served; the spinlock is a queued one, so a sender that keeps asking  *)
(* gets it.  The device is assumed to read what it was given.              *)
Fairness ==
  /\ \A s \in Senders : SF_vars(\E m \in Message : Prepare(s, m))
  /\ \A s \in Senders : WF_vars(Submit(s))
  /\ WF_vars(Fetch)
  /\ WF_vars(OutQueueCompletion)

Spec == Init /\ [][Next]_vars

FairSpec == Spec /\ Fairness

-----------------------------------------------------------------------------
TypeOK ==
  /\ pc \in [Senders -> PcValues]
  /\ available \in Nat
  /\ spinlock \subseteq Senders
  /\ dataTail \in Slots
  /\ slot \in [Slots -> Message]
  /\ ring \in Seq(Slots)
  /\ completed \in Nat
  /\ received \in Message

(* The senders that hold a reservation they have not submitted. *)
Reserving == {s \in Senders : pc[s] # "idle"}

(* What the device still has to read, as it would read it now. *)
OnTheWay == [i \in 1 .. Len(ring) |-> slot[ring[i]]]

Channel == INSTANCE Fifo WITH
  chan <- OnTheWay, taken <- received, Capacity <- ElCount

(* The device reads every message as it was written, in the order of the   *)
(* submissions: no sender writes a slot that the device has still to read, *)
(* although __t2audio_send_prepare looks at data_tail only.                *)
DeliversEverySend == Channel!Spec

(* No submission leaks: a free one, a reservation, a slot on its way and a *)
(* completion not handled yet are all there is, and they are as many as    *)
(* the buffer has slots.  A leak would in the end fail every send with the *)
(* reservation timeout.                                                    *)
SubmissionsConserved ==
  available + Cardinality(Reserving) + Len(ring) + completed = ElCount

(* The slots on their way end just before data_tail and are in turn, so    *)
(* that fewer than ElCount of them leave the slot at data_tail free.       *)
Back(tail, k) == IF tail >= k THEN tail - k ELSE tail + ElCount - k

SlotsInTurn ==
  \A i \in 1 .. Len(ring) : ring[i] = Back(dataTail, Len(ring) + 1 - i)

(* b->spinlock is held by the one sender between prepare and send. *)
LockHeld == \A s \in Senders : (pc[s] = "locked") <=> (s \in spinlock)

OneHolder == \A s, t \in spinlock : s = t

(* A sender that has the lock may write the slot at data_tail: the device  *)
(* has read what was there.                                                *)
SlotFree == spinlock # {} => \A i \in 1 .. Len(ring) : ring[i] # dataTail

IInv ==
  /\ TypeOK
  /\ SubmissionsConserved
  /\ SlotsInTurn
  /\ LockHeld
  /\ OneHolder

(* A sender that waits for a reservation is not kept out for ever by       *)
(* submissions that never come back (the send macros have no error path    *)
(* after the reservation).                                                 *)
SubmissionComesBack == (available = 0) ~> (available > 0)
=============================================================================
