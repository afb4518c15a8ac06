---------------------------- MODULE QueueProofs ----------------------------
(***************************************************************************)
(* Proofs about the two queues of protocol_bce.c, for any senders, any     *)
(* messages and any number of slots.                                       *)
(*                                                                         *)
(* Of OutQueue, which this module extends: the inductive invariant IInv,   *)
(* that the slot at data_tail is free when a sender writes it, and that    *)
(* the queue implements Fifo.  Of EventQueue, which it has as the instance *)
(* In: the inductive invariant In!IInv, and that the queue implements Fifo.*)
(***************************************************************************)
EXTENDS OutQueue, FiniteSetTheorems, SequenceTheorems, TLAPS

(* The number of reservations when a sender takes one, and gives one up. *)
LEMMA ReserveCounts ==
  ASSUME TypeOK, NEW s \in Senders, pc[s] = "idle",
         NEW v \in PcValues, v # "idle", pc' = [pc EXCEPT ![s] = v]
  PROVE  Cardinality(Reserving') = Cardinality(Reserving) + 1
<1>1. Reserving' = Reserving \union {s}
  BY DEF Reserving, TypeOK
<1>2. s \notin Reserving /\ IsFiniteSet(Reserving)
  BY SendersAssumption, FS_Subset DEF Reserving
<1> QED
  BY <1>1, <1>2, FS_AddElement

LEMMA SubmitCounts ==
  ASSUME TypeOK, NEW s \in Senders, pc[s] # "idle",
         pc' = [pc EXCEPT ![s] = "idle"]
  PROVE  /\ Cardinality(Reserving') = Cardinality(Reserving) - 1
         /\ Cardinality(Reserving) \in Nat
<1>1. Reserving' = Reserving \ {s}
  BY DEF Reserving, TypeOK
<1>2. s \in Reserving /\ IsFiniteSet(Reserving)
  BY SendersAssumption, FS_Subset DEF Reserving
<1> QED
  BY <1>1, <1>2, FS_RemoveElement, FS_CardinalityType

LEMMA ReservingCount ==
  /\ Cardinality(Reserving) \in Nat
  /\ (\E s \in Senders : pc[s] # "idle") => Cardinality(Reserving) > 0
<1>1. IsFiniteSet(Reserving)
  BY SendersAssumption, FS_Subset DEF Reserving
<1>2. (\E s \in Senders : pc[s] # "idle") => Reserving # {}
  BY DEF Reserving
<1> QED
  BY <1>1, <1>2, FS_CardinalityType, FS_EmptySet

(* data_tail after one more slot. *)
LEMMA NextSlot ==
  ASSUME NEW x \in Slots
  PROVE  (x + 1) % ElCount = IF x + 1 = ElCount THEN 0 ELSE x + 1
BY ElCountAssumption, SMT DEF Slots

(* With the lock held, the slots on their way are fewer than the buffer's, *)
(* so none of them is the slot at data_tail.                               *)
LEMMA SlotAtTailFree ==
  ASSUME IInv, NEW s \in Senders, pc[s] # "idle"
  PROVE  /\ Len(ring) < ElCount
         /\ \A i \in 1 .. Len(ring) : ring[i] # dataTail
<1>1. Len(ring) \in Nat
  BY LenProperties DEF IInv, TypeOK
<1>2. Len(ring) < ElCount
  BY <1>1, ReservingCount, ElCountAssumption
    DEF IInv, TypeOK, SubmissionsConserved
<1>3. ASSUME NEW i \in 1 .. Len(ring)
      PROVE  ring[i] # dataTail
  BY <1>1, <1>2, ElCountAssumption
  DEF IInv, TypeOK, SlotsInTurn, Back, Slots
<1> QED
  BY <1>2, <1>3

LEMMA InitInv == Init => IInv
<1> SUFFICES ASSUME Init
             PROVE  IInv
  OBVIOUS
<1>1. TypeOK
  BY ElCountAssumption DEF Init, TypeOK, PcValues, Slots, RingCapacity
<1>2. SubmissionsConserved
  <2>1. Reserving = {}
    BY DEF Init, Reserving
  <2> QED
    BY <2>1, FS_EmptySet, ElCountAssumption
    DEF Init, SubmissionsConserved, RingCapacity
<1>3. SlotsInTurn /\ LockHeld /\ OneHolder
  BY DEF Init, SlotsInTurn, LockHeld, OneHolder
<1> QED
  BY <1>1, <1>2, <1>3 DEF IInv

LEMMA ReserveInv == ASSUME IInv, NEW s \in Senders, Reserve(s) PROVE IInv'
<1> USE DEF IInv
<1>1. TypeOK'
  BY DEF TypeOK, Reserve, PcValues
<1>2. SubmissionsConserved'
  <2>1. Cardinality(Reserving') = Cardinality(Reserving) + 1
    BY ReserveCounts DEF Reserve, PcValues
  <2> QED
    BY <2>1, ReservingCount, LenProperties
    DEF Reserve, SubmissionsConserved, TypeOK
<1>3. SlotsInTurn'
  BY DEF Reserve, SlotsInTurn, Back
<1>4. LockHeld' /\ OneHolder'
  BY DEF Reserve, LockHeld, OneHolder, TypeOK
<1> QED
  BY <1>1, <1>2, <1>3, <1>4

LEMMA PrepareInv ==
  ASSUME IInv, NEW s \in Senders, NEW m \in Message, Prepare(s, m)
  PROVE  IInv'
<1> USE DEF IInv
<1>1. TypeOK'
  BY DEF TypeOK, Prepare, PcValues
<1>2. SubmissionsConserved'
  <2>1. Reserving' = Reserving
    BY DEF Prepare, Reserving, TypeOK
  <2> QED
    BY <2>1 DEF Prepare, SubmissionsConserved
<1>3. SlotsInTurn'
  BY DEF Prepare, SlotsInTurn, Back
<1>4. LockHeld' /\ OneHolder'
  BY DEF Prepare, LockHeld, OneHolder, TypeOK
<1> QED
  BY <1>1, <1>2, <1>3, <1>4

LEMMA SubmitInv == ASSUME IInv, NEW s \in Senders, Submit(s) PROVE IInv'
<1> USE DEF IInv
<1>1. dataTail' = (IF dataTail + 1 = ElCount THEN 0 ELSE dataTail + 1)
        /\ dataTail' \in Slots
  BY NextSlot, ElCountAssumption DEF Submit, TypeOK, Slots
<1>2. /\ ring' \in Seq(Slots)
      /\ Len(ring') = Len(ring) + 1
      /\ \A i \in 1 .. Len(ring) : ring'[i] = ring[i]
      /\ ring'[Len(ring) + 1] = dataTail
      /\ Len(ring) \in Nat
  BY AppendProperties, LenProperties DEF Submit, TypeOK
<1>3. TypeOK'
  BY <1>1, <1>2 DEF TypeOK, Submit, PcValues
<1>4. SubmissionsConserved'
  <2>1. /\ Cardinality(Reserving') = Cardinality(Reserving) - 1
        /\ Cardinality(Reserving) \in Nat
    BY SubmitCounts DEF Submit
  <2>2. available' = available /\ completed' = completed
    BY DEF Submit
  <2> QED
    BY <1>2, <2>1, <2>2 DEF SubmissionsConserved, TypeOK
<1>5. SlotsInTurn'
  <2> SUFFICES ASSUME NEW i \in 1 .. Len(ring) + 1
               PROVE  ring'[i] = Back(dataTail', Len(ring) + 2 - i)
    BY <1>2 DEF SlotsInTurn
  <2>1. CASE i = Len(ring) + 1
    BY <2>1, <1>1, <1>2, ElCountAssumption DEF Back, TypeOK, Slots
  <2>2. CASE i # Len(ring) + 1
    <3>1. i \in 1 .. Len(ring) /\ Len(ring) < ElCount
      BY <2>2, <1>2, SlotAtTailFree DEF Submit
    <3>2. ring'[i] = Back(dataTail, Len(ring) + 1 - i)
      BY <3>1, <1>2 DEF SlotsInTurn
    <3>3. dataTail \in Slots /\ Len(ring) \in Nat
      BY <1>2 DEF TypeOK
    <3> QED
      BY <3>1, <3>2, <3>3, <1>1, ElCountAssumption DEF Back, Slots
  <2> QED
    BY <2>1, <2>2
<1>6. LockHeld' /\ OneHolder'
  BY DEF Submit, LockHeld, OneHolder, TypeOK
<1> QED
  BY <1>3, <1>4, <1>5, <1>6

LEMMA FetchInv == ASSUME IInv, Fetch PROVE IInv'
<1> USE DEF IInv
<1>1. /\ ring' \in Seq(Slots)
      /\ Len(ring') = Len(ring) - 1
      /\ \A i \in 1 .. Len(ring') : ring'[i] = ring[i + 1]
      /\ Head(ring) \in Slots
      /\ Len(ring) \in Nat
  BY HeadTailProperties, LenProperties DEF Fetch, TypeOK
<1>2. TypeOK'
  BY <1>1 DEF TypeOK, Fetch
<1>3. SubmissionsConserved'
  <2>1. Cardinality(Reserving') = Cardinality(Reserving)
    BY DEF Fetch, Reserving
  <2>2. available' = available /\ completed' = completed + 1
    BY DEF Fetch
  <2>3. /\ Len(ring') = Len(ring) - 1 /\ Len(ring) \in Nat
        /\ available \in Nat /\ completed \in Nat
        /\ Cardinality(Reserving) \in Nat
    BY <1>1, ReservingCount DEF TypeOK
  <2> QED
    BY <2>1, <2>2, <2>3 DEF SubmissionsConserved
<1>4. SlotsInTurn'
  <2> SUFFICES ASSUME NEW i \in 1 .. Len(ring')
               PROVE  ring'[i] = Back(dataTail, Len(ring') + 1 - i)
    BY DEF SlotsInTurn, Fetch
  <2>1. ring'[i] = Back(dataTail, Len(ring) + 1 - (i + 1))
    BY <1>1, i + 1 \in 1 .. Len(ring) DEF SlotsInTurn
  <2> QED
    BY <1>1, <2>1 DEF Back, Fetch
<1>5. LockHeld' /\ OneHolder'
  BY DEF Fetch, LockHeld, OneHolder
<1> QED
  BY <1>2, <1>3, <1>4, <1>5

LEMMA CompletionInv == ASSUME IInv, OutQueueCompletion PROVE IInv'
<1> USE DEF IInv
<1>1. TypeOK'
  BY DEF TypeOK, OutQueueCompletion
<1>2. SubmissionsConserved'
  BY ReservingCount, LenProperties
  DEF OutQueueCompletion, SubmissionsConserved, Reserving, TypeOK
<1>3. SlotsInTurn' /\ LockHeld' /\ OneHolder'
  BY DEF OutQueueCompletion, SlotsInTurn, Back, LockHeld, OneHolder
<1> QED
  BY <1>1, <1>2, <1>3

LEMMA NextInv == IInv /\ [Next]_vars => IInv'
<1> SUFFICES ASSUME IInv, [Next]_vars
             PROVE  IInv'
  OBVIOUS
<1>1. ASSUME NEW s \in Senders, SenderStep(s)
      PROVE  IInv'
  BY <1>1, ReserveInv, PrepareInv, SubmitInv DEF SenderStep
<1>2. CASE UNCHANGED vars
  BY <1>2 DEF vars, IInv, TypeOK, SubmissionsConserved, Reserving, SlotsInTurn,
              Back, LockHeld, OneHolder
<1> QED
  BY <1>1, <1>2, FetchInv, CompletionInv DEF Next

(* Every reachable state has the types declared for it, conserves the      *)
(* ring's submissions and keeps the submitted slots in turn behind         *)
(* data_tail.                                                              *)
THEOREM InductiveInvariant == Spec => []IInv
BY InitInv, NextInv, PTL DEF Spec

(* A sender that writes the slot at data_tail (__t2audio_send_prepare)     *)
(* never overwrites a message the device has not read.                     *)
THEOREM SlotIsFree == Spec => []SlotFree
<1>1. IInv => SlotFree
  BY SlotAtTailFree DEF IInv, SlotFree, LockHeld, TypeOK
<1> QED
  BY <1>1, InductiveInvariant, PTL

-----------------------------------------------------------------------------
(* The refinement of Fifo. *)

(* What the lemmas below need to know of OnTheWay. *)
WayType ==
  /\ OnTheWay \in Seq(Message)
  /\ Len(OnTheWay) = Len(ring)
  /\ Len(ring) \in Nat
  /\ \A i \in 1 .. Len(ring) : OnTheWay[i] = slot[ring[i]]

LEMMA OnTheWayType == TypeOK => WayType
<1> SUFFICES ASSUME TypeOK
             PROVE  WayType
  OBVIOUS
<1>1. Len(ring) \in Nat /\ \A i \in 1 .. Len(ring) : ring[i] \in Slots
  BY LenProperties, ElementOfSeq DEF TypeOK
<1>2. \A i \in 1 .. Len(ring) : slot[ring[i]] \in Message
  BY <1>1 DEF TypeOK
<1>3. OnTheWay \in Seq(Message)
  BY <1>1, <1>2, IsASeq DEF OnTheWay
<1>4. DOMAIN OnTheWay = 1 .. Len(ring)
  BY DEF OnTheWay
<1>5. Len(OnTheWay) = Len(ring)
  BY <1>1, <1>3, <1>4, LenProperties
<1> QED
  BY <1>1, <1>3, <1>5 DEF OnTheWay, WayType

LEMMA SameWay ==
  ASSUME TypeOK, ring' = ring,
    \A i \in 1 .. Len(ring) : slot'[ring[i]] = slot[ring[i]]
  PROVE  OnTheWay' = OnTheWay
BY DEF OnTheWay

LEMMA InitRefines == Init => Channel!Init
<1> SUFFICES ASSUME Init
             PROVE  OnTheWay = <<>> /\ received \in Message
  BY DEF Channel!Init
<1>1. TypeOK /\ ring = <<>> /\ Len(ring) = 0
  BY InitInv DEF IInv, Init
<1>2. OnTheWay \in Seq(Message) /\ Len(OnTheWay) = 0
  BY <1>1, OnTheWayType DEF WayType
<1> QED
  BY <1>1, <1>2, EmptySeq DEF TypeOK

LEMMA PrepareRefines ==
  ASSUME IInv, NEW s \in Senders, NEW m \in Message, Prepare(s, m)
  PROVE  UNCHANGED <<OnTheWay, received>>
<1>1. \A i \in 1 .. Len(ring) : ring[i] # dataTail /\ ring[i] \in Slots
  BY SlotAtTailFree, ElementOfSeq DEF Prepare, IInv, TypeOK
<1>2. \A i \in 1 .. Len(ring) : slot'[ring[i]] = slot[ring[i]]
  BY <1>1 DEF Prepare, IInv, TypeOK
<1> QED
  BY <1>2, SameWay DEF Prepare, IInv

LEMMA SubmitRefines ==
  ASSUME IInv, NEW s \in Senders, Submit(s)
  PROVE  \E m \in Message : Channel!Send(m)
<1> DEFINE m == slot[dataTail]
<1>1. m \in Message
  BY DEF IInv, TypeOK
<1>2. Len(OnTheWay) < ElCount
  BY SlotAtTailFree, OnTheWayType DEF Submit, IInv, WayType
<1>3. OnTheWay' = Append(OnTheWay, m)
  <2>1. TypeOK /\ TypeOK'
    BY SubmitInv DEF IInv
  <2>0. WayType /\ WayType'
    BY <2>1, OnTheWayType, PTL
  <2>2. /\ OnTheWay' \in Seq(Message)
        /\ Len(OnTheWay') = Len(ring')
        /\ \A i \in 1 .. Len(ring') : OnTheWay'[i] = slot'[ring'[i]]
    BY <2>0 DEF WayType
  <2>3. /\ Len(ring') = Len(ring) + 1
        /\ \A i \in 1 .. Len(ring) : ring'[i] = ring[i]
        /\ ring'[Len(ring) + 1] = dataTail
        /\ slot' = slot
    BY <2>1, AppendProperties DEF Submit, TypeOK
  <2>4. /\ Append(OnTheWay, m) \in Seq(Message)
        /\ Len(Append(OnTheWay, m)) = Len(ring) + 1
        /\ \A i \in 1 .. Len(ring) : Append(OnTheWay, m)[i] = slot[ring[i]]
        /\ Append(OnTheWay, m)[Len(ring) + 1] = m
    BY <1>1, <2>1, OnTheWayType, AppendProperties DEF WayType
  <2>5. Len(ring) \in Nat
    BY <2>1, OnTheWayType DEF WayType
  <2>6. \A i \in 1 .. Len(ring) + 1 : OnTheWay'[i] = Append(OnTheWay, m)[i]
    BY <2>2, <2>3, <2>4, <2>5
  <2> QED
    BY <2>2, <2>3, <2>4, <2>6, SeqEqual
<1>4. received' = received
  BY DEF Submit
<1> QED
  BY <1>1, <1>2, <1>3, <1>4 DEF Channel!Send, Channel!Put

LEMMA FetchRefines == ASSUME IInv, Fetch PROVE Channel!Receive
<1>1. TypeOK /\ TypeOK'
  BY FetchInv DEF IInv
<1>0. WayType /\ WayType'
  BY <1>1, OnTheWayType, PTL
<1>2. /\ OnTheWay' \in Seq(Message)
      /\ Len(OnTheWay') = Len(ring')
      /\ \A i \in 1 .. Len(ring') : OnTheWay'[i] = slot'[ring'[i]]
  BY <1>0 DEF WayType
<1>3. /\ Len(ring') = Len(ring) - 1
      /\ \A i \in 1 .. Len(ring') : ring'[i] = ring[i + 1]
      /\ Head(ring) = ring[1]
      /\ Len(ring) \in Nat \ {0}
      /\ slot' = slot
  BY <1>1, HeadTailProperties, EmptySeq DEF Fetch, TypeOK
<1>4. OnTheWay # <<>>
  BY <1>1, <1>3, OnTheWayType, EmptySeq DEF WayType
<1>5. /\ Tail(OnTheWay) \in Seq(Message)
      /\ Len(Tail(OnTheWay)) = Len(ring) - 1
      /\ \A i \in 1 .. Len(ring) - 1 : Tail(OnTheWay)[i] = slot[ring[i + 1]]
      /\ Head(OnTheWay) = slot[ring[1]]
  <2>1. /\ Tail(OnTheWay) \in Seq(Message)
        /\ Len(Tail(OnTheWay)) = Len(ring) - 1
        /\ \A i \in 1 .. Len(ring) - 1 : Tail(OnTheWay)[i] = OnTheWay[i + 1]
    BY <1>1, <1>3, <1>4, OnTheWayType, HeadTailProperties DEF WayType
  <2>2. \A i \in 1 .. Len(ring) - 1 : OnTheWay[i + 1] = slot[ring[i + 1]]
    BY <1>1, <1>3, OnTheWayType DEF WayType
  <2>3. Head(OnTheWay) = slot[ring[1]]
    BY <1>1, <1>3, <1>4, OnTheWayType DEF WayType
  <2> QED
    BY <2>1, <2>2, <2>3
<1>6. OnTheWay' = Tail(OnTheWay)
  <2>1. \A i \in 1 .. Len(ring) - 1 : OnTheWay'[i] = Tail(OnTheWay)[i]
    BY <1>2, <1>3, <1>5
  <2> QED
    BY <1>2, <1>3, <1>5, <2>1, SeqEqual
<1>7. received' = Head(OnTheWay)
  BY <1>3, <1>5 DEF Fetch
<1>8. Head(OnTheWay) \in Message
  BY <1>1, <1>4, OnTheWayType, HeadTailProperties DEF WayType
<1> QED
  BY <1>4, <1>6, <1>7, <1>8 DEF Channel!Receive, Channel!Take

LEMMA NextRefines ==
  IInv /\ [Next]_vars => [Channel!Next]_<<OnTheWay, received>>
<1> SUFFICES ASSUME IInv, [Next]_vars
             PROVE  Channel!Next \/ UNCHANGED <<OnTheWay, received>>
  OBVIOUS
<1>1. ASSUME NEW s \in Senders, SenderStep(s)
      PROVE  Channel!Next \/ UNCHANGED <<OnTheWay, received>>
  <2>1. CASE Reserve(s)
    BY <2>1 DEF Reserve, OnTheWay
  <2>2. ASSUME NEW m \in Message, Prepare(s, m)
        PROVE  UNCHANGED <<OnTheWay, received>>
    BY <2>2, PrepareRefines
  <2>3. CASE Submit(s)
    BY <2>3, SubmitRefines DEF Channel!Next
  <2> QED
    BY <1>1, <2>1, <2>2, <2>3 DEF SenderStep
<1>2. CASE Fetch
  BY <1>2, FetchRefines DEF Channel!Next
<1>3. CASE OutQueueCompletion
  BY <1>3 DEF OutQueueCompletion, OnTheWay
<1>4. CASE UNCHANGED vars
  BY <1>4 DEF vars, OnTheWay
<1> QED
  BY <1>1, <1>2, <1>3, <1>4 DEF Next

(* The IntelToARM queue is a bounded first-in first-out channel: the       *)
(* device reads every message as it was sent, in the order of submission.  *)
THEOREM Refinement == Spec => DeliversEverySend
BY InitRefines, NextRefines, InductiveInvariant, PTL
DEF Spec, DeliversEverySend, Channel!Spec, Channel!fifoVars

-----------------------------------------------------------------------------
(***************************************************************************)
(* The ARMToIntel queue, with as many slots (both queues are made with     *)
(* T2AUDIO_BCE_QUEUE_ELEMENT_COUNT), which is all the two have in common.  *)
(***************************************************************************)
VARIABLES
  inAvailable, posted, filled, inSlot, inHead, inTail, irq, cnt, handled

In == INSTANCE EventQueue WITH
  available <- inAvailable, slot <- inSlot, dataHead <- inHead,
  dataTail <- inTail

(* An index that ran past the end of the buffer, at most once. *)
LEMMA Wrap ==
  ASSUME NEW x \in Nat, x < ElCount + ElCount
  PROVE  x % ElCount = IF x < ElCount THEN x ELSE x - ElCount
BY ElCountAssumption, SMT

LEMMA WrapInSlots == ASSUME NEW x \in Nat PROVE x % ElCount \in In!Slots
BY ElCountAssumption, SMT DEF In!Slots

(* What submit_pending submits when there are reservations enough. *)
LEMMA SubmittedSeq ==
  ASSUME NEW n \in Nat, NEW tail \in In!Slots
  PROVE  /\ In!Submitted(n, n, tail) \in Seq(In!Slots)
         /\ Len(In!Submitted(n, n, tail)) = n
         /\ \A i \in 1 .. n : In!Submitted(n, n, tail)[i]
              = (tail + i - 1) % ElCount
<1> DEFINE e(i) == (tail + i - 1) % ElCount
<1>1. \A i \in 1 .. n : e(i) \in In!Slots
  BY WrapInSlots DEF In!Slots
<1>2. In!Submitted(n, n, tail) = [i \in 1 .. n |-> e(i)]
  BY DEF In!Submitted
<1> HIDE DEF e
<1>3. [i \in 1 .. n |-> e(i)] \in Seq(In!Slots)
  BY <1>1, IsASeq
<1>4. Len(In!Submitted(n, n, tail)) = n
  BY <1>2, <1>3, LenProperties
<1> QED
  BY <1>2, <1>3, <1>4 DEF e

LEMMA InInitInv == In!Init => In!IInv
<1> SUFFICES ASSUME In!Init
             PROVE  In!IInv
  OBVIOUS
<1> DEFINE all == In!Submitted(ElCount, ElCount, 0)
<1>1. /\ all \in Seq(In!Slots)
      /\ Len(all) = ElCount
      /\ \A i \in 1 .. ElCount : all[i] = (i - 1) % ElCount
  BY ElCountAssumption, SubmittedSeq DEF In!Slots
<1>2. posted = all
  BY ElCountAssumption DEF In!Init, In!RingCapacity
<1> HIDE DEF all
<1>3. inTail = 0
  BY <1>1, <1>2, ElCountAssumption, Wrap DEF In!Init
<1>4. In!TypeOK
  BY <1>1, <1>2, <1>3, ElCountAssumption
    DEF In!Init, In!TypeOK, In!Slots, In!RingCapacity
<1>5. In!SlotsConserved
  BY <1>1, <1>2, ElCountAssumption
    DEF In!Init, In!SlotsConserved, In!Owed, In!RingCapacity
<1>6. In!SlotsInTurn
  <2>1. ASSUME NEW i \in 1 .. ElCount
        PROVE  posted[i] = In!Ahead(inHead, i - 1)
    <3>1. (i - 1) % ElCount = i - 1
      BY Wrap, ElCountAssumption
    <3> QED
      BY <1>1, <1>2, <3>1, ElCountAssumption DEF In!Init, In!Ahead
  <2>2. (ElCount + 0) % ElCount = 0
    BY Wrap, ElCountAssumption
  <2> QED
    BY <1>1, <1>2, <1>3, <2>1, <2>2, ElCountAssumption
      DEF In!Init, In!SlotsInTurn
<1> QED
  BY <1>4, <1>5, <1>6 DEF In!IInv

LEMMA FillsInv ==
  ASSUME In!IInv, NEW m \in Message, In!DeviceFills(m)
  PROVE  In!IInv'
<1> USE DEF In!IInv
<1>1. /\ filled' \in Seq(In!Slots) /\ posted' \in Seq(In!Slots)
      /\ Len(filled') = Len(filled) + 1
      /\ Len(posted') = Len(posted) - 1
      /\ Head(posted) \in In!Slots /\ Head(posted) = posted[1]
      /\ \A i \in 1 .. Len(filled) : filled'[i] = filled[i]
      /\ filled'[Len(filled) + 1] = Head(posted)
      /\ \A i \in 1 .. Len(posted) - 1 : posted'[i] = posted[i + 1]
  BY HeadTailProperties, AppendProperties DEF In!DeviceFills, In!TypeOK
<1>2. Len(filled) \in Nat /\ Len(posted) \in Nat /\ Len(posted) > 0
  BY LenProperties, EmptySeq DEF In!DeviceFills, In!TypeOK
<1>3. In!TypeOK'
  BY <1>1 DEF In!DeviceFills, In!TypeOK
<1>4. In!SlotsConserved'
  <2>1. irq' = irq /\ cnt' = cnt /\ inAvailable' = inAvailable
    BY DEF In!DeviceFills
  <2>2. In!Owed \in Nat
    BY DEF In!Owed, In!TypeOK
  <2>3. In!Owed' = In!Owed
    BY <2>1 DEF In!Owed
  <2>4. Len(filled') = Len(filled) + 1 /\ Len(posted') = Len(posted) - 1
    BY <1>1
  <2>5. Len(posted') + Len(filled') + In!Owed = ElCount
    BY <2>2, <2>4, <1>2 DEF In!SlotsConserved
  <2> QED
    BY <2>1, <2>3, <2>5 DEF In!SlotsConserved
<1>5. In!SlotsInTurn'
  <2>1. inHead' = inHead /\ inTail' = inTail
    BY DEF In!DeviceFills
  <2>2. ASSUME NEW i \in 1 .. Len(filled) + 1
        PROVE  filled'[i] = In!Ahead(inHead, i - 1)
    <3>1. CASE i = Len(filled) + 1
      <4>1. posted[1] = In!Ahead(inHead, Len(filled) + 1 - 1)
        BY <1>2 DEF In!SlotsInTurn
      <4> QED
        BY <1>1, <3>1, <4>1
    <3>2. CASE i \in 1 .. Len(filled)
      BY <1>1, <3>2 DEF In!SlotsInTurn
    <3> QED
      BY <1>2, <3>1, <3>2
  <2>3. ASSUME NEW i \in 1 .. Len(posted) - 1
        PROVE  posted'[i] = In!Ahead(inHead, Len(filled) + 1 + i - 1)
    <3>1. posted[i + 1] = In!Ahead(inHead, Len(filled) + (i + 1) - 1)
      BY <1>2 DEF In!SlotsInTurn
    <3>2. Len(filled) + (i + 1) - 1 = Len(filled) + 1 + i - 1
      BY <1>2
    <3> QED
      BY <1>1, <3>1, <3>2
  <2>4. Len(filled') + Len(posted') = Len(filled) + Len(posted)
    BY <1>1, <1>2
  <2>5. inHead + Len(filled') + Len(posted')
          = inHead + Len(filled) + Len(posted)
    BY <1>1, <1>2 DEF In!TypeOK, In!Slots
  <2>6. inTail' = (inHead + Len(filled') + Len(posted')) % ElCount
    BY <2>1, <2>5 DEF In!SlotsInTurn
  <2>7. \A k : In!Ahead(inHead', k) = In!Ahead(inHead, k)
    BY <2>1
  <2> QED
    BY <1>1, <2>1, <2>2, <2>3, <2>6, <2>7 DEF In!SlotsInTurn, In!Ahead
<1> QED
  BY <1>3, <1>4, <1>5

LEMMA TakesInv == ASSUME In!IInv, In!HandlerTakes PROVE In!IInv'
<1> USE DEF In!IInv
<1>1. /\ filled' \in Seq(In!Slots)
      /\ Len(filled') = Len(filled) - 1
      /\ \A i \in 1 .. Len(filled) - 1 : filled'[i] = filled[i + 1]
      /\ posted' = posted /\ inTail' = inTail /\ inSlot' = inSlot
      /\ irq' = irq /\ irq = "looping"
  BY HeadTailProperties DEF In!HandlerTakes, In!TypeOK
<1>2. Len(filled) \in Nat /\ Len(posted) \in Nat /\ Len(filled) > 0
  BY LenProperties, EmptySeq DEF In!HandlerTakes, In!TypeOK
<1>3. /\ inHead' = (IF inHead + 1 = ElCount THEN 0 ELSE inHead + 1)
      /\ inHead \in In!Slots /\ inHead' \in In!Slots
  <2>1. inHead \in In!Slots /\ inHead' = (inHead + 1) % ElCount
    BY DEF In!HandlerTakes, In!TypeOK
  <2>2. inHead + 1 \in Nat /\ inHead + 1 < ElCount + ElCount
          /\ inHead + 1 <= ElCount
    BY <2>1, ElCountAssumption DEF In!Slots
  <2>3. (inHead + 1) % ElCount
          = IF inHead + 1 < ElCount THEN inHead + 1 ELSE inHead + 1 - ElCount
    BY <2>1, <2>2, Wrap, ElCountAssumption DEF In!Slots
  <2> QED
    BY <2>1, <2>2, <2>3, ElCountAssumption DEF In!Slots
<1>4. In!TypeOK'
  <2>1. filled[1] \in In!Slots /\ inSlot[inHead] \in Message
    BY <1>2, <1>3, ElementOfSeq DEF In!TypeOK
  <2> QED
    BY <1>1, <1>3, <2>1 DEF In!HandlerTakes, In!TypeOK
<1>5. In!SlotsConserved'
  <2>1. In!Owed = cnt /\ In!Owed' = cnt + 1 /\ inAvailable' = inAvailable + 1
          /\ cnt \in Nat
    BY <1>1 DEF In!HandlerTakes, In!Owed, In!TypeOK
  <2>2. Len(posted') + Len(filled') + In!Owed' = ElCount
          /\ inAvailable' = In!Owed'
    BY <1>1, <1>2, <2>1 DEF In!SlotsConserved
  <2> QED
    BY <2>2 DEF In!SlotsConserved
<1>6. In!SlotsInTurn'
  <2>1. Len(filled) + Len(posted) <= ElCount
    <3>1. In!Owed \in Nat
      BY DEF In!Owed, In!TypeOK
    <3> QED
      BY <1>2, <3>1 DEF In!SlotsConserved
  <2>2. ASSUME NEW k \in 0 .. ElCount - 2
        PROVE  In!Ahead(inHead', k) = In!Ahead(inHead, k + 1)
    BY <1>3, ElCountAssumption DEF In!Ahead, In!Slots
  <2>3. ASSUME NEW i \in 1 .. Len(filled) - 1
        PROVE  filled'[i] = In!Ahead(inHead', i - 1)
    <3>1. filled[i + 1] = In!Ahead(inHead, i + 1 - 1)
      BY <1>2 DEF In!SlotsInTurn
    <3>2. In!Ahead(inHead', i - 1) = In!Ahead(inHead, i - 1 + 1)
      BY <1>2, <2>1, <2>2, ElCountAssumption
    <3>3. i - 1 + 1 = i + 1 - 1
      OBVIOUS
    <3> QED
      BY <1>1, <3>1, <3>2, <3>3
  <2>4. ASSUME NEW i \in 1 .. Len(posted)
        PROVE  posted[i] = In!Ahead(inHead', Len(filled) - 1 + i - 1)
    <3>1. posted[i] = In!Ahead(inHead, Len(filled) + i - 1)
      BY DEF In!SlotsInTurn
    <3>2. Len(filled) - 1 + i - 1 \in 0 .. ElCount - 2
      BY <1>2, <2>1, ElCountAssumption
    <3>3. Len(filled) - 1 + i - 1 + 1 = Len(filled) + i - 1
      BY <1>2
    <3> QED
      BY <3>1, <3>2, <3>3, <1>3, ElCountAssumption DEF In!Ahead, In!Slots
  <2>5. inTail' = (inHead' + Len(filled') + Len(posted')) % ElCount
    <3>1. CASE inHead + 1 = ElCount
      <4> DEFINE y == inHead' + Len(filled') + Len(posted')
      <4>1. y \in Nat /\ y < ElCount
              /\ inHead + Len(filled) + Len(posted) = y + ElCount
        <5>1. Len(filled') = Len(filled) - 1 /\ Len(posted') = Len(posted)
                /\ inHead' = 0
          BY <1>1, <1>3, <3>1
        <5>2. inHead \in Nat
          BY <1>3, ElCountAssumption DEF In!Slots
        <5> QED
          BY <5>1, <5>2, <1>2, <2>1, <3>1, ElCountAssumption
      <4> HIDE DEF y
      <4>2. y % ElCount = (y + ElCount) % ElCount
        BY <4>1, Wrap, ElCountAssumption
      <4> QED
        BY <1>1, <4>1, <4>2 DEF In!SlotsInTurn, y
    <3>2. CASE inHead + 1 # ElCount
      <4>1. inHead' + Len(filled') + Len(posted')
              = inHead + Len(filled) + Len(posted)
        BY <1>1, <1>2, <1>3, <3>2 DEF In!Slots
      <4> QED
        BY <1>1, <4>1 DEF In!SlotsInTurn
    <3> QED
      BY <3>1, <3>2
  <2> QED
    BY <1>1, <2>3, <2>4, <2>5 DEF In!SlotsInTurn, In!Ahead
<1> QED
  BY <1>4, <1>5, <1>6

LEMMA PostsInv == ASSUME In!IInv, In!HandlerPosts PROVE In!IInv'
<1> USE DEF In!IInv
<1> DEFINE more == In!Submitted(cnt, cnt, inTail)
<1>1. inAvailable = cnt /\ cnt \in Nat
        /\ Len(posted) + Len(filled) + cnt = ElCount
  BY DEF In!HandlerPosts, In!SlotsConserved, In!Owed, In!TypeOK
<1>2. /\ more \in Seq(In!Slots)
      /\ Len(more) = cnt
      /\ \A i \in 1 .. cnt : more[i] = (inTail + i - 1) % ElCount
  BY <1>1, SubmittedSeq DEF In!TypeOK
<1>3. /\ posted' = posted \o more
      /\ inAvailable' = inAvailable - Len(more)
      /\ inTail' = (inTail + Len(more)) % ElCount
      /\ irq' = "idle"
      /\ filled' = filled /\ inSlot' = inSlot /\ inHead' = inHead
      /\ cnt' = cnt /\ handled' = handled
  BY <1>1 DEF In!HandlerPosts
<1> HIDE DEF more
<1>4. /\ posted' \in Seq(In!Slots)
      /\ Len(posted') = Len(posted) + cnt
      /\ \A i \in 1 .. Len(posted) : posted'[i] = posted[i]
      /\ \A i \in 1 .. cnt : posted'[Len(posted) + i] = more[i]
  <2>1. posted \in Seq(In!Slots) /\ Len(posted) \in Nat
    BY LenProperties DEF In!TypeOK
  <2> QED
    BY <1>1, <1>2, <1>3, <2>1, ConcatProperties
<1>5. /\ Len(posted) \in Nat /\ Len(filled) \in Nat
      /\ inHead \in In!Slots /\ inTail \in In!Slots /\ inHead \in Nat
  BY LenProperties, ElCountAssumption DEF In!TypeOK, In!Slots
<1>6. In!TypeOK'
  <2>1. inTail' \in In!Slots
    <3>1. inTail' = (inTail + cnt) % ElCount /\ inTail \in Nat
      BY <1>2, <1>3, <1>5, ElCountAssumption DEF In!Slots
    <3>2. inTail + cnt \in Nat
      BY <1>1, <3>1
    <3> QED
      BY <1>1, <3>1, <3>2, WrapInSlots
  <2> QED
    BY <1>1, <1>2, <1>3, <1>4, <2>1 DEF In!TypeOK
<1>7. In!SlotsConserved'
  BY <1>1, <1>2, <1>3, <1>4, <1>5 DEF In!SlotsConserved, In!Owed
<1>8. In!SlotsInTurn'
  <2> DEFINE used == inHead + Len(filled) + Len(posted)
  <2>1. used \in Nat /\ used < ElCount + ElCount
    BY <1>1, <1>5, ElCountAssumption DEF In!Slots
  <2>2. inTail = IF used < ElCount THEN used ELSE used - ElCount
    BY <2>1, Wrap DEF In!SlotsInTurn
  <2>3. ASSUME NEW i \in 1 .. cnt
        PROVE  more[i] = In!Ahead(inHead, Len(filled) + (Len(posted) + i) - 1)
    <3>1. inTail + i - 1 \in Nat /\ inTail + i - 1 < ElCount + ElCount
      BY <1>1, <1>5, ElCountAssumption DEF In!Slots
    <3>2. more[i] = IF inTail + i - 1 < ElCount THEN inTail + i - 1
                                                  ELSE inTail + i - 1 - ElCount
      <4>1. more[i] = (inTail + i - 1) % ElCount
        BY <1>2
      <4>2. inTail \in Nat /\ cnt \in Nat
        BY <1>1, <1>5, ElCountAssumption DEF In!Slots
      <4> QED
        BY <3>1, <4>1, <4>2, Wrap, ElCountAssumption
    <3>3. used + i - 1 < ElCount + ElCount
      BY <1>1, <1>5, ElCountAssumption DEF In!Slots
    <3> QED
      BY <1>1, <1>5, <2>2, <3>2, <3>3, ElCountAssumption DEF In!Ahead, In!Slots
  <2>4. ASSUME NEW i \in 1 .. Len(posted) + cnt
        PROVE  posted'[i] = In!Ahead(inHead, Len(filled) + i - 1)
    <3>1. CASE i \in 1 .. Len(posted)
      BY <1>4, <3>1 DEF In!SlotsInTurn
    <3>2. CASE i \notin 1 .. Len(posted)
      <4>1. i - Len(posted) \in 1 .. cnt /\ i = Len(posted) + (i - Len(posted))
        BY <1>1, <1>5, <3>2
      <4> QED
        BY <1>4, <2>3, <4>1
    <3> QED
      BY <3>1, <3>2
  <2>5. inTail' = (inHead + Len(filled) + (Len(posted) + cnt)) % ElCount
    <3>1. /\ inTail' = (inTail + cnt) % ElCount
          /\ inTail + cnt \in Nat /\ inTail + cnt < ElCount + ElCount
      BY <1>1, <1>2, <1>3, <1>5, ElCountAssumption DEF In!Slots
    <3>2. used + cnt = inHead + ElCount
      BY <1>1, <1>5
    <3>3. (inHead + ElCount) % ElCount = inHead
      <4>1. inHead + ElCount \in Nat /\ inHead + ElCount < ElCount + ElCount
        BY <1>5, ElCountAssumption DEF In!Slots
      <4> QED
        BY <1>5, <4>1, Wrap, ElCountAssumption DEF In!Slots
    <3>4. inTail' = inHead
      <4>1. inTail' =
              IF inTail + cnt < ElCount THEN inTail + cnt
              ELSE inTail + cnt - ElCount
        <5>1. inTail \in Nat /\ cnt \in Nat
          BY <1>1, <1>5, ElCountAssumption DEF In!Slots
        <5> QED
          BY <3>1, <5>1, Wrap, ElCountAssumption
      <4> HIDE DEF used
      <4>2. used \in Nat /\ inHead \in 0 .. ElCount - 1 /\ inTail \in Nat
        BY <1>5, <2>1, ElCountAssumption DEF In!Slots
      <4> QED
        BY <1>1, <2>2, <3>2, <4>1, <4>2, ElCountAssumption
    <3>5. inHead + Len(filled) + (Len(posted) + cnt) = inHead + ElCount
      BY <1>1, <1>5
    <3> QED
      BY <3>3, <3>4, <3>5
  <2> QED
    BY <1>3, <1>4, <1>5, <2>4, <2>5 DEF In!SlotsInTurn, In!Ahead
<1> QED
  BY <1>6, <1>7, <1>8

LEMMA StartsInv == ASSUME In!IInv, In!HandlerStarts PROVE In!IInv'
BY DEF In!IInv, In!HandlerStarts, In!TypeOK, In!SlotsConserved, In!Owed,
  In!SlotsInTurn, In!Ahead

LEMMA DrainsInv == ASSUME In!IInv, In!HandlerDrains PROVE In!IInv'
BY DEF In!IInv, In!HandlerDrains, In!TypeOK, In!SlotsConserved, In!Owed,
  In!SlotsInTurn, In!Ahead

LEMMA InNextInv == In!IInv /\ [In!Next]_(In!vars) => In!IInv'
<1> SUFFICES ASSUME In!IInv, [In!Next]_(In!vars)
             PROVE  In!IInv'
  OBVIOUS
<1>1. CASE UNCHANGED In!vars
  BY <1>1 DEF In!vars, In!IInv, In!TypeOK, In!SlotsConserved, In!Owed,
    In!SlotsInTurn, In!Ahead
<1> QED
  BY <1>1, FillsInv, StartsInv, TakesInv, DrainsInv, PostsInv
  DEF In!Next, In!HandlerStep

(* Every reachable state of EventQueue has its types, loses no slot of the *)
(* buffer and keeps data_head and data_tail in step with the ring.         *)
THEOREM InInvariant == In!Spec => []In!IInv
BY InInitInv, InNextInv, PTL DEF In!Spec

-----------------------------------------------------------------------------
(* The refinement of Fifo. *)

(* What the lemmas below need to know of OnTheWay. *)
InWayType ==
  /\ In!OnTheWay \in Seq(Message)
  /\ Len(In!OnTheWay) = Len(filled)
  /\ Len(filled) \in Nat
  /\ \A i \in 1 .. Len(filled) : In!OnTheWay[i] = inSlot[filled[i]]

LEMMA InWayTyped == In!TypeOK => InWayType
<1> SUFFICES ASSUME In!TypeOK
             PROVE  InWayType
  OBVIOUS
<1>1. Len(filled) \in Nat /\ \A i \in 1 .. Len(filled) : filled[i] \in In!Slots
  BY LenProperties, ElementOfSeq DEF In!TypeOK
<1>2. \A i \in 1 .. Len(filled) : inSlot[filled[i]] \in Message
  BY <1>1 DEF In!TypeOK
<1>3. In!OnTheWay \in Seq(Message)
  BY <1>1, <1>2, IsASeq DEF In!OnTheWay
<1>4. DOMAIN In!OnTheWay = 1 .. Len(filled)
  BY DEF In!OnTheWay
<1>5. Len(In!OnTheWay) = Len(filled)
  BY <1>1, <1>3, <1>4, LenProperties
<1> QED
  BY <1>1, <1>3, <1>5 DEF In!OnTheWay, InWayType

(* The slot the device fills is none of those the driver has to handle. *)
LEMMA FilledSlotIsFree ==
  ASSUME In!IInv, posted # <<>>
  PROVE  /\ Len(filled) < ElCount
         /\ \A i \in 1 .. Len(filled) : filled[i] # Head(posted)
<1>1. Len(filled) \in Nat /\ Len(posted) \in Nat /\ Len(posted) > 0
  BY LenProperties, EmptySeq DEF In!IInv, In!TypeOK
<1>2. In!Owed \in Nat
  BY DEF In!Owed, In!IInv, In!TypeOK
<1>3. Len(filled) < ElCount
  BY <1>1, <1>2, ElCountAssumption DEF In!IInv, In!SlotsConserved
<1>4. Head(posted) = In!Ahead(inHead, Len(filled))
  <2>1. posted[1] = In!Ahead(inHead, Len(filled) + 1 - 1)
    BY <1>1 DEF In!IInv, In!SlotsInTurn
  <2>2. Len(filled) + 1 - 1 = Len(filled)
    BY <1>1
  <2>3. Head(posted) = posted[1]
    BY HeadTailProperties DEF In!IInv, In!TypeOK
  <2> QED
    BY <2>1, <2>2, <2>3
<1>5. ASSUME NEW i \in 1 .. Len(filled)
      PROVE  filled[i] # Head(posted)
  <2>1. filled[i] = In!Ahead(inHead, i - 1)
    BY DEF In!IInv, In!SlotsInTurn
  <2>2. inHead \in In!Slots
    BY DEF In!IInv, In!TypeOK
  <2> QED
    BY <1>1, <1>3, <1>4, <2>1, <2>2, ElCountAssumption DEF In!Ahead, In!Slots
<1> QED
  BY <1>3, <1>5

LEMMA InInitRefines == In!Init => In!Channel!Init
<1> SUFFICES ASSUME In!Init
             PROVE  In!OnTheWay = <<>> /\ handled \in Message
  BY DEF In!Channel!Init
<1>1. In!TypeOK /\ Len(filled) = 0
  BY InInitInv DEF In!IInv, In!Init
<1>2. In!OnTheWay \in Seq(Message) /\ Len(In!OnTheWay) = 0
  BY <1>1, InWayTyped DEF InWayType
<1> QED
  BY <1>1, <1>2, EmptySeq DEF In!TypeOK

LEMMA FillsRefines ==
  ASSUME In!IInv, NEW m \in Message, In!DeviceFills(m)
  PROVE  In!Channel!Send(m)
<1>1. In!TypeOK /\ In!TypeOK'
  BY FillsInv DEF In!IInv
<1>2. InWayType /\ InWayType'
  BY <1>1, InWayTyped, PTL
<1>3. /\ Len(filled') = Len(filled) + 1
      /\ \A i \in 1 .. Len(filled) : filled'[i] = filled[i]
      /\ filled'[Len(filled) + 1] = Head(posted)
      /\ Head(posted) \in In!Slots
  BY <1>1, AppendProperties, HeadTailProperties DEF In!DeviceFills, In!TypeOK
<1>4. /\ inSlot'[Head(posted)] = m
      /\ \A i \in 1 .. Len(filled) : inSlot'[filled[i]] = inSlot[filled[i]]
  <2>1. \A i \in 1 .. Len(filled) : filled[i] # Head(posted)
          /\ filled[i] \in In!Slots
    BY <1>1, FilledSlotIsFree, ElementOfSeq DEF In!DeviceFills, In!TypeOK
  <2> QED
    BY <1>1, <1>3, <2>1 DEF In!DeviceFills, In!TypeOK
<1>5. In!OnTheWay' = Append(In!OnTheWay, m)
  <2>1. /\ Append(In!OnTheWay, m) \in Seq(Message)
        /\ Len(Append(In!OnTheWay, m)) = Len(filled) + 1
        /\ \A i \in 1 .. Len(filled) : Append(In!OnTheWay, m)[i]
             = inSlot[filled[i]]
        /\ Append(In!OnTheWay, m)[Len(filled) + 1] = m
    BY <1>2, AppendProperties DEF InWayType
  <2>2. /\ In!OnTheWay' \in Seq(Message)
        /\ Len(In!OnTheWay') = Len(filled) + 1
        /\ Len(filled) \in Nat
        /\ \A i \in 1 .. Len(filled) + 1 : In!OnTheWay'[i] = inSlot'[filled'[i]]
    BY <1>2, <1>3 DEF InWayType
  <2>3. \A i \in 1 .. Len(filled) + 1 : In!OnTheWay'[i]
          = Append(In!OnTheWay, m)[i]
    BY <1>3, <1>4, <2>1, <2>2
  <2> QED
    BY <2>1, <2>2, <2>3, SeqEqual
<1>6. Len(In!OnTheWay) < ElCount
  BY <1>2, FilledSlotIsFree DEF In!DeviceFills, InWayType
<1> QED
  BY <1>5, <1>6 DEF In!Channel!Send, In!Channel!Put, In!DeviceFills

LEMMA TakesRefines == ASSUME In!IInv, In!HandlerTakes PROVE In!Channel!Receive
<1>1. In!TypeOK /\ In!TypeOK'
  BY TakesInv DEF In!IInv
<1>2. InWayType /\ InWayType'
  BY <1>1, InWayTyped, PTL
<1>3. /\ Len(filled') = Len(filled) - 1
      /\ \A i \in 1 .. Len(filled) - 1 : filled'[i] = filled[i + 1]
      /\ Len(filled) \in Nat \ {0}
      /\ inSlot' = inSlot
  BY <1>1, HeadTailProperties, EmptySeq, LenProperties
    DEF In!HandlerTakes, In!TypeOK
<1>4. In!OnTheWay # <<>>
  BY <1>2, <1>3, EmptySeq DEF InWayType
<1>5. /\ Tail(In!OnTheWay) \in Seq(Message)
      /\ Len(Tail(In!OnTheWay)) = Len(filled) - 1
      /\ \A i \in 1 .. Len(filled) - 1 : Tail(In!OnTheWay)[i]
           = In!OnTheWay[i + 1]
      /\ Head(In!OnTheWay) = In!OnTheWay[1]
  BY <1>2, <1>4, HeadTailProperties DEF InWayType
<1>6. In!OnTheWay' = Tail(In!OnTheWay)
  <2>1. /\ In!OnTheWay' \in Seq(Message)
        /\ Len(In!OnTheWay') = Len(filled) - 1
        /\ \A i \in 1 .. Len(filled) - 1 : In!OnTheWay'[i]
             = inSlot[filled[i + 1]]
    BY <1>2, <1>3 DEF InWayType
  <2>2. \A i \in 1 .. Len(filled) - 1 : In!OnTheWay[i + 1]
          = inSlot[filled[i + 1]]
    BY <1>2, <1>3 DEF InWayType
  <2>3. \A i \in 1 .. Len(filled) - 1 : In!OnTheWay'[i] = Tail(In!OnTheWay)[i]
    BY <1>5, <2>1, <2>2
  <2> QED
    BY <1>5, <2>1, <2>3, SeqEqual
<1>7. handled' = Head(In!OnTheWay)
  <2>1. filled[1] = In!Ahead(inHead, 1 - 1)
    BY <1>3 DEF In!IInv, In!SlotsInTurn
  <2>2. filled[1] = inHead
    BY <1>1, <2>1, ElCountAssumption DEF In!Ahead, In!Slots, In!TypeOK
  <2>3. In!OnTheWay[1] = inSlot[filled[1]]
    BY <1>2, <1>3 DEF InWayType
  <2> QED
    BY <1>5, <2>2, <2>3 DEF In!HandlerTakes
<1>8. Head(In!OnTheWay) \in Message
  BY <1>1, <1>4, InWayTyped, HeadTailProperties DEF InWayType
<1> QED
  BY <1>4, <1>6, <1>7, <1>8 DEF In!Channel!Receive, In!Channel!Take

LEMMA InNextRefines ==
  In!IInv /\ [In!Next]_(In!vars) => [In!Channel!Next]_<<In!OnTheWay, handled>>
<1> SUFFICES ASSUME In!IInv, [In!Next]_(In!vars)
             PROVE  In!Channel!Next \/ UNCHANGED <<In!OnTheWay, handled>>
  OBVIOUS
<1>1. ASSUME NEW m \in Message, In!DeviceFills(m)
      PROVE  In!Channel!Next
  BY <1>1, FillsRefines DEF In!Channel!Next
<1>2. CASE In!HandlerStarts
  BY <1>2 DEF In!HandlerStarts, In!OnTheWay
<1>3. CASE In!HandlerTakes
  BY <1>3, TakesRefines DEF In!Channel!Next
<1>4. CASE In!HandlerDrains
  BY <1>4 DEF In!HandlerDrains, In!OnTheWay
<1>5. CASE In!HandlerPosts
  BY <1>5 DEF In!HandlerPosts, In!OnTheWay
<1>6. CASE UNCHANGED In!vars
  BY <1>6 DEF In!vars, In!OnTheWay
<1> QED
  BY <1>1, <1>2, <1>3, <1>4, <1>5, <1>6 DEF In!Next, In!HandlerStep

(* The ARMToIntel queue is a bounded first-in first-out channel: the       *)
(* handler is handed every message the device wrote, once and in order.    *)
THEOREM InRefinement == In!Spec => In!HandlesEveryMessage
BY InInitRefines, InNextRefines, InInvariant, PTL
DEF In!Spec, In!HandlesEveryMessage, In!Channel!Spec, In!Channel!fifoVars
=============================================================================
