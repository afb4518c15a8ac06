------------------------ MODULE BceTransportProofs --------------------------
(***************************************************************************)
(* Proofs about BceTransport, for any number of callers, works, tags and   *)
(* ring elements: its types, that tags connect calls and replies as        *)
(* NoDanglingWaiter, WaiterRegistered and ReplyMatches say, that a         *)
(* submission always finds room, and that it implements CommandRpc.        *)
(***************************************************************************)
EXTENDS BceTransport, SequenceTheorems, FiniteSetTheorems, TLAPS

-----------------------------------------------------------------------------
(* Tags. *)

LEMMA Division ==
  ASSUME NEW x \in Nat
  PROVE  /\ x \div TagCount \in Nat
         /\ x = TagCount * (x \div TagCount) + (x % TagCount)
         /\ x % TagCount \in 0 .. TagCount - 1
BY TagCountAssumption, SMT

LEMMA Remainder ==
  ASSUME NEW q \in Nat, NEW r \in 0 .. TagCount - 1
  PROVE  (TagCount * q + r) % TagCount = r
BY TagCountAssumption, SMT

LEMMA FullTurn ==
  ASSUME NEW q \in Nat
  PROVE  (TagCount * q + TagCount) % TagCount = 0
BY TagCountAssumption, SMT

LEMMA TagType == ASSUME NEW x \in Nat PROVE TagOf(x) \in Tags
BY Division DEF TagOf, Tags

(* tag_num, counted up modulo TagCount, is the tag of the next serial. *)
LEMMA NextTag ==
  ASSUME NEW x \in Nat
  PROVE  TagOf(x + 1) = (TagOf(x) + 1) % TagCount
<1> DEFINE q == x \div TagCount
          r == x % TagCount
<1>1. q \in Nat /\ x = TagCount * q + r /\ r \in 0 .. TagCount - 1
  BY Division
<1> HIDE DEF q, r
<1>2. CASE r + 1 < TagCount
  <2>1. x + 1 = TagCount * q + (r + 1)
    BY <1>1, TagCountAssumption
  <2>2. (x + 1) % TagCount = r + 1
    BY <1>1, <1>2, <2>1, Remainder, TagCountAssumption
  <2>3. (r + 1) % TagCount = r + 1
    BY <1>1, <1>2, TagCountAssumption
  <2> QED
    BY <2>2, <2>3 DEF r, TagOf
<1>3. CASE r + 1 = TagCount
  <2>1. x + 1 = TagCount * q + TagCount
    BY <1>1, <1>3, TagCountAssumption
  <2>2. (x + 1) % TagCount = 0
    BY <1>1, <2>1, FullTurn
  <2>3. (r + 1) % TagCount = 0
    BY <1>1, <1>3, TagCountAssumption
  <2> QED
    BY <2>2, <2>3 DEF r, TagOf
<1> QED
  BY <1>1, <1>2, <1>3, TagCountAssumption

(* Two serials with one tag are a full turn of the tags apart. *)
LEMMA SameTag ==
  ASSUME NEW x \in Nat, NEW y \in Nat, x < y, TagOf(x) = TagOf(y)
  PROVE  x + TagCount <= y
<1> DEFINE a == x \div TagCount
          b == y \div TagCount
          r == x % TagCount
<1>1. a \in Nat /\ x = TagCount * a + r /\ r \in Nat
  BY Division, TagCountAssumption
<1>2. b \in Nat /\ y = TagCount * b + r
  BY Division, TagCountAssumption DEF TagOf
<1> HIDE DEF a, b, r
<1>3. a < b
  <2> SUFFICES ASSUME b <= a
               PROVE  FALSE
    BY <1>1, <1>2
  <2>1. PICK k \in Nat : a = b + k
    BY <1>1, <1>2
  <2>2. TagCount * a = TagCount * b + TagCount * k /\ TagCount * k \in Nat
    BY <1>2, <2>1, TagCountAssumption
  <2>3. TagCount * a \in Nat /\ TagCount * b \in Nat
    BY <1>1, <1>2, TagCountAssumption
  <2> HIDE DEF a, b
  <2> QED
    BY <1>1, <1>2, <2>2, <2>3
<1>4. PICK k \in Nat : b = a + 1 + k
  BY <1>1, <1>2, <1>3
<1>5. TagCount * b = TagCount * a + TagCount + TagCount * k /\ TagCount * k \in Nat
  BY <1>1, <1>4, TagCountAssumption
<1>6. TagCount * a \in Nat /\ TagCount * b \in Nat
  BY <1>1, <1>2, TagCountAssumption
<1> QED
  BY <1>1, <1>2, <1>5, <1>6, TagCountAssumption


-----------------------------------------------------------------------------
LEMMA NoneIsNoThread ==
  /\ NoThread \notin Callers /\ NoThread \notin Works /\ NoThread \notin Threads
  /\ \A c \in Callers : c \in Threads /\ c \notin Works
  /\ \A w \in Works : w \in Threads /\ w \notin Callers
BY ThreadsAssumption DEF Threads

LEMMA NoDraftType == NoDraft \in Messages /\ NoDraft.type = "response"
BY TagType DEF NoDraft, Msg, Messages, Types

LEMMA InitInv == Init => CallsInv
<1> SUFFICES ASSUME Init
             PROVE  CallsInv
  OBVIOUS
<1>1. TagOf(0) = 0 /\ 0 \in Tags
  BY TagCountAssumption, SMT DEF TagOf, Tags
<1>2. TypeOK
  BY <1>1, NoDraftType DEF Init, TypeOK, PcValues
<1>3. TagInv /\ CallInv /\ LockInv
  BY <1>1, NoneIsNoThread DEF Init, TagInv, CallInv, LockInv
<1>4. MessageInv
  BY DEF Init, MessageInv
<1>5. NoDanglingWaiter /\ WaiterRegistered /\ ReplyMatches
  BY NoneIsNoThread DEF Init, NoDanglingWaiter, WaiterRegistered, ReplyMatches
<1> QED
  BY <1>2, <1>3, <1>4, <1>5 DEF CallsInv

(* A step that leaves the tags, the serials, the entries and the messages  *)
(* alone keeps what is said of messages.                                   *)
LEMMA MessagesKept ==
  ASSUME MessageInv, out' = out, in' = in, asked' = asked, issued' = issued,
         pending' = pending, mine' = mine
  PROVE  MessageInv'
BY DEF MessageInv, KnownMessages

LEMMA CallStep == ASSUME CallsInv, NEW c \in Callers, Call(c) PROVE CallsInv'
<1> USE DEF CallsInv
<1>1. /\ pc' = [pc EXCEPT ![c] = "calling"] /\ pc[c] = "idle"
      /\ mine' = [mine EXCEPT ![c] = 0] /\ got' = [got EXCEPT ![c] = 0]
      /\ outcome' = [outcome EXCEPT ![c] = "none"]
      /\ UNCHANGED <<spinlock, draft, tagNum, issued, pending, available,
                     completed, out, in, asked, answered>>
  BY DEF Call, tagVars, ringVars
<1>2. TypeOK'
  BY <1>1, NoneIsNoThread DEF TypeOK, PcValues
<1>3. TagInv'
  BY <1>1 DEF TagInv
<1>4. CallInv'
  BY <1>1, NoneIsNoThread DEF CallInv, TypeOK
<1>5. LockInv'
  <2>1. spinlock # c
    BY <1>1, NoneIsNoThread DEF LockInv
  <2> QED
    BY <1>1, <2>1, NoneIsNoThread DEF LockInv, TypeOK
<1>6. \A g \in Tags : pending[g] # c
  BY <1>1, NoneIsNoThread DEF NoDanglingWaiter
<1>7. MessageInv'
  <2>1. KnownMessages' = KnownMessages
    <3>1. \A g \in Tags : pending[g] # NoThread => mine'[pending[g]] = mine[pending[g]]
      BY <1>1, <1>6 DEF TypeOK
    <3> QED
      BY <1>1, <3>1 DEF KnownMessages, Messages
  <2> QED
    BY <1>1, <2>1 DEF MessageInv
<1>8. NoDanglingWaiter' /\ WaiterRegistered' /\ ReplyMatches'
  BY <1>1, <1>6, NoneIsNoThread
  DEF NoDanglingWaiter, WaiterRegistered, ReplyMatches, TypeOK
<1> QED
  BY <1>2, <1>3, <1>4, <1>5, <1>7, <1>8

(* Steps of a thread that only move it, or the ring's accounts. *)
LEMMA ReserveStep ==
  ASSUME CallsInv, NEW t \in Threads, Reserve(t) \/ ReserveTimesOut(t)
  PROVE  CallsInv'
<1> USE DEF CallsInv
<1>1. /\ pc[t] = "calling" /\ \E v \in {"idle", "reserved"} : pc' = [pc EXCEPT ![t] = v]
      /\ UNCHANGED <<mine, got, spinlock, draft, tagNum, issued, pending,
                     completed, out, in, asked, answered>>
      /\ available' \in Nat
      /\ outcome' \in [Callers -> {"none", "replied", "sent", "timedout", "notsent"}]
  BY DEF Reserve, ReserveTimesOut, tagVars, ringVars, callVars, TypeOK
<1>2. TypeOK'
  BY <1>1 DEF TypeOK, PcValues
<1>3. TagInv'
  BY <1>1 DEF TagInv
<1>4. CallInv'
  BY <1>1, NoneIsNoThread DEF CallInv, TypeOK
<1>5. LockInv'
  BY <1>1, NoneIsNoThread DEF LockInv, TypeOK
<1>6. MessageInv'
  BY <1>1, MessagesKept
<1>7. NoDanglingWaiter' /\ WaiterRegistered' /\ ReplyMatches'
  BY <1>1, NoneIsNoThread
  DEF NoDanglingWaiter, WaiterRegistered, ReplyMatches, TypeOK
<1> QED
  BY <1>2, <1>3, <1>4, <1>5, <1>6, <1>7

(* More serials make no message less known. *)
LEMMA KnownKept ==
  ASSUME CallsInv, issued' \in Nat, issued <= issued', pending' = pending,
         \A c \in Callers : (\E g \in Tags : pending[g] = c) => mine'[c] = mine[c]
  PROVE  KnownMessages \subseteq KnownMessages'
<1>1. \A g \in Tags : pending[g] # NoThread => mine'[pending[g]] = mine[pending[g]]
  BY DEF CallsInv, TypeOK
<1>2. \A n \in 1 .. issued : n \in 1 .. issued'
  BY DEF CallsInv, TypeOK
<1> QED
  BY <1>1, <1>2 DEF KnownMessages, Messages

LEMMA PrepareNewStep ==
  ASSUME CallsInv, NEW c \in Callers, NEW type \in {"command", "notification"},
         PrepareNew(c, type)
  PROVE  CallsInv'
<1> USE DEF CallsInv
<1>1. /\ pc[c] = "reserved" /\ pc' = [pc EXCEPT ![c] = "locked"]
      /\ spinlock = NoThread /\ spinlock' = c
      /\ tagNum' = (tagNum + 1) % TagCount
      /\ issued' = issued + 1
      /\ mine' = [mine EXCEPT ![c] = issued + 1]
      /\ draft' = [type |-> type, tag |-> tagNum', serial |-> issued + 1]
      /\ UNCHANGED <<got, outcome, pending, available, completed, out, in,
                     asked, answered>>
  BY DEF PrepareNew, ringVars
<1>2. tagNum' = TagOf(issued') /\ issued \in Nat /\ issued' \in Nat /\ tagNum' \in Tags
  BY <1>1, NextTag, TagType DEF TagInv, TypeOK
<1>3. TypeOK'
  BY <1>1, <1>2, NoneIsNoThread DEF TypeOK, PcValues, Messages, Types
<1>4. TagInv'
  BY <1>2 DEF TagInv
<1>5. CallInv'
  BY <1>1, <1>2, NoneIsNoThread DEF CallInv, TypeOK
<1>6. LockInv'
  BY <1>1, <1>2, NoneIsNoThread DEF LockInv, TypeOK
<1>7. \A g \in Tags : pending[g] # c
  BY <1>1, NoneIsNoThread DEF NoDanglingWaiter
<1>8. MessageInv'
  <2>1. KnownMessages \subseteq KnownMessages'
    BY <1>1, <1>2, <1>7, KnownKept DEF TypeOK
  <2> QED
    BY <1>1, <2>1 DEF MessageInv
<1>9. NoDanglingWaiter'
  BY <1>1, <1>7, NoneIsNoThread DEF NoDanglingWaiter, TypeOK
<1>10. WaiterRegistered'
  BY <1>1, <1>2, TagCountAssumption, NoneIsNoThread DEF WaiterRegistered, TypeOK, CallInv
<1>11. ReplyMatches'
  BY <1>1, NoneIsNoThread DEF ReplyMatches, TypeOK, CallInv
<1> QED
  BY <1>3, <1>4, <1>5, <1>6, <1>8, <1>9, <1>10, <1>11

LEMMA PrepareResponseStep ==
  ASSUME CallsInv, NEW w \in Works, PrepareResponse(w)
  PROVE  CallsInv'
<1> USE DEF CallsInv
<1>1. /\ pc[w] = "reserved" /\ pc' = [pc EXCEPT ![w] = "locked"]
      /\ spinlock = NoThread /\ spinlock' = w /\ draft' = NoDraft
      /\ UNCHANGED <<mine, got, outcome, tagNum, issued, pending, available,
                     completed, out, in, asked, answered>>
  BY DEF PrepareResponse, ringVars, tagVars, callVars
<1>2. TypeOK'
  BY <1>1, NoneIsNoThread, NoDraftType DEF TypeOK, PcValues
<1>3. TagInv'
  BY <1>1 DEF TagInv
<1>4. CallInv'
  BY <1>1, NoneIsNoThread DEF CallInv, TypeOK
<1>5. LockInv'
  BY <1>1, NoneIsNoThread, NoDraftType DEF LockInv, TypeOK
<1>6. MessageInv'
  BY <1>1, MessagesKept
<1>7. NoDanglingWaiter' /\ WaiterRegistered' /\ ReplyMatches'
  BY <1>1, NoneIsNoThread
  DEF NoDanglingWaiter, WaiterRegistered, ReplyMatches, TypeOK
<1> QED
  BY <1>2, <1>3, <1>4, <1>5, <1>6, <1>7

(* What appending a message to a link does. *)
LEMMA PutProperties ==
  ASSUME NEW q \in Seq(Messages), NEW m \in Messages
  PROVE  /\ Append(q, m) \in Seq(Messages)
         /\ Len(Append(q, m)) = Len(q) + 1
         /\ Len(q) \in Nat
         /\ \A i \in 1 .. Len(q) : Append(q, m)[i] = q[i]
         /\ Append(q, m)[Len(q) + 1] = m
BY AppendProperties, LenProperties

LEMMA SendOnlyStep ==
  ASSUME CallsInv, NEW t \in Threads, SendOnly(t)
  PROVE  CallsInv'
<1> USE DEF CallsInv
<1>1. /\ draft.type # "command" /\ pc[t] = "locked"
      /\ out' = Append(out, draft)
      /\ spinlock = t /\ spinlock' = NoThread /\ draft' = NoDraft
      /\ pc' = [pc EXCEPT ![t] = "idle"]
      /\ outcome' \in [Callers -> {"none", "replied", "sent", "timedout", "notsent"}]
      /\ UNCHANGED <<mine, got, tagNum, issued, pending, available, completed,
                     in, asked, answered>>
  BY DEF SendOnly, SubmitAndUnlock, Out!Put, ringVars, tagVars, TypeOK, LockInv
<1>2. /\ out' \in Seq(Messages)
      /\ Len(out') = Len(out) + 1
      /\ Len(out) \in Nat
      /\ \A i \in 1 .. Len(out) : out'[i] = out[i]
      /\ out'[Len(out) + 1] = draft
  BY <1>1, PutProperties DEF TypeOK
<1>3. TypeOK'
  BY <1>1, <1>2, NoDraftType DEF TypeOK, PcValues
<1>4. TagInv'
  BY <1>1 DEF TagInv
<1>5. CallInv'
  BY <1>1, NoneIsNoThread DEF CallInv, TypeOK
<1>6. LockInv'
  BY <1>1, NoneIsNoThread, ThreadsAssumption DEF LockInv, TypeOK
<1>7. MessageInv'
  <2>1. KnownMessages' = KnownMessages
    BY <1>1 DEF KnownMessages
  <2>2. ASSUME NEW i \in 1 .. Len(out) + 1, out'[i].type = "command"
        PROVE  i \in 1 .. Len(out)
    BY <1>1, <1>2, <2>2
  <2> QED
    BY <1>1, <1>2, <2>1, <2>2 DEF MessageInv
<1>8. NoDanglingWaiter' /\ WaiterRegistered' /\ ReplyMatches'
  BY <1>1, NoneIsNoThread
  DEF NoDanglingWaiter, WaiterRegistered, ReplyMatches, TypeOK
<1> QED
  BY <1>3, <1>4, <1>5, <1>6, <1>7, <1>8

LEMMA SendCommandStep ==
  ASSUME CallsInv, NEW c \in Callers, SendCommand(c)
  PROVE  CallsInv'
<1> USE DEF CallsInv
<1>1. /\ draft.type = "command" /\ pc[c] = "locked"
      /\ out' = Append(out, draft)
      /\ spinlock = c /\ spinlock' = NoThread /\ draft' = NoDraft
      /\ pc' = [pc EXCEPT ![c] = "waiting"]
      /\ pending' = [pending EXCEPT ![draft.tag] = c]
      /\ UNCHANGED <<mine, got, outcome, tagNum, issued, available, completed,
                     in, asked, answered>>
  BY NoneIsNoThread
  DEF SendCommand, SubmitAndUnlock, Out!Put, ringVars, tagVars, callVars, TypeOK,
      LockInv
<1>2. /\ out' \in Seq(Messages)
      /\ Len(out') = Len(out) + 1
      /\ Len(out) \in Nat
      /\ \A i \in 1 .. Len(out) : out'[i] = out[i]
      /\ out'[Len(out) + 1] = draft
  BY <1>1, PutProperties DEF TypeOK
<1>3. /\ mine[c] = issued /\ issued \in Nat /\ issued # 0
      /\ draft.serial = issued
      /\ draft.tag = TagOf(issued) /\ draft.tag \in Tags
      /\ got[c] = 0
  BY <1>1, TagType DEF LockInv, CallInv, TypeOK
<1>4. TypeOK'
  BY <1>1, <1>2, <1>3, NoDraftType, NoneIsNoThread DEF TypeOK, PcValues
<1>5. TagInv'
  BY <1>1 DEF TagInv
<1>6. CallInv'
  BY <1>1, <1>3, NoneIsNoThread DEF CallInv, TypeOK
<1>7. LockInv'
  BY <1>1, NoneIsNoThread, ThreadsAssumption DEF LockInv, TypeOK
<1>8. MessageInv'
  <2>1. \A g \in Tags : pending'[g] # NoThread =>
          \/ g = draft.tag /\ mine'[pending'[g]] = issued
          \/ pending'[g] = pending[g] /\ mine'[pending'[g]] = mine[pending[g]]
    BY <1>1, <1>3 DEF TypeOK
  <2>2. KnownMessages \subseteq KnownMessages'
    BY <1>1, <1>3, <2>1 DEF KnownMessages, Messages
  <2>3. draft \in KnownMessages'
    BY <1>1, <1>3, <2>1 DEF KnownMessages, TypeOK
  <2> QED
    BY <1>1, <1>2, <2>2, <2>3 DEF MessageInv
<1>9. NoDanglingWaiter'
  BY <1>1, <1>3, NoneIsNoThread DEF NoDanglingWaiter, TypeOK
<1>10. WaiterRegistered'
  <2> SUFFICES ASSUME NEW d \in Callers, pc'[d] = "waiting", got[d] = 0,
                      pending'[TagOf(mine[d])] # d
               PROVE  mine[d] + TagCount <= issued
    BY <1>1 DEF WaiterRegistered
  <2>1. d # c /\ pc[d] = "waiting"
    BY <1>1, <1>3, NoneIsNoThread DEF TypeOK
  <2>2. mine[d] \in Nat /\ mine[d] < issued
    BY <1>3, <2>1 DEF CallInv, TypeOK
  <2>3. CASE TagOf(mine[d]) = TagOf(issued)
    BY <1>3, <2>2, <2>3, SameTag
  <2>4. CASE TagOf(mine[d]) # TagOf(issued)
    BY <1>1, <1>3, <2>1, <2>2, <2>4, TagType DEF WaiterRegistered, TypeOK
  <2> QED
    BY <2>3, <2>4
<1>11. ReplyMatches'
  BY <1>1 DEF ReplyMatches
<1> QED
  BY <1>4, <1>5, <1>6, <1>7, <1>8, <1>9, <1>10, <1>11

LEMMA WaitStep ==
  ASSUME CallsInv, NEW c \in Callers, WaitReturns(c) \/ WaitTimesOut(c)
  PROVE  CallsInv'
<1> USE DEF CallsInv
<1>1. /\ pc[c] = "waiting"
      /\ \/ pc' = [pc EXCEPT ![c] = "idle"] /\ got[c] # 0
         \/ pc' = [pc EXCEPT ![c] = "expired"]
      /\ outcome' \in [Callers -> {"none", "replied", "sent", "timedout", "notsent"}]
      /\ UNCHANGED <<mine, got, spinlock, draft, tagNum, issued, pending,
                     available, completed, out, in, asked, answered>>
  BY DEF WaitReturns, WaitTimesOut, ringVars, tagVars, callVars, TypeOK
<1>2. TypeOK'
  BY <1>1 DEF TypeOK, PcValues
<1>3. TagInv'
  BY <1>1 DEF TagInv
<1>4. CallInv'
  BY <1>1, NoneIsNoThread DEF CallInv, TypeOK
<1>5. LockInv'
  BY <1>1, NoneIsNoThread DEF LockInv, TypeOK
<1>6. MessageInv'
  BY <1>1, MessagesKept
<1>7. NoDanglingWaiter' /\ WaiterRegistered' /\ ReplyMatches'
  BY <1>1, NoneIsNoThread
  DEF NoDanglingWaiter, WaiterRegistered, ReplyMatches, TypeOK
<1> QED
  BY <1>2, <1>3, <1>4, <1>5, <1>6, <1>7

LEMMA ExpireStep == ASSUME CallsInv, NEW c \in Callers, Expire(c) PROVE CallsInv'
<1> USE DEF CallsInv
<1> DEFINE tag == TagOf(mine[c])
<1>1. /\ pc[c] = "expired" /\ pc' = [pc EXCEPT ![c] = "idle"]
      /\ pending' = IF pending[tag] = c THEN [pending EXCEPT ![tag] = NoThread]
                                        ELSE pending
      /\ outcome' = [outcome EXCEPT ![c] = "timedout"]
      /\ UNCHANGED <<mine, got, spinlock, draft, tagNum, issued, available,
                     completed, out, in, asked, answered>>
  BY DEF Expire, ringVars, tagVars
<1>2. tag \in Tags
  BY TagType DEF TypeOK
<1> HIDE DEF tag
<1>3. \A g \in Tags : pending'[g] = pending[g] \/ pending'[g] = NoThread
  BY <1>1, <1>2 DEF TypeOK
<1>4. TypeOK'
  BY <1>1, <1>2 DEF TypeOK, PcValues
<1>5. TagInv' /\ CallInv'
  BY <1>1, NoneIsNoThread DEF TagInv, CallInv, TypeOK
<1>6. LockInv'
  BY <1>1, NoneIsNoThread DEF LockInv, TypeOK
<1>7. MessageInv'
  <2>1. KnownMessages \subseteq KnownMessages'
    BY <1>1, <1>3 DEF KnownMessages, Messages
  <2> QED
    BY <1>1, <2>1 DEF MessageInv
<1>8. NoDanglingWaiter'
  <2>1. ASSUME NEW g \in Tags, pending'[g] # NoThread
        PROVE  pending'[g] = pending[g] /\ pending[g] # c
    <3>1. pending'[g] = pending[g]
      BY <1>3, <2>1
    <3>2. CASE pending[g] = c
      <4>1. tag = g
        BY <3>2, NoneIsNoThread DEF NoDanglingWaiter, tag
      <4> QED
        BY <1>1, <2>1, <3>1, <3>2, <4>1 DEF TypeOK
    <3> QED
      BY <3>1, <3>2
  <2> QED
    BY <1>1, <2>1, NoneIsNoThread DEF NoDanglingWaiter, TypeOK
<1>9. WaiterRegistered'
  <2>1. \A d \in Callers : d # c => \A g \in Tags : pending[g] = d => pending'[g] = d
    BY <1>1, <1>2, NoneIsNoThread DEF TypeOK
  <2>2. \A d \in Callers : pc'[d] = "waiting" => d # c /\ pc[d] = "waiting"
    BY <1>1, NoneIsNoThread DEF TypeOK
  <2> QED
    BY <1>1, <2>1, <2>2, TagType DEF WaiterRegistered, TypeOK
<1>10. ReplyMatches'
  BY <1>1 DEF ReplyMatches
<1> QED
  BY <1>4, <1>5, <1>6, <1>7, <1>8, <1>9, <1>10

(* What taking a message off a link does. *)
LEMMA TakeProperties ==
  ASSUME NEW q \in Seq(Messages), q # <<>>
  PROVE  /\ Head(q) \in Messages /\ Head(q) = q[1] /\ 1 \in 1 .. Len(q)
         /\ Tail(q) \in Seq(Messages)
         /\ \A i \in 1 .. Len(Tail(q)) : i + 1 \in 1 .. Len(q) /\ Tail(q)[i] = q[i + 1]
<1>1. Len(q) \in Nat \ {0} /\ Head(q) = q[1]
  BY EmptySeq
<1> QED
  BY <1>1, HeadTailProperties

LEMMA OutQueueCompletionStep == ASSUME CallsInv, OutQueueCompletion PROVE CallsInv'
<1> USE DEF CallsInv
<1>1. /\ available' \in Nat /\ completed' \in Nat
      /\ UNCHANGED <<pc, mine, got, outcome, spinlock, draft, tagNum, issued,
                     pending, out, in, asked, answered>>
  BY DEF OutQueueCompletion, tagVars, callVars, TypeOK
<1>2. TypeOK'
  BY <1>1 DEF TypeOK
<1>3. TagInv' /\ CallInv' /\ LockInv'
  BY <1>1 DEF TagInv, CallInv, LockInv
<1>4. MessageInv'
  BY <1>1, MessagesKept
<1>5. NoDanglingWaiter' /\ WaiterRegistered' /\ ReplyMatches'
  BY <1>1 DEF NoDanglingWaiter, WaiterRegistered, ReplyMatches
<1> QED
  BY <1>2, <1>3, <1>4, <1>5

LEMMA HandleReplyStep == ASSUME CallsInv, HandleReply PROVE CallsInv'
<1> USE DEF CallsInv
<1>0. PICK reply : /\ in # <<>> /\ reply = Head(in) /\ in' = Tail(in)
                   /\ reply.type = "response"
                   /\ pending[reply.tag] # NoThread
                   /\ got' = [got EXCEPT ![pending[reply.tag]] = reply.serial]
                   /\ answered' = answered \union {reply.serial}
                   /\ pending' = [pending EXCEPT ![reply.tag] = NoThread]
                   /\ UNCHANGED <<pc, mine, outcome, spinlock, draft, tagNum,
                                  issued, available, completed, out, asked>>
  BY DEF HandleReply, In!Take, ringVars, tagVars
<1>1. /\ reply \in KnownMessages
      /\ in' \in Seq(Messages)
      /\ \A i \in 1 .. Len(in') : i + 1 \in 1 .. Len(in) /\ in'[i] = in[i + 1]
  BY <1>0, TakeProperties DEF MessageInv, TypeOK
<1> DEFINE c == pending[reply.tag]
<1>2. /\ reply.serial \in Nat /\ reply.serial # 0 /\ reply.serial <= issued
      /\ reply.tag \in Tags /\ reply.tag = TagOf(reply.serial)
      /\ c \in Callers /\ reply.serial <= mine[c]
      /\ pc[c] \in {"waiting", "expired"} /\ TagOf(mine[c]) = reply.tag
      /\ mine[c] \in Nat
  <2>1. /\ reply.serial \in Nat /\ reply.serial # 0 /\ reply.serial <= issued
        /\ reply.tag = TagOf(reply.serial) /\ reply.tag \in Tags
        /\ reply.serial <= mine[c]
    BY <1>0, <1>1, TagType DEF KnownMessages, Messages, TypeOK
  <2>2. c \in Callers
    BY <1>0, <2>1 DEF TypeOK
  <2> QED
    BY <1>0, <2>1, <2>2 DEF NoDanglingWaiter, TypeOK
<1> HIDE DEF c
<1>3. /\ got' = [got EXCEPT ![c] = reply.serial]
      /\ \A g \in Tags : pending'[g] = (IF g = reply.tag THEN NoThread ELSE pending[g])
      /\ pending[reply.tag] = c
  BY <1>0, <1>2 DEF TypeOK, c
<1>4. TypeOK'
  BY <1>0, <1>1, <1>2, <1>3 DEF TypeOK
<1>5. TagInv' /\ LockInv'
  BY <1>0 DEF TagInv, LockInv
<1>6. CallInv'
  BY <1>0, <1>2, <1>3 DEF CallInv, TypeOK
<1>7. MessageInv'
  <2>1. KnownMessages \subseteq KnownMessages'
    BY <1>0, <1>3 DEF KnownMessages, Messages
  <2> QED
    BY <1>0, <1>1, <2>1 DEF MessageInv
<1>8. NoDanglingWaiter'
  <2>1. ASSUME NEW g \in Tags, pending'[g] # NoThread
        PROVE  pending'[g] = pending[g] /\ pending[g] # c
    BY <1>2, <1>3, <2>1, NoneIsNoThread DEF NoDanglingWaiter
  <2> QED
    BY <1>0, <1>3, <2>1 DEF NoDanglingWaiter, TypeOK
<1>9. WaiterRegistered'
  <2>1. ASSUME NEW d \in Callers, d # c, TagOf(mine[d]) \in Tags,
               pending[TagOf(mine[d])] = d
        PROVE  pending'[TagOf(mine[d])] = d
    BY <1>3, <2>1
  <2>2. \A d \in Callers : got'[d] = 0 => d # c /\ got[d] = 0
    BY <1>2, <1>3 DEF TypeOK
  <2> QED
    BY <1>0, <2>1, <2>2, TagType DEF WaiterRegistered, TypeOK
<1>10. ReplyMatches'
  <2>1. reply.serial = mine[c] \/ reply.serial + TagCount <= mine[c]
    BY <1>2, SameTag
  <2> QED
    BY <1>0, <1>2, <1>3, <2>1 DEF ReplyMatches, TypeOK
<1> QED
  BY <1>4, <1>5, <1>6, <1>7, <1>8, <1>9, <1>10

(* A message taken off the in link, with no waiter to tell. *)
LEMMA ForgetStep == ASSUME CallsInv, HandleStaleReply \/ HandleAndForget PROVE CallsInv'
<1> USE DEF CallsInv
<1>1. /\ in # <<>> /\ in' = Tail(in)
      /\ UNCHANGED <<pc, mine, got, outcome, spinlock, draft, tagNum, issued,
                     pending, available, completed, out, asked, answered>>
  BY DEF HandleStaleReply, HandleAndForget, In!Take, ringVars, tagVars, callVars
<1>2. /\ in' \in Seq(Messages)
      /\ \A i \in 1 .. Len(in') : i + 1 \in 1 .. Len(in) /\ in'[i] = in[i + 1]
  BY <1>1, TakeProperties DEF TypeOK
<1>3. TypeOK'
  BY <1>1, <1>2 DEF TypeOK
<1>4. TagInv' /\ CallInv' /\ LockInv'
  BY <1>1 DEF TagInv, CallInv, LockInv
<1>5. MessageInv'
  <2>1. KnownMessages' = KnownMessages
    BY <1>1 DEF KnownMessages
  <2> QED
    BY <1>1, <1>2, <2>1 DEF MessageInv
<1>6. NoDanglingWaiter' /\ WaiterRegistered' /\ ReplyMatches'
  BY <1>1 DEF NoDanglingWaiter, WaiterRegistered, ReplyMatches
<1> QED
  BY <1>3, <1>4, <1>5, <1>6

LEMMA DeviceCommandStep ==
  ASSUME CallsInv, NEW w \in Works, HandleDeviceCommand(w)
  PROVE  CallsInv'
<1> USE DEF CallsInv
<1>1. /\ in # <<>> /\ in' = Tail(in)
      /\ pc[w] = "idle" /\ pc' = [pc EXCEPT ![w] = "calling"]
      /\ UNCHANGED <<mine, got, outcome, spinlock, draft, tagNum, issued,
                     pending, available, completed, out, asked, answered>>
  BY DEF HandleDeviceCommand, In!Take, ringVars, tagVars, callVars
<1>2. /\ in' \in Seq(Messages)
      /\ \A i \in 1 .. Len(in') : i + 1 \in 1 .. Len(in) /\ in'[i] = in[i + 1]
  BY <1>1, TakeProperties DEF TypeOK
<1>3. TypeOK'
  BY <1>1, <1>2 DEF TypeOK, PcValues
<1>4. TagInv' /\ CallInv' /\ LockInv'
  BY <1>1, NoneIsNoThread DEF TagInv, CallInv, LockInv, TypeOK
<1>5. MessageInv'
  <2>1. KnownMessages' = KnownMessages
    BY <1>1 DEF KnownMessages
  <2> QED
    BY <1>1, <1>2, <2>1 DEF MessageInv
<1>6. NoDanglingWaiter' /\ WaiterRegistered' /\ ReplyMatches'
  BY <1>1, NoneIsNoThread
  DEF NoDanglingWaiter, WaiterRegistered, ReplyMatches, TypeOK
<1> QED
  BY <1>3, <1>4, <1>5, <1>6

LEMMA DeviceStepInv == ASSUME CallsInv, DeviceStep PROVE CallsInv'
<1> USE DEF CallsInv
<1>1. /\ UNCHANGED <<pc, mine, got, outcome, spinlock, draft, tagNum, issued,
                     pending, available, answered>>
      /\ KnownMessages' = KnownMessages
  BY DEF DeviceStep, DeviceReads, DeviceReplies, DeviceSends, ringVars, tagVars,
         callVars, KnownMessages
<1>2. TagInv' /\ CallInv' /\ LockInv'
  BY <1>1 DEF TagInv, CallInv, LockInv
<1>3. NoDanglingWaiter' /\ WaiterRegistered' /\ ReplyMatches'
  BY <1>1 DEF NoDanglingWaiter, WaiterRegistered, ReplyMatches
<1>4. CASE DeviceReads
  <2>1. /\ out # <<>> /\ out' = Tail(out) /\ in' = in
        /\ completed' = completed + 1
        /\ asked' = IF Head(out).type = "command" THEN asked \union {Head(out)}
                                                  ELSE asked
    BY <1>4 DEF DeviceReads, Out!Take
  <2>2. /\ out' \in Seq(Messages) /\ Head(out) \in Messages
        /\ Head(out) = out[1] /\ 1 \in 1 .. Len(out)
        /\ \A i \in 1 .. Len(out') : i + 1 \in 1 .. Len(out) /\ out'[i] = out[i + 1]
    BY <2>1, TakeProperties DEF TypeOK
  <2>3. TypeOK'
    BY <1>1, <2>1, <2>2 DEF TypeOK
  <2>4. MessageInv'
    BY <1>1, <2>1, <2>2 DEF MessageInv
  <2> QED
    BY <1>2, <1>3, <2>3, <2>4
<1>5. CASE DeviceReplies
  <2>1. PICK msg \in asked : /\ in' = Append(in, [msg EXCEPT !.type = "response"])
                             /\ asked' = asked \ {msg}
                             /\ out' = out /\ completed' = completed
    BY <1>5 DEF DeviceReplies, In!Put, ringVars
  <2> DEFINE reply == [msg EXCEPT !.type = "response"]
  <2>2. reply \in KnownMessages
    BY DEF MessageInv, KnownMessages, Messages, Types
  <2> HIDE DEF reply
  <2>3. reply \in Messages
    BY <2>2 DEF KnownMessages
  <2>4. /\ in' \in Seq(Messages)
        /\ Len(in') = Len(in) + 1
        /\ Len(in) \in Nat
        /\ \A i \in 1 .. Len(in) : in'[i] = in[i]
        /\ in'[Len(in) + 1] = reply
    BY <2>1, <2>3, PutProperties DEF TypeOK, reply
  <2>5. TypeOK'
    BY <1>1, <2>1, <2>4 DEF TypeOK
  <2>6. MessageInv'
    BY <1>1, <2>1, <2>2, <2>4 DEF MessageInv
  <2> QED
    BY <1>2, <1>3, <2>5, <2>6
<1>6. CASE DeviceSends
  <2> DEFINE msg == Msg("command", 0)
  <2>1. /\ in' = Append(in, msg)
        /\ UNCHANGED <<out, asked, completed>>
    BY <1>6 DEF DeviceSends, In!Put, ringVars
  <2>2. msg \in Messages /\ msg.type = "command"
    BY TagType DEF Msg, Messages, Types
  <2> HIDE DEF msg
  <2>3. /\ in' \in Seq(Messages)
        /\ Len(in') = Len(in) + 1
        /\ Len(in) \in Nat
        /\ \A i \in 1 .. Len(in) : in'[i] = in[i]
        /\ in'[Len(in) + 1] = msg
    BY <2>1, <2>2, PutProperties DEF TypeOK
  <2>4. TypeOK'
    BY <1>1, <2>1, <2>3 DEF TypeOK
  <2>5. MessageInv'
    BY <1>1, <2>1, <2>2, <2>3 DEF MessageInv
  <2> QED
    BY <1>2, <1>3, <2>4, <2>5
<1> QED
  BY <1>4, <1>5, <1>6 DEF DeviceStep

LEMMA NextInv == CallsInv /\ [Next]_vars => CallsInv'
<1> SUFFICES ASSUME CallsInv, [Next]_vars
             PROVE  CallsInv'
  OBVIOUS
<1>1. ASSUME NEW t \in Threads, SendStep(t)
      PROVE  CallsInv'
  BY <1>1, ReserveStep, SendOnlyStep DEF SendStep
<1>2. ASSUME NEW c \in Callers, Call(c) \/ CallerStep(c)
      PROVE  CallsInv'
  BY <1>1, <1>2, NoneIsNoThread, CallStep, PrepareNewStep, SendCommandStep,
     WaitStep, ExpireStep
  DEF CallerStep
<1>3. ASSUME NEW w \in Works, WorkStep(w)
      PROVE  CallsInv'
  BY <1>1, <1>3, NoneIsNoThread, PrepareResponseStep DEF WorkStep
<1>4. CASE HandlerStep
  BY <1>4, OutQueueCompletionStep, HandleReplyStep, ForgetStep,
     DeviceCommandStep
  DEF HandlerStep
<1>5. CASE DeviceStep
  BY <1>5, DeviceStepInv
<1>6. CASE UNCHANGED vars
  <2>1. UNCHANGED <<pc, mine, got, outcome, spinlock, draft, tagNum, issued,
                    pending, available, completed, out, in, asked, answered>>
    BY <1>6 DEF vars, callVars, tagVars, ringVars
  <2>2. TypeOK'
    BY <2>1 DEF CallsInv, TypeOK
  <2>3. TagInv' /\ CallInv' /\ LockInv'
    BY <2>1 DEF CallsInv, TagInv, CallInv, LockInv
  <2>4. MessageInv'
    BY <2>1, MessagesKept DEF CallsInv
  <2>5. NoDanglingWaiter' /\ WaiterRegistered' /\ ReplyMatches'
    BY <2>1 DEF CallsInv, NoDanglingWaiter, WaiterRegistered, ReplyMatches
  <2> QED
    BY <2>2, <2>3, <2>4, <2>5 DEF CallsInv
<1> QED
  BY <1>2, <1>3, <1>4, <1>5, <1>6 DEF Next

-----------------------------------------------------------------------------
(* The ring: what becomes of the number of reserved submissions. *)
LEMMA ReservingFinite ==
  /\ IsFiniteSet(Reserving) /\ Cardinality(Reserving) \in Nat
  /\ (\E t \in Threads : pc[t] = "locked") => Cardinality(Reserving) > 0
<1>1. IsFiniteSet(Reserving)
  BY ThreadsAssumption, FS_Subset DEF Reserving
<1>2. Cardinality(Reserving) \in Nat
  BY <1>1, FS_CardinalityType
<1>3. ASSUME NEW t \in Threads, pc[t] = "locked"
      PROVE  Cardinality(Reserving) > 0
  <2>1. Reserving # {}
    BY <1>3 DEF Reserving
  <2> QED
    BY <1>1, <1>2, <2>1, FS_EmptySet
<1> QED
  BY <1>1, <1>2, <1>3

LEMMA ReservedByOneMore ==
  ASSUME TypeOK, NEW t \in Threads, pc[t] = "calling",
         pc' = [pc EXCEPT ![t] = "reserved"]
  PROVE  Cardinality(Reserving') = Cardinality(Reserving) + 1
<1>1. t \notin Reserving /\ Reserving' = Reserving \union {t}
  BY DEF Reserving, TypeOK
<1> QED
  BY <1>1, ReservingFinite, FS_AddElement

LEMMA ReservedByOneLess ==
  ASSUME TypeOK, NEW t \in Threads, pc[t] = "locked",
         NEW place \in {"idle", "waiting"}, pc' = [pc EXCEPT ![t] = place]
  PROVE  Cardinality(Reserving') = Cardinality(Reserving) - 1
<1>1. t \in Reserving /\ Reserving' = Reserving \ {t}
  BY DEF Reserving, TypeOK
<1> QED
  BY <1>1, ReservingFinite, FS_RemoveElement

LEMMA ReservedByTheSame ==
  ASSUME TypeOK, NEW t, NEW place, pc' = [pc EXCEPT ![t] = place],
         pc[t] \in {"reserved", "locked"} <=> place \in {"reserved", "locked"}
  PROVE  Reserving' = Reserving
BY DEF Reserving, TypeOK

(* A submission sent takes the place of its reservation. *)
LEMMA SubmitKeepsRing ==
  ASSUME CallsInv, RingInv, NEW t \in Threads, pc[t] = "locked",
         NEW place \in {"idle", "waiting"}, pc' = [pc EXCEPT ![t] = place],
         out' = Append(out, draft), UNCHANGED <<available, completed>>
  PROVE  RingInv'
<1>1. Cardinality(Reserving') = Cardinality(Reserving) - 1
  BY ReservedByOneLess DEF CallsInv
<1>2. Len(out') = Len(out) + 1 /\ Len(out) \in Nat
  BY PutProperties DEF CallsInv, TypeOK
<1>3. available \in Nat /\ completed \in Nat
  BY DEF CallsInv, TypeOK
<1> QED
  BY <1>1, <1>2, <1>3, ReservingFinite DEF RingInv

(* A step is one of these. *)
LEMMA Steps ==
  ASSUME [Next]_vars
  PROVE  \/ \E c \in Callers : \/ Call(c) \/ SendCommand(c)
                               \/ WaitReturns(c) \/ WaitTimesOut(c) \/ Expire(c)
         \/ \E c \in Callers, type \in {"command", "notification"} :
              PrepareNew(c, type)
         \/ \E t \in Threads : Reserve(t) \/ ReserveTimesOut(t) \/ SendOnly(t)
         \/ \E w \in Works : PrepareResponse(w) \/ HandleDeviceCommand(w)
         \/ OutQueueCompletion \/ HandleReply
         \/ HandleStaleReply \/ HandleAndForget
         \/ DeviceReads \/ DeviceReplies \/ DeviceSends
         \/ UNCHANGED vars
BY Zenon DEF Next, CallerStep, WorkStep, SendStep, HandlerStep, DeviceStep, Threads

LEMMA RingKept ==
  ASSUME CallsInv, RingInv, [Next]_vars
  PROVE  RingInv'
<1> USE DEF ringVars
<1>0. /\ available \in Nat /\ completed \in Nat /\ Len(out) \in Nat
      /\ Cardinality(Reserving) \in Nat
  BY ReservingFinite, LenProperties DEF CallsInv, TypeOK
<1>1. ASSUME Reserving' = Reserving, UNCHANGED <<available, completed, out>>
      PROVE  RingInv'
  BY <1>1 DEF RingInv
<1>2. ASSUME NEW c \in Callers, Call(c) \/ WaitReturns(c) \/ WaitTimesOut(c) \/ Expire(c)
      PROVE  RingInv'
  <2>1. Reserving' = Reserving
    BY <1>2, ReservedByTheSame
       DEF CallsInv, Call, WaitReturns, WaitTimesOut, Expire
  <2> QED
    BY <1>1, <1>2, <2>1 DEF Call, WaitReturns, WaitTimesOut, Expire
<1>3. ASSUME NEW c \in Callers, SendCommand(c)
      PROVE  RingInv'
  BY <1>3, SubmitKeepsRing, NoneIsNoThread
     DEF SendCommand, SubmitAndUnlock, Out!Put
<1>4. ASSUME NEW c \in Callers, NEW type \in {"command", "notification"},
             PrepareNew(c, type)
      PROVE  RingInv'
  <2>1. Reserving' = Reserving
    BY <1>4, ReservedByTheSame DEF CallsInv, PrepareNew
  <2> QED
    BY <1>1, <1>4, <2>1 DEF PrepareNew
<1>5. ASSUME NEW t \in Threads, Reserve(t)
      PROVE  RingInv'
  <2>1. Cardinality(Reserving') = Cardinality(Reserving) + 1
    BY <1>5, ReservedByOneMore DEF CallsInv, Reserve
  <2> QED
    BY <1>0, <1>5, <2>1 DEF Reserve, RingInv
<1>6. ASSUME NEW t \in Threads, ReserveTimesOut(t)
      PROVE  RingInv'
  <2>1. Reserving' = Reserving
    BY <1>6, ReservedByTheSame DEF CallsInv, ReserveTimesOut
  <2> QED
    BY <1>1, <1>6, <2>1 DEF ReserveTimesOut
<1>7. ASSUME NEW t \in Threads, SendOnly(t)
      PROVE  RingInv'
  BY <1>7, SubmitKeepsRing DEF SendOnly, SubmitAndUnlock, Out!Put
<1>8. ASSUME NEW w \in Works, PrepareResponse(w) \/ HandleDeviceCommand(w)
      PROVE  RingInv'
  <2>1. Reserving' = Reserving
    BY <1>8, ReservedByTheSame DEF CallsInv, PrepareResponse, HandleDeviceCommand
  <2> QED
    BY <1>1, <1>8, <2>1 DEF PrepareResponse, HandleDeviceCommand
<1>9. CASE OutQueueCompletion
  BY <1>0, <1>9 DEF OutQueueCompletion, RingInv, Reserving
<1>10. CASE \/ HandleReply \/ HandleStaleReply \/ HandleAndForget
            \/ DeviceReplies \/ DeviceSends
  <2>1. UNCHANGED <<pc, available, completed, out>>
    BY <1>10 DEF HandleReply, HandleStaleReply, HandleAndForget, DeviceReplies,
                 DeviceSends
  <2> QED
    BY <1>1, <2>1 DEF Reserving
<1>11. CASE DeviceReads
  <2>1. /\ out # <<>> /\ out' = Tail(out) /\ completed' = completed + 1
        /\ UNCHANGED <<pc, available>>
    BY <1>11 DEF DeviceReads, Out!Take
  <2>2. Len(out') = Len(out) - 1
    BY <2>1, HeadTailProperties DEF CallsInv, TypeOK
  <2> QED
    BY <1>0, <2>1, <2>2 DEF RingInv, Reserving
<1>12. CASE UNCHANGED vars
  BY <1>1, <1>12 DEF vars, Reserving
<1> QED
  BY <1>2, <1>3, <1>4, <1>5, <1>6, <1>7, <1>8, <1>9, <1>10, <1>11, <1>12, Steps

-----------------------------------------------------------------------------
(* A command is at one place. *)
LEMMA OnceUntouched ==
  ASSUME OnceInv, UNCHANGED <<out, in, asked, answered, issued>>,
         draft' = draft \/ draft' = NoDraft
  PROVE  OnceInv'
<1>1. draft'.type = "command" => draft' = draft
  BY NoDraftType
<1>2. CommandsOut' = CommandsOut /\ RepliesIn' = RepliesIn
  BY DEF CommandsOut, RepliesIn
<1>3. OutOnce' /\ AskedOnce' /\ RepliedOnce'
  BY <1>2 DEF OnceInv, OutOnce, AskedOnce, RepliedOnce
<1>4. DraftOnce'
  BY <1>1, <1>2 DEF OnceInv, DraftOnce
<1> QED
  BY <1>3, <1>4 DEF OnceInv

(* A command that is written is a new one. *)
LEMMA OncePrepared ==
  ASSUME CallsInv, OnceInv, NEW c \in Callers,
         NEW type \in {"command", "notification"}, PrepareNew(c, type)
  PROVE  OnceInv'
<1>1. /\ UNCHANGED <<out, in, asked, answered>>
      /\ issued \in Nat /\ issued' = issued + 1 /\ draft'.serial = issued + 1
  BY DEF PrepareNew, CallsInv, TypeOK
<1>2. CommandsOut' = CommandsOut /\ RepliesIn' = RepliesIn
  BY <1>1 DEF CommandsOut, RepliesIn
<1>3. OutOnce' /\ AskedOnce' /\ RepliedOnce'
  BY <1>1, <1>2 DEF OnceInv, OutOnce, AskedOnce, RepliedOnce
<1>4. DraftOnce'
  <2>1. \A i \in CommandsOut : out[i].serial \in 1 .. issued
    BY DEF CommandsOut, CallsInv, MessageInv, KnownMessages
  <2>2. \A msg \in asked : msg.serial \in 1 .. issued
    BY DEF CallsInv, MessageInv, KnownMessages
  <2>3. \A j \in RepliesIn : in[j].serial \in 1 .. issued
    BY DEF RepliesIn, CallsInv, MessageInv, KnownMessages
  <2>4. \A n \in answered : n \in Nat /\ n <= issued
    BY DEF OnceInv, CallsInv, TypeOK
  <2> QED
    BY <1>1, <1>2, <2>1, <2>2, <2>3, <2>4 DEF DraftOnce
<1>5. \A n \in answered' : n <= issued'
  BY <1>1 DEF OnceInv, CallsInv, TypeOK
<1> QED
  BY <1>3, <1>4, <1>5 DEF OnceInv

(* What is written goes out, and is written no more. *)
LEMMA OnceSubmitted ==
  ASSUME CallsInv, OnceInv, out' = Append(out, draft), draft' = NoDraft,
         UNCHANGED <<in, asked, answered, issued>>
  PROVE  OnceInv'
<1>1. /\ Len(out) \in Nat /\ Len(out') = Len(out) + 1
      /\ \A i \in 1 .. Len(out) : out'[i] = out[i]
      /\ out'[Len(out) + 1] = draft
  BY PutProperties DEF CallsInv, TypeOK
<1>2. \A i \in CommandsOut' :
        \/ i \in CommandsOut /\ out'[i] = out[i]
        \/ /\ i = Len(out) + 1 /\ i \notin CommandsOut
           /\ out'[i] = draft /\ draft.type = "command"
  BY <1>1 DEF CommandsOut
<1>3. RepliesIn' = RepliesIn
  BY DEF RepliesIn
<1>4. OutOnce'
  <2>1. ASSUME NEW i \in CommandsOut', NEW j \in CommandsOut',
               out'[i].serial = out'[j].serial
        PROVE  i = j
    BY <1>2, <2>1 DEF OnceInv, OutOnce, DraftOnce
  <2>2. ASSUME NEW i \in CommandsOut', NEW msg \in asked'
        PROVE  out'[i].serial # msg.serial
    BY <1>2 DEF OnceInv, OutOnce, DraftOnce
  <2>3. ASSUME NEW i \in CommandsOut', NEW j \in RepliesIn'
        PROVE  out'[i].serial # in'[j].serial
    BY <1>2, <1>3 DEF OnceInv, OutOnce, DraftOnce
  <2>4. ASSUME NEW i \in CommandsOut'
        PROVE  out'[i].serial \notin answered'
    BY <1>2 DEF OnceInv, OutOnce, DraftOnce
  <2> QED
    BY <2>1, <2>2, <2>3, <2>4 DEF OutOnce
<1>5. AskedOnce' /\ RepliedOnce'
  BY <1>3 DEF OnceInv, AskedOnce, RepliedOnce
<1>6. DraftOnce'
  BY NoDraftType DEF DraftOnce
<1> QED
  BY <1>4, <1>5, <1>6 DEF OnceInv

(* The device takes it in, *)
LEMMA OnceRead ==
  ASSUME CallsInv, OnceInv, DeviceReads
  PROVE  OnceInv'
<1>1. /\ out # <<>> /\ out' = Tail(out)
      /\ asked' = IF Head(out).type = "command" THEN asked \union {Head(out)}
                                                ELSE asked
      /\ UNCHANGED <<in, answered, draft, issued>>
  BY DEF DeviceReads, Out!Take, tagVars
<1>2. /\ Head(out) = out[1] /\ 1 \in 1 .. Len(out)
      /\ \A i \in 1 .. Len(out') :
           i \in Nat /\ i + 1 \in 1 .. Len(out) /\ out'[i] = out[i + 1]
  BY <1>1, TakeProperties DEF CallsInv, TypeOK
<1>3. \A i \in CommandsOut' :
        /\ i \in Nat /\ i # 0 /\ i + 1 \in CommandsOut
        /\ out'[i] = out[i + 1]
  BY <1>2 DEF CommandsOut
<1>4. RepliesIn' = RepliesIn
  BY <1>1 DEF RepliesIn
<1>5. \A msg \in asked' : msg \in asked \/ (msg = out[1] /\ 1 \in CommandsOut)
  BY <1>1, <1>2 DEF CommandsOut
<1>6. OutOnce'
  <2>1. \A i, j \in CommandsOut' : out'[i].serial = out'[j].serial => i = j
    BY <1>3 DEF OnceInv, OutOnce
  <2>2. \A i \in CommandsOut', msg \in asked' : out'[i].serial # msg.serial
    BY <1>3, <1>5 DEF OnceInv, OutOnce
  <2>3. ASSUME NEW i \in CommandsOut', NEW j \in RepliesIn'
        PROVE  out'[i].serial # in'[j].serial
    <3>1. i + 1 \in CommandsOut /\ out'[i] = out[i + 1]
      BY <1>3
    <3>2. j \in RepliesIn /\ in'[j] = in[j]
      BY <1>1, <1>4
    <3> QED
      BY <3>1, <3>2 DEF OnceInv, OutOnce
  <2>4. ASSUME NEW i \in CommandsOut'
        PROVE  out'[i].serial \notin answered'
    BY <1>1, <1>3 DEF OnceInv, OutOnce
  <2> QED
    BY <2>1, <2>2, <2>3, <2>4 DEF OutOnce
<1>7. AskedOnce'
  BY <1>1, <1>4, <1>5 DEF OnceInv, OutOnce, AskedOnce
<1>8. RepliedOnce'
  BY <1>1, <1>4 DEF OnceInv, RepliedOnce
<1>9. DraftOnce'
  BY <1>1, <1>3, <1>4, <1>5 DEF OnceInv, DraftOnce
<1> QED
  BY <1>1, <1>6, <1>7, <1>8, <1>9 DEF OnceInv

(* and forgets it with its reply, *)
LEMMA OnceReplied ==
  ASSUME CallsInv, OnceInv, DeviceReplies
  PROVE  OnceInv'
<1>1. PICK msg \in asked : /\ in' = Append(in, [msg EXCEPT !.type = "response"])
                           /\ asked' = asked \ {msg}
                           /\ UNCHANGED <<out, answered, draft, issued>>
  BY DEF DeviceReplies, In!Put, tagVars
<1> DEFINE reply == [msg EXCEPT !.type = "response"]
<1>2. reply \in Messages /\ reply.serial = msg.serial
  BY DEF CallsInv, TypeOK, Messages, Types
<1> HIDE DEF reply
<1>3. /\ Len(in) \in Nat /\ Len(in') = Len(in) + 1
      /\ \A i \in 1 .. Len(in) : in'[i] = in[i]
      /\ in'[Len(in) + 1] = reply
  BY <1>1, <1>2, PutProperties DEF CallsInv, TypeOK, reply
<1>4. \A j \in RepliesIn' :
        \/ j \in RepliesIn /\ in'[j] = in[j]
        \/ j = Len(in) + 1 /\ in'[j] = reply
  BY <1>3 DEF RepliesIn
<1>5. CommandsOut' = CommandsOut
  BY <1>1 DEF CommandsOut
<1>6. \A j \in RepliesIn' :
        \/ j \in RepliesIn /\ in'[j].serial = in[j].serial
        \/ j = Len(in) + 1 /\ in'[j].serial = msg.serial
  BY <1>2, <1>4
<1>7. OutOnce'
  <2>1. ASSUME NEW i \in CommandsOut, NEW j \in RepliesIn'
        PROVE  out[i].serial # in'[j].serial
    BY <1>6 DEF OnceInv, OutOnce
  <2> QED
    BY <1>1, <1>5, <2>1 DEF OnceInv, OutOnce
<1>8. AskedOnce'
  <2>1. ASSUME NEW other \in asked', NEW j \in RepliesIn'
        PROVE  other.serial # in'[j].serial
    <3>1. other \in asked /\ other # msg
      BY <1>1
    <3>2. other.serial # msg.serial
      BY <3>1 DEF OnceInv, AskedOnce
    <3>3. j \in RepliesIn => other.serial # in[j].serial
      BY <3>1 DEF OnceInv, AskedOnce
    <3> QED
      BY <1>6, <3>2, <3>3
  <2> QED
    BY <1>1, <2>1 DEF OnceInv, AskedOnce
<1>9. RepliedOnce'
  <2>1. ASSUME NEW j \in RepliesIn'
        PROVE  in'[j].serial \notin answered'
    BY <1>1, <1>6 DEF OnceInv, AskedOnce, RepliedOnce
  <2>2. ASSUME NEW j \in RepliesIn', NEW k \in RepliesIn',
               in'[j].serial = in'[k].serial
        PROVE  j = k
    BY <1>6, <2>2 DEF OnceInv, AskedOnce, RepliedOnce
  <2> QED
    BY <2>1, <2>2 DEF RepliedOnce
<1>10. DraftOnce'
  BY <1>1, <1>5, <1>6 DEF OnceInv, DraftOnce
<1> QED
  BY <1>1, <1>7, <1>8, <1>9, <1>10 DEF OnceInv

(* which is handled, *)
LEMMA OnceHandled ==
  ASSUME CallsInv, OnceInv, in # <<>>, in' = Tail(in),
         \/ answered' = answered
         \/ Head(in).type = "response" /\ answered' = answered \union {Head(in).serial},
         UNCHANGED <<out, asked, draft, issued>>
  PROVE  OnceInv'
<1>1. /\ Head(in) = in[1] /\ 1 \in 1 .. Len(in)
      /\ \A i \in 1 .. Len(in') :
           i \in Nat /\ i + 1 \in 1 .. Len(in) /\ in'[i] = in[i + 1]
  BY TakeProperties DEF CallsInv, TypeOK
<1>2. \A j \in RepliesIn' :
        j \in Nat /\ j # 0 /\ j + 1 \in RepliesIn /\ in'[j] = in[j + 1]
  BY <1>1 DEF RepliesIn
<1>3. CommandsOut' = CommandsOut
  BY DEF CommandsOut
<1>4. \A n \in answered' : n \in answered \/ (n = in[1].serial /\ 1 \in RepliesIn)
  BY <1>1 DEF RepliesIn
<1>5. OutOnce'
  <2>1. ASSUME NEW i \in CommandsOut, NEW j \in RepliesIn'
        PROVE  out[i].serial # in'[j].serial
    BY <1>2 DEF OnceInv, OutOnce
  <2>2. ASSUME NEW i \in CommandsOut
        PROVE  out[i].serial \notin answered'
    <3>1. out[i].serial \notin answered
      BY DEF OnceInv, OutOnce
    <3>2. 1 \in RepliesIn => out[i].serial # in[1].serial
      BY DEF OnceInv, OutOnce
    <3> QED
      BY <1>4, <3>1, <3>2
  <2> QED
    BY <1>3, <2>1, <2>2 DEF OnceInv, OutOnce
<1>6. AskedOnce'
  <2>1. ASSUME NEW msg \in asked, NEW j \in RepliesIn'
        PROVE  msg.serial # in'[j].serial
    <3>1. j + 1 \in RepliesIn /\ in'[j] = in[j + 1]
      BY <1>2
    <3> QED
      BY <3>1 DEF OnceInv, AskedOnce
  <2>2. ASSUME NEW msg \in asked
        PROVE  msg.serial \notin answered'
    <3>1. msg.serial \notin answered
      BY DEF OnceInv, AskedOnce
    <3>2. 1 \in RepliesIn => msg.serial # in[1].serial
      BY DEF OnceInv, AskedOnce
    <3> QED
      BY <1>4, <3>1, <3>2
  <2> QED
    BY <2>1, <2>2 DEF OnceInv, AskedOnce
<1>7. RepliedOnce'
  <2>1. ASSUME NEW j \in RepliesIn'
        PROVE  in'[j].serial \notin answered'
    <3>1. /\ j \in Nat /\ j # 0 /\ j + 1 \in RepliesIn
          /\ in'[j] = in[j + 1]
      BY <1>2
    <3>2. in[j + 1].serial \notin answered
      BY <3>1 DEF OnceInv, RepliedOnce
    <3>3. 1 \in RepliesIn => in[j + 1].serial # in[1].serial
      BY <3>1 DEF OnceInv, RepliedOnce
    <3> QED
      BY <1>4, <3>1, <3>2, <3>3
  <2>2. ASSUME NEW j \in RepliesIn', NEW k \in RepliesIn',
               in'[j].serial = in'[k].serial
        PROVE  j = k
    <3>1. j + 1 = k + 1
      BY <1>2, <2>2 DEF OnceInv, RepliedOnce
    <3> QED
      BY <1>2, <3>1
  <2> QED
    BY <2>1, <2>2 DEF RepliedOnce
<1>8. DraftOnce'
  BY <1>2, <1>3, <1>4 DEF OnceInv, DraftOnce
<1>9. \A n \in answered' : n <= issued'
  <2>1. 1 \in RepliesIn => in[1].serial <= issued
    BY DEF RepliesIn, CallsInv, TypeOK, MessageInv, KnownMessages
  <2> QED
    BY <1>4, <2>1 DEF OnceInv
<1> QED
  BY <1>5, <1>6, <1>7, <1>8, <1>9 DEF OnceInv

(* and what the device sends of its own is no reply. *)
LEMMA OnceSent ==
  ASSUME CallsInv, OnceInv, DeviceSends
  PROVE  OnceInv'
<1> DEFINE msg == Msg("command", 0)
<1>1. in' = Append(in, msg) /\ UNCHANGED <<out, asked, answered, draft, issued>>
  BY DEF DeviceSends, In!Put, tagVars
<1>2. msg \in Messages /\ msg.type = "command"
  BY TagType DEF Msg, Messages, Types
<1> HIDE DEF msg
<1>3. /\ Len(in) \in Nat /\ Len(in') = Len(in) + 1
      /\ \A i \in 1 .. Len(in) : in'[i] = in[i]
      /\ in'[Len(in) + 1] = msg
  BY <1>1, <1>2, PutProperties DEF CallsInv, TypeOK
<1>4. \A j \in RepliesIn' : j \in RepliesIn /\ in'[j] = in[j]
  BY <1>2, <1>3 DEF RepliesIn
<1>5. CommandsOut' = CommandsOut
  BY <1>1 DEF CommandsOut
<1>6. OutOnce'
  <2>1. ASSUME NEW i \in CommandsOut, NEW j \in RepliesIn'
        PROVE  out[i].serial # in'[j].serial
    BY <1>4 DEF OnceInv, OutOnce
  <2> QED
    BY <1>1, <1>5, <2>1 DEF OnceInv, OutOnce
<1>7. AskedOnce'
  BY <1>1, <1>4 DEF OnceInv, AskedOnce
<1>8. RepliedOnce'
  BY <1>1, <1>4 DEF OnceInv, RepliedOnce
<1>9. DraftOnce'
  BY <1>1, <1>4, <1>5 DEF OnceInv, DraftOnce
<1> QED
  BY <1>1, <1>6, <1>7, <1>8, <1>9 DEF OnceInv

LEMMA OnceKept ==
  ASSUME CallsInv, OnceInv, [Next]_vars
  PROVE  OnceInv'
<1> USE DEF tagVars, ringVars, callVars
<1>1. ASSUME NEW c \in Callers,
             Call(c) \/ WaitReturns(c) \/ WaitTimesOut(c) \/ Expire(c)
      PROVE  OnceInv'
  BY <1>1, OnceUntouched DEF Call, WaitReturns, WaitTimesOut, Expire
<1>2. ASSUME NEW c \in Callers, SendCommand(c)
      PROVE  OnceInv'
  BY <1>2, OnceSubmitted DEF SendCommand, SubmitAndUnlock, Out!Put
<1>3. ASSUME NEW t \in Threads, Reserve(t) \/ ReserveTimesOut(t)
      PROVE  OnceInv'
  BY <1>3, OnceUntouched DEF Reserve, ReserveTimesOut
<1>4. ASSUME NEW t \in Threads, SendOnly(t)
      PROVE  OnceInv'
  BY <1>4, OnceSubmitted DEF SendOnly, SubmitAndUnlock, Out!Put
<1>5. ASSUME NEW w \in Works, PrepareResponse(w)
      PROVE  OnceInv'
  BY <1>5, OnceUntouched DEF PrepareResponse
<1>6. ASSUME NEW w \in Works, HandleDeviceCommand(w)
      PROVE  OnceInv'
  BY <1>6, OnceHandled DEF HandleDeviceCommand, In!Take
<1>7. CASE OutQueueCompletion
  BY <1>7, OnceUntouched DEF OutQueueCompletion
<1>8. CASE HandleReply
  BY <1>8, OnceHandled DEF HandleReply, In!Take
<1>9. CASE HandleStaleReply \/ HandleAndForget
  BY <1>9, OnceHandled DEF HandleStaleReply, HandleAndForget, In!Take
<1>10. CASE UNCHANGED vars
  BY <1>10, OnceUntouched DEF vars
<1> QED
  BY <1>1, <1>2, <1>3, <1>4, <1>5, <1>6, <1>7, <1>8, <1>9, <1>10, Steps,
     OncePrepared, OnceRead, OnceReplied, OnceSent

-----------------------------------------------------------------------------
LEMMA IInvInit == Init => IInv
<1> SUFFICES ASSUME Init
             PROVE  IInv
  OBVIOUS
<1>1. CallsInv
  BY InitInv
<1>2. RingInv
  <2>1. Reserving = {}
    BY DEF Init, Reserving
  <2>2. Cardinality(Reserving) = 0
    BY <2>1, FS_EmptySet
  <2> QED
    BY <2>2, CapacityAssumption DEF Init, RingInv
<1>3. OnceInv
  BY NoDraftType DEF Init, OnceInv, OutOnce, AskedOnce, RepliedOnce, DraftOnce,
                     CommandsOut, RepliesIn
<1> QED
  BY <1>1, <1>2, <1>3 DEF IInv

LEMMA IInvNext == IInv /\ [Next]_vars => IInv'
BY NextInv, RingKept, OnceKept DEF IInv

(* Every reachable state has the types declared for it; the tags, the      *)
(* calls, the lock and the messages are related as CallsInv says; the ring *)
(* keeps account of its submissions; and a command is at one place.        *)
THEOREM InductiveInvariant == Spec => []IInv
BY IInvInit, IInvNext, PTL DEF Spec

(* An entry of pending_entries never outlives the call whose stack it      *)
(* points into (__t2audio_send_cmd_sync, t2audio_handle_reply).            *)
THEOREM WaitersAlive == Spec => []NoDanglingWaiter
BY InductiveInvariant, PTL DEF IInv, CallsInv

(* No stale reply and no timeout of another call takes a waiter's entry    *)
(* away before the tags have come round.                                   *)
THEOREM WaitersKept == Spec => []WaiterRegistered
BY InductiveInvariant, PTL DEF IInv, CallsInv

(* A call is completed by the reply to its command, or by one at least     *)
(* TagCount commands older.                                                *)
THEOREM RepliesMatch == Spec => []ReplyMatches
BY InductiveInvariant, PTL DEF IInv, CallsInv

(* __t2audio_send, which has no error path, always finds room in the ring: *)
(* the reservation made before the lock was taken is still there.          *)
THEOREM SubmissionFits == Spec => []RoomToSubmit
<1>1. ASSUME IInv
      PROVE  RoomToSubmit
  <2>1. /\ available \in Nat /\ completed \in Nat /\ Len(out) \in Nat
        /\ spinlock \in Threads \union {NoThread}
    BY <1>1, LenProperties DEF IInv, CallsInv, TypeOK
  <2>2. ASSUME spinlock # NoThread
        PROVE  Len(out) < OutCapacity
    <3>1. \E t \in Threads : pc[t] = "locked"
      BY <1>1, <2>1, <2>2 DEF IInv, CallsInv, LockInv
    <3> QED
      BY <1>1, <2>1, <3>1, ReservingFinite, CapacityAssumption
         DEF IInv, RingInv
  <2> QED
    BY <2>2 DEF RoomToSubmit
<1> QED
  BY <1>1, InductiveInvariant, PTL

-----------------------------------------------------------------------------
(* The refinement of CommandRpc.  A step of a caller's thread that neither *)
(* begins nor ends a call, nor numbers a command, is a stutter, and so is  *)
(* every step of the works, the handlers and the device but the handling   *)
(* of a reply that has a waiter.                                           *)
RpcCalling == {c \in Callers : pc[c] # "idle"}

LEMMA CallingStays ==
  ASSUME TypeOK, NEW t, NEW place, pc' = [pc EXCEPT ![t] = place],
         t \in Callers => (pc[t] = "idle" <=> place = "idle")
  PROVE  RpcCalling' = RpcCalling
BY NoneIsNoThread DEF RpcCalling, TypeOK

(* A call that ends. *)
LEMMA RpcReturns ==
  ASSUME CallsInv, NEW c \in Callers, NEW o \in Rpc!Outcomes \ {"none"},
         pc[c] # "idle", pc' = [pc EXCEPT ![c] = "idle"],
         o = "replied" => got[c] # 0,
         o = "notsent" <=> mine[c] = 0,
         outcome' = [outcome EXCEPT ![c] = o],
         UNCHANGED <<mine, got, issued, answered>>
  PROVE  Rpc!Next
<1>1. RpcCalling' = RpcCalling \ {c} /\ c \in RpcCalling
  BY NoneIsNoThread DEF RpcCalling, CallsInv, TypeOK
<1>2. Rpc!Return(c, o)
  BY <1>1 DEF Rpc!Return, RpcCalling
<1> QED
  BY <1>2 DEF Rpc!Next

(* What t2audio_handle_reply gives a call is the reply to its command, or  *)
(* to one with the same tag, and was given to no call before.              *)
LEMMA RpcAnswers == ASSUME IInv, HandleReply PROVE Rpc!Next
<1> USE DEF IInv, CallsInv
<1>1. PICK reply : /\ in # <<>> /\ reply = Head(in)
                   /\ reply.type = "response"
                   /\ pending[reply.tag] # NoThread
                   /\ got' = [got EXCEPT ![pending[reply.tag]] = reply.serial]
                   /\ answered' = answered \union {reply.serial}
                   /\ UNCHANGED <<pc, mine, outcome, issued>>
  BY DEF HandleReply, In!Take, tagVars
<1> DEFINE c == pending[reply.tag]
           n == reply.serial
<1>2. 1 \in RepliesIn /\ in[1] = reply
  BY <1>1, TakeProperties DEF RepliesIn, TypeOK
<1>3. reply \in KnownMessages
  BY <1>2 DEF RepliesIn, MessageInv
<1>4. /\ n \in 1 .. issued /\ n \in Nat /\ issued \in Nat
      /\ reply.tag = TagOf(n) /\ reply.tag \in Tags
  BY <1>3, TagType DEF KnownMessages, TypeOK
<1>5. n <= mine[c]
  BY <1>1, <1>3 DEF KnownMessages
<1>6. c \in Callers /\ mine[c] \in Nat
  BY <1>1, <1>4 DEF TypeOK
<1>7. pc[c] \in {"waiting", "expired"} /\ TagOf(mine[c]) = reply.tag /\ got[c] = 0
  BY <1>1, <1>4 DEF NoDanglingWaiter
<1>8. n = mine[c] \/ n + TagCount <= mine[c]
  BY <1>4, <1>5, <1>6, <1>7, SameTag
<1>9. n \notin answered
  BY <1>2 DEF OnceInv, RepliedOnce
<1>10. c \in RpcCalling /\ RpcCalling' = RpcCalling
  BY <1>1, <1>6, <1>7 DEF RpcCalling
<1> HIDE DEF c, n
<1>11. got' = [got EXCEPT ![c] = n] /\ answered' = answered \union {n}
  BY <1>1 DEF c, n
<1>12. Rpc!Answer(c, n)
  BY <1>1, <1>4, <1>7, <1>8, <1>9, <1>10, <1>11 DEF Rpc!Answer, RpcCalling
<1> QED
  BY <1>4, <1>6, <1>12 DEF Rpc!Next

LEMMA RpcInit == Init => Rpc!Init
BY NoneIsNoThread DEF Init, Rpc!Init

LEMMA RpcNext == IInv /\ [Next]_vars => [Rpc!Next]_Rpc!rpcVars
<1> SUFFICES ASSUME IInv, [Next]_vars
             PROVE  [Rpc!Next]_Rpc!rpcVars
  OBVIOUS
<1> USE DEF tagVars, ringVars, callVars
<1>0. CallsInv /\ TypeOK /\ CallInv /\ LockInv
  BY DEF IInv, CallsInv
<1>1. ASSUME RpcCalling' = RpcCalling,
             UNCHANGED <<mine, got, outcome, issued, answered>>
      PROVE  [Rpc!Next]_Rpc!rpcVars
  BY <1>1 DEF Rpc!rpcVars, RpcCalling
<1>2. ASSUME NEW c \in Callers, Call(c)
      PROVE  Rpc!Next
  <2>1. RpcCalling' = RpcCalling \union {c} /\ c \notin RpcCalling
    BY <1>0, <1>2, NoneIsNoThread DEF Call, RpcCalling, TypeOK
  <2>2. Rpc!Call(c)
    BY <1>2, <2>1 DEF Call, Rpc!Call, RpcCalling
  <2> QED
    BY <2>2 DEF Rpc!Next
<1>3. ASSUME NEW c \in Callers, SendCommand(c)
      PROVE  [Rpc!Next]_Rpc!rpcVars
  <2>1. RpcCalling' = RpcCalling
    BY <1>0, <1>3, CallingStays DEF SendCommand, SubmitAndUnlock
  <2> QED
    BY <1>1, <1>3, <2>1 DEF SendCommand, SubmitAndUnlock
<1>4. ASSUME NEW c \in Callers, WaitReturns(c)
      PROVE  Rpc!Next
  BY <1>0, <1>4, RpcReturns DEF WaitReturns, Rpc!Outcomes, CallInv
<1>5. ASSUME NEW c \in Callers, WaitTimesOut(c)
      PROVE  [Rpc!Next]_Rpc!rpcVars
  <2>1. RpcCalling' = RpcCalling
    BY <1>0, <1>5, CallingStays DEF WaitTimesOut
  <2> QED
    BY <1>1, <1>5, <2>1 DEF WaitTimesOut
<1>6. ASSUME NEW c \in Callers, Expire(c)
      PROVE  Rpc!Next
  BY <1>0, <1>6, RpcReturns DEF Expire, Rpc!Outcomes, CallInv
<1>7. ASSUME NEW c \in Callers, NEW type \in {"command", "notification"},
             PrepareNew(c, type)
      PROVE  Rpc!Next
  <2>1. RpcCalling' = RpcCalling /\ c \in RpcCalling
    BY <1>0, <1>7, CallingStays, NoneIsNoThread DEF PrepareNew, RpcCalling
  <2>2. mine[c] = 0
    BY <1>0, <1>7 DEF PrepareNew, CallInv
  <2>3. Rpc!Issue(c)
    BY <1>7, <2>1, <2>2 DEF PrepareNew, Rpc!Issue, RpcCalling
  <2> QED
    BY <2>3 DEF Rpc!Next
<1>8. ASSUME NEW t \in Threads, Reserve(t)
      PROVE  [Rpc!Next]_Rpc!rpcVars
  <2>1. RpcCalling' = RpcCalling
    BY <1>0, <1>8, CallingStays DEF Reserve
  <2> QED
    BY <1>1, <1>8, <2>1 DEF Reserve
<1>9. ASSUME NEW t \in Threads, ReserveTimesOut(t) \/ SendOnly(t)
      PROVE  [Rpc!Next]_Rpc!rpcVars
  <2>1. CASE t \in Callers
    <3>1. CASE ReserveTimesOut(t)
      <4>1. outcome' = [outcome EXCEPT ![t] = "notsent"]
        BY <1>0, <3>1 DEF ReserveTimesOut, TypeOK
      <4>2. mine[t] = 0
        BY <1>0, <2>1, <3>1 DEF ReserveTimesOut, CallInv
      <4> QED
        BY <1>0, <2>1, <3>1, <4>1, <4>2, RpcReturns
           DEF ReserveTimesOut, Rpc!Outcomes
    <3>2. CASE SendOnly(t)
      <4>1. outcome' = [outcome EXCEPT ![t] = "sent"]
        BY <1>0, <3>2 DEF SendOnly, TypeOK
      <4>2. mine[t] # 0
        BY <1>0, <2>1, <3>2 DEF SendOnly, SubmitAndUnlock, LockInv
      <4> QED
        BY <1>0, <2>1, <3>2, <4>1, <4>2, RpcReturns
           DEF SendOnly, SubmitAndUnlock, Rpc!Outcomes
    <3> QED
      BY <1>9, <3>1, <3>2
  <2>2. CASE t \notin Callers
    <3>1. outcome' = outcome
      BY <1>0, <1>9, <2>2 DEF ReserveTimesOut, SendOnly, TypeOK
    <3>2. RpcCalling' = RpcCalling
      BY <1>0, <1>9, <2>2, CallingStays
         DEF ReserveTimesOut, SendOnly, SubmitAndUnlock
    <3> QED
      BY <1>1, <1>9, <3>1, <3>2 DEF ReserveTimesOut, SendOnly, SubmitAndUnlock
  <2> QED
    BY <2>1, <2>2
<1>10. ASSUME NEW w \in Works, PrepareResponse(w) \/ HandleDeviceCommand(w)
       PROVE  [Rpc!Next]_Rpc!rpcVars
  <2>1. RpcCalling' = RpcCalling
    BY <1>0, <1>10, CallingStays, NoneIsNoThread
       DEF PrepareResponse, HandleDeviceCommand
  <2> QED
    BY <1>1, <1>10, <2>1 DEF PrepareResponse, HandleDeviceCommand
<1>11. CASE \/ OutQueueCompletion \/ HandleStaleReply \/ HandleAndForget
            \/ DeviceReads \/ DeviceReplies \/ DeviceSends
  <2>1. UNCHANGED <<pc, mine, got, outcome, issued, answered>>
    BY <1>11 DEF OutQueueCompletion, HandleStaleReply, HandleAndForget,
                 DeviceReads, DeviceReplies, DeviceSends
  <2> QED
    BY <1>1, <2>1 DEF RpcCalling
<1>12. CASE UNCHANGED vars
  BY <1>1, <1>12 DEF vars, RpcCalling
<1> QED
  BY <1>2, <1>3, <1>4, <1>5, <1>6, <1>7, <1>8, <1>9, <1>10, <1>11, <1>12,
     RpcAnswers, Steps

(* The transport keeps the promise of CommandRpc, for any number of        *)
(* callers, works, tags and ring elements: every answer is the answer to   *)
(* the command of its call, or TagCount commands older, and none is given  *)
(* twice.                                                                  *)
THEOREM Refinement == Spec => ImplementsRpc
<1>1. Spec => Rpc!Init /\ [][Rpc!Next]_Rpc!rpcVars
  BY RpcInit, RpcNext, InductiveInvariant, PTL DEF Spec
<1> QED
  BY <1>1 DEF ImplementsRpc, Rpc!Spec
=============================================================================
