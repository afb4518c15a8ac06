---------------------------- MODULE BceTransport ----------------------------
(***************************************************************************)
(* The message transport of protocol_bce.c and protocol_bce.h: threads of  *)
(* the driver send commands, notifications and responses over one link,    *)
(* and the completion handler takes replies and the device's own commands  *)
(* off another.  A command is matched with its reply by a tag, an entry of *)
(* pending_entries that points into the stack of the waiting thread.       *)
(*                                                                         *)
(* The links are those OutQueue and EventQueue implement.  The tag number  *)
(* wraps at TagCount, so commands also carry, here only, their number in   *)
(* the order of issue ("serial"), which shows whose reply a reply is.      *)
(***************************************************************************)
EXTENDS Naturals, Sequences, FiniteSets

CONSTANTS
  Callers,      \* threads that send commands and notifications
  Works,        \* deferred works (t2audio_deferred_msg) there may be at once
  NoThread,     \* no thread at all: NULL
  TagCount,     \* T2AUDIO_BCE_QUEUE_TAG_COUNT
  OutCapacity,  \* submissions the IntelToARM ring hands out at a time
  InCapacity,   \* slots the ARMToIntel buffer has
  MaxIssued     \* bound on the tags created in a behaviour

Threads == Callers \union Works

ASSUME TagCountAssumption == TagCount \in Nat \ {0}
ASSUME ThreadsAssumption ==
  /\ Callers \intersect Works = {}
  /\ NoThread \notin Threads
  /\ IsFiniteSet(Threads)
ASSUME CapacityAssumption == OutCapacity \in Nat

VARIABLES
  pc,         \* where a thread is in the send macro
  mine,       \* serial of the tag a caller's call created, 0 for none
  got,        \* serial of the reply its call was completed with, 0 for none
  outcome,    \* how a caller's last call ended
  spinlock,   \* who holds b->spinlock, or NoThread
  draft,      \* the message the holder of the lock is writing
  tagNum,     \* b->tag_num
  pending,    \* b->pending_entries: whose stack an entry points into
  available,  \* free submissions of the IntelToARM ring
  completed,  \* its submissions finished by the device, not handled yet
  out,        \* IntelToARM link
  in,         \* ARMToIntel link
  asked,      \* commands the device has read and not replied to
  issued,     \* serials given so far
  answered    \* serials whose reply has completed a call

callVars == <<mine, got, outcome>>
tagVars == <<tagNum, issued>>
ringVars == <<available, completed>>
vars == <<pc, callVars, spinlock, draft, tagVars, pending, ringVars, out, in,
          asked, answered>>

Tags == 0 .. TagCount - 1
TagOf(serial) == serial % TagCount

(* A message: its type, its tag and its serial. *)
Msg(type, serial) == [type |-> type, tag |-> TagOf(serial), serial |-> serial]

Types == {"command", "notification", "response"}
Messages == [type : Types, tag : Tags, serial : Nat]
NoDraft == Msg("response", 0)

Out == INSTANCE Link WITH chan <- out, Message <- Messages, Capacity <- OutCapacity
In == INSTANCE Link WITH chan <- in, Message <- Messages, Capacity <- InCapacity

PcValues == {"idle", "calling", "reserved", "locked", "waiting", "expired"}

Init ==
  /\ pc = [t \in Threads |-> "idle"]
  /\ mine = [c \in Callers |-> 0]
  /\ got = [c \in Callers |-> 0]
  /\ outcome = [c \in Callers |-> "none"]
  /\ spinlock = NoThread
  /\ draft = NoDraft
  /\ tagNum = 0
  /\ pending = [g \in Tags |-> NoThread]
  /\ available = OutCapacity
  /\ completed = 0
  /\ out = <<>>
  /\ in = <<>>
  /\ asked = {}
  /\ issued = 0
  /\ answered = {}

-----------------------------------------------------------------------------
(* The send macros. *)

(* The callers that have still to create a tag. *)
Untagged == {c \in Callers : pc[c] \in {"calling", "reserved"}}

(* A thread enters t2audio_send_cmd_sync or t2audio_send. *)
Call(c) ==
  /\ pc[c] = "idle"
  /\ issued + Cardinality(Untagged) < MaxIssued
  /\ pc' = [pc EXCEPT ![c] = "calling"]
  /\ mine' = [mine EXCEPT ![c] = 0]
  /\ got' = [got EXCEPT ![c] = 0]
  /\ outcome' = [outcome EXCEPT ![c] = "none"]
  /\ UNCHANGED <<spinlock, draft, tagVars, pending, ringVars, out, in, asked,
                 answered>>

(* __t2audio_send_prepare, before the lock: a submission is reserved, *)
Reserve(t) ==
  /\ pc[t] = "calling"
  /\ available > 0
  /\ available' = available - 1
  /\ pc' = [pc EXCEPT ![t] = "reserved"]
  /\ UNCHANGED <<callVars, spinlock, draft, tagVars, pending, completed, out,
                 in, asked, answered>>

(* or none becomes free in time and the macro yields the error. *)
ReserveTimesOut(t) ==
  /\ pc[t] = "calling"
  /\ available = 0
  /\ pc' = [pc EXCEPT ![t] = "idle"]
  /\ outcome' = [c \in Callers |-> IF c = t THEN "notsent" ELSE outcome[c]]
  /\ UNCHANGED <<mine, got, spinlock, draft, tagVars, pending, ringVars, out,
                 in, asked, answered>>

(* Its rest for a message with a new tag, and the macro's fn(&msg). *)
PrepareNew(c, type) ==
  /\ pc[c] = "reserved"
  /\ spinlock = NoThread
  /\ spinlock' = c
  /\ tagNum' = (tagNum + 1) % TagCount
  /\ issued' = issued + 1
  /\ mine' = [mine EXCEPT ![c] = issued + 1]
  /\ draft' = [type |-> type, tag |-> tagNum', serial |-> issued + 1]
  /\ pc' = [pc EXCEPT ![c] = "locked"]
  /\ UNCHANGED <<got, outcome, pending, ringVars, out, in, asked, answered>>

(* The same for a response, which has the tag of the device's command. *)
PrepareResponse(w) ==
  /\ pc[w] = "reserved"
  /\ spinlock = NoThread
  /\ spinlock' = w
  /\ draft' = NoDraft
  /\ pc' = [pc EXCEPT ![w] = "locked"]
  /\ UNCHANGED <<callVars, tagVars, pending, ringVars, out, in, asked, answered>>

(* Mutant: the lock is kept. *)
SubmitOnly(t) ==
  /\ pc[t] = "locked"
  /\ Out!Put(draft)
  /\ draft' = NoDraft
  /\ UNCHANGED spinlock

(* __t2audio_send: the message goes out and the lock is dropped. *)
SubmitAndUnlock(t) ==
  /\ pc[t] = "locked"
  /\ Out!Put(draft)
  /\ spinlock' = NoThread
  /\ draft' = NoDraft

(* __t2audio_send_cmd_sync up to the wait: the waiter is registered first. *)
SendCommand(c) ==
  /\ draft.type = "command"
  /\ SubmitAndUnlock(c)
  /\ pending' = [pending EXCEPT ![draft.tag] = c]
  /\ pc' = [pc EXCEPT ![c] = "waiting"]
  /\ UNCHANGED <<callVars, tagVars, ringVars, in, asked, answered>>

(* t2audio_send of a notification, t2audio_send_with_tag of a response. *)
SendOnly(t) ==
  /\ draft.type # "command"
  /\ SubmitAndUnlock(t)
  /\ pc' = [pc EXCEPT ![t] = "idle"]
  /\ outcome' = [c \in Callers |-> IF c = t THEN "sent" ELSE outcome[c]]
  /\ UNCHANGED <<mine, got, tagVars, pending, ringVars, in, asked, answered>>

(* wait_for_completion_timeout returns: with time left when the call was   *)
(* completed,                                                              *)
WaitReturns(c) ==
  /\ pc[c] = "waiting"
  /\ got[c] # 0
  /\ pc' = [pc EXCEPT ![c] = "idle"]
  /\ outcome' = [outcome EXCEPT ![c] = "replied"]
  /\ UNCHANGED <<mine, got, spinlock, draft, tagVars, pending, ringVars, out,
                 in, asked, answered>>

(* with none when it was not. *)
WaitTimesOut(c) ==
  /\ pc[c] = "waiting"
  /\ got[c] = 0
  /\ pc' = [pc EXCEPT ![c] = "expired"]
  /\ UNCHANGED <<callVars, spinlock, draft, tagVars, pending, ringVars, out,
                 in, asked, answered>>

(* Mutants: the waiter is left registered; whoever is registered is removed. *)
ExpireRegistered(c) ==
  /\ pc[c] = "expired"
  /\ spinlock = NoThread
  /\ pc' = [pc EXCEPT ![c] = "idle"]
  /\ outcome' = [outcome EXCEPT ![c] = "timedout"]
  /\ UNCHANGED <<mine, got, spinlock, draft, tagVars, pending, ringVars, out,
                 in, asked, answered>>

ExpireAnyone(c) ==
  /\ pc[c] = "expired"
  /\ spinlock = NoThread
  /\ pending' = [pending EXCEPT ![TagOf(mine[c])] = NoThread]
  /\ pc' = [pc EXCEPT ![c] = "idle"]
  /\ outcome' = [outcome EXCEPT ![c] = "timedout"]
  /\ UNCHANGED <<mine, got, spinlock, draft, tagVars, ringVars, out, in, asked,
                 answered>>

(* The waiter is removed, unless the entry is no more its own, and the     *)
(* call returns -ETIMEDOUT.                                                *)
Expire(c) ==
  /\ pc[c] = "expired"
  /\ spinlock = NoThread
  /\ LET tag == TagOf(mine[c]) IN
       pending' = IF pending[tag] = c THEN [pending EXCEPT ![tag] = NoThread]
                                      ELSE pending
  /\ pc' = [pc EXCEPT ![c] = "idle"]
  /\ outcome' = [outcome EXCEPT ![c] = "timedout"]
  /\ UNCHANGED <<mine, got, spinlock, draft, tagVars, ringVars, out, in, asked,
                 answered>>
-----------------------------------------------------------------------------
(* The completion handlers. *)

(* Mutant: the completions stay to be handled again. *)
CompletionStays ==
  /\ completed > 0
  /\ available' = available + completed
  /\ UNCHANGED <<pc, callVars, spinlock, draft, tagVars, pending, completed,
                 out, in, asked, answered>>

(* t2audio_bce_out_queue_completion. *)
OutQueueCompletion ==
  /\ completed > 0
  /\ available' = available + completed
  /\ completed' = 0
  /\ UNCHANGED <<pc, callVars, spinlock, draft, tagVars, pending, out, in,
                 asked, answered>>

(* Mutants: the reply goes to any waiter; the waiter stays registered. *)
ReplyToAnyone ==
  \E reply \in {in[i] : i \in DOMAIN in}, g \in Tags :
    /\ In!Take(reply)
    /\ reply.type = "response"
    /\ spinlock = NoThread
    /\ pending[g] # NoThread
    /\ got' = [got EXCEPT ![pending[g]] = reply.serial]
    /\ answered' = answered \union {reply.serial}
    /\ pending' = [pending EXCEPT ![g] = NoThread]
    /\ UNCHANGED <<pc, mine, outcome, spinlock, draft, tagVars, ringVars, out,
                   asked>>

ReplyKeepsEntry ==
  \E reply \in {in[i] : i \in DOMAIN in} :
    /\ In!Take(reply)
    /\ reply.type = "response"
    /\ spinlock = NoThread
    /\ pending[reply.tag] # NoThread
    /\ got' = [got EXCEPT ![pending[reply.tag]] = reply.serial]
    /\ answered' = answered \union {reply.serial}
    /\ UNCHANGED <<pc, mine, outcome, spinlock, draft, tagVars, pending,
                   ringVars, out, asked>>

(* t2audio_handle_reply, on the message the in queue's handler is at: the  *)
(* waiter registered for the tag gets the reply and is removed.            *)
HandleReply ==
  \E reply \in {in[i] : i \in DOMAIN in} :
    /\ In!Take(reply)
    /\ reply.type = "response"
    /\ spinlock = NoThread
    /\ pending[reply.tag] # NoThread
    /\ LET entry == pending[reply.tag] IN
         /\ got' = [got EXCEPT ![entry] = reply.serial]
         /\ answered' = answered \union {reply.serial}
    /\ pending' = [pending EXCEPT ![reply.tag] = NoThread]
    /\ UNCHANGED <<pc, mine, outcome, spinlock, draft, tagVars, ringVars, out,
                   asked>>

(* No waiter: "stale reply without queued command". *)
HandleStaleReply ==
  \E reply \in {in[i] : i \in DOMAIN in} :
    /\ In!Take(reply)
    /\ reply.type = "response"
    /\ spinlock = NoThread
    /\ pending[reply.tag] = NoThread
    /\ UNCHANGED <<pc, callVars, spinlock, draft, tagVars, pending, ringVars,
                   out, asked, answered>>

(* A command of the device's: a deferred work is scheduled, which will     *)
(* send the response.                                                      *)
HandleDeviceCommand(w) ==
  \E msg \in {in[i] : i \in DOMAIN in} :
    /\ In!Take(msg)
    /\ msg.type = "command"
    /\ pc[w] = "idle"
    /\ pc' = [pc EXCEPT ![w] = "calling"]
    /\ UNCHANGED <<callVars, spinlock, draft, tagVars, pending, ringVars, out,
                   asked, answered>>

(* A message that leaves no trace here: a notification, whose work sends   *)
(* nothing, one shorter than a header, or one there was no memory to copy. *)
HandleAndForget ==
  \E msg \in {in[i] : i \in DOMAIN in} :
    /\ In!Take(msg)
    /\ msg.type # "response"
    /\ UNCHANGED <<pc, callVars, spinlock, draft, tagVars, pending, ringVars,
                   out, asked, answered>>
-----------------------------------------------------------------------------
(* The device. *)

(* It reads a message; a command it may reply to, sooner or later. *)
DeviceReads ==
  \E msg \in {out[i] : i \in DOMAIN out} :
    /\ Out!Take(msg)
    /\ completed' = completed + 1
    /\ asked' = IF msg.type = "command" THEN asked \union {msg} ELSE asked
    /\ UNCHANGED <<pc, callVars, spinlock, draft, tagVars, pending, available,
                   in, answered>>

(* It replies to a command, with its tag and once. *)
DeviceReplies ==
  \E msg \in asked :
    /\ In!Put([msg EXCEPT !.type = "response"])
    /\ asked' = asked \ {msg}
    /\ UNCHANGED <<pc, callVars, spinlock, draft, tagVars, pending, ringVars,
                   out, answered>>

(* It sends a command of its own. *)
DeviceSends ==
  /\ In!Put(Msg("command", 0))
  /\ UNCHANGED <<pc, callVars, spinlock, draft, tagVars, pending, ringVars,
                 out, asked, answered>>

-----------------------------------------------------------------------------
SendStep(t) ==
  \/ Reserve(t) \/ ReserveTimesOut(t)
  \/ SendOnly(t)

CallerStep(c) ==
  \/ SendStep(c)
  \/ \E type \in {"command", "notification"} : PrepareNew(c, type)
  \/ SendCommand(c)
  \/ WaitReturns(c) \/ WaitTimesOut(c)
  \/ Expire(c)

WorkStep(w) == SendStep(w) \/ PrepareResponse(w)

HandlerStep ==
  \/ OutQueueCompletion
  \/ HandleReply \/ HandleStaleReply
  \/ \E w \in Works : HandleDeviceCommand(w)
  \/ HandleAndForget

DeviceStep ==
  \/ DeviceReads
  \/ DeviceReplies
  \/ DeviceSends

Next ==
  \/ \E c \in Callers : Call(c) \/ CallerStep(c)
  \/ \E w \in Works : WorkStep(w)
  \/ HandlerStep
  \/ DeviceStep

Spec == Init /\ [][Next]_vars

(* Threads are scheduled, timeouts run out and the (queued, hence fair)    *)
(* spinlock is got by a thread that keeps trying.  Nothing is assumed of   *)
(* the device or of the completion interrupt.                              *)
Fairness ==
  /\ \A c \in Callers : SF_vars(CallerStep(c))
  /\ \A w \in Works : SF_vars(WorkStep(w))

FairSpec == Spec /\ Fairness

-----------------------------------------------------------------------------
TypeOK ==
  /\ pc \in [Threads -> PcValues]
  /\ mine \in [Callers -> Nat]
  /\ got \in [Callers -> Nat]
  /\ outcome \in [Callers -> {"none", "replied", "sent", "timedout", "notsent"}]
  /\ spinlock \in Threads \union {NoThread}
  /\ draft \in Messages
  /\ tagNum \in Tags
  /\ pending \in [Tags -> Callers \union {NoThread}]
  /\ available \in Nat
  /\ completed \in Nat
  /\ out \in Seq(Messages)
  /\ in \in Seq(Messages)
  /\ asked \subseteq Messages
  /\ issued \in Nat
  /\ answered \subseteq Nat

(* An entry of pending_entries points into the stack of a thread that is   *)
(* still inside the call that made it, and was not completed before: a     *)
(* late reply never writes to a stack object that is gone                  *)
(* (__t2audio_send_cmd_sync and t2audio_handle_reply).                     *)
NoDanglingWaiter ==
  \A g \in Tags :
    LET c == pending[g] IN
      c # NoThread =>
        /\ pc[c] \in {"waiting", "expired"}
        /\ TagOf(mine[c]) = g
        /\ got[c] = 0

(* A thread that waits for a reply is registered under its tag, so that    *)
(* the reply will find it, unless the tags have come round since: neither  *)
(* a stale reply nor the timeout of an earlier command with the same tag   *)
(* takes its entry away.                                                   *)
WaiterRegistered ==
  \A c \in Callers :
    (pc[c] = "waiting" /\ got[c] = 0) =>
      \/ pending[TagOf(mine[c])] = c
      \/ mine[c] + TagCount <= issued

(* A call is completed by the reply to its own command, or by one to a     *)
(* command that was issued at least TagCount tags before.                  *)
ReplyMatches ==
  \A c \in Callers :
    got[c] # 0 => got[c] = mine[c] \/ got[c] + TagCount <= mine[c]

(* __t2audio_send has no error path: the reservation made before the lock  *)
(* was taken guarantees that the ring takes the submission.                *)
RoomToSubmit == spinlock # NoThread => Len(out) < OutCapacity

-----------------------------------------------------------------------------
(* The parts of the inductive invariant. *)

(* What is left of a call is registered nowhere until the command is sent, *)
(* and a caller's serial is its own.                                       *)
CallInv ==
  /\ \A c \in Callers : mine[c] <= issued
  /\ \A c \in Callers : pc[c] \in {"calling", "reserved"} => mine[c] = 0
  /\ \A c \in Callers : pc[c] \in {"calling", "reserved", "locked"} => got[c] = 0
  /\ \A c \in Callers : pc[c] \in {"waiting", "expired"} => mine[c] # 0
  /\ \A c, d \in Callers : c # d /\ mine[c] # 0 => mine[c] # mine[d]

(* The lock is held by the one thread that writes a message; a caller's    *)
(* message has the latest tag.                                             *)
LockInv ==
  /\ \A t \in Threads : (pc[t] = "locked") <=> (spinlock = t)
  /\ \A w \in Works : spinlock = w => draft.type # "command"
  /\ \A c \in Callers : spinlock = c =>
       /\ mine[c] = issued
       /\ issued # 0
       /\ draft.serial = issued
       /\ draft.tag = TagOf(issued)

(* A command on its way, and a reply to it, bear the tag of its serial;    *)
(* the waiter registered under that tag is not older than it.              *)
KnownMessages ==
  {msg \in Messages :
     /\ msg.serial \in 1 .. issued
     /\ msg.tag = TagOf(msg.serial)
     /\ pending[msg.tag] # NoThread => msg.serial <= mine[pending[msg.tag]]}

MessageInv ==
  /\ \A i \in 1 .. Len(out) : out[i].type = "command" => out[i] \in KnownMessages
  /\ asked \subseteq KnownMessages
  /\ \A i \in 1 .. Len(in) : in[i].type = "response" => in[i] \in KnownMessages

TagInv == tagNum = TagOf(issued)

(* Every submission is free, is reserved for a message yet to be sent, is  *)
(* on its way or waits for its completion to be handled.                   *)
Reserving == {t \in Threads : pc[t] \in {"reserved", "locked"}}

RingInv ==
  available + completed + Len(out) + Cardinality(Reserving) = OutCapacity

(* A command is at one place: it is being written, on its way, with the    *)
(* device, or its reply is on its way or has completed a call.             *)
CommandsOut == {i \in 1 .. Len(out) : out[i].type = "command"}
RepliesIn == {i \in 1 .. Len(in) : in[i].type = "response"}

OutOnce ==
  \A i \in CommandsOut :
    /\ \A j \in CommandsOut : out[i].serial = out[j].serial => i = j
    /\ \A msg \in asked : out[i].serial # msg.serial
    /\ \A j \in RepliesIn : out[i].serial # in[j].serial
    /\ out[i].serial \notin answered

AskedOnce ==
  \A msg \in asked :
    /\ \A other \in asked : msg.serial = other.serial => msg = other
    /\ \A j \in RepliesIn : msg.serial # in[j].serial
    /\ msg.serial \notin answered

RepliedOnce ==
  \A j \in RepliesIn :
    /\ \A k \in RepliesIn : in[j].serial = in[k].serial => j = k
    /\ in[j].serial \notin answered

DraftOnce ==
  draft.type = "command" =>
    /\ \A i \in CommandsOut : out[i].serial # draft.serial
    /\ \A msg \in asked : msg.serial # draft.serial
    /\ \A j \in RepliesIn : in[j].serial # draft.serial
    /\ draft.serial \notin answered

OnceInv ==
  /\ OutOnce /\ AskedOnce /\ RepliedOnce /\ DraftOnce
  /\ \A n \in answered : n <= issued

CallsInv ==
  /\ TypeOK
  /\ TagInv
  /\ CallInv
  /\ LockInv
  /\ MessageInv
  /\ NoDanglingWaiter
  /\ WaiterRegistered
  /\ ReplyMatches

IInv == CallsInv /\ RingInv /\ OnceInv

-----------------------------------------------------------------------------
(* The transport keeps the promise of CommandRpc: no reply serves two      *)
(* calls, none is invented, and a call that says it was answered was.      *)
Rpc == INSTANCE CommandRpc WITH
  calling <- {c \in Callers : pc[c] # "idle"}, StaleAge <- TagCount

ImplementsRpc == Rpc!Spec

(* Every call returns, whatever the device does: the waits have timeouts   *)
(* and no thread keeps the lock.                                           *)
CallsReturn == \A c \in Callers : (pc[c] # "idle") ~> (pc[c] = "idle")
=============================================================================
