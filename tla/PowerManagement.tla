-------------------------- MODULE PowerManagement --------------------------
(***************************************************************************)
(* Suspend, resume and shutdown of the audio driver, audio.c.  Three       *)
(* threads share pm_quiesced and resume_deferred without a lock: the power *)
(* management core, which calls the driver's callbacks one after another;  *)
(* t2bce, which calls t2audio_resume_complete when it is up again; and the *)
(* work t2audio_resume_work.  The first and the last tell the device, with *)
(* a command that may fail or time out, whether the host has access.       *)
(*                                                                         *)
(* The command transport is BceTransport, of which only the order of the   *)
(* requests and the end of a call are left here; stopping the streams is   *)
(* in PcmStream.                                                           *)
(***************************************************************************)
EXTENDS Naturals, Sequences

CONSTANTS
  MaxSleeps,  \* bound on the suspends of a behaviour
  MaxSent     \* set-remote-access requests the link holds

ASSUME BoundsAssumption == MaxSleeps \in Nat /\ MaxSent \in Nat

VARIABLES
  phase,      \* of the system, as the callbacks tell it
  op,         \* the callback the PM core is in
  pc,         \* where the PM core's thread and the work are
  quiesced,   \* pm_quiesced
  deferred,   \* resume_deferred
  noticed,    \* t2audio_resume_complete has seen resume_deferred set
  queued,     \* resume_work is queued
  sent,       \* the requests on their way to the device, in order
  reply,      \* the device's answer to a waiting thread
  access,     \* the remote access the device has applied
  stale,      \* the clock and stream state is from before a sleep
  sleeps,     \* suspends so far
  failed,     \* a command has failed, or a resume
  lateOn,     \* a request to turn the access on has timed out
  overlap,    \* a quiesce was skipped while a resume was due or at work
  slipped     \* a work has passed its test inside a quiesce

flags == <<quiesced, deferred>>
resumeVars == <<noticed, queued>>
linkVars == <<sent, reply>>
ghosts == <<failed, lateOn, overlap, slipped>>
vars == <<phase, op, pc, flags, resumeVars, linkVars, access, stale, sleeps,
          ghosts>>

Threads == {"pm", "work"}
Quiesces == {"prepare", "suspend", "shutdown"}

(* What a thread's request asks for. *)
Wanted(t) == IF t = "pm" /\ op \in Quiesces THEN "off" ELSE "on"

(* t2audio_probe has turned the access on. *)
Init ==
  /\ phase = "running"
  /\ op = "none"
  /\ pc = [t \in Threads |-> "idle"]
  /\ quiesced = FALSE
  /\ deferred = FALSE
  /\ noticed = FALSE
  /\ queued = FALSE
  /\ sent = <<>>
  /\ reply = [t \in Threads |-> "none"]
  /\ access = "on"
  /\ stale = FALSE
  /\ sleeps = 0
  /\ failed = FALSE
  /\ lateOn = FALSE
  /\ overlap = FALSE
  /\ slipped = FALSE

-----------------------------------------------------------------------------
(* t2audio_cmd_set_remote_access. *)

(* The request is sent, *)
SendAccess(t) ==
  /\ pc[t] = "sending"
  /\ Len(sent) < MaxSent
  /\ sent' = Append(sent, [from |-> t, mode |-> Wanted(t)])
  /\ reply' = [reply EXCEPT ![t] = "none"]
  /\ pc' = [pc EXCEPT ![t] = "waiting"]
  /\ UNCHANGED <<phase, op, flags, resumeVars, access, stale, sleeps, ghosts>>

(* and answered, or not in time.  A request that nobody waits for any more *)
(* stays on its way.                                                       *)
Abandoned(t) ==
  [i \in DOMAIN sent |->
     IF sent[i].from = t THEN [sent[i] EXCEPT !.from = "nobody"] ELSE sent[i]]

(* The call ends with a status: "ok", or the error of a request that could *)
(* not be sent, was refused, or was not answered in time.  The thread goes  *)
(* on at next.                                                             *)
AccessCallEnds(t, status, next) ==
  /\ \/ pc[t] = "sending" /\ status = "notsent"
     \/ pc[t] = "waiting" /\ reply[t] # "none" /\ status = reply[t]
     \/ pc[t] = "waiting" /\ reply[t] = "none" /\ status = "timedout"
  /\ sent' = Abandoned(t)
  /\ reply' = [reply EXCEPT ![t] = "none"]
  /\ pc' = [pc EXCEPT ![t] = next]
  /\ failed' = (failed \/ status # "ok")
  /\ lateOn' = (lateOn \/ (status = "timedout" /\ Wanted(t) = "on"))

(* The device applies the oldest request and answers it, perhaps too late  *)
(* ("none"), or refuses it.                                                *)
DeviceApplies ==
  /\ sent # <<>>
  /\ LET request == Head(sent) IN
       \E answer \in {"ok", "refused", "none"} :
         /\ access' = IF answer = "refused" THEN access ELSE request.mode
         /\ reply' = [t \in Threads |->
                        IF t = request.from THEN answer ELSE reply[t]]
  /\ sent' = Tail(sent)
  /\ UNCHANGED <<phase, op, pc, flags, resumeVars, stale, sleeps, ghosts>>

-----------------------------------------------------------------------------
(* t2audio_quiesce and its four callers. *)

(* When a callback may be called, and the phase it leaves the system in:   *)
(* t2bce prepares its clients before or after the audio function is        *)
(* suspended, and shuts them down after it.                                *)
CalledIn(o) ==
  CASE o = "prepare"  -> {"running", "preparing", "asleep"}
    [] o = "suspend"  -> {"running", "preparing"}
    [] o = "shutdown" -> {"running", "down"}

PhaseAfter(o) ==
  CASE o = "prepare"  -> IF phase = "running" THEN "preparing" ELSE phase
    [] o = "suspend"  -> "asleep"
    [] o = "shutdown" -> "down"

MayCall(o) ==
  /\ op = "none"
  /\ phase \in CalledIn(o)
  /\ o = "suspend" => sleeps < MaxSleeps

(* The callback returns whatever the quiesce has returned. *)
CallbackReturns(o) ==
  /\ op' = "none"
  /\ phase' = PhaseAfter(o)
  /\ IF o = "suspend" THEN sleeps' = sleeps + 1 /\ stale' = TRUE
                      ELSE UNCHANGED <<sleeps, stale>>

(* pm_quiesced: nothing is done. *)
QuiesceSkipped(o) ==
  /\ MayCall(o)
  /\ quiesced
  /\ CallbackReturns(o)
  /\ overlap' = (overlap \/ deferred \/ pc["work"] # "idle")
  /\ UNCHANGED <<pc, flags, resumeVars, linkVars, access, failed, lateOn,
                 slipped>>

QuiesceStarts(o) ==
  /\ MayCall(o)
  /\ ~quiesced
  /\ op' = o
  /\ UNCHANGED <<phase, pc, flags, resumeVars, linkVars, access, stale, sleeps,
                 ghosts>>

(* Mutant: a queued or running resume_work is left alone. *)
QuiesceCancelsNothing ==
  /\ op \in Quiesces
  /\ pc["pm"] = "idle"
  /\ pc' = [pc EXCEPT !["pm"] = "cancelled"]
  /\ slipped' = FALSE
  /\ UNCHANGED <<phase, op, flags, resumeVars, linkVars, access, stale, sleeps,
                 failed, lateOn, overlap>>

(* cancel_work_sync, which waits until resume_work does not run. *)
QuiesceCancels ==
  /\ op \in Quiesces
  /\ pc["pm"] = "idle"
  /\ pc["work"] = "idle"
  /\ queued' = FALSE
  /\ pc' = [pc EXCEPT !["pm"] = "cancelled"]
  /\ slipped' = FALSE
  /\ UNCHANGED <<phase, op, flags, noticed, linkVars, access, stale, sleeps,
                 failed, lateOn, overlap>>

(* Mutant: resume_deferred is left as it is. *)
QuiesceKeepsDeferred ==
  /\ pc["pm"] = "cancelled"
  /\ pc' = [pc EXCEPT !["pm"] = "sending"]
  /\ overlap' = FALSE
  /\ UNCHANGED <<phase, op, flags, resumeVars, linkVars, access, stale, sleeps,
                 failed, lateOn, slipped>>

(* Only then resume_deferred is reset: t2audio_resume_complete may have    *)
(* scheduled the work once more, and the work may have passed its test.    *)
QuiesceResets ==
  /\ pc["pm"] = "cancelled"
  /\ deferred' = FALSE
  /\ pc' = [pc EXCEPT !["pm"] = "sending"]
  /\ overlap' = FALSE
  /\ UNCHANGED <<phase, op, quiesced, resumeVars, linkVars, access, stale,
                 sleeps, failed, lateOn, slipped>>

(* Mutant: the driver counts as quiesced although the command failed. *)
QuiesceEndsAnyhow(status) ==
  /\ op \in Quiesces
  /\ AccessCallEnds("pm", status, "idle")
  /\ quiesced' = TRUE
  /\ CallbackReturns(op)
  /\ UNCHANGED <<deferred, resumeVars, access, overlap, slipped>>

(* The access is off and pm_quiesced set, or it is not and the next        *)
(* quiesce will try again.                                                 *)
QuiesceEnds(status) ==
  /\ op \in Quiesces
  /\ AccessCallEnds("pm", status, "idle")
  /\ quiesced' = (quiesced \/ status = "ok")
  /\ CallbackReturns(op)
  /\ UNCHANGED <<deferred, resumeVars, access, overlap, slipped>>

-----------------------------------------------------------------------------
(* t2audio_resume. *)

(* The PCI device cannot be enabled. *)
ResumeFails ==
  /\ op = "none"
  /\ phase = "asleep"
  /\ phase' = "running"
  /\ failed' = TRUE
  /\ UNCHANGED <<op, pc, flags, resumeVars, linkVars, access, stale, sleeps,
                 lateOn, overlap, slipped>>

(* The firmware has kept its state: the work will do the rest. *)
ResumeStateful ==
  /\ op = "none"
  /\ phase = "asleep"
  /\ phase' = "running"
  /\ deferred' = TRUE
  /\ UNCHANGED <<op, pc, quiesced, resumeVars, linkVars, access, stale, sleeps,
                 ghosts>>

(* It has not: the access is turned on here. *)
ResumeNoState ==
  /\ op = "none"
  /\ phase = "asleep"
  /\ op' = "resume"
  /\ pc' = [pc EXCEPT !["pm"] = "sending"]
  /\ UNCHANGED <<phase, flags, resumeVars, linkVars, access, stale, sleeps,
                 ghosts>>

(* resume_deferred is reset when the access is on, and then the rest. *)
ResumeEnds(status) ==
  /\ op = "resume"
  /\ AccessCallEnds("pm", status, IF status = "ok" THEN "clearing" ELSE "idle")
  /\ IF status = "ok"
       THEN deferred' = FALSE /\ UNCHANGED <<op, phase>>
       ELSE op' = "none" /\ phase' = "running" /\ UNCHANGED deferred
  /\ UNCHANGED <<quiesced, resumeVars, access, stale, sleeps, overlap, slipped>>

(* What t2audio_resume and t2audio_resume_work do one after the other once *)
(* the access is on: pm_quiesced is reset,                                 *)
ClearsQuiesced(t) ==
  /\ pc[t] = "clearing"
  /\ quiesced' = FALSE
  /\ pc' = [pc EXCEPT ![t] = "resetting"]
  /\ UNCHANGED <<phase, op, deferred, resumeVars, linkVars, access, stale,
                 sleeps, ghosts>>

(* Mutant: the clock and the streams are not reset. *)
ResetsNothing(t) ==
  /\ pc[t] = "resetting"
  /\ pc' = [pc EXCEPT ![t] = "idle"]
  /\ IF t = "pm" THEN op' = "none" /\ phase' = "running"
                 ELSE UNCHANGED <<op, phase>>
  /\ UNCHANGED <<flags, resumeVars, linkVars, access, stale, sleeps, ghosts>>

(* and the clock and the streams are. *)
ResetsStreams(t) ==
  /\ pc[t] = "resetting"
  /\ stale' = FALSE
  /\ pc' = [pc EXCEPT ![t] = "idle"]
  /\ IF t = "pm" THEN op' = "none" /\ phase' = "running"
                 ELSE UNCHANGED <<op, phase>>
  /\ UNCHANGED <<flags, resumeVars, linkVars, access, sleeps, ghosts>>

-----------------------------------------------------------------------------
(* t2audio_resume_complete and t2audio_resume_work. *)

(* t2bce calls back once the system runs again. *)
ResumeCompleteChecks ==
  /\ phase = "running"
  /\ deferred
  /\ ~noticed
  /\ noticed' = TRUE
  /\ UNCHANGED <<phase, op, pc, flags, queued, linkVars, access, stale, sleeps,
                 ghosts>>

(* Mutant: nothing is scheduled for a driver that is quiesced. *)
SchedulesIfActive ==
  /\ noticed
  /\ noticed' = FALSE
  /\ queued' = (queued \/ ~quiesced)
  /\ UNCHANGED <<phase, op, pc, flags, linkVars, access, stale, sleeps, ghosts>>

ResumeCompleteSchedules ==
  /\ noticed
  /\ noticed' = FALSE
  /\ queued' = TRUE
  /\ UNCHANGED <<phase, op, pc, flags, linkVars, access, stale, sleeps, ghosts>>

(* Mutant: the work does not look at resume_deferred again. *)
WorkStartsAnyhow ==
  /\ queued
  /\ pc["work"] = "idle"
  /\ queued' = FALSE
  /\ pc' = [pc EXCEPT !["work"] = "sending"]
  /\ UNCHANGED <<phase, op, flags, noticed, linkVars, access, stale, sleeps,
                 ghosts>>

(* The work starts, and ends at once when the resume was called off.  It   *)
(* slips into a quiesce that has cancelled it but not called it off yet.   *)
WorkStarts ==
  /\ queued
  /\ pc["work"] = "idle"
  /\ queued' = FALSE
  /\ pc' = IF deferred THEN [pc EXCEPT !["work"] = "sending"] ELSE pc
  /\ slipped' = (slipped \/ (deferred /\ pc["pm"] = "cancelled"))
  /\ UNCHANGED <<phase, op, flags, noticed, linkVars, access, stale, sleeps,
                 failed, lateOn, overlap>>

(* resume_deferred is reset whether the command failed or not. *)
WorkEnds(status) ==
  /\ AccessCallEnds("work", status,
                    IF status = "ok" THEN "clearing" ELSE "idle")
  /\ deferred' = FALSE
  /\ UNCHANGED <<phase, op, quiesced, resumeVars, access, stale, sleeps,
                 overlap, slipped>>

-----------------------------------------------------------------------------
Statuses == {"ok", "refused", "timedout", "notsent"}

CallbackStep ==
  \/ \E o \in Quiesces : QuiesceSkipped(o) \/ QuiesceStarts(o)
  \/ ResumeFails \/ ResumeStateful \/ ResumeNoState

PmStep ==
  \/ QuiesceCancels \/ QuiesceResets
  \/ SendAccess("pm")
  \/ \E status \in Statuses : QuiesceEnds(status) \/ ResumeEnds(status)
  \/ ClearsQuiesced("pm") \/ ResetsStreams("pm")

WorkStep ==
  \/ WorkStarts
  \/ SendAccess("work")
  \/ \E status \in Statuses : WorkEnds(status)
  \/ ClearsQuiesced("work") \/ ResetsStreams("work")

Next ==
  \/ CallbackStep
  \/ PmStep
  \/ ResumeCompleteChecks \/ ResumeCompleteSchedules
  \/ WorkStep
  \/ DeviceApplies

Spec == Init /\ [][Next]_vars

(* The threads run and a call ends at the latest with its timeout.  t2bce  *)
(* is assumed to call back after a stateful resume.                        *)
Fairness ==
  /\ WF_vars(PmStep)
  /\ WF_vars(WorkStep)
  /\ WF_vars(ResumeCompleteChecks)
  /\ WF_vars(ResumeCompleteSchedules)

FairSpec == Spec /\ Fairness

-----------------------------------------------------------------------------
Points == {"idle", "cancelled", "sending", "waiting", "clearing", "resetting"}

TypeOK ==
  /\ phase \in {"running", "preparing", "asleep", "down"}
  /\ op \in Quiesces \union {"resume", "none"}
  /\ pc \in [Threads -> Points]
  /\ quiesced \in BOOLEAN
  /\ deferred \in BOOLEAN
  /\ noticed \in BOOLEAN
  /\ queued \in BOOLEAN
  /\ sent \in Seq([from : Threads \union {"nobody"}, mode : {"on", "off"}])
  /\ reply \in [Threads -> {"none", "ok", "refused"}]
  /\ access \in {"on", "off"}
  /\ stale \in BOOLEAN
  /\ sleeps \in Nat
  /\ failed \in BOOLEAN
  /\ lateOn \in BOOLEAN
  /\ overlap \in BOOLEAN
  /\ slipped \in BOOLEAN

(* A quiesce that has cancelled resume_work is disturbed by it only when   *)
(* the work has slipped in between the cancellation and the reset of       *)
(* resume_deferred.  Whatever t2audio_resume_complete, which takes no      *)
(* lock, schedules at another time ends without a command.                 *)
OnlyASlippedWorkRuns ==
  (op \in Quiesces /\ pc["pm"] # "idle" /\ ~slipped) => pc["work"] = "idle"

(* A thread that turns the access on, or has and has yet to reset          *)
(* pm_quiesced.                                                            *)
Enabling(t) == pc[t] \in {"waiting", "clearing"} /\ Wanted(t) = "on"

(* While pm_quiesced is set the device has the access off, so that a       *)
(* quiesce may be skipped: unless a resume is just turning it on, or has   *)
(* tried to and timed out, or a work has slipped into the last quiesce.    *)
QuiescedIsOff ==
  (quiesced /\ ~lateOn /\ ~slipped /\ \A t \in Threads : ~Enabling(t))
    => access = "off"

(* The system that sleeps or is shut down has revoked the remote access,   *)
(* if no command failed, no quiesce was skipped for the sake of a resume   *)
(* that was due or still at work, and no work has slipped into a quiesce.  *)
OffWhenStopped ==
  (/\ phase \in {"asleep", "down"} /\ op = "none"
   /\ ~failed /\ ~overlap /\ ~slipped)
    => access = "off"

(* After a resume that did not fail the device has the access on, the      *)
(* driver may be quiesced again, and no clock offset is left from before   *)
(* the sleep, whichever of the two ways the resume went; unless the work   *)
(* that slipped into the quiesce before called the resume off.             *)
ResumedInFull ==
  (/\ phase = "running" /\ op = "none" /\ ~deferred /\ pc["work"] = "idle"
   /\ ~failed /\ ~slipped)
    => access = "on" /\ ~quiesced /\ ~stale

(* The parts of the inductive invariant.  The PM core is in one callback   *)
(* at a time, and resume_deferred stays reset while one quiesces.          *)
CallbackInv ==
  /\ pc["pm"] # "idle" => op # "none"
  /\ op = "resume" => /\ pc["pm"] \notin {"idle", "cancelled"}
                      /\ phase = "asleep"
  /\ op \in Quiesces => ~quiesced /\ pc["pm"] \notin {"clearing", "resetting"}
  /\ (op \in Quiesces /\ pc["pm"] \in {"sending", "waiting"}) => ~deferred
  /\ pc["work"] # "cancelled"

(* A request on its way that names a thread is the one the thread waits    *)
(* for, and there is no other;                                             *)
RequestsAwaited ==
  \A i \in 1 .. Len(sent) :
    sent[i].from \in Threads =>
      /\ pc[sent[i].from] = "waiting"
      /\ reply[sent[i].from] = "none"
      /\ sent[i].mode = Wanted(sent[i].from)

OneRequestEach ==
  \A i, j \in 1 .. Len(sent) :
    (sent[i].from = sent[j].from /\ sent[i].from \in Threads) => i = j

(* one to turn the access on that names nobody has timed out.              *)
AbandonedIsLate ==
  \A i \in 1 .. Len(sent) :
    (sent[i].from = "nobody" /\ sent[i].mode = "on") => lateOn

(* Only a thread that waits has an answer. *)
AnswersAwaited == \A t \in Threads : pc[t] # "waiting" => reply[t] = "none"

(* The access is off when the request of a quiesce has been granted. *)
GrantedIsOff ==
  (op \in Quiesces /\ reply["pm"] = "ok" /\ ~lateOn /\ ~slipped)
    => access = "off"

(* The device has dealt with the request of a thread that turns the       *)
(* access on, and has not refused it.                                      *)
MayBeOn(t) ==
  /\ Enabling(t)
  /\ reply[t] # "refused"
  /\ \A i \in 1 .. Len(sent) : sent[i].from # t

(* Only then is the access on while pm_quiesced is set. *)
QuiescedInv ==
  (quiesced /\ ~lateOn /\ ~slipped /\ \A t \in Threads : ~MayBeOn(t))
    => access = "off"

FlagsInv ==
  /\ TypeOK
  /\ OnlyASlippedWorkRuns
  /\ CallbackInv
  /\ RequestsAwaited
  /\ OneRequestEach
  /\ AbandonedIsLate
  /\ AnswersAwaited
  /\ GrantedIsOff
  /\ QuiescedInv

(* As long as no command has failed, every request is one of a thread that *)
(* waits, and                                                              *)
NoneAbandoned ==
  ~failed => ~lateOn /\ \A i \in 1 .. Len(sent) : sent[i].from # "nobody"

(* the access is on when a request to turn it on has been granted, and     *)
(* pm_quiesced reset when the thread has come that far.                    *)
GrantedIsOn ==
  \A t \in Threads :
    /\ (/\ ~failed /\ ~slipped /\ Wanted(t) = "on"
        /\ reply[t] = "ok" \/ pc[t] \in {"clearing", "resetting"})
         => access = "on"
    /\ (pc[t] = "resetting" /\ ~slipped) => ~quiesced

(* The work goes on after its resume was called off, or while the system   *)
(* sleeps, only if a quiesce was skipped or the work has slipped into one. *)
WorkIsDue ==
  /\ pc["work"] \in {"sending", "waiting"} => deferred \/ overlap \/ slipped
  /\ phase \in {"asleep", "down"} =>
       /\ deferred => overlap
       /\ pc["work"] # "idle" => overlap \/ slipped

(* Between the callbacks a stopped system is quiesced, and one that runs   *)
(* is restored or has a resume due or at work.                             *)
BetweenCallbacks ==
  (~failed /\ ~slipped /\ op \notin Quiesces) =>
    /\ (phase \in {"asleep", "down"} /\ ~overlap /\ pc["pm"] # "resetting")
         => quiesced
    /\ (phase = "running" /\ ~deferred) =>
         /\ access = "on"
         /\ pc["work"] # "clearing" => ~quiesced
         /\ pc["work"] \notin {"clearing", "resetting"} => ~stale

SleepInv == NoneAbandoned /\ GrantedIsOn /\ WorkIsDue /\ BetweenCallbacks

IInv == FlagsInv /\ SleepInv

(* A deferred resume is carried out, unless it fails, the system goes to   *)
(* sleep or down first, or a work that slipped into the quiesce before it  *)
(* ends now and calls it off.                                              *)
DeferredResumeEnds ==
  (phase = "running" /\ deferred)
    ~> (access = "on" /\ ~quiesced) \/ failed \/ slipped \/ phase # "running"

(* "stop active audio IO and revoke remote access while the BCE command    *)
(* transport is still alive": after a shutdown in which no command failed  *)
(* the access is off (t2audio_shutdown).                                   *)
ShutdownRevokes ==
  (phase = "down" /\ op = "none" /\ ~failed) => access = "off"
=============================================================================
