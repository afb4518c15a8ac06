----------------------------- MODULE PcmStream -----------------------------
(***************************************************************************)
(* One PCM stream of the driver (pcm.c) and all that runs on it at once:   *)
(* the thread in the ALSA callbacks, the works that handle the timestamps  *)
(* of the device, the period timer, the period work it schedules, and the  *)
(* power management code that stops and resets the stream (audio.c).  The  *)
(* peer, the stream of the same subdevice in the other direction, is there *)
(* as far as the two share the I/O of the device: START_IO and STOP_IO     *)
(* name the device, not the stream.                                        *)
(*                                                                         *)
(* The stream lock is a mutex (nonatomic = 1): it is held over START_IO    *)
(* and STOP_IO.  "started" is read and written with and without it, and so *)
(* are the timer, the work and the substream pointer.                      *)
(***************************************************************************)
EXTENDS Naturals

CONSTANTS
  Handlers,   \* works that may handle a timestamp at the same time
  HasPeer,    \* the subdevice has a stream in the other direction, too
  Nobody      \* no thread

ASSUME ThreadsAssumption ==
  /\ Nobody \notin Handlers \union {"user", "period", "pm", "peer"}
  /\ {"user", "period", "pm", "peer"} \intersect Handlers = {}
  /\ HasPeer \in BOOLEAN

VARIABLES
  pc,            \* what each thread does
  lock,          \* who holds the PCM stream lock
  alsa,          \* the state ALSA has the stream in
  started,       \* stream->started
  waiting,       \* stream->waiting_for_first_ts
  timerQueued,   \* period_timer is queued,
  timerRunning,  \* and its callback runs
  workQueued,    \* period_work is queued
  substream,     \* stream->substream is set
  peerStarted,   \* started of the peer
  io,            \* the device runs its I/O
  phase,         \* of the system: user processes run only in "running"
  resume,        \* what t2audio_resume_work has still to do
  late,          \* calls of snd_pcm_period_elapsed by period_work since the
                 \* stream was stopped
  beat,          \* flips with every call of it by period_work
  stopFailed,    \* a STOP_IO has failed
  resetHit,      \* the reset of a resume has stopped the timer of a stream
                 \* that ALSA runs, and it was not stopped since
  overtaken,     \* the timer was armed for a stream stopped meanwhile, and
                 \* no close has begun since
  cut            \* the peer's STOP_IO has stopped the I/O since it was started

timerVars == <<timerQueued, timerRunning>>
workVars == <<workQueued, substream>>
sysVars == <<phase, resume>>
ghosts == <<late, beat, stopFailed, resetHit, overtaken, cut>>
ioVars == <<peerStarted, io>>
vars == <<pc, lock, alsa, started, waiting, timerVars, workVars, ioVars, sysVars,
          ghosts>>

Threads == Handlers \union {"user", "period", "pm", "peer"}

Goto(t, place) == pc' = [pc EXCEPT ![t] = place]

Init ==
  /\ pc = [t \in Threads |-> IF t = "user" THEN "closed" ELSE "idle"]
  /\ lock = Nobody
  /\ alsa = "setup"
  /\ started = FALSE
  /\ waiting = FALSE
  /\ timerQueued = FALSE
  /\ timerRunning = FALSE
  /\ workQueued = FALSE
  /\ substream = FALSE
  /\ peerStarted = FALSE
  /\ io = FALSE
  /\ phase = "running"
  /\ resume = "none"
  /\ late = 0
  /\ beat = 0
  /\ stopFailed = FALSE
  /\ resetHit = FALSE
  /\ overtaken = FALSE
  /\ cut = FALSE

-----------------------------------------------------------------------------
(* The ALSA callbacks. *)

(* t2audio_pcm_open. *)
Open ==
  /\ pc["user"] = "closed"
  /\ phase = "running"
  /\ Goto("user", "open")
  /\ UNCHANGED <<lock, alsa, started, waiting, timerVars, workVars, ioVars,
                 sysVars, ghosts>>

(* hrtimer_try_to_cancel: a callback that runs is left alone. *)
TryToCancel == timerQueued' = (timerQueued /\ timerRunning)

(* t2audio_pcm_prepare, of a stream that does not run; ALSA does not hold  *)
(* the lock here.                                                          *)
Prepare ==
  /\ pc["user"] = "open"
  /\ phase = "running"
  /\ alsa # "running"
  /\ alsa' = "prepared"
  /\ started' = FALSE
  /\ waiting' = TRUE
  /\ TryToCancel
  /\ UNCHANGED <<pc, lock, timerRunning, workVars, ioVars, sysVars, ghosts>>

(* t2audio_pcm_trigger, TRIGGER START: t2audio_pcm_start sends START_IO. *)
StartBegins ==
  /\ pc["user"] = "open"
  /\ phase = "running"
  /\ alsa = "prepared"
  /\ lock = Nobody
  /\ lock' = "user"
  /\ started' = FALSE
  /\ Goto("user", "starting")
  /\ UNCHANGED <<alsa, waiting, timerVars, workVars, ioVars, sysVars, ghosts>>

(* The device carries START_IO out.  (It refuses it without remote         *)
(* access.)                                                                *)
DeviceStarts(t) ==
  /\ pc[t] = "starting"
  /\ resume # "due"
  /\ io' = TRUE
  /\ cut' = (cut /\ t # "user")
  /\ Goto(t, "io started")
  /\ UNCHANGED <<lock, alsa, started, waiting, timerVars, workVars, peerStarted,
                 sysVars, late, beat, stopFailed, resetHit, overtaken>>

(* Mutant: started is not set. *)
StartForgets ==
  /\ pc["user"] = "io started"
  /\ alsa' = "running"
  /\ waiting' = TRUE
  /\ late' = 0
  /\ lock' = Nobody
  /\ Goto("user", "open")
  /\ UNCHANGED <<started, timerVars, workVars, ioVars, sysVars, beat,
                 stopFailed, resetHit, overtaken, cut>>

(* START_IO was answered. *)
StartSucceeds ==
  /\ pc["user"] = "io started"
  /\ alsa' = "running"
  /\ waiting' = TRUE
  /\ started' = TRUE
  /\ late' = 0
  /\ lock' = Nobody
  /\ Goto("user", "open")
  /\ UNCHANGED <<timerVars, workVars, ioVars, sysVars, beat, stopFailed,
                 resetHit, overtaken, cut>>

(* It was not, or was refused: ALSA undoes the start with a TRIGGER STOP.  *)
(* Whether the device has acted on the request is not known.               *)
StartFails ==
  /\ pc["user"] \in {"starting", "io started"}
  /\ Goto("user", "halting")
  /\ UNCHANGED <<lock, alsa, started, waiting, timerVars, workVars, ioVars,
                 sysVars, ghosts>>

(* TRIGGER STOP, by the user. *)
StopBegins ==
  /\ pc["user"] = "open"
  /\ phase = "running"
  /\ alsa = "running"
  /\ lock = Nobody
  /\ lock' = "user"
  /\ Goto("user", "halting")
  /\ UNCHANGED <<alsa, started, waiting, timerVars, workVars, ioVars, sysVars,
                 ghosts>>

(* Mutants: the halt waits for the period work; it leaves started set; a   *)
(* stream that is not started, its START_IO unanswered, has none to stop.  *)
HaltWaits(t) ==
  /\ pc[t] = "halting"
  /\ pc["period"] = "idle"
  /\ started' = FALSE
  /\ TryToCancel
  /\ Goto(t, "stopping")
  /\ UNCHANGED <<lock, alsa, waiting, timerRunning, workVars, ioVars, sysVars,
                 ghosts>>

HaltTimerOnly(t) ==
  /\ pc[t] = "halting"
  /\ TryToCancel
  /\ Goto(t, "stopping")
  /\ UNCHANGED <<lock, alsa, started, waiting, timerRunning, workVars, ioVars,
                 sysVars, ghosts>>

HaltOfStarted(t) ==
  /\ pc[t] = "halting"
  /\ started' = FALSE
  /\ TryToCancel
  /\ Goto(t, IF started THEN "stopping" ELSE "io stopped")
  /\ UNCHANGED <<lock, alsa, waiting, timerRunning, workVars, ioVars, sysVars,
                 ghosts>>

(* t2audio_pcm_halt_period_timer, under the stream lock. *)
Halt(t) ==
  /\ pc[t] = "halting"
  /\ started' = FALSE
  /\ TryToCancel
  /\ Goto(t, "stopping")
  /\ UNCHANGED <<lock, alsa, waiting, timerRunning, workVars, ioVars, sysVars,
                 ghosts>>

(* Where a thread goes when its STOP_IO is carried out. *)
Stopped(from) == IF from = "stopping" THEN "io stopped" ELSE "io quiesced"

(* The device carries STOP_IO out: the I/O of both streams ends. *)
DeviceStops(t) ==
  /\ pc[t] \in {"stopping", "quiescing"}
  /\ Goto(t, Stopped(pc[t]))
  /\ io' = FALSE
  /\ resetHit' = (resetHit /\ t = "peer" /\ alsa = "running")
  /\ cut' = (cut \/ t = "peer")
  /\ UNCHANGED <<lock, alsa, started, waiting, timerVars, workVars, peerStarted,
                 sysVars, late, beat, stopFailed, overtaken>>

(* t2audio_cmd_stop_io returns, and says whether the device has answered.  *)
StopIo(t, from, ok) ==
  /\ pc[t] = Stopped(from) \/ (~ok /\ pc[t] = from)
  /\ stopFailed' = (stopFailed \/ ~ok)
  /\ UNCHANGED <<io, resetHit, cut>>

(* STOP_IO has returned; TRIGGER STOP ends and the lock is dropped. *)
StopEnds(t) ==
  /\ \E ok \in BOOLEAN : StopIo(t, "stopping", ok)
  /\ waiting' = TRUE
  /\ alsa' = IF alsa = "running" THEN "setup" ELSE alsa
  /\ lock' = Nobody
  /\ Goto(t, IF t = "user" THEN "open" ELSE "idle")
  /\ UNCHANGED <<started, timerVars, workVars, peerStarted, sysVars, late, beat,
                 overtaken>>

(* t2audio_pcm_close, of a stream ALSA has stopped if it ran: the first    *)
(* line of t2audio_pcm_stop_period_timer.                                  *)
CloseBegins ==
  /\ pc["user"] = "open"
  /\ phase = "running"
  /\ alsa # "running"
  /\ started' = FALSE
  /\ overtaken' = FALSE
  /\ Goto("user", "cancelling timer")
  /\ UNCHANGED <<lock, alsa, waiting, timerVars, workVars, ioVars, sysVars, late,
                 beat, stopFailed, resetHit, cut>>

-----------------------------------------------------------------------------
(* t2audio_pcm_stop_period_timer, its further lines. *)

(* hrtimer_cancel *)
CancelTimer(t) ==
  /\ pc[t] = "cancelling timer"
  /\ ~timerRunning
  /\ timerQueued' = FALSE
  /\ Goto(t, "cancelling work")
  /\ UNCHANGED <<lock, alsa, started, waiting, timerRunning, workVars, ioVars,
                 sysVars, ghosts>>

(* Mutant: cancel_work_sync is left out. *)
CancelWorkNot(t) ==
  /\ pc[t] = "cancelling work"
  /\ Goto(t, "clearing")
  /\ UNCHANGED <<lock, alsa, started, waiting, timerVars, workVars, ioVars, sysVars,
                 ghosts>>

(* cancel_work_sync *)
CancelWork(t) ==
  /\ pc[t] = "cancelling work"
  /\ pc["period"] = "idle"
  /\ workQueued' = FALSE
  /\ Goto(t, "clearing")
  /\ UNCHANGED <<lock, alsa, started, waiting, timerVars, substream, ioVars,
                 sysVars, ghosts>>

(* The substream is forgotten.  In the user's thread that ends the close, *)
ClosedAtLast ==
  /\ pc["user"] = "clearing"
  /\ substream' = FALSE
  /\ alsa' = "setup"
  /\ Goto("user", "closed")
  /\ UNCHANGED <<lock, started, waiting, timerVars, workQueued, ioVars, sysVars,
                 ghosts>>

(* in a quiesce STOP_IO comes next, *)
QuiescedTimer ==
  /\ pc["pm"] = "clearing"
  /\ resume = "none"
  /\ substream' = FALSE
  /\ Goto("pm", "quiescing")
  /\ UNCHANGED <<lock, alsa, started, waiting, timerVars, workQueued, ioVars,
                 sysVars, ghosts>>

(* in t2audio_reset_stream the rest of the reset. *)
ResetEnds ==
  /\ pc["pm"] = "clearing"
  /\ resume = "enabled"
  /\ substream' = FALSE
  /\ waiting' = TRUE
  /\ resume' = "none"
  /\ phase' = "running"
  /\ Goto("pm", "idle")
  /\ UNCHANGED <<lock, alsa, started, timerVars, workQueued, ioVars, ghosts>>

-----------------------------------------------------------------------------
(* Timer and period work. *)

(* The timer expires; t2audio_pcm_period_timer sees whether the stream is  *)
(* started,                                                                *)
TimerFires ==
  /\ timerQueued
  /\ ~timerRunning
  /\ timerQueued' = FALSE
  /\ timerRunning' = started
  /\ UNCHANGED <<pc, lock, alsa, started, waiting, workVars, ioVars, sysVars,
                 ghosts>>

(* Mutant: the timer is not started again. *)
TimerRunsOnce ==
  /\ timerRunning
  /\ workQueued' = TRUE
  /\ timerRunning' = FALSE
  /\ UNCHANGED <<pc, lock, alsa, started, waiting, timerQueued, substream, ioVars,
                 sysVars, ghosts>>

(* and if so schedules period_work and goes on. *)
TimerForwards ==
  /\ timerRunning
  /\ workQueued' = TRUE
  /\ timerRunning' = FALSE
  /\ timerQueued' = TRUE
  /\ UNCHANGED <<pc, lock, alsa, started, waiting, substream, ioVars, sysVars,
                 ghosts>>

(* t2audio_pcm_period_work looks at started and the substream. *)
PeriodWorkStarts ==
  /\ workQueued
  /\ pc["period"] = "idle"
  /\ workQueued' = FALSE
  /\ Goto("period", IF started /\ substream THEN "elapsing" ELSE "idle")
  /\ UNCHANGED <<lock, alsa, started, waiting, timerVars, substream, ioVars,
                 sysVars, ghosts>>

(* snd_pcm_period_elapsed takes the stream lock.  On a stream that runs it *)
(* moves the pointer, which may reveal an xrun: then ALSA stops the stream *)
(* at once, in this thread and with the lock held.                         *)
PeriodElapses(t) ==
  /\ pc[t] = "elapsing"
  /\ lock = Nobody
  /\ \/ Goto(t, "idle") /\ UNCHANGED lock
     \/ alsa = "running" /\ Goto(t, "halting") /\ lock' = t
  /\ IF t = "period" THEN /\ late' = IF alsa = "running" THEN 0 ELSE late + 1
                          /\ beat' = 1 - beat
                     ELSE UNCHANGED <<late, beat>>
  /\ UNCHANGED <<alsa, started, waiting, timerVars, workVars, ioVars, sysVars,
                 stopFailed, resetHit, overtaken, cut>>

-----------------------------------------------------------------------------
(* t2audio_handle_stream_timestamp. *)

(* A timestamp of the device is handled in a work of its own. *)
TimestampComes(h) ==
  /\ pc[h] = "idle"
  /\ Goto(h, "locking")
  /\ UNCHANGED <<lock, alsa, started, waiting, timerVars, workVars, ioVars,
                 sysVars, ghosts>>

(* Under the lock: a timestamp of a stream not started, one the clock is   *)
(* not ready for and one from before the start are dropped.                *)
DropTimestamp(h) ==
  /\ pc[h] = "locking"
  /\ lock = Nobody
  /\ Goto(h, "idle")
  /\ UNCHANGED <<lock, alsa, started, waiting, timerVars, workVars, ioVars,
                 sysVars, ghosts>>

(* The first one is to start the timer, the others report a period. *)
TakeTimestamp(h) ==
  /\ pc[h] = "locking"
  /\ lock = Nobody
  /\ started
  /\ waiting' = FALSE
  /\ Goto(h, IF waiting THEN "arming" ELSE "elapsing")
  /\ UNCHANGED <<lock, alsa, started, timerVars, workVars, ioVars, sysVars, ghosts>>

(* t2audio_pcm_start_period_timer, after the lock was dropped. *)
StartPeriodTimer(h) ==
  /\ pc[h] = "arming"
  /\ substream' = TRUE
  /\ timerQueued' = TRUE
  /\ overtaken' = (overtaken \/ ~started)
  /\ Goto(h, "idle")
  /\ UNCHANGED <<lock, alsa, started, waiting, timerRunning, workQueued, ioVars,
                 sysVars, late, beat, stopFailed, resetHit, cut>>

-----------------------------------------------------------------------------
(* The callbacks of the peer, which has a lock of its own. *)
PeerGoes(from, to) ==
  /\ pc["peer"] \in from
  /\ Goto("peer", to)
  /\ UNCHANGED <<lock, alsa, started, waiting, timerVars, workVars, sysVars,
                 late, beat, overtaken>>

(* t2audio_pcm_start *)
PeerStartBegins ==
  /\ HasPeer /\ phase = "running"
  /\ PeerGoes({"idle"}, "starting")
  /\ UNCHANGED <<ioVars, stopFailed, resetHit, cut>>

PeerStartSucceeds ==
  /\ PeerGoes({"io started"}, "running")
  /\ peerStarted' = TRUE
  /\ UNCHANGED <<io, stopFailed, resetHit, cut>>

PeerStartFails ==
  /\ PeerGoes({"starting", "io started"}, "stopping")
  /\ UNCHANGED <<ioVars, stopFailed, resetHit, cut>>

(* t2audio_pcm_trigger, TRIGGER STOP: also for an xrun, at any time. *)
PeerStopBegins ==
  /\ PeerGoes({"running"}, "stopping")
  /\ peerStarted' = FALSE
  /\ UNCHANGED <<io, stopFailed, resetHit, cut>>

PeerStopEnds ==
  /\ \E ok \in BOOLEAN : StopIo("peer", "stopping", ok)
  /\ PeerGoes({"stopping", "io stopped"}, "idle")
  /\ UNCHANGED peerStarted

-----------------------------------------------------------------------------
(* Power management: t2audio_quiesce and the resets of a resume. *)

(* Mutant: the I/O is stopped for the sake of the first stream only. *)
QuiesceOneStream(goal) ==
  /\ phase = "running"
  /\ pc["pm"] = "idle"
  /\ resume = "none"
  /\ pc["user"] \in {"open", "closed"}
  /\ pc["peer"] \in {"idle", "running"}
  /\ phase' = goal
  /\ started' = FALSE
  /\ peerStarted' = FALSE
  /\ Goto("pm", IF started THEN "cancelling timer"
                ELSE IF goal = "asleep" THEN "suspending" ELSE "idle")
  /\ UNCHANGED <<lock, alsa, waiting, timerVars, workVars, io, resume, ghosts>>

(* User processes are frozen or stopped, outside the callbacks, when the   *)
(* quiesce of a suspend or a shutdown looks at the streams (of a shutdown  *)
(* that is the doing of user space).  One that comes while a resume is due *)
(* or at work is skipped, and not modelled here; nor is a work that slips  *)
(* into a quiesce (PowerManagement).                                       *)
QuiesceBegins(goal) ==
  /\ phase = "running"
  /\ pc["pm"] = "idle"
  /\ resume = "none"
  /\ pc["user"] \in {"open", "closed"}
  /\ pc["peer"] \in {"idle", "running"}
  /\ phase' = goal
  /\ started' = FALSE
  /\ peerStarted' = FALSE
  /\ Goto("pm", IF started THEN "cancelling timer"
                ELSE IF peerStarted THEN "quiescing"
                ELSE IF goal = "asleep" THEN "suspending" ELSE "idle")
  /\ UNCHANGED <<lock, alsa, waiting, timerVars, workVars, io, resume, ghosts>>

QuiesceStopsIo ==
  /\ \E ok \in BOOLEAN : StopIo("pm", "quiescing", ok)
  /\ Goto("pm", IF phase = "asleep" THEN "suspending" ELSE "idle")
  /\ UNCHANGED <<lock, alsa, started, waiting, timerVars, workVars, peerStarted,
                 sysVars, late, beat, overtaken>>

(* snd_pcm_suspend_all: t2audio_pcm_trigger refuses TRIGGER SUSPEND, and   *)
(* ALSA does not mind.                                                     *)
SuspendPcm ==
  /\ pc["pm"] = "suspending"
  /\ lock = Nobody
  /\ pc["peer"] \in {"idle", "running"}
  /\ alsa' = IF alsa = "running" THEN "suspended" ELSE alsa
  /\ pc' = [pc EXCEPT !["pm"] = "idle",
                      !["peer"] = IF @ = "running" THEN "idle" ELSE @]
  /\ UNCHANGED <<lock, started, waiting, timerVars, workVars, ioVars, sysVars,
                 ghosts>>

(* t2audio_resume: without firmware state the access is turned on and the  *)
(* streams are reset before the processes run again ("resuming"); else all *)
(* of that is due in t2audio_resume_work.                                  *)
Resume(p, r) ==
  /\ phase = "asleep"
  /\ pc["pm"] = "idle"
  /\ <<p, r>> \in {<<"resuming", "enabled">>, <<"running", "due">>}
  /\ phase' = p
  /\ resume' = r
  /\ UNCHANGED <<pc, lock, alsa, started, waiting, timerVars, workVars, ioVars,
                 ghosts>>

(* The work has turned the access on, or has failed to. *)
ResumeEnables ==
  /\ resume = "due"
  /\ resume' \in {"enabled", "none"}
  /\ UNCHANGED <<pc, lock, alsa, started, waiting, timerVars, workVars, ioVars,
                 phase, ghosts>>

(* t2audio_reset_stream begins with a full stop; the peer is reset, too. *)
ResetBegins ==
  /\ resume = "enabled"
  /\ pc["pm"] = "idle"
  /\ started' = FALSE
  /\ peerStarted' = FALSE
  /\ resetHit' = (resetHit \/ alsa = "running" \/ peerStarted)
  /\ Goto("pm", "cancelling timer")
  /\ UNCHANGED <<lock, alsa, waiting, timerVars, workVars, io, sysVars, late, beat,
                 stopFailed, overtaken, cut>>

-----------------------------------------------------------------------------
StopTrigger(t) == Halt(t) \/ StopEnds(t)

FullStop(t) == CancelTimer(t) \/ CancelWork(t)

UserBegins == Open \/ Prepare \/ StartBegins \/ StopBegins \/ CloseBegins

DeviceStep == \E t \in Threads : DeviceStarts(t) \/ DeviceStops(t)

PeerStep ==
  \/ PeerStartBegins \/ PeerStartSucceeds \/ PeerStartFails
  \/ PeerStopBegins \/ PeerStopEnds

UserGoesOn ==
  \/ StartSucceeds \/ StartFails
  \/ StopTrigger("user")
  \/ FullStop("user") \/ ClosedAtLast

PeriodStep ==
  \/ PeriodWorkStarts
  \/ PeriodElapses("period")
  \/ StopTrigger("period")

TimerStep == TimerFires \/ TimerForwards

HandlerStep(h) ==
  \/ DropTimestamp(h) \/ TakeTimestamp(h)
  \/ StartPeriodTimer(h)
  \/ PeriodElapses(h)
  \/ StopTrigger(h)

PmGoesOn ==
  \/ FullStop("pm") \/ QuiescedTimer \/ ResetEnds
  \/ QuiesceStopsIo \/ SuspendPcm
  \/ ResumeEnables \/ ResetBegins

Next ==
  \/ UserBegins \/ UserGoesOn
  \/ DeviceStep
  \/ PeerStep
  \/ TimerStep
  \/ PeriodStep
  \/ \E h \in Handlers : TimestampComes(h) \/ HandlerStep(h)
  \/ \E goal \in {"asleep", "down"} : QuiesceBegins(goal)
  \/ \E p \in {"resuming", "running"}, r \in {"enabled", "due"} : Resume(p, r)
  \/ PmGoesOn

Spec == Init /\ [][Next]_vars

(* Threads run, timers expire, commands end at the latest with their       *)
(* timeout, and a mutex is handed over to a thread that waits for it.      *)
Fairness ==
  /\ SF_vars(UserGoesOn)
  /\ WF_vars(TimerStep)
  /\ SF_vars(PeriodStep)
  /\ \A h \in Handlers : SF_vars(HandlerStep(h))
  /\ SF_vars(PmGoesOn)

FairSpec == Spec /\ Fairness

-----------------------------------------------------------------------------
Points == {"idle", "closed", "open", "starting", "halting", "stopping",
           "cancelling timer", "cancelling work", "clearing", "elapsing",
           "locking", "arming", "io started", "io stopped", "running",
           "quiescing", "io quiesced", "suspending"}

TypeOK ==
  /\ pc \in [Threads -> Points]
  /\ lock \in Threads \union {Nobody}
  /\ alsa \in {"setup", "prepared", "running", "suspended"}
  /\ {started, waiting, timerQueued, timerRunning, workQueued, substream,
      peerStarted, io, stopFailed, resetHit, overtaken, cut} \subseteq BOOLEAN
  /\ phase \in {"running", "asleep", "resuming", "down"}
  /\ resume \in {"none", "due", "enabled"}
  /\ late \in Nat
  /\ beat \in {0, 1}

(* The points of a thread in TRIGGER START or STOP. *)
InStart == {"starting", "io started"}
InStop == {"halting", "stopping", "io stopped"}

(* Those of a full synchronous stop, in a close, a quiesce or a reset, and *)
(* those of a quiesce that has still to stop the I/O.                      *)
InFullStop == {"cancelling timer", "cancelling work", "clearing"}
BeforeStopIo == InFullStop \union {"quiescing"}

Closing == pc["user"] \in InFullStop \union {"closed"}

(* Where a thread may be. *)
Places ==
  /\ pc["user"] \in {"open", "closed"} \union InStart \union InStop
                     \union InFullStop
  /\ pc["period"] \in {"idle", "elapsing"} \union InStop
  /\ pc["pm"] \in {"idle", "io quiesced", "suspending"} \union BeforeStopIo
  /\ pc["peer"] \in {"idle", "running", "stopping", "io stopped"}
                     \union InStart
  /\ \A h \in Handlers :
       pc[h] \in {"idle", "locking", "arming", "elapsing"} \union InStop

(* The lock is held by the thread in TRIGGER START or STOP. *)
LockHeld ==
  \A t \in Threads \ {"peer"} :
    (pc[t] \in InStart \union InStop) <=> (lock = t)

(* Where power management is, and what it has stopped. *)
PhaseInv ==
  /\ phase # "running" =>
       /\ ~started /\ ~peerStarted
       /\ pc["user"] \in {"open", "closed"}
       /\ pc["peer"] \notin InStart
  /\ phase = "resuming" => resume = "enabled"
  /\ phase \in {"asleep", "down"} => resume = "none"
  /\ pc["pm"] \in InFullStop =>
       resume = "enabled" \/ (resume = "none" /\ phase # "running")
  /\ pc["pm"] \in {"quiescing", "io quiesced"} =>
       resume = "none" /\ phase # "running"
  /\ pc["pm"] = "suspending" => phase = "asleep"

(* What ALSA takes the stream for. *)
AlsaInv ==
  /\ started => alsa = "running"
  /\ pc["user"] \in InStart => alsa = "prepared"
  /\ Closing => alsa # "running" /\ ~started
  /\ \A t \in Threads \ {"peer"} :
       /\ pc[t] \in InStart \union {"stopping", "io stopped"} => ~started
       /\ pc[t] \in InStop /\ t # "user" => alsa = "running"
  /\ peerStarted => pc["peer"] = "running"

(* The period work elapses a stopped stream once: it has started on its    *)
(* way before the stop.                                                    *)
LateInv ==
  \/ late = 0
  \/ late = 1 /\ alsa # "running" /\ pc["period"] # "elapsing"

(* What a close has seen to so far. *)
CloseInv ==
  /\ pc["user"] \in {"clearing", "closed"} => pc["period"] = "idle"
  /\ ~overtaken =>
       /\ pc["user"] \in {"cancelling work", "clearing", "closed"} =>
            ~timerQueued /\ ~timerRunning
       /\ pc["user"] \in {"clearing", "closed"} => ~workQueued
       /\ pc["user"] = "closed" => ~substream

(* A stream ALSA runs is started, is being stopped, was hit by a reset, or *)
(* is put to sleep.                                                        *)
StoppedInv ==
  (alsa = "running" /\ ~started) =>
    \/ lock # Nobody \/ resetHit
    \/ phase = "down"
    \/ phase = "asleep" /\ pc["pm"] # "idle"

(* And it has its I/O on, unless the peer has stopped it.                  *)
IoOn ==
  /\ (pc["user"] = "io started" /\ ~cut) => io
  /\ (alsa = "running" /\ ~cut /\ ~io) =>
       \/ \E t \in Threads \ {"peer"} : pc[t] = "io stopped"
       \/ phase = "down"
       \/ phase = "asleep" /\ pc["pm"] # "idle"

(* The I/O is on for someone who will stop it: a stream that is started,   *)
(* one whose start or stop is under way, or a quiesce that has found one   *)
(* such stream started.                                                    *)
InUse ==
  \/ started \/ peerStarted
  \/ \E t \in Threads \ {"peer"} :
       pc[t] \in {"io started", "halting", "stopping"}
  \/ pc["peer"] \in {"io started", "stopping"}
  \/ /\ pc["pm"] \in BeforeStopIo /\ resume = "none"
     /\ \/ pc["peer"] = "running"
        \/ /\ alsa = "running"
           /\ \A t \in Threads \ {"peer"} : pc[t] # "io stopped"

IoInUse == (io /\ ~stopFailed /\ ~resetHit) => InUse

(* The inductive invariant: the properties below follow from it. *)
IInv ==
  /\ TypeOK /\ Places /\ LockHeld
  /\ PhaseInv /\ AlsaInv
  /\ LateInv /\ CloseInv
  /\ StoppedInv /\ IoOn /\ IoInUse

(* "A work item that already started may still call                        *)
(* snd_pcm_period_elapsed() once": a halt does not wait for the period     *)
(* work and the timer, yet they report at most one more period.            *)
OneLatePeriod == late <= 1

(* A stream that ALSA runs has its timestamps handled, its timer going and *)
(* its I/O on: no late callback, work, close or quiesce clears started, or *)
(* stops the I/O of a stream started meanwhile.  Two may: the reset of a   *)
(* deferred resume, which does not take the lock, clears started; and a    *)
(* STOP_IO of the peer stops the I/O of both streams (cut).                *)
RunningHasIo ==
  (alsa = "running" /\ lock = Nobody /\ phase = "running" /\ ~resetHit)
    => started /\ (~cut => io)

(* Every callback returns, and so do suspend, resume and shutdown: no      *)
(* thread waits, with the stream lock or in a full stop, for one that      *)
(* waits for the lock.                                                     *)
NobodyHangs ==
  /\ (pc["user"] \notin {"open", "closed"}) ~> (pc["user"] \in {"open", "closed"})
  /\ (pc["pm"] # "idle") ~> (pc["pm"] = "idle")

(* A stream that runs and has had its first timestamp reports period after *)
(* period.                                                                 *)
PeriodsGoOn ==
  <>[](started /\ ~waiting) => []<>(beat = 0) /\ []<>(beat = 1)

(* "Full synchronous stop": when t2audio_pcm_close has returned no period  *)
(* is reported any more, neither timer nor work is left and the substream  *)
(* is forgotten, whichever of them was at work.  (A timestamp work that    *)
(* has let the stream lock go before a stop may yet arm the timer          *)
(* afterwards: overtaken.  The timer finds the stream not started then.)   *)
ClosedIsStopped ==
  pc["user"] = "closed" =>
    /\ pc["period"] = "idle" /\ ~started
    /\ ~overtaken => ~timerQueued /\ ~timerRunning /\ ~workQueued /\ ~substream

(* The device runs no I/O for nobody.  With this stream closed and the     *)
(* peer stopped there is none, not even after a START_IO that timed out;   *)
(* and a shutdown, which is to "stop active audio IO", leaves none behind  *)
(* whatever the streams were at, once the threads it met have finished.    *)
(* All that if no STOP_IO failed and no reset of a resume hit a stream     *)
(* that ran: its I/O goes on when t2audio_quiesce, which looks at started, *)
(* passes it over and it is then closed.  (And of a quiesce that looks at  *)
(* the streams: PowerManagement has those that are skipped.)               *)
NoIoLeftOn ==
  (/\ ~stopFailed /\ ~resetHit
   /\ \/ pc["user"] = "closed" /\ pc["peer"] = "idle"
      \/ /\ phase = "down" /\ pc["pm"] = "idle" /\ lock = Nobody
         /\ pc["peer"] \in {"idle", "running"}) => ~io
=============================================================================
