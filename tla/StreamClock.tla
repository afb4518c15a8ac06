---------------------------- MODULE StreamClock ----------------------------
(***************************************************************************)
(* How the driver maps a timestamp of the device to host time (audio.c,    *)
(* t2audio_handle_cmd_timestamp, and pcm.c, t2audio_handle_stream_         *)
(* timestamp).  The device reports, in its own clock, when it was at the   *)
(* start of the ring.  The driver takes the smallest difference between    *)
(* the two clocks it has seen for the offset between them; a stream keeps  *)
(* the offset it has used first.  Every timestamp is handled in a work of  *)
(* its own, and the works may overtake each other.                         *)
(*                                                                         *)
(* Time is counted in units; the host's clock runs skew ahead of the       *)
(* device's, which was started at its own time, and is started anew if the *)
(* T2 loses its state in a suspend.  A resume resets clock and stream.     *)
(***************************************************************************)
EXTENDS Integers, Sequences

CONSTANTS
  Handlers,   \* works that may handle a timestamp at the same time
  Seeds,      \* values of the update seed
  Skews,      \* what the host clock may be ahead of the device's
  Orders,     \* orders in which the build may make the stores of a reset
  MaxTime,    \* bound on the time of a behaviour
  MaxSleeps   \* bound on the suspends of a behaviour

ASSUME SeedsAssumption == Seeds # {}

ASSUME SkewAssumption ==
  Skews \subseteq Int /\ MaxTime \in Nat /\ MaxSleeps \in Nat

(* The fields that t2audio_reset_stream stores. *)
Fields == {"waiting", "remote", "after", "offset", "seed", "valid"}

ASSUME OrdersAssumption == Orders \subseteq Seq(Fields)

VARIABLES
  skew,       \* host clock minus device clock
  since,      \* the first time the device clock shows since its start
  now,        \* ktime_get_boottime()
  sampled,    \* a timestamp has been used: clock_samples, clock_offset_valid
  clock,      \* a->clock_offset_ns
  work,       \* the timestamp each work handles
  starting,   \* START_IO is pending, with the stream lock held
  started,    \* stream->started
  waiting,    \* stream->waiting_for_first_ts
  after,      \* stream->timestamp_accept_after
  latch,      \* stream->clock_offset_valid, clock_offset_ns, timestamp_seed
  remote,     \* stream->remote_timestamp
  anchor,     \* the timestamp remote was made from
  foreign,    \* a timestamp with another seed was mapped since, and ignored
  cleared,    \* a start has forgotten what was before, started is yet to be set
  startedAt,  \* the time that start has read
  torn,       \* a resume was resetting the stream meanwhile
  power,      \* "on", "asleep", or what a resume has to do next
  unreset,    \* the stores the reset of the stream has yet to make
  frozen,     \* user processes do not run
  sleeps,     \* suspends so far
  mixed       \* a timestamp from before a restart of the device clock was
              \* used after it

clockVars == <<sampled, clock>>
fieldVars == <<waiting, after, latch, remote, anchor, foreign>>
startVars == <<cleared, startedAt, torn>>
streamVars == <<started, fieldVars, startVars>>
timeVars == <<skew, since, now>>
powerVars == <<power, unreset, frozen, sleeps>>
vars == <<timeVars, clockVars, work, starting, streamVars, powerVars, mixed>>

Times == 0 .. MaxTime

Nothing == [at |-> 0, dev |-> 0, came |-> 0, seed |-> CHOOSE s \in Seeds : TRUE]
NoLatch == [valid |-> FALSE, offset |-> 0, seed |-> Nothing.seed]
IdleWork == [pc |-> "idle", stamp |-> Nothing, offset |-> 0, ready |-> FALSE]

Init ==
  /\ skew \in Skews
  /\ since = 0
  /\ now = 0
  /\ sampled = FALSE
  /\ clock = 0
  /\ work = [h \in Handlers |-> IdleWork]
  /\ starting = FALSE
  /\ started = FALSE
  /\ waiting = FALSE
  /\ after = 0
  /\ latch = NoLatch
  /\ remote = 0
  /\ anchor = Nothing
  /\ foreign = FALSE
  /\ cleared = FALSE
  /\ startedAt = 0
  /\ torn = FALSE
  /\ power = "on"
  /\ unreset = <<>>
  /\ frozen = FALSE
  /\ sleeps = 0
  /\ mixed = FALSE

TimePasses ==
  /\ now < MaxTime
  /\ now' = now + 1
  /\ UNCHANGED <<skew, since, clockVars, work, starting, streamVars, powerVars,
                 mixed>>

-----------------------------------------------------------------------------
(* t2audio_handle_cmd_timestamp up to the stream. *)

(* The device's clock at a host time. *)
DeviceTime(t) == t - skew

(* The works that have a timestamp, of which no two are the same. *)
Busy == {g \in Handlers : work[g].pc # "idle"}

(* The command UPDATE_TIMESTAMP, read at a time: time_os.                  *)
Stamp(at, seed) ==
  [at |-> at, dev |-> DeviceTime(at), came |-> now, seed |-> seed]

(* A timestamp the device took at host time "at" comes to a work; while    *)
(* user processes are frozen its I/O is stopped, and it takes none.        *)
TimestampComes(h, seed) ==
  /\ work[h].pc = "idle"
  /\ ~frozen
  /\ \E at \in (since .. now) \ {work[g].stamp.at : g \in Busy} :
       work' = [work EXCEPT ![h] =
         [IdleWork EXCEPT !.pc = "came", !.stamp = Stamp(at, seed)]]
  /\ UNCHANGED <<timeVars, clockVars, starting, streamVars, powerVars, mixed>>

(* The device clock was started anew since. *)
Outdated(stamp) == stamp.at < since

(* Under clock_lock. *)
ClockSample(h) ==
  /\ work[h].pc = "came"
  /\ LET sample == work[h].stamp.came - work[h].stamp.dev IN
       IF sample >= 0
       THEN /\ clock' = IF ~sampled \/ sample < clock THEN sample ELSE clock
            /\ sampled' = TRUE
       ELSE UNCHANGED clockVars
  /\ work' = [work EXCEPT ![h] =
       [@ EXCEPT !.pc = "clocked", !.offset = clock', !.ready = sampled']]
  /\ mixed' = (mixed \/ Outdated(work[h].stamp))
  /\ UNCHANGED <<timeVars, starting, streamVars, powerVars>>

-----------------------------------------------------------------------------
(* t2audio_handle_stream_timestamp. *)

(* The work gets the stream lock, and ends. *)
Locks(h) ==
  /\ work[h].pc = "clocked"
  /\ ~starting
  /\ work' = [work EXCEPT ![h] = IdleWork]

Ignore(h) ==
  /\ Locks(h)
  /\ ~started \/ ~work[h].ready
  /\ UNCHANGED <<timeVars, clockVars, starting, streamVars, powerVars, mixed>>

(* Mutant: the offset is latched anew by every timestamp. *)
LatchedAnew(h) ==
  [valid |-> TRUE, offset |-> work[h].offset, seed |-> work[h].stamp.seed]

(* The offset the stream uses for a timestamp from now on. *)
Latched(h) ==
  IF ~latch.valid \/ latch.seed # work[h].stamp.seed
  THEN [valid |-> TRUE, offset |-> work[h].offset, seed |-> work[h].stamp.seed]
  ELSE latch

(* Mutant: no timestamp is dropped. *)
MapAnyTimestamp(h) ==
  /\ Locks(h)
  /\ started
  /\ work[h].ready
  /\ latch' = Latched(h)
  /\ remote' = work[h].stamp.dev + latch'.offset
  /\ anchor' = work[h].stamp
  /\ waiting' = FALSE
  /\ foreign' = FALSE
  /\ mixed' = (mixed \/ Outdated(work[h].stamp))
  /\ UNCHANGED <<timeVars, clockVars, starting, started, after, startVars,
                 powerVars>>

MapTimestamp(h) ==
  /\ Locks(h)
  /\ started
  /\ work[h].ready
  /\ latch' = Latched(h)
  /\ LET event == work[h].stamp.dev + latch'.offset IN
       IF event < after
       THEN /\ foreign' = (foreign \/ work[h].stamp.seed # anchor.seed)
            /\ UNCHANGED <<remote, anchor, waiting>>
       ELSE /\ remote' = event
            /\ anchor' = work[h].stamp
            /\ waiting' = FALSE
            /\ foreign' = FALSE
  /\ mixed' = (mixed \/ Outdated(work[h].stamp))
  /\ UNCHANGED <<timeVars, clockVars, starting, started, after, startVars,
                 powerVars>>

-----------------------------------------------------------------------------
(* t2audio_pcm_start and TRIGGER STOP. *)
StartBegins ==
  /\ ~frozen
  /\ ~starting
  /\ ~started
  /\ starting' = TRUE
  /\ UNCHANGED <<timeVars, clockVars, work, streamVars, powerVars, mixed>>

StartFails ==
  /\ starting
  /\ ~cleared
  /\ starting' = FALSE
  /\ UNCHANGED <<timeVars, clockVars, work, streamVars, powerVars, mixed>>

(* Both forget the timestamps of before; those from before the time are    *)
(* not accepted.                                                           *)
ForgetTimestamps(accepted) ==
  /\ waiting' = TRUE
  /\ after' = accepted
  /\ latch' = NoLatch
  /\ remote' = 0
  /\ anchor' = Nothing
  /\ foreign' = FALSE

(* START_IO was answered; a reset may still run into the stores, until     *)
(* started is set.                                                         *)
StartForgets ==
  /\ starting
  /\ ~cleared
  /\ cleared' = TRUE
  /\ ForgetTimestamps(now)
  /\ startedAt' = now
  /\ torn' = (power = "reset stream")
  /\ UNCHANGED <<timeVars, clockVars, work, starting, started, powerVars,
                 mixed>>

StartEnds ==
  /\ cleared
  /\ cleared' = FALSE
  /\ starting' = FALSE
  /\ started' = TRUE
  /\ UNCHANGED <<timeVars, clockVars, work, fieldVars, startedAt, torn,
                 powerVars, mixed>>

Stop ==
  /\ started
  /\ started' = FALSE
  /\ ForgetTimestamps(0)
  /\ UNCHANGED <<timeVars, clockVars, work, starting, startVars, powerVars,
                 mixed>>

-----------------------------------------------------------------------------
(* Suspend and resume. *)

(* t2audio_quiesce, with the user processes frozen outside the callbacks.  *)
Sleep ==
  /\ power = "on"
  /\ sleeps < MaxSleeps
  /\ ~starting
  /\ sleeps' = sleeps + 1
  /\ power' = "asleep"
  /\ frozen' = TRUE
  /\ started' = FALSE
  /\ UNCHANGED <<timeVars, clockVars, work, starting, fieldVars, startVars,
                 unreset, mixed>>

(* t2audio_resume, or the deferred resume_work.  A T2 that has lost its    *)
(* state has a new clock; one that has not is resumed while user processes *)
(* run again.                                                              *)
Wake(lost) ==
  /\ power = "asleep"
  /\ power' = "reset clock"
  /\ frozen' = lost
  /\ IF lost THEN skew' \in Skews /\ since' = now + 1
             ELSE UNCHANGED <<skew, since>>
  /\ UNCHANGED <<now, clockVars, work, starting, streamVars, unreset, sleeps,
                 mixed>>

(* Mutant: the clock is not reset. *)
ResetClockNot ==
  /\ power = "reset clock"
  /\ power' = "stop stream"
  /\ UNCHANGED <<timeVars, clockVars, work, starting, streamVars, unreset,
                 frozen, sleeps, mixed>>

(* t2audio_reset_clock, under clock_lock. *)
ResetClock ==
  /\ power = "reset clock"
  /\ power' = "stop stream"
  /\ sampled' = FALSE
  /\ clock' = 0
  /\ UNCHANGED <<timeVars, work, starting, streamVars, unreset, frozen, sleeps,
                 mixed>>

(* t2audio_reset_stream stops the timer first.  It does not take the       *)
(* stream lock: its stores race with a start, and with the timestamps of a *)
(* stream that is started meanwhile, and need not keep their order.        *)
ResetStreamBegins ==
  /\ power = "stop stream"
  /\ power' = "reset stream"
  /\ unreset' \in Orders
  /\ started' = FALSE
  /\ torn' = (torn \/ cleared)
  /\ UNCHANGED <<timeVars, clockVars, work, starting, fieldVars, cleared,
                 startedAt, frozen, sleeps, mixed>>

ResetsField ==
  /\ power = "reset stream"
  /\ unreset # <<>>
  /\ unreset' = Tail(unreset)
  /\ LET Reset(field, old, new) ==
           IF Head(unreset) = field THEN new ELSE old IN
       /\ waiting' = Reset("waiting", waiting, TRUE)
       /\ remote' = Reset("remote", remote, 0)
       /\ anchor' = Reset("remote", anchor, Nothing)
       /\ after' = Reset("after", after, 0)
       /\ latch' = [valid |-> Reset("valid", latch.valid, NoLatch.valid),
                    offset |-> Reset("offset", latch.offset, NoLatch.offset),
                    seed |-> Reset("seed", latch.seed, NoLatch.seed)]
  /\ UNCHANGED <<timeVars, clockVars, work, starting, started, foreign,
                 startVars, power, frozen, sleeps, mixed>>

ResetStreamEnds ==
  /\ power = "reset stream"
  /\ unreset = <<>>
  /\ power' = "on"
  /\ frozen' = FALSE
  /\ UNCHANGED <<timeVars, clockVars, work, starting, streamVars, unreset,
                 sleeps, mixed>>

-----------------------------------------------------------------------------
HandlerStep(h) ==
  \/ \E seed \in Seeds : TimestampComes(h, seed)
  \/ ClockSample(h)
  \/ Ignore(h) \/ MapTimestamp(h)

Next ==
  \/ TimePasses
  \/ \E h \in Handlers : HandlerStep(h)
  \/ StartBegins \/ StartFails \/ StartForgets \/ StartEnds
  \/ Stop
  \/ Sleep
  \/ \E lost \in BOOLEAN : Wake(lost)
  \/ ResetClock
  \/ ResetStreamBegins \/ ResetsField
  \/ ResetStreamEnds

Spec == Init /\ [][Next]_vars

-----------------------------------------------------------------------------
Stamps == [at : Times, dev : Int, came : Times, seed : Seeds]

TypeOK ==
  /\ skew \in Skews
  /\ since \in 0 .. now + 1
  /\ now \in Times
  /\ sampled \in BOOLEAN
  /\ clock \in Nat
  /\ work \in [Handlers -> [pc : {"idle", "came", "clocked"}, stamp : Stamps,
                            offset : Nat, ready : BOOLEAN]]
  /\ starting \in BOOLEAN
  /\ started \in BOOLEAN
  /\ waiting \in BOOLEAN
  /\ after \in Times
  /\ latch \in [valid : BOOLEAN, offset : Nat, seed : Seeds]
  /\ remote \in Int
  /\ anchor \in Stamps
  /\ foreign \in BOOLEAN
  /\ cleared \in BOOLEAN
  /\ startedAt \in Times
  /\ torn \in BOOLEAN
  /\ power \in {"on", "asleep", "reset clock", "stop stream", "reset stream"}
  /\ unreset \in Seq(Fields)
  /\ frozen \in BOOLEAN
  /\ sleeps \in 0 .. MaxSleeps
  /\ mixed \in BOOLEAN

(* A stream that is anchored. *)
Anchored == started /\ ~waiting

(* A timestamp is never mapped to a time before the one it was taken at:   *)
(* the offset in use is never below the true one, whichever works have     *)
(* overtaken each other, since every sample includes a delay, and whatever *)
(* the clock of a T2 that has lost its state shows after a resume.  (A     *)
(* work that slept through the suspend may yet sample, or latch, the old   *)
(* clock after the reset, which does not wait for it: mixed.  And the      *)
(* reset takes the offset, or the anchor, from a stream that is started    *)
(* under it, which keeps what is left until it stops: torn.)               *)
NotBeforeEvent == (Anchored /\ ~mixed /\ ~torn) => remote >= anchor.at

(* The parts of the inductive invariant.  A timestamp was taken before it  *)
(* came, and unless it is outdated it shows the clock of now;              *)
StampInv ==
  \A h \in Busy : LET stamp == work[h].stamp IN
    /\ stamp.at <= stamp.came /\ stamp.came <= now
    /\ ~Outdated(stamp) => stamp.dev = DeviceTime(stamp.at)

(* while the system is suspended and resumed no stream runs, nor is one    *)
(* started, and all that is left of a clock that was lost is outdated.     *)
FrozenInv ==
  /\ power = "asleep" => frozen
  /\ frozen => ~started /\ ~starting
  /\ (frozen /\ power # "asleep") => \A h \in Busy : Outdated(work[h].stamp)

(* A start that has forgotten what was before finds nothing new when it    *)
(* sets started.  A stream that is started, or about to be, while it is    *)
(* reset is torn, and no other has lost the time of its start.             *)
ResetInv ==
  /\ starting => ~started
  /\ cleared => starting /\ waiting /\ ~latch.valid
  /\ ((started \/ cleared) /\ power = "reset stream") => torn
  /\ ((started \/ cleared) /\ ~torn) => after = startedAt

(* The clock of the driver, which is about to be reset, *)
ToBeReset == frozen /\ power = "reset clock"

(* is otherwise not below the difference of the two clocks, as long as no  *)
(* outdated timestamp was used; nor is the offset that a work, or the      *)
(* stream, has taken from it.                                              *)
OffsetInv ==
  ~mixed =>
    /\ (sampled /\ ~ToBeReset) => clock >= skew
    /\ \A h \in Busy :
         (work[h].pc = "clocked" /\ work[h].ready /\ ~Outdated(work[h].stamp))
           => work[h].offset >= skew
    /\ (started /\ ~torn /\ latch.valid) => latch.offset >= skew

(* The offset of a work is at most the sample its timestamp has given. *)
SampleInv ==
  \A h \in Busy : LET stamp == work[h].stamp IN
    (work[h].pc = "clocked" /\ stamp.came >= stamp.dev) =>
      work[h].ready /\ stamp.dev + work[h].offset <= stamp.came

(* The anchor is mapped with the offset the stream has latched. *)
AnchorInv ==
  (Anchored /\ ~foreign /\ ~torn) =>
    /\ latch.valid /\ latch.seed = anchor.seed
    /\ remote = anchor.dev + latch.offset

IInv ==
  /\ TypeOK
  /\ StampInv /\ FrozenInv /\ ResetInv /\ OffsetInv /\ SampleInv
  /\ AnchorInv /\ NotBeforeEvent

(* From one timestamp to the next the anchor moves by just what the device *)
(* says, however long either was under way: the pointer does not jump when *)
(* a better offset becomes known, nor when works overtake each other.      *)
(* (As long as the device keeps to its update seed, and for a stream that  *)
(* was not torn by a reset.)                                               *)
NoJitter ==
  [][ (Anchored /\ Anchored' /\ ~foreign /\ ~torn
        /\ anchor'.seed = anchor.seed)
        => remote' - remote = anchor'.dev - anchor.dev ]_streamVars

(* "Timestamps received while START_IO was pending belong to the old       *)
(* epoch" (t2audio_pcm_start).  The driver tells them by the time they map *)
(* to: the first timestamp a started stream handles never anchors it if it *)
(* has come before the start, for the offset is at most the sample the     *)
(* timestamp has itself given.  (It has given none if the device's clock   *)
(* is ahead of the host's.  Later timestamps may be old ones: once a work  *)
(* has latched the offset it had read, which may be above the one known by *)
(* now, an old one can map past the start.  And a reset may zero the time  *)
(* of a start that it meets, and with it the test: torn.)                  *)
OldEpochIgnored ==
  [][ (~Anchored /\ Anchored' /\ ~latch.valid /\ ~torn
        /\ anchor'.came >= anchor'.dev)
      => anchor'.came >= startedAt' ]_streamVars
=============================================================================
