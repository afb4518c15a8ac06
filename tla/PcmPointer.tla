----------------------------- MODULE PcmPointer -----------------------------
(***************************************************************************)
(* The pointer of a PCM stream (pcm.c, t2audio_pcm_pointer).  The device   *)
(* tells when it was at the start of its ring, late and once in a ring;    *)
(* between two timestamps the driver extrapolates from the rate.  ALSA     *)
(* only sees a position in the buffer and counts on that it never moves    *)
(* back: it takes any such move for nearly a whole buffer of progress.     *)
(*                                                                         *)
(* Time is counted in units of which a second has Second; the device takes *)
(* one of the times in Lengths for a ring.  How a timestamp is mapped to   *)
(* host time is in StreamClock: with a constant error, never to before its *)
(* event.                                                                  *)
(***************************************************************************)
EXTENDS Integers

CONSTANTS
  BufferSize,   \* runtime->buffer_size, in frames
  Rate,         \* runtime->rate, in frames per second
  Second,       \* NSEC_PER_SEC
  Latencies,    \* values of stream->latency
  Lengths,      \* what the device may take for one ring
  Drift,        \* how far that is from what the rate says, at most
  Errors,       \* what the mapping of timestamps may add to the time
  MaxDelay,     \* what a timestamp may take to its handler
  MaxGap,       \* what ALSA lets pass between two calls of the pointer
  MaxTime       \* bound on the time of a behaviour

ASSUME SizeAssumption ==
  /\ BufferSize \in Nat \ {0}
  /\ Rate \in Nat \ {0}
  /\ Second \in Nat
  /\ Second * BufferSize >= Rate

ASSUME LatencyAssumption == Latencies \subseteq 0 .. BufferSize - 1

ASSUME TimeAssumption ==
  /\ Lengths \subseteq Nat
  /\ Errors \subseteq Nat
  /\ {MaxDelay, MaxGap, MaxTime} \subseteq Nat
  /\ \A len \in Lengths : MaxDelay < len

(* What the buffer takes at the rate the stream has. *)
BufferTime == (Second * BufferSize) \div Rate

Quarter == BufferSize \div 4

(* How regular the device and ALSA have to be for the two to stay in step. *)
(* The 16640 packets of the microphone's buffer take a third of a second;  *)
(* from the first timestamp on its period timer asks for the pointer every *)
(* 10 to 20 ms, and delays, errors and the drift are some milliseconds.    *)
ASSUME StepAssumption ==
  /\ Drift \in Nat
  /\ Lengths \subseteq BufferTime - Drift .. BufferTime + Drift
  /\ BufferSize >= 4
  /\ \A l \in Latencies : l <= Quarter
  /\ \A e \in Errors : (2 * Drift + e) * BufferSize <= Quarter * BufferTime
  /\ 4 * (1 + MaxGap + MaxDelay + 2 * Drift) <= 3 * BufferTime

VARIABLES
  latency,      \* stream->latency
  error,        \* what the mapping adds to the time of an event
  now,          \* ktime_get_boottime()
  state,        \* of the ALSA stream
  waiting,      \* stream->waiting_for_first_ts
  after,        \* stream->timestamp_accept_after
  remote,       \* stream->remote_timestamp
  frameMin,     \* stream->frame_min
  ring,         \* when the device was at the start of its ring,
  length,       \* what it takes for it this time,
  rings,        \* and rings since the one the stream was anchored in first
  pending,      \* the timestamp of this ring is under way
  hwPtr,        \* the frames ALSA has counted
  ahead,        \* what ALSA had counted more than the device when it called
  called,       \* when that was
  unsure        \* a timestamp was lost or mapped to a time to come

constVars == <<latency, error>>
streamVars == <<state, waiting, after, remote>>
deviceVars == <<ring, length, rings, pending>>
alsaVars == <<hwPtr, ahead, called>>
vars == <<constVars, now, streamVars, frameMin, deviceVars, alsaVars, unsure>>

Init ==
  /\ latency \in Latencies
  /\ error \in Errors
  /\ now = 0
  /\ state = "setup"
  /\ waiting = FALSE
  /\ after = 0
  /\ remote = 0
  /\ frameMin = 0
  /\ ring = 0
  /\ length \in Lengths
  /\ rings = 0
  /\ pending = FALSE
  /\ hwPtr = 0
  /\ ahead = 0
  /\ called = 0
  /\ unsure = FALSE

-----------------------------------------------------------------------------
(* The pure part of t2audio_pcm_pointer. *)

(* Mutant: the time is not taken round the buffer. *)
ExtrapolatedOn(time) == (time * BufferSize) \div BufferTime

(* The frames since the start of the buffer, a time after it. *)
Extrapolated(time) == ((time % BufferTime) * BufferSize) \div BufferTime

(* Not below frame_min in the ring the stream was anchored in. *)
Floored(time) ==
  IF time < BufferTime /\ Extrapolated(time) < frameMin
  THEN frameMin
  ELSE Extrapolated(time)

(* Mutant: kept in the second ring no more than in later ones. *)
FrameMinForgotten(time) ==
  IF time < BufferTime /\ Extrapolated(time) < frameMin THEN frameMin ELSE 0

(* frame_min is kept until it is passed, and is set anew when the next     *)
(* timestamp is late.                                                      *)
NextFrameMin(time) ==
  IF time < BufferTime
  THEN IF Extrapolated(time) < frameMin THEN frameMin ELSE 0
  ELSE IF time < 2 * BufferTime THEN Extrapolated(time) ELSE 0

(* The latency is taken off, round the buffer. *)
LessLatency(frames) ==
  LET n == frames - latency
      m == IF n < 0
           THEN n + (((0 - n - 1) \div BufferSize) + 1) * BufferSize
           ELSE n
  IN  m % BufferSize

-----------------------------------------------------------------------------
(* The device, and time. *)

(* The frames the device has done since the stream was anchored. *)
Position == rings * BufferSize + ((now - ring) * BufferSize) \div length

(* Time passes no further than ALSA lets pass without a call, or than a    *)
(* timestamp may take.                                                     *)
TimePasses ==
  /\ now < MaxTime
  /\ state = "running" => now - called < MaxGap
  /\ pending => now - ring < MaxDelay
  /\ now' = now + 1
  /\ IF state = "running" /\ now' = ring + length
     THEN /\ ring' = now'
          /\ length' \in Lengths
          /\ rings' = rings + 1
          /\ pending' = TRUE
     ELSE UNCHANGED deviceVars
  /\ UNCHANGED <<constVars, streamVars, frameMin, alsaVars, unsure>>

-----------------------------------------------------------------------------
(* The callbacks, and timestamps. *)

(* t2audio_pcm_prepare; ALSA counts from zero. *)
Prepare ==
  /\ state = "setup"
  /\ state' = "prepared"
  /\ waiting' = TRUE
  /\ after' = 0
  /\ remote' = 0
  /\ frameMin' = latency
  /\ hwPtr' = 0
  /\ ahead' = 0
  /\ UNCHANGED <<constVars, now, deviceVars, called, unsure>>

(* t2audio_pcm_start: the device has begun its ring at the time of some    *)
(* "begin", and has answered now.                                          *)
Start(begin) ==
  /\ state = "prepared"
  /\ state' = "running"
  /\ waiting' = TRUE
  /\ after' = now
  /\ remote' = 0
  /\ frameMin' = latency
  /\ ring' = begin
  /\ length' \in Lengths
  /\ rings' = 0
  /\ pending' = TRUE
  /\ called' = now
  /\ unsure' = FALSE
  /\ UNCHANGED <<constVars, now, hwPtr, ahead>>

(* TRIGGER STOP *)
Stop ==
  /\ state = "running"
  /\ state' = "setup"
  /\ waiting' = TRUE
  /\ after' = 0
  /\ remote' = 0
  /\ pending' = FALSE
  /\ UNCHANGED <<constVars, now, frameMin, ring, length, rings, alsaVars,
                 unsure>>

(* t2audio_handle_stream_timestamp *)
HandleTimestamp ==
  /\ pending
  /\ pending' = FALSE
  /\ IF ring + error < after
     THEN UNCHANGED <<remote, waiting, rings, unsure>>
     ELSE /\ remote' = ring + error
          /\ waiting' = FALSE
          /\ rings' = IF waiting THEN 0 ELSE rings
          /\ unsure' = (unsure \/ ring + error > now)
  /\ UNCHANGED <<constVars, now, state, after, frameMin, ring, length,
                 alsaVars>>

(* A message of the device is dropped for want of memory. *)
LoseTimestamp ==
  /\ pending
  /\ pending' = FALSE
  /\ unsure' = TRUE
  /\ UNCHANGED <<constVars, now, streamVars, frameMin, ring, length, rings,
                 alsaVars>>

-----------------------------------------------------------------------------
(* The pointer is called. *)

(* ALSA gets a position in the buffer and adds what it has moved on. *)
Count(position) ==
  /\ hwPtr' = hwPtr + ((position - hwPtr) % BufferSize)
  /\ ahead' = hwPtr' + latency - (IF waiting THEN latency ELSE Position)
  /\ called' = now

(* Without a timestamp, or before the time of it, the position is zero. *)
PointerAtZero ==
  /\ state = "running"
  /\ waiting \/ now < remote
  /\ Count(0)
  /\ UNCHANGED <<constVars, now, streamVars, frameMin, deviceVars, unsure>>

Pointer ==
  /\ state = "running"
  /\ ~waiting
  /\ now >= remote
  /\ Count(LessLatency(Floored(now - remote)))
  /\ frameMin' = NextFrameMin(now - remote)
  /\ UNCHANGED <<constVars, now, streamVars, deviceVars, unsure>>

-----------------------------------------------------------------------------
Next ==
  \/ TimePasses
  \/ Prepare \/ Stop
  \/ \E begin \in {now - 1, now} \intersect Nat : Start(begin)
  \/ HandleTimestamp \/ LoseTimestamp
  \/ PointerAtZero \/ Pointer

Spec == Init /\ [][Next]_vars

-----------------------------------------------------------------------------
TypeOK ==
  /\ latency \in Latencies
  /\ error \in Errors
  /\ now \in Nat /\ after \in Nat /\ remote \in Nat /\ called \in Nat
  /\ state \in {"setup", "prepared", "running"}
  /\ waiting \in BOOLEAN /\ pending \in BOOLEAN /\ unsure \in BOOLEAN
  /\ frameMin \in 0 .. BufferSize - 1
  /\ ring \in Nat /\ length \in Lengths /\ rings \in Nat
  /\ hwPtr \in Nat /\ ahead \in Int

(* ALSA's count and the device's never come a quarter of the buffer apart  *)
(* (t2audio_pcm_pointer, with frame_min): the position ALSA sees does not  *)
(* move back when the device is slower than its rate says and a timestamp  *)
(* sets the clock back, nor with the first timestamp, nor round the end of *)
(* the buffer.  (A message that was lost, or a timestamp mapped to a time  *)
(* to come, does throw the count out by a whole buffer.)                   *)
InStep ==
  (state = "running" /\ ~waiting /\ ~unsure) =>
    ahead \in 0 - Quarter .. Quarter

(* Before the first timestamp ALSA is told that nothing has been played.   *)
FreshInv ==
  (state = "prepared" \/ (state = "running" /\ waiting)) =>
    hwPtr = 0 /\ ahead = 0 /\ frameMin = latency

(* The device is in its ring; the timestamp and the next call are due.     *)
DeviceInv ==
  state = "running" =>
    /\ ring <= now /\ now < ring + length
    /\ pending => now - ring <= MaxDelay + 1
    /\ called <= now /\ now - called <= MaxGap

Anchored == state = "running" /\ ~waiting /\ ~unsure

(* The clock of an anchored stream starts with this ring of the device, or *)
(* with the one before when the timestamp of this one is under way.        *)
AnchorInv ==
  Anchored =>
    /\ after <= remote /\ remote <= now
    /\ IF pending THEN rings > 0 /\ ring + error - remote \in Lengths
                  ELSE ring + error = remote

(* What the driver has told ALSA, and what it would tell a time after its  *)
(* clock has started, counted from that start and not round the buffer.    *)
Told == hwPtr + latency - (IF pending THEN rings - 1 ELSE rings) * BufferSize

Unwrapped(time) == (time * BufferSize) \div BufferTime

Telling(time) ==
  IF time < BufferTime /\ Unwrapped(time) < frameMin THEN frameMin
                                                     ELSE Unwrapped(time)

(* The pointer was called since the clock was set.                         *)
CalledSince == called > remote + MaxDelay + 1

(* What is told next is not less, nor is it after the next timestamp:      *)
(* frame_min is kept until it is passed, which it is in time.              *)
NeverBack ==
  Anchored =>
    /\ Told <= Telling(now - remote)
    /\ Told <= BufferSize + frameMin
    /\ Told < 0 => frameMin = 0
    /\ Told < BufferSize /\ CalledSince =>
         frameMin = 0 \/ Unwrapped(called - remote) < frameMin

(* What was told is not much less than the time of the call says.          *)
NotBehind ==
  Anchored =>
    Told * BufferTime + BufferTime
      > (called - remote - (IF CalledSince THEN 0 ELSE MaxDelay + 1 + Drift))
          * BufferSize

(* frame_min is the latency, or what was told for a timestamp that is late *)
(* or has come late.                                                       *)
FrameMinInv ==
  Anchored =>
    /\ Told >= BufferSize =>
         frameMin * BufferTime <= (now - remote - BufferTime) * BufferSize
    /\ \/ frameMin <= latency
       \/ /\ frameMin * BufferTime <= (now - remote + Drift) * BufferSize
          /\ \/ Told >= BufferSize
             \/ frameMin * BufferTime
                 <= (MaxDelay + 1 + Drift) * BufferSize

(* InStep with what it rests on: each call of the pointer (pcm.c, 448-467)  *)
(* tells ALSA no less than the one before, and less than a buffer more,    *)
(* whatever timestamps come in between.                                    *)
IInv ==
  /\ TypeOK
  /\ FreshInv /\ DeviceInv /\ AnchorInv
  /\ NeverBack /\ NotBehind /\ FrameMinInv
  /\ InStep
=============================================================================
