---------------------------- MODULE StreamBuffer ----------------------------
(***************************************************************************)
(* The buffer of a PCM stream (pcm.c, audio.c): how its size and the       *)
(* format of the device become the periods ALSA may use, and what becomes  *)
(* of the sound in the ring of a playback stream.  ALSA writes the ring,   *)
(* by mmap without a lock; prepare silences it; and since START_IO may     *)
(* spoil it, start saves what is queued and puts it back.                  *)
(*                                                                         *)
(* A frame is a packet, as on this device.  The stream lock, the timer and *)
(* the pointer are in PcmStream and PcmPointer.                            *)
(***************************************************************************)
EXTENDS Integers

CONSTANTS
  Sizes,        \* sizes of a buffer the T2 may publish, in bytes
  HostPackets,  \* 16640, the packets of a buffer of the driver's own
  Packets,      \* values of desc.bytes_per_packet
  Rates,        \* values of desc.sample_rate_double, as integers
  MaxWritten,   \* bound on the frames ALSA writes after a prepare
  MaxRuns,      \* bound on the prepares of a behaviour
  MaxAsked      \* bound on the START_IOs on their way to the device

ASSUME SizesAssumption ==
  /\ Packets \subseteq Nat \ {0}
  /\ Sizes \subseteq Nat
  /\ \A size \in Sizes, packet \in Packets : size >= packet
  /\ HostPackets \in Nat \ {0}
  /\ Rates \subseteq Nat

VARIABLES
  side,         \* "device" for a buffer of the T2 (playback), "host" (capture)
  size,         \* stream->buffers[0].size, or 0
  packet,       \* desc.bytes_per_packet
  rate,         \* desc.sample_rate_double, as an integer
  hw,           \* stream->alsa_hw_desc: bytes of a period, and periods
  pc,           \* what ALSA has got the stream to
  run,          \* prepares so far
  ring,         \* the frames in the buffer of a playback stream
  written,      \* runtime->control->appl_ptr, from the prepare on
  played,       \* frames the device has played, from the start on
  saved,        \* what start has backed up
  asked,        \* START_IOs on their way to the device
  exposed       \* frames were queued where no backup has them when the ring
                \* was spoiled, or may have been

configVars == <<side, size, packet, rate, hw>>
vars == <<configVars, pc, run, ring, written, played, saved, asked, exposed>>

NoHw == [period |-> 0, periods |-> 0]
Silence == [run |-> 0, no |-> 0]
Spoiled == [run |-> 0, no |-> 1]

Frames == size \div packet
RingOf(content) == [i \in DOMAIN ring |-> content]

(* The frame ALSA writes next. *)
Written(n) == [run |-> run, no |-> n]

(* runtime->buffer_size: ALSA has one choice only. *)
BufferSize == (hw.period * hw.periods) \div packet

Init ==
  /\ side \in {"device", "host"}
  /\ size = 0
  /\ packet \in Packets
  /\ rate \in Rates
  /\ hw = NoHw
  /\ pc = "probing"
  /\ run = 0
  /\ ring = [i \in {} |-> Silence]
  /\ written = 0
  /\ played = 0
  /\ saved = [i \in {} |-> Silence]
  /\ asked = 0
  /\ exposed = FALSE

-----------------------------------------------------------------------------
(* The hardware description. *)

(* t2audio_create_hw_info, when the format has an ALSA name: a period is a *)
(* packet.                                                                 *)
HwInfo(bytes) == [period |-> packet, periods |-> bytes \div packet]

(* Mutant: the number of periods is rounded up. *)
PeriodsRoundedUp(total) ==
  LET target == IF rate = 0 THEN total ELSE rate \div 100
      n == (total + target - 1) \div target
  IN  IF target = 0 \/ n < 1 THEN 1 ELSE n

(* The periods that last about 10 ms, at least one. *)
RetunedPeriods(total) ==
  LET target == IF rate = 0 THEN total ELSE rate \div 100
  IN  IF target = 0 \/ target > total THEN 1 ELSE total \div target

(* The host's buffer gets longer periods than t2audio_create_hw_info gives. *)
Retuned(bytes) ==
  LET total == bytes \div packet
      n     == RetunedPeriods(total)
  IN  [period |-> (total \div n) * packet, periods |-> n]

(* There is no description for a format ALSA has no name for, nor for a    *)
(* stream of several buffers.                                              *)
Configured(bytes, description) ==
  /\ pc = "probing"
  /\ pc' = "closed"
  /\ size' = bytes
  /\ hw' \in {description, NoHw}
  /\ UNCHANGED <<side, packet, rate, run, written, played, saved, asked,
                 exposed>>

(* No buffer, or no memory for one. *)
NoBuffer ==
  /\ pc = "probing"
  /\ pc' = "closed"
  /\ UNCHANGED <<configVars, run, ring, written, played, saved, asked, exposed>>

(* t2audio_init_bs_stream: a buffer of the T2, in its own memory. *)
InitBsStream(bytes) ==
  /\ side = "device"
  /\ Configured(bytes, HwInfo(bytes))
  /\ ring' = [i \in 0 .. (bytes \div packet) - 1 |-> Spoiled]

(* t2audio_init_bs_stream_host *)
InitBsStreamHost ==
  /\ side = "host"
  /\ Configured(packet * HostPackets, Retuned(packet * HostPackets))
  /\ UNCHANGED ring

-----------------------------------------------------------------------------
(* The buffer of a playback stream. *)

(* The frames t2audio_dma_memset and the copies get at. *)
Within(offset, frames) ==
  {i \in DOMAIN ring : offset <= i /\ i < offset + frames}

(* The frames t2audio_pcm_zero_frames silences, round the end. *)
ZeroFrames(first, frames) ==
  LET from == first % BufferSize
      n    == IF frames > BufferSize THEN BufferSize ELSE frames
  IN  IF from + n <= BufferSize
      THEN Within(from, n)
      ELSE Within(from, BufferSize - from)
             \union Within(0, n - (BufferSize - from))

(* t2audio_pcm_open and hw_params, of a playback stream with a description *)
(* (the code uses it unchecked).  Of a capture stream start saves nothing  *)
(* and prepare silences nothing.                                           *)
Open ==
  /\ pc = "closed"
  /\ hw # NoHw
  /\ side = "device"
  /\ pc' = "setup"
  /\ UNCHANGED <<configVars, run, ring, written, played, saved, asked, exposed>>

(* t2audio_pcm_prepare; the buffer is silent, and ALSA counts from zero. *)
Prepare ==
  /\ pc \in {"setup", "prepared"}
  /\ run < MaxRuns
  /\ pc' = "prepared"
  /\ run' = run + 1
  /\ ring' = [i \in DOMAIN ring |->
                IF i \in ZeroFrames(0, BufferSize) THEN Silence ELSE ring[i]]
  /\ written' = 0
  /\ played' = 0
  /\ exposed' = FALSE
  /\ UNCHANGED <<configVars, saved, asked>>

(* ALSA, or user space by mmap, which no lock holds off, writes a frame. *)
Write ==
  /\ pc \in {"prepared", "starting", "running"}
  /\ written < MaxWritten
  /\ written - played < BufferSize
  /\ ring' = [ring EXCEPT ![written % BufferSize] = Written(written)]
  /\ written' = written + 1
  /\ exposed' = (exposed \/ pc = "starting")
  /\ UNCHANGED <<configVars, pc, run, played, saved, asked>>

(* Mutant: the last frame is not saved. *)
QueuedButOne == (written % BufferSize) - 1

(* The frames start saves: appl_ptr % buffer_size of them. *)
QueuedFrames == written % BufferSize

(* t2audio_pcm_start up to START_IO.  (When there is no memory for the     *)
(* backup it fails, and nothing has changed.)  Of a full buffer it saves   *)
(* nothing.                                                                *)
StartBegins ==
  /\ pc = "prepared"
  /\ asked < MaxAsked
  /\ pc' = "starting"
  /\ saved' = [i \in Within(0, QueuedFrames) |-> ring[i]]
  /\ asked' = asked + 1
  /\ exposed' = (exposed \/ (written > 0 /\ written % BufferSize = 0))
  /\ UNCHANGED <<configVars, run, ring, written, played>>

(* The device starts its I/O, and has perhaps used the ring: perhaps long  *)
(* after the driver has stopped waiting for it.                            *)
DeviceStarts ==
  /\ asked > 0
  /\ asked' = asked - 1
  /\ ring' \in {ring, RingOf(Spoiled)}
  /\ exposed' = (exposed \/ (pc # "starting" /\ written > 0))
  /\ UNCHANGED <<configVars, pc, run, written, played, saved>>

(* Mutant: the backup is not freed. *)
StartEndsKeepingBackup(ok) ==
  /\ pc = "starting"
  /\ ok => asked = 0
  /\ ring' = [i \in DOMAIN ring |->
                IF i \in DOMAIN saved THEN saved[i] ELSE ring[i]]
  /\ pc' = IF ok THEN "running" ELSE "prepared"
  /\ UNCHANGED <<configVars, run, written, played, saved, asked, exposed>>

(* START_IO was answered, with success or not, or was not in time; what    *)
(* was saved is put back in any case.                                      *)
StartEnds(ok) ==
  /\ pc = "starting"
  /\ ok => asked = 0
  /\ ring' = [i \in DOMAIN ring |->
                IF i \in DOMAIN saved THEN saved[i] ELSE ring[i]]
  /\ saved' = [i \in {} |-> Silence]
  /\ pc' = IF ok THEN "running" ELSE "prepared"
  /\ UNCHANGED <<configVars, run, written, played, asked, exposed>>

(* The device plays its ring, frame by frame. *)
Play ==
  /\ pc = "running"
  /\ played < written
  /\ played' = played + 1
  /\ UNCHANGED <<configVars, pc, run, ring, written, saved, asked, exposed>>

(* TRIGGER STOP, when ALSA runs dry or is told to. *)
Stop ==
  /\ pc = "running"
  /\ pc' = "setup"
  /\ UNCHANGED <<configVars, run, ring, written, played, saved, asked, exposed>>

(* hw_free and t2audio_pcm_close *)
Close ==
  /\ pc \in {"setup", "prepared"}
  /\ pc' = "closed"
  /\ UNCHANGED <<configVars, run, ring, written, played, saved, asked, exposed>>

-----------------------------------------------------------------------------
Next ==
  \/ \E bytes \in Sizes : InitBsStream(bytes)
  \/ InitBsStreamHost
  \/ NoBuffer
  \/ Open \/ Prepare \/ Write
  \/ StartBegins \/ DeviceStarts
  \/ \E ok \in BOOLEAN : StartEnds(ok)
  \/ Play \/ Stop \/ Close

Spec == Init /\ [][Next]_vars

-----------------------------------------------------------------------------
Contents == [run : Nat, no : Nat]

(* Types; and start keeps a backup, of frames of the ring, only until      *)
(* START_IO was answered or given up (t2audio_pcm_start).                  *)
TypeOK ==
  /\ side \in {"device", "host"}
  /\ size \in Nat
  /\ packet \in Packets
  /\ rate \in Rates
  /\ hw \in [period : Nat, periods : Nat]
  /\ pc \in {"probing", "closed", "setup", "prepared", "starting", "running"}
  /\ run \in Nat /\ written \in Nat /\ played \in Nat /\ asked \in Nat
  /\ \A i \in DOMAIN ring : ring[i] \in Contents
  /\ \A i \in DOMAIN saved : saved[i] \in Contents
  /\ DOMAIN saved \subseteq IF pc = "starting" THEN DOMAIN ring ELSE {}
  /\ exposed \in BOOLEAN

(* A description is the one of the stream's own buffer. *)
Described ==
  hw # NoHw =>
    \/ side = "device" /\ size \in Sizes /\ hw = HwInfo(size)
    \/ side = "host" /\ size = packet * HostPackets /\ hw = Retuned(size)

ConfigInv == TypeOK /\ Described

Active == {"prepared", "starting", "running"}

(* A stream in use is a playback stream with a description, and its ring   *)
(* has all the frames of the buffer.                                       *)
RingInv ==
  /\ pc \in {"setup"} \union Active => side = "device" /\ hw # NoHw
  /\ (side = "device" /\ hw # NoHw) => DOMAIN ring = 0 .. Frames - 1

(* ALSA has no more queued than the ring holds, and the device has played  *)
(* nothing before it was started.                                          *)
QueueInv ==
  pc \in Active =>
    /\ played <= written
    /\ written - played <= Frames
    /\ pc # "running" => played = 0

(* No frame is from before the last prepare. *)
RunInv ==
  pc \in Active =>
    /\ \A i \in DOMAIN ring : ring[i].run \in {0, run}
    /\ \A i \in DOMAIN saved : saved[i].run \in {0, run}

(* What is queued is in the ring, or in the backup while START_IO may      *)
(* spoil the ring.                                                         *)
QueuedInv ==
  ~exposed =>
    /\ pc \in {"prepared", "running"} =>
         \A n \in played .. written - 1 : ring[n % Frames] = Written(n)
    /\ pc = "starting" =>
         \A n \in 0 .. written - 1 : n \in DOMAIN saved /\ saved[n] = Written(n)

SoundInv == RingInv /\ QueueInv /\ RunInv /\ QueuedInv

IInv == ConfigInv /\ SoundInv

(* The buffer ALSA divides into periods lies within the buffer of the      *)
(* stream and fills it but for less than a frame of each period; and when  *)
(* the buffer lasts for 10 ms, the host's periods last for 10 ms at least  *)
(* and for less than 20 ("Re-tune the period size to roughly 10ms",        *)
(* t2audio_init_bs_stream_host).                                           *)
PeriodsFit ==
  hw # NoHw =>
    /\ hw.periods >= 1
    /\ hw.period * hw.periods <= size
    /\ size < (hw.period + packet) * hw.periods + packet
    /\ LET target == rate \div 100 IN
         (side = "host" /\ target >= 1 /\ target <= HostPackets) =>
           target * packet <= hw.period /\ hw.period < 2 * target * packet

(* What is written to the ring is what the device will play, START_IO or   *)
(* not: start has saved it, and put it back where it was; and should the   *)
(* device go on past it, it finds no sound from before the last prepare.   *)
(* (Nothing is saved of a buffer that is full; a frame written by mmap     *)
(* while START_IO is under way is not either; and a START_IO that was      *)
(* given up may be carried out after the buffer was filled anew: exposed.) *)
PlaysWhatWasWritten ==
  pc = "running" =>
    /\ ~exposed => \A n \in played .. written - 1 : ring[n % Frames] = Written(n)
    /\ \A i \in DOMAIN ring : ring[i].run \in {0, run}
=============================================================================
