# Verification of t2bce-audio

This directory holds TLA+ models of the part of this repository that keeps
state and runs concurrently: the kernel driver `t2bce-audio`
(`src/files/usr/src/t2bce-audio-micfix-1.0/`), which lets Linux use the audio
devices behind the Apple T2 chip. Every module is written from the C source;
`PROJECT.json` maps each definition to the lines it stands for. File names
below are relative to that driver directory unless they start with `src/`.

## 1. Inventory

### The parts and how they interact

```
 ALSA (user threads)      PM core / t2bce           t2audio_resume_complete
   | open prepare           | suspend resume          |
   | trigger close          | prepare shutdown        | schedule_work
   v                        v                         v
 pcm.c  PCM stream  <---- audio.c  power management  resume_work
   ^  ^   period timer        |          |
   |  |   and period work     | reset    | SET_REMOTE_ACCESS
   |  +-- timestamps ---+     | streams  |
   |                    |     |          |
   | START_IO/STOP_IO   |     |          |
   v                    |     v          v
 protocol.c / protocol_bce.c  command transport (tags, pending entries)
   |        ^ deferred works (one per message of the device)
   v        |
 IntelToARM   ARMToIntel     two rings of message slots
   |        ^
   v        |
        the T2
```

| Part | Source | State | Operations | What is hard | What makes it correct |
| --- | --- | --- | --- | --- | --- |
| IntelToARM queue | `protocol_bce.c` 13-93, 153-158 | `qout.data_tail`, the slots, the ring's free submissions, `b->spinlock` | reserve, prepare, submit, completion handler | senders wait for a reservation outside the lock; the slot is chosen by `data_tail` alone | no slot is overwritten before the device has read it; no submission leaks; a reservation is always used |
| ARMToIntel queue | `protocol_bce.c` 176-260 | `qin.data_head`, `qin.data_tail`, slots, submissions | completion handler, posting of slots | completions do not name their slot and arrive while the handler runs; no lock | every message is handled once, in order, unchanged; the device never runs out of slots for good |
| Command transport | `protocol_bce.c` 52-151, 162-247, `protocol_bce.h`, `protocol.c` | `tag_num`, `pending_entries[]`, `t2audio_send_ctx`, deferred works, the reply buffers | send, send and wait, reply, timeout, device command | the reply races the timeout and writes to a waiter's stack; tags come round after 1000; a dozen paths end a command and its buffer | a reply reaches its own command or nobody; no stale stack pointer; every call returns; no reply is copied to another's memory |
| Power management | `audio.c` 203-386 | `pm_quiesced`, `resume_deferred`, `resume_work`, the device's remote access | suspend, prepare_client, shutdown_client, shutdown, resume, resume_complete, resume_work | three threads share two flags without a lock; the commands fail and time out | asleep means access off; awake means access on and fresh clocks; a quiesce is not undone by a work it has cancelled; a deferred resume ends |
| PCM stream | `pcm.c` 123-187, 263-430, 533-590, `audio.c` 203-247, 352-386 | `started`, `waiting_for_first_ts`, `period_timer`, `period_work`, `substream`, ALSA's stream lock | open, prepare, start, stop, close, timestamp, timer, period work | stop runs with the lock period work wants; timestamps and resets run beside ALSA's callbacks; START_IO and STOP_IO name the device, which two streams share | no deadlock; at most one late period; a closed stream is silent; no I/O runs for nobody; a running stream has its I/O and keeps reporting |
| Device clock | `audio.c` 827-851, `pcm.c` 339-399, 533-575 | `clock_offset_ns`, `clock_samples`, a stream's latched offset, `timestamp_accept_after` | timestamp, start, stop, the resets of a resume | timestamps are handled in works that overtake each other, and live through a suspend; a T2 that has lost its state has a new clock | a timestamp is never mapped before its event; the anchor does not jitter; old epochs are ignored |
| PCM pointer and buffer | `pcm.c` 9-121, 187-261, 339-383, 436-488 | `frame_min`, the ring, the backup `start` makes of it | pointer, prepare, start, mmap | wrap-around; timestamps that are late, lost or in the future; START_IO spoils the ring; no lock holds mmap off | ALSA's count stays with the device; what was written is what is played |
| Enumeration | `audio.c` 388-734, `protocol.c`, `description.h` | subdevices, their streams and ALSA numbers, the reply buffers they are read from, `buf_id`, the BufferStruct, the hardware description | init_cmd, init_dev, init_bs, init_bs_stream | errors half-way; the list is read while a dozen commands per device are answered; one buffer for three replies; one index counted over two loops; periods that do not divide the ring | every device is gone through, in turn; what is listed is what the T2 has said; every subdevice has its own buffers; the periods lie within the buffer |
| Probe and remove | `audio.c` 38-201, 907-962 | the resources of the module and of the driver, the queues | module init and exit, probe, remove | a dozen ways to fail behind two labels, and three more in the module; what outlives the driver | after a failure or a remove no region, interrupt, mapping, card or client is held, and no memory is lost twice |
| Notifications and jack | `audio.c` 738-826, 860-905 | the jack's status, one work per notice | alive, property change, jack work | works start before the device is listed, and report out of order | ALSA shows the state of the T2's jack |
| t2bce_core | `t2bce_core/include/t2bce_core_transport.h` (header only) | submission rings, completion queue | reserve, submit, complete | - | modelled as the environment of the queues, from how the driver uses it |
| User space | `src/files/home/.local/bin/*` | last tap, last brightness | event loops | - | not modelled: single-threaded loops that copy one value to another, or run a command on a key |
| AWDL | `src/awdl/brcmfmac-awdl.patch` | `tx_seq`, the interface | encapsulate, decapsulate, forward events | - | not modelled: a patch to a driver that is not in the repository |
| AWDL tools, installer, diagnostics | `src/awdl/*.py`, `src/install.sh`, `src/tools` | none worth a model | - | - | not modelled: pure I/O |

`PROJECT.json` lists under `hazards`, line by line, what in this code a test
would hardly reach, with the properties that watch it.

## 2. Modules

| Module | Models | Extends or instantiates | Checked by | Proved in |
| --- | --- | --- | --- | --- |
| `Link` | one direction between driver and T2: put at one end, take at the other | - | in its users | - |
| `Fifo` | what a ring promises: messages unchanged, in order, at most `Capacity` | extends `Link` | as a refinement target | - |
| `OutQueue` | the IntelToARM ring: reservations, lock, `data_tail`, slots | instantiates `Fifo` | `out_queue` | `QueueProofs` |
| `EventQueue` | the ARMToIntel ring: `data_head`, `data_tail`, completion handler | instantiates `Fifo` | `event_queue` | `QueueProofs` |
| `CommandRpc` | what the transport promises a caller | - | as a refinement target | - |
| `DeviceList` | what the rest of the driver sees of the T2's list of devices | - | as a refinement target | - |
| `Enumeration` | the T2's devices and their streams asked for, and the reply buffers, while other threads send commands | instantiates `DeviceList` | `enumeration` | `EnumerationProofs` |
| `BceTransport` | tags, pending entries, timeouts, replies, deferred works over two links | instantiates `Link` twice, `CommandRpc` | `bce_transport` | `BceTransportProofs` |
| `AudioDevice` | the module's init and exit, probe with its error paths, remove, places in the BufferStruct, the jack and its works | instantiates `DeviceList` | `audio_device` | `AudioDeviceProofs` |
| `PowerManagement` | `pm_quiesced`, `resume_deferred`, `resume_work`, remote access | - | `power`, `power_shutdown` | `PowerManagementProofs` |
| `PcmStream` | one stream under ALSA, timestamps, timer, period work and power management, and the stream it shares the device's I/O with | - | `pcm_stream`, `pcm_stream_live` | `PcmStreamProofs` |
| `StreamClock` | clock offset, latch and mapping of timestamps, over suspends | - | `stream_clock` | `StreamClockProofs` |
| `PcmPointer` | the interpolated pointer and `frame_min`, against the device's ring and ALSA's count | - | `pcm_pointer` | `PcmBufferProofs` |
| `StreamBuffer` | the buffer and the periods of a stream, and the sound in the ring of a playback stream | - | `stream_buffer` | `PcmBufferProofs` |

`MC<module>` names the values a run uses; the `.cfg` files bind them.

The layers compose as follows. `OutQueue` and `EventQueue` show, slot by slot,
that a ring is a FIFO of bounded capacity (`Fifo`, whose two ends are the
operators of `Link`). `BceTransport` then uses a `Link` in each direction in
place of the rings and shows that callers get what `CommandRpc` promises.
`PowerManagement` and `PcmStream` use, of that promise, that a command ends with
success, with a refusal, with a timeout after which the device may still carry
it out, or unsent. So do `StreamBuffer`, `AudioDevice` and `Enumeration`; the last
also uses that a call gets the reply to its own command. `Enumeration` shows,
word by word of the reply buffers, that the T2's list of devices is gone through
as `DeviceList` says, and `AudioDevice` takes its devices from that list.
`StreamClock` says when
the first timestamp anchors a stream and how far its mapped time may be from the
event; `PcmPointer` starts from there (`Errors`, `MaxDelay`), and `StreamBuffer`
needs of the pointer only that ALSA does not write what is still to be played.
`PcmStream` has one command in flight under the stream lock
and `PowerManagement` may have two, on the ordered link.

### State and actions

* `OutQueue`. `pc[s]` is the point a thread has reached in the send macro:
  before `t2bce_core_reserve_submission`, between it and `spin_lock`, or in the
  critical section. `available` is the ring's count of free submissions, `slot`
  the DMA buffer, `ring` the slots the device has been given and not read,
  `completed` the completions the interrupt handler has still to see.
  `spinlock` is a set of holders, so that mutual exclusion is a theorem and not
  a typing accident.
* `EventQueue`. `posted` and `filled` are the slots the device may fill and
  those it has filled; the handler's loop (`HandlerTakes`), its end
  (`HandlerDrains`) and the posting afterwards (`HandlerPosts`) are separate
  steps between which the device goes on.
* `BceTransport`. Messages carry a type and a tag; `serial` numbers the
  commands, is invisible to the code and lets the properties say which reply
  belongs to which command. The timeout is two steps, as in the code:
  `wait_for_completion_timeout` returns (`WaitTimesOut`), then the lock is taken
  and the entry removed (`Expire`), with a late reply possible in between.
* `PowerManagement`. A callback is the sequence `QuiesceStarts`, `QuiesceCancels`
  (`cancel_work_sync`), `QuiesceResets` (`resume_deferred`), `SendAccess`,
  `QuiesceEnds`. A resume and the work go on, when the access is on, by the reset
  of `resume_deferred` (`ResumeEnds`, `WorkEnds`), that of `pm_quiesced`
  (`ClearsQuiesced`) and those of clock and streams (`ResetsStreams`).
  `resume_complete` is split between reading `resume_deferred` and
  `schedule_work`. None of these takes a lock, and the steps of two threads fall
  in between one another's. `failed`, `lateOn`, `overlap`, `slipped` and `stale`
  are history for the properties. `sent` holds the requests on the ordered link;
  one of a call that timed out stays there and is applied late.
* `Enumeration`. `mem` holds the words of each reply buffer and the size its
  owner knows of, `allocated` what `kmalloc` has given and `kfree` not got back,
  `call[t]` the command a thread waits for. `at` goes through
  `t2audio_init_cmd` and `t2audio_init_dev` command by command; the list
  (`listBuf`) and the buffer a device's uid and lists of streams are read from
  (`devBuf`) are the prober's, the other commands have buffers of their own.
  `padded` is whether the T2 makes its replies equally long; `leaked` and `cut`
  are history.
* `PcmStream`. `pc[t]` is where the user thread, the period work, a timestamp
  work, the power-management thread or the user of the peer is; `lock` is ALSA's
  stream lock (a mutex, as the PCM is non-atomic); `io` is whether the device
  runs its I/O, which it starts and stops for both streams at once
  (`DeviceStarts`, `DeviceStops`) before the call that asked for it returns.
  `late`, `beat`, `stopFailed`, `resetHit`, `overtaken` and `cut` are history.
* `StreamClock`. Time is a small number; a timestamp has the time it was taken
  and the time it reached the driver, and each of its two critical sections
  (`clock_lock`, then the stream lock) is one step. `skew` is what the two clocks
  differ by; `Wake(TRUE)` changes it, as a T2 that has lost its state starts its
  clock anew (`since`). A resume resets the clock under its lock (`ResetClock`)
  and then the stream without one: `t2audio_reset_stream` stops the timer
  (`ResetStreamBegins`) and stores into one field after the other
  (`ResetsField`), in the order of the source or in another the build may choose
  (`Orders`), while timestamp works and a start go on. A start is two steps,
  what it forgets (`StartForgets`) and the store of `started` (`StartEnds`).
  `startedAt`, `torn`, `mixed` and `foreign` are history.
* `AudioDevice`. `pc` goes through the steps of `t2audio_probe`, each of which
  may fail, after those of `t2audio_module_init` (`module`); `held` is what it
  has acquired and not given back, `queues` the BCE queues, which nothing
  destroys, `left` what is lost without being held: the callback of the client,
  the buffers of the host streams (`buffered`), which nothing frees, and the
  subdevices of a probe that failed late. `todo` and
  `listed` are the devices still to be asked for and those in `subdevice_list`;
  `bs` and `bufId` the BufferStruct and the places in it. A jack work finds its
  device, asks the T2 and reports (`FindsDevice`, `Asks`, `Reports`) while the
  probe or another work goes on. `asks`, `lastReport` and `missed` are history.
* `PcmPointer`. Time is counted in units of which `Second` are a second. The
  device goes round its ring in a length that may differ each time (`length`),
  sends a timestamp at its start (`pending`), which may be late or lost; `hwPtr`
  is what ALSA's `snd_pcm_update_hw_ptr` makes of the positions, `ahead` how far
  that is from the device. `unsure` marks the two cases in which the count does
  go wrong (section 4).
* `StreamBuffer`. A frame in the ring is tagged with the prepare it was written
  after, so that an old one is told from a new one; `saved` is the backup
  `start` makes, `asked` the START_IOs on their way, also those that were given
  up, `hw` what ALSA is told of the periods. `exposed` is history: the three
  ways in which queued sound may be lost.

## 3. Runs

Every run uses TLC's exhaustive search.

| Run | Instance | Shows |
| --- | --- | --- |
| `out_queue` | 3 senders, 2 messages, 3 slots | `SlotFree`, refinement of `Fifo` (`DeliversEverySend`), the invariant that is proved (`IInv`), `SubmissionComesBack` |
| `event_queue` | 2 messages, 3 slots | refinement of `Fifo` (`HandlesEveryMessage`), `IInv`, `MessagesAreHandled` |
| `bce_transport` | 2 callers, 1 deferred work, 2 tags, 3 commands, links of 2 | `IInv`, `NoDanglingWaiter`, `ReplyMatches`, `RoomToSubmit`, refinement of `CommandRpc` (`ImplementsRpc`), `CallsReturn` |
| `audio_device` | 2 devices, one with a buffer of the host, 2 probes, 4 BufferStructs, 3 changes of the jack, 2 works | `IInv`, `BuffersNamed`, `JackFollows` |
| `enumeration` | 3 devices, 1 other thread, 4 buffers of 5 words, padded replies or not | `IInv`, `ListedAsSaid`, refinement of `DeviceList` (`ListsInOrder`) |
| `power` | 3 suspends, 3 requests on the link | `IInv`, `OnlyASlippedWorkRuns`, `QuiescedIsOff`, `OffWhenStopped`, `ResumedInFull`, `DeferredResumeEnds` |
| `power_shutdown` | 1 suspend | violated: `ShutdownRevokes` |
| `pcm_stream` | 2 timestamp works, a peer | `IInv`, `OneLatePeriod`, `RunningHasIo`, `ClosedIsStopped`, `NoIoLeftOn` |
| `pcm_stream_live` | 1 timestamp work, no peer | `NobodyHangs`, `PeriodsGoOn` |
| `stream_clock` | 2 works, 2 seeds, times 0-2, 1 suspend, either clock ahead, the stores of a reset in 2 orders | `IInv`, `NoJitter`, `OldEpochIgnored` |
| `pcm_pointer` | a ring of 4 frames that takes 12 4/5 units, lengths 11 and 13, latencies 0 and 1, 3 rings | `IInv`, `InStep` |
| `stream_buffer` | rings of 2 to 4 frames, 5 frames written, 3 prepares, 2 START_IOs on their way; 16640 packets and the rates of ALSA | `IInv`, `PeriodsFit`, `PlaysWhatWasWritten` |

`IInv` of a module is its type invariant with the facts about its bookkeeping that
the others rest on: of `AudioDevice` that no resource is held that should not be,
that memory is left behind once at most and that the T2's last answer about the
jack is true unless it will be asked again, of `PcmPointer` that what ALSA is told
next is never less than what it was told, of `Enumeration` that no reply buffer is
shared, lost or freed twice, what is in each and what is known of a device so far,
of `StreamClock` that no timestamp is mapped before its event (`NotBeforeEvent`).
`audio_device`, `enumeration` and `stream_buffer` do not check for deadlock: a
probe ends, and probes, prepares and writes are bounded, so that a behaviour that
has used them up stops.

### Why the bounds are enough

* Three slots make `data_tail` wrap within a behaviour and let the ring be full,
  empty and in between; three senders make one hold the lock while a second has
  a reservation and a third waits for one. Two distinct messages suffice to see
  one overwritten or swapped. The proofs then cover every number.
* Two tags make tags come round with three commands: the late reply to the first
  meets the third. With more tags than commands the wrap would never happen.
  `MaxIssued` bounds the numbering only.
* Three suspends let a deferred resume of one sleep meet the quiesce of the next
  and the resume after that. Two requests on the link are the most two threads
  can wait for; the third place holds one that has timed out. `SendAccess` waits
  for room, and `AccessCallEnds` may always give up with "notsent".
* Two timestamp works are the least that can overtake each other. For progress
  one is enough: the works do not wait for one another except through the stream
  lock, which the user thread and the period work contend for as well.
* `HasPeer` adds the other direction where safety is checked. The peer takes the
  places of its callbacks that the shared I/O depends on and no others: its timer
  and its works touch nothing of this stream.
* `MaxTime = 2` leaves room for an event, its arrival or a restart, and a later
  event, with every order of those at one time; the works' sections interleave
  within a time as well. One suspend lets a work sleep through it between any two
  of its sections and wake to another clock, and its resume meet a start at any
  store. The opposite of the source's order makes every pair of the stores of a
  reset come in both orders. With the device ahead a sample may be negative, which
  the code discards. The proofs cover every number of works, suspends and seeds.
* Four buffers are the prober's two, that of its command and the other thread's;
  every command that loses one makes a buffer fewer, down to none. Of the
  devices one has the jack, one more input streams than the driver takes, and
  none of them linear, and two have no fixed ALSA number. `Words = 5` is the
  longest reply, so that a padded one is as long and a shorter one is not.
* Timestamp works, and the buffers of `Enumeration`, are interchangeable: the
  runs with `SYMMETRY` check safety only. The `VIEW` of `pcm_stream` leaves out
  `beat`, which only `PeriodsGoOn` looks at.
* Two probes let the second meet what the first has left; two works are the
  least that can report out of order, and three changes let one come during the
  probe and two after it. `Published` has a BufferStruct that names no device,
  one, both, and one the driver does not know.
* A buffer of 4 frames at 5 frames in 16 units takes 12 4/5 units, which the code
  rounds to 12, so that the division in the pointer is not exact and a device that
  takes 11 or 13 units is faster or slower than its rate (`Drift = 1`). Three rings
  let `frame_min` be set, used and cleared. `MaxGap` bounds how long ALSA goes
  without asking for the pointer. `StepAssumption`, which TLC evaluates on this
  instance, says how regular all that has to be. Some of it is needed: when ALSA may
  let 8 units pass, so that it does not ask between the end of the latency and the
  next timestamp, or when the latency is 2 of the 4 frames, `InStep` fails.
* Three prepares and two START_IOs let one that was given up come back two
  starts later; five frames go round a ring of two to four. The periods are
  computed with the numbers of the driver, for a rate of zero, for one below 100,
  for the usual ones and for one whose 10 ms exceed the buffer.

### Fairness

* `OutQueue`: strong fairness of taking the lock, since kernel spinlocks are
  queued; weak fairness of the device's reading and of the completion interrupt.
* `EventQueue`: weak fairness of the handler only; the device need not send.
* `BceTransport`: strong fairness of each thread, which has the lock to get and
  a timeout to run out. Nothing is assumed of the device: `CallsReturn` holds
  although it may never read, reply or complete.
* `PowerManagement`: weak fairness of the threads, as no step of theirs is
  disabled again by another before it is taken, and of t2bce's callback after a
  stateful resume, which is the contract of `t2audio_resume_complete`. The stores
  of a flag are steps of the thread and as fair as its others.
* `PcmStream`: strong fairness of threads that wait for the stream lock (a mutex
  is handed over to a waiter), weak fairness of the timer. A start, a stop or a
  timestamp need never come, and the device need carry nothing out.

## 4. What the violated run says, and what the properties leave out

`ShutdownRevokes` checks a sentence of a comment, and the code does something
else (`PROJECT.json` quotes the lines): `t2audio_quiesce` returns early while
`pm_quiesced` is set (`audio.c` 209). After a stateful resume it stays set until
`resume_work` has run, so that a shutdown in this window neither cancels the work
nor revokes the access that the work then turns on. (t2bce may shut its clients
down afterwards; that quiesce is skipped in the same way unless the work has
ended before it.)

The properties of the passing runs name the cases they have to exclude, with a
history variable each, and hold in all others. The cases are behaviours of the
code that a reader should know of:

* `overlap` (`PowerManagement`): a quiesce was skipped for the sake of a resume
  that was still due, as above, or of one at work: between the stores of
  `audio.c` 335 and 336 `pm_quiesced` is set with `resume_deferred` reset
  already.
* `slipped` (`PowerManagement`): between `cancel_work_sync` and the reset of
  `resume_deferred` (`audio.c` 212, 213) `t2audio_resume_complete` may schedule
  the work once more, and the work pass its test (325). It then turns the access
  on while the quiesce turns it off, or when the quiesce has set `pm_quiesced`
  and returned; and when it ends it calls off the resume that has become due
  meanwhile. `OnlyASlippedWorkRuns` shows that this window is the only one: a
  work that is scheduled later finds `resume_deferred` reset. Until the next
  quiesce that is carried out nothing is said of the access.
* `resetHit` (`PcmStream`): `resume_work` resets the streams without the stream
  lock when user processes run again. It clears `started` of a stream that was
  just started; a later suspend or shutdown looks at `started` (`audio.c` 220),
  passes the stream over and sends no STOP_IO.
* `cut` (`PcmStream`): START_IO and STOP_IO name the device (`pcm.c` 377, 420).
  To stop one of two streams of a device, or to undo its failed start, stops the
  I/O of the other as well, which ALSA goes on running.
* `mixed` (`StreamClock`): the reset of the clock (`audio.c` 370) does not wait
  for timestamp works. One that has read its timestamp or the offset before a
  suspend, and goes on after it, puts the old clock's offset into the new one.
* `torn` (`StreamClock`): `t2audio_reset_stream` does not take the stream lock
  (`audio.c` 355-361). Of a stream that is started at that moment it zeroes
  `timestamp_accept_after`, so that a timestamp from before the start passes, or
  the anchor and the offset a timestamp work has just set, so that the pointer
  starts from zero and the next timestamp is mapped by another offset. The
  stream keeps what is left until it stops. `NotBeforeEvent`, `NoJitter` and
  `OldEpochIgnored` leave it out; of a stream that had set `started`
  when the reset began, which stops it, or that forgets when the reset has ended,
  they do speak.
* The order of timestamps (`StreamClock`): one that was received while START_IO
  was pending is told from a new one by its mapped time only (`pcm.c` 558).
  `OldEpochIgnored` shows that the first timestamp a stream handles is never an
  old one, if the device's clock is not ahead. A later one may be: with an offset
  that another late timestamp has latched it maps past the start. The comment
  above the line (`pcm.c` 385) speaks of all of them.
* `overtaken` (`PcmStream`): a timestamp work drops the stream lock before it
  arms the period timer (`pcm.c` 568-569); stop and close fit in between. The
  timer finds the stream not started and does not go on.
* `unsure` (`PcmPointer`): a timestamp that is lost, or maps to a time to come
  (`pcm.c` 448), makes the position jump, and ALSA counts a buffer too much.
* `exposed` (`StreamBuffer`): of a buffer that was filled to the last frame
  `start` saves nothing, because `appl_ptr` is taken modulo its size (`pcm.c`
  363); a frame written by mmap during START_IO is not saved either; and a
  START_IO that was given up may spoil a buffer that was filled anew.
* `missed` and the order of reports (`AudioDevice`): a change of the jack that is
  announced before the device is listed finds no device, and two works may report
  in another order than the T2 answered them.
* `leaked` (`Enumeration`): `CMD_SEND_REQUEST` returns on an error before the
  reply buffer is freed (`protocol.c` 257); `IInv` shows that nothing else is
  lost. The lists, the uid and primitive properties, which free their buffers
  elsewhere, lose none.
* `cut` (`Enumeration`): a reply buffer's size is set to that of the reply and
  never back (`protocol_bce.c` 141). `t2audio_init_dev` uses one for three
  replies (`audio.c` 427); of a list that is longer than a reply before it, only
  a part is copied, and the rest is read from that reply. `ListedAsSaid` says
  nothing of the streams of such a device; with replies padded to one length there
  is none.
* `left` (`AudioDevice`): a probe that fails after the enumeration does not
  free the subdevices (`audio.c` 154-171). Neither it nor `t2audio_remove` calls
  `dma_free_coherent` for the buffer of an input stream (680), nor takes back the
  callback set at 72. `NothingHeld` speaks of the other resources; `LeftOnce`
  says that memory is lost once at most, as the T2 refuses the queues of every
  later probe.

`PeriodsFit` holds, but the periods of a capture stream do not fill its ring: at
48 kHz the driver tells ALSA of 34 periods of 489 frames, 16626 of the 16640 that
the device records, so that 14 frames of every round are never read.

## 5. Theorems

All proofs are for every value of the constants, under the assumptions the modules
name: there is at least one slot (`ElCountAssumption`), the threads that send, the
callers and the works are finitely many, callers and works are different threads
and `NoThread` is none of them, there is at least one tag and the ring has a
number of submissions; of the stream, that its threads differ; of the clock, that
there is a seed and the clocks differ by a number; of the pointer, that the buffer
has a frame, the rate is positive, a buffer takes at least a unit of time, and the
latency is less than the buffer; of a buffer, that it holds a packet and a packet
has a byte; of the enumeration, that the prober is none of the other threads, that
a buffer has room for the list of devices and for a reply, and that the T2 lists a
device once and gives each a name of its own; of the devices, that they are
finitely many and that a BufferStruct the T2 has published names nobody twice.
Bounds such as `MaxSleeps` or `MaxIssued` are any number. What `PcmBufferProofs`
shows of the count of ALSA also needs `StepAssumption`: the device takes for a
ring what the rate says, but for `Drift`; the buffer has four frames at least and
the latency is no more than a quarter of them; twice the drift and the error of a
mapped timestamp are less than a quarter of the buffer's time; and the longest gap
between two calls of the pointer, the longest delay of a timestamp and twice the
drift together less than three quarters. The code justifies the gap: from the
first timestamp on the period timer asks for the pointer once in a period (`pcm.c`
569), for the microphone 10 to 20 ms of a third of a second. The rest is about the
hardware and the scheduling of works, with much room: TLC finds `InStep` violated
when the gap reaches two thirds of the buffer or the latency half of it (section
3). Three more are about the hardware: the list of devices fits a message
(`T2AUDIO_BCE_QUEUE_ELEMENT_SIZE` is 4096 bytes), and the T2 names no device
twice, neither in the list nor in the BufferStruct, which the driver takes for
granted when it looks a device up by its id or its uid.

* `QueueProofs`. Of `OutQueue`, `InductiveInvariant`: `Spec => []IInv`. That the
  slot at `data_tail` is free is not inductive, since it says nothing of how many
  slots are on their way. `IInv` adds `SubmissionsConserved` (free submissions,
  reservations, slots on their way and completions sum up to `ElCount`; the
  count of reservations is a cardinality) and `SlotsInTurn` (the slots on their
  way are those just before `data_tail`, in turn). A sender in the critical
  section has a reservation, so at most `ElCount - 1` slots are on their way, and
  by `SlotsInTurn` none of them is `data_tail`: `SlotIsFree`. `Refinement`
  follows: since the slot written is not on its way, the messages on their way
  do not change, and `Submit` appends one. Of `EventQueue`, which the module has
  as the instance `In`, `InInvariant`: the slots filled, those to be made up for
  and those posted are as many as the buffer has, and lie in turn from
  `data_head` on round to `data_tail`; `InRefinement` as above, from the other
  end.
* `BceTransportProofs`. The inductive invariant has three parts. `CallsInv`:
  besides the properties, the tag is the serial number modulo `TagCount`
  (`TagInv`); callers' serials differ and are bounded (`CallInv`); the lock is
  held by the one thread in the critical section (`LockInv`); and every command
  and reply on its way has the tag of its serial and is not newer than the waiter
  under that tag (`MessageInv`). `WaitersAlive`, `RepliesMatch` and `WaitersKept`
  (a thread that waits is registered, unless the tags have come round) are its
  consequences. `RingInv`: a submission is free, reserved, on its way or back,
  and they sum up to the ring's; a thread that is about to submit has reserved
  one, so there is room (`SubmissionFits`). `OnceInv`: a command is in one place,
  in the hands of the thread that writes it, on its way, with the device, or its
  reply is on its way or has completed a call. `CommandRpc` forbids that a reply
  serves two calls, which no part of `CallsInv` does: a reply handled twice has
  the right tag both times. With `OnceInv` each step maps to one of `CommandRpc`
  or to a stutter (`Refinement`; in the mapping `Rpc` the callers that call are
  those that are not idle, and an answer is old when the tags have come round).
* `PowerManagementProofs`. `IInv` is `FlagsInv` and `SleepInv`. From the first
  follow `OnlyTheSlippedDisturb` (`OnlyASlippedWorkRuns`) and `SkippedIsOff`
  (`QuiescedIsOff`). `QuiescedIsOff` is not inductive: the device applies a
  request before the call that sent it ends, so the access may be on while
  `pm_quiesced` is still set. `QuiescedInv` says whose request that may be
  (`MayBeOn`), and the bookkeeping of the requests closes it: a waiting thread has
  its request or its answer on the link (`RequestsAwaited`, `AnswersAwaited`), one
  at most (`OneRequestEach`), and one without a waiter was given up
  (`AbandonedIsLate`). `SleepInv` is what a callback may count on when it begins,
  as long as no command has failed and no work has slipped: no request of the past
  is still on the link (`NoneAbandoned`), a work goes on only while its resume is
  due (`WorkIsDue`), and a system that is stopped is quiesced, and one that runs
  is restored or has a resume due or at work, store by store (`BetweenCallbacks`).
  `StoppedIsOff` (`OffWhenStopped`) and `ResumesInFull` (`ResumedInFull`) follow
  from it with `QuiescedInv` and `GrantedIsOn`.
* `PcmStreamProofs`. `IInv` says where each thread may be (`Places`) and that the
  lock is held by just the thread in TRIGGER START or STOP (`LockHeld`); what
  power management has stopped (`PhaseInv`) and ALSA takes the stream for
  (`AlsaInv`). On these rest `LateInv` (the period work elapses a stopped stream
  once, since it has passed its test of `started` before the stop;
  `AtMostOneLatePeriod`), `CloseInv` (what
  `t2audio_pcm_stop_period_timer` has cancelled stays cancelled: the timer queues
  the work and not the other way round, so it goes first;
  `ClosesForGood`), `StoppedInv` and `IoOn` (`RunsWithIo`), and `IoInUse`. The
  last is the least obvious: `NoIoLeftOn` speaks of a moment when everyone has
  finished, and to get there the I/O that is on must at any moment have someone
  who will stop it, be it a stream that is started, a start or stop under way, or
  a quiesce that has met a stream ALSA runs (`IoIsStopped`).
* `StreamClockProofs`. `NotBeforeEvent` is part of `IInv`. The offset is at least
  the difference of the clocks because each sample includes a delay; that this
  holds of the clock, of the offset a work has read and of the one the stream has
  latched (`OffsetInv`) needs that a timestamp a work still holds is of the clock
  of now or is known to be outdated (`StampInv`), and that nothing runs between
  the loss of a clock and its reset (`FrozenInv`). A reset of the stream takes
  nothing back from a stream that is not torn: one that is started while it is
  reset is (`ResetInv`). `AnchorInv`, the anchor is
  mapped with the latched offset, gives `AnchorsWithoutJitter` (`NoJitter`), and
  `SampleInv`, the offset of a work is at most its own sample, gives
  `FirstAnchorIsNew` (`OldEpochIgnored`).
* `PcmBufferProofs`. Of `PcmPointer`, which the module has as the instance `Pcm`
  (so that its assumptions are a hypothesis here, `PointerAssumptions`, with
  `StepAssumption` also `StepAssumptions`), `LatencyGoesRound`: the arithmetic
  that brings a position before the start of the buffer back into it (`pcm.c`
  463-466) is the remainder by the buffer size. `PointerStaysInBuffer`: hence ALSA
  is never given a position outside the buffer, with any latency. That one needs
  no `LatencyAssumption`, which the driver does not check (`pcm.c` 301, 392 set
  `frame_min` to the latency as it is): `FloorInv` says that `frame_min` is a
  position or the latency. `StaysInStep` (`InStep`) is about the modulo: ALSA sees
  a position in the buffer, and a position that moves back by a frame is a buffer
  too much. `Told` and `Telling` are what was told and what would be told now,
  counted from where the driver's clock starts and not taken round the buffer.
  `NeverBack` is that the second is never less than the first, and `NotBehind`,
  with the gap between two calls, that it is less than a buffer more
  (`LessThanBuffer`); hence what ALSA counts is just the difference
  (`RoundTheBuffer`, `PointerTells`; stated of every step as `CountsWhatIsTold`).
  A timestamp takes a buffer off both counts and starts the clock anew, which is
  when `NeverBack` is in danger. It holds because `frame_min` is at least what was
  told for a late timestamp; and a floor that has served its time is gone by the
  next one, as `FrameMinInv` bounds it and ALSA has called since
  (`FrameMinPassed`). Two clocks that go round by about the same time and start
  together are then never apart by a quarter (`AheadOfDevice`, `BehindDevice`,
  `PointerNear`). Of `StreamBuffer`, `PeriodsAlwaysFit`: the invariant `Described`
  says that a description is the one computed from the stream's own size, packet
  and rate; that its periods lie within the buffer and last for 10 to 20 ms is
  then arithmetic (`PeriodsFill`, `EvenPeriods`). `PlaysTheSound`
  (`PlaysWhatWasWritten`): ALSA has never more queued than the ring holds
  (`QueueInv`), so that no two queued frames share a place in it (two numbers less
  than a ring apart have different remainders); hence a write spoils none, `start`
  saves them all, and puts each back where it was (`QueuedInv`). `RunInv` is what
  `prepare`'s clearing gives: no frame, in the ring or the backup, is older than
  the last prepare.
* `EnumerationProofs`. `Invariant`: `IInv` begins with `HeapInv` (a reply buffer
  has one owner, and is lost only where `CMD_SEND_REQUEST` returns too early),
  which rests on who holds what (`HoldsInv`, `AskedInv`). What the prober reads
  is in one of two buffers, and the hazard is the one used for three replies, so
  `IInv` says of each what may be read from it: a blank buffer takes a whole
  reply (`BlankInv`); of one used before, at least the first two words are of the
  new reply, unless that was a refusal (`AnsweredInv`); the list still is what
  the T2 has said, however far the prober has gone through it (`ListInv`).
  `SdevInv`, `ListedInv` and `NumbersInv` carry that over to what is known of the
  device at hand and of those listed, and to the numbers of the PCMs.
  `ListsWhatIsSaid` (`ListedAsSaid`) follows, and with `TodoIsSaid` also
  `Refinement` (`ListsInOrder`): each step of the probe is one of `DeviceList` or
  a stutter.
* `AudioDeviceProofs`. `Invariant`: `NothingHeld` and `LeftOnce` are inductive
  together with `ProbeInv`, what a probe has at each of its stages.
  `EveryDeviceHasItsPlace` (`BuffersNamed`): what `t2audio_init_bs` makes of the
  BufferStruct is a loop over the devices, a recursive function here. That there
  is such a function (`LoopRuns`), and that its names stay all different
  (`AllHaveNames`), are shown by the least round at which that would fail
  (`LeastNumber`), which needs no induction theorem; and they need that the list
  names a device once (`NamedApart`, `ListIsOnce`). `ShowsTheJack` (`JackFollows`)
  speaks of works at rest. While they are not, `LastAnswerInv` says that the
  newest answer, reported or still to be, is true of the jack as it is, unless the
  T2 is to be asked again or the change was missed: a plug that goes in or out
  makes a notice before anything else can happen, and a work drops its notice only
  for a newer answer.

Model-checked only:

* all liveness (`SubmissionComesBack`, `MessagesAreHandled`, `CallsReturn`,
  `DeferredResumeEnds`, `NobodyHangs`, `PeriodsGoOn`), which is out of reach of
  the prover;
* `ShutdownRevokes`, which is violated (section 4).

## 6. Abstractions

* Memory is sequentially consistent: `WRITE_ONCE` and `READ_ONCE` of `started`
  are the only unlocked accesses that the models rely on, and each is one step.
* The contents of messages and their encoding are left out but for the words the
  enumeration reads; so is a failing allocation, except where it changes the
  control (a device command that cannot be copied is dropped by
  `HandleAndForget`). In `Enumeration` `kmalloc` waits for a free buffer.
* In `Enumeration` a T2 answers a command well, with something that is a response
  to another, or not at all, and names every device and stream once; a uid may
  be too long and a value of another size than was asked for. `READ_START` looks
  at the kind of a response and not at `base.status` (`protocol.c`), and neither
  does the model.
* A STOP_IO or START_IO of `PcmStream` that times out is carried out before its
  call returns, or not at all; that of `StreamBuffer` may be carried out later.
  While user processes are frozen the T2 sends no timestamps, as its I/O is off.
* The T2 and t2bce_core are not in the repository. Their actions (`Fetch`,
  `DeviceFills`, `DeviceReads`, `DeviceReplies`, `DeviceSends`, `DeviceApplies`,
  `TimePasses`, `DeviceTime`) are marked external and do what the driver's use
  of them permits, including nothing. A device replies at most once to a
  command and in any order.
* The stores of `audio.c` 302-338 to `pm_quiesced` and `resume_deferred` are made
  in the order of the source: a call lies between any two of them but 335 and 336
  (312 and 313), which stand side by side. Those of 355-361 may change places.
* `PcmStream` has no quiesce that is skipped and no work that slips into one
  (section 4): a quiesce and the resets of a resume come one after the other, and
  `NoIoLeftOn` speaks of a shutdown whose quiesce looks at the streams. It finds
  the user threads outside their callbacks. The kernel sees to that before a
  suspend; before a shutdown it is user space that has ended them.
* In `PcmStream` the user calls one callback at a time, as ALSA serialises them
  for one substream; the period and the pointer are not counted.
* A work that runs after `t2audio_remove` has freed the device structure is
  forgotten by `AudioDevice`: what it does there is undefined.
* That the T2 refuses queues that exist already is taken from `src/README.md`
  (line 24), that START_IO may spoil the ring from the backup
  the driver makes.
* A frame is a packet (`bytes_per_packet`), as on this device. The fields of
  `description.h` and their widths are left out: what a description says of
  format and rate is a number, or linear or not.

## 7. Plan

Done: the two queues, the transport, power management, the stream and the peer it
shares its I/O with, its clock, its pointer and its buffer, the enumeration with
its reply buffers, the module, probe and remove, the jack; the inductive
invariants of all of these with every safety property that the passing runs check,
and the refinements of `Fifo`, `CommandRpc` and `DeviceList`.

Left, in this order:

1. The quiesces of `PcmStream` that are skipped, or that the work of a resume
   slips into (`overlap`, `slipped`), and a shutdown that meets a callback.
2. A capture stream in `StreamBuffer`: what a reader gets of a ring that is
   longer than the buffer of ALSA, together with the pointer.
3. The pointer after a timestamp that was lost, or maps to a time to come: how far
   the count is out then (`unsure`), and when it is right again.

### Not modelled

* What works do after `t2audio_remove` has freed the device structure, and what
  `substream->runtime` is after a close: memory that is no longer the driver's.
* `t2audio_double_to_u64` and the layouts of `description.h` and of the messages:
  straight-line code on one value, which a unit test reaches.
* t2bce_core, of which only a header is in the repository; the AWDL patch, whose
  lines stand in a driver that is not; the user-space scripts, installer,
  configuration and diagnostics, which keep no state that two of their steps or
  threads could disagree about.
