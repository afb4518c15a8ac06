-------------------------- MODULE PcmStreamProofs --------------------------
(***************************************************************************)
(* Proofs about PcmStream, for any number of timestamp works and with or   *)
(* without a peer: its inductive invariant, part by part, and the          *)
(* properties of the stream that follow from it.                           *)
(***************************************************************************)
EXTENDS PcmStream, TLAPS

USE DEF InStart, InStop, InFullStop, BeforeStopIo, Closing,
        timerVars, workVars, sysVars, ghosts, ioVars, Goto, Threads

-----------------------------------------------------------------------------
(* The threads that may stop the stream. *)
Stoppers == Handlers \union {"user", "period"}

TimestampStep(h) ==
  \/ TimestampComes(h) \/ DropTimestamp(h)
  \/ TakeTimestamp(h) \/ StartPeriodTimer(h)

PmStep ==
  \/ QuiescedTimer \/ ResetEnds
  \/ QuiesceStopsIo \/ SuspendPcm
  \/ ResumeEnables \/ ResetBegins

USE DEF Stoppers

(* A step is one of these, whoever takes it. *)
LEMMA Steps ==
  ASSUME [Next]_vars
  PROVE  \/ UserBegins
         \/ StartSucceeds \/ StartFails \/ ClosedAtLast
         \/ \E t \in Stoppers : StopTrigger(t)
         \/ \E t \in {"user", "pm"} : FullStop(t)
         \/ \E t \in Threads : DeviceStarts(t) \/ DeviceStops(t)
         \/ PeerStep
         \/ TimerStep
         \/ PeriodWorkStarts
         \/ \E t \in Handlers \union {"period"} : PeriodElapses(t)
         \/ \E h \in Handlers : TimestampStep(h)
         \/ \E goal \in {"asleep", "down"} : QuiesceBegins(goal)
         \/ \E p \in {"resuming", "running"}, r \in {"enabled", "due"} :
              Resume(p, r)
         \/ PmStep
         \/ UNCHANGED vars
BY Zenon DEF Next, UserGoesOn, DeviceStep, PeriodStep, HandlerStep, PmGoesOn,
       TimestampStep, PmStep

(* A thread that stops the stream holds its lock. *)
LEMMA StopperLocks ==
  ASSUME LockHeld, NEW t \in Stoppers, pc[t] \in InStop
  PROVE  lock = t /\ t # Nobody
BY ThreadsAssumption DEF LockHeld

(* A STOP_IO that returns was carried out, or has failed: of this stream, *)
LEMMA StopReturns ==
  ASSUME TypeOK, LockHeld, NEW t \in Stoppers, StopEnds(t)
  PROVE  /\ pc[t] = "io stopped" \/ (pc[t] = "stopping" /\ stopFailed')
         /\ lock = t /\ lock' = Nobody /\ t # Nobody
         /\ stopFailed => stopFailed'
         /\ UNCHANGED <<io, resetHit, cut>>
<1>1. pc[t] = "io stopped" \/ (pc[t] = "stopping" /\ stopFailed')
  BY DEF StopEnds, StopIo, Stopped, TypeOK
<1>2. lock = t /\ lock' = Nobody /\ t # Nobody
  BY <1>1, StopperLocks DEF StopEnds
<1>3. (stopFailed => stopFailed') /\ UNCHANGED <<io, resetHit, cut>>
  BY DEF StopEnds, StopIo, TypeOK
<1> QED
  BY <1>1, <1>2, <1>3

(* of the peer, *)
LEMMA PeerStopReturns ==
  ASSUME TypeOK, PeerStopEnds
  PROVE  /\ pc["peer"] = "io stopped" \/ stopFailed'
         /\ stopFailed => stopFailed'
         /\ UNCHANGED <<io, resetHit, cut>>
BY DEF PeerStopEnds, StopIo, Stopped, TypeOK

(* or in a quiesce. *)
LEMMA QuiesceReturns ==
  ASSUME TypeOK, QuiesceStopsIo
  PROVE  /\ pc["pm"] = "io quiesced" \/ stopFailed'
         /\ stopFailed => stopFailed'
         /\ UNCHANGED <<io, resetHit, cut>>
BY DEF QuiesceStopsIo, StopIo, Stopped, TypeOK

(* The period work elapses a stopped stream at most once. *)
LEMMA LateByOne ==
  ASSUME TypeOK, LateInv, NEW t, PeriodElapses(t)
  PROVE  LateInv'
<1>1. CASE t # "period"
  BY <1>1 DEF PeriodElapses, LateInv, TypeOK
<1>2. CASE t = "period" /\ alsa = "running"
  BY <1>2 DEF PeriodElapses, LateInv
<1>3. CASE t = "period" /\ alsa # "running"
  <2>1. late = 0
    BY <1>3 DEF PeriodElapses, LateInv
  <2>2. late' = late + 1
    BY <1>3 DEF PeriodElapses
  <2>3. late' = 1
    BY <2>1, <2>2
  <2>4. alsa' # "running" /\ pc'["period"] = "idle"
    BY <1>3 DEF PeriodElapses, TypeOK
  <2> QED
    BY <2>3, <2>4 DEF LateInv
<1> QED
  BY <1>1, <1>2, <1>3

(* Every thread stays at one of the points, *)
LEMMA PointsKept ==
  ASSUME TypeOK, [Next]_vars
  PROVE  pc' \in [Threads -> Points]
<1> USE ThreadsAssumption DEF TypeOK, Points
<1>1. CASE UserBegins
  BY <1>1 DEF UserBegins, Open, Prepare, TryToCancel, StartBegins, StopBegins,
         CloseBegins
<1>2. CASE StartSucceeds \/ StartFails \/ ClosedAtLast
  BY <1>2 DEF StartSucceeds, StartFails, ClosedAtLast
<1>3. ASSUME NEW t \in Stoppers, StopTrigger(t)
      PROVE  pc' \in [Threads -> Points]
  BY <1>3 DEF StopTrigger, Halt, TryToCancel, StopEnds
<1>4. ASSUME NEW t \in {"user", "pm"}, FullStop(t)
      PROVE  pc' \in [Threads -> Points]
  BY <1>4 DEF FullStop, CancelTimer, CancelWork
<1>5. ASSUME NEW t \in Threads, (DeviceStarts(t) \/ DeviceStops(t))
      PROVE  pc' \in [Threads -> Points]
  <2>1. CASE DeviceStarts(t)
    BY <2>1 DEF DeviceStarts
  <2>2. CASE DeviceStops(t)
    BY <2>2 DEF DeviceStops, Stopped
  <2> QED
    BY <1>5, <2>1, <2>2
<1>6. CASE PeerStep
  BY <1>6 DEF PeerStep, PeerStartBegins, PeerGoes, PeerStartSucceeds,
         PeerStartFails, PeerStopBegins, PeerStopEnds, StopIo, Stopped
<1>7. CASE TimerStep
  BY <1>7 DEF TimerStep, TimerFires, TimerForwards
<1>8. CASE PeriodWorkStarts
  BY <1>8 DEF PeriodWorkStarts
<1>9. ASSUME NEW t \in Handlers \union {"period"}, PeriodElapses(t)
      PROVE  pc' \in [Threads -> Points]
  BY <1>9 DEF PeriodElapses
<1>10. ASSUME NEW h \in Handlers, TimestampStep(h)
      PROVE  pc' \in [Threads -> Points]
  BY <1>10 DEF TimestampStep, TimestampComes, DropTimestamp, TakeTimestamp,
         StartPeriodTimer
<1>11. ASSUME NEW goal \in {"asleep", "down"}, QuiesceBegins(goal)
      PROVE  pc' \in [Threads -> Points]
  BY <1>11 DEF QuiesceBegins
<1>12. ASSUME NEW p \in {"resuming", "running"},
              NEW r \in {"enabled", "due"},
              Resume(p, r)
      PROVE  pc' \in [Threads -> Points]
  BY <1>12 DEF Resume
<1>13. CASE PmStep
  BY <1>13 DEF PmStep, QuiescedTimer, ResetEnds, QuiesceStopsIo, StopIo,
         Stopped, SuspendPcm, ResumeEnables, ResetBegins
<1>14. CASE UNCHANGED vars
  BY <1>14 DEF vars
<1> HIDE DEF TypeOK, Points
<1> QED
  BY <1>1, <1>2, <1>3, <1>4, <1>5, <1>6, <1>7, <1>8, <1>9, <1>10, <1>11, <1>12,
           <1>13, <1>14, Steps

(* and the variables in their sets. *)
LEMMA TypesKept ==
  ASSUME TypeOK, pc' \in [Threads -> Points], [Next]_vars
  PROVE  TypeOK'
<1> USE ThreadsAssumption DEF TypeOK
<1>1. CASE UserBegins
  BY <1>1 DEF UserBegins, Open, Prepare, TryToCancel, StartBegins, StopBegins,
         CloseBegins
<1>2. CASE StartSucceeds \/ StartFails \/ ClosedAtLast
  <2>1. CASE StartSucceeds
    BY <2>1 DEF StartSucceeds
  <2>2. CASE StartFails
    BY <2>2 DEF StartFails
  <2>3. CASE ClosedAtLast
    BY <2>3 DEF ClosedAtLast
  <2> QED
    BY <1>2, <2>1, <2>2, <2>3
<1>3. ASSUME NEW t \in Stoppers, StopTrigger(t)
      PROVE  TypeOK'
  <2>1. CASE Halt(t)
    BY <2>1 DEF Halt, TryToCancel
  <2>2. CASE StopEnds(t)
    <3>1. stopFailed' \in BOOLEAN /\ UNCHANGED <<io, resetHit, cut>>
      BY <2>2 DEF StopEnds, StopIo
    <3>2. lock' = Nobody /\ waiting' = TRUE /\ alsa' \in {"setup", alsa}
      BY <2>2 DEF StopEnds
    <3>3. UNCHANGED <<started, timerVars, workVars, peerStarted, sysVars, late,
                     beat, overtaken>>
      BY <2>2 DEF StopEnds
    <3> QED
      BY <3>1, <3>2, <3>3
  <2> QED
    BY <1>3, <2>1, <2>2 DEF StopTrigger
<1>4. ASSUME NEW t \in {"user", "pm"}, FullStop(t)
      PROVE  TypeOK'
  BY <1>4 DEF FullStop, CancelTimer, CancelWork
<1>5. ASSUME NEW t \in Threads, (DeviceStarts(t) \/ DeviceStops(t))
      PROVE  TypeOK'
  BY <1>5 DEF DeviceStarts, DeviceStops, Stopped
<1>6. CASE PeerStep
  BY <1>6 DEF PeerStep, PeerStartBegins, PeerGoes, PeerStartSucceeds,
         PeerStartFails, PeerStopBegins, PeerStopEnds, StopIo, Stopped
<1>7. CASE TimerStep
  BY <1>7 DEF TimerStep, TimerFires, TimerForwards
<1>8. CASE PeriodWorkStarts
  BY <1>8 DEF PeriodWorkStarts
<1>9. ASSUME NEW t \in Handlers \union {"period"}, PeriodElapses(t)
      PROVE  TypeOK'
  <2>1. late' \in Nat
    BY <1>9 DEF PeriodElapses
  <2>2. beat' \in {0, 1}
    BY <1>9 DEF PeriodElapses
  <2>3. lock' \in Threads \union {Nobody}
    BY <1>9 DEF PeriodElapses
  <2>4. UNCHANGED <<alsa, started, waiting, timerVars, workVars, ioVars,
                   sysVars, stopFailed, resetHit, overtaken, cut>>
    BY <1>9 DEF PeriodElapses
  <2> QED
    BY <2>1, <2>2, <2>3, <2>4
<1>10. ASSUME NEW h \in Handlers, TimestampStep(h)
      PROVE  TypeOK'
  BY <1>10 DEF TimestampStep, TimestampComes, DropTimestamp, TakeTimestamp,
         StartPeriodTimer
<1>11. ASSUME NEW goal \in {"asleep", "down"}, QuiesceBegins(goal)
      PROVE  TypeOK'
  BY <1>11 DEF QuiesceBegins
<1>12. ASSUME NEW p \in {"resuming", "running"},
              NEW r \in {"enabled", "due"},
              Resume(p, r)
      PROVE  TypeOK'
  BY <1>12 DEF Resume
<1>13. CASE PmStep
  BY <1>13 DEF PmStep, QuiescedTimer, ResetEnds, QuiesceStopsIo, StopIo,
         Stopped, SuspendPcm, ResumeEnables, ResetBegins
<1>14. CASE UNCHANGED vars
  BY <1>14 DEF vars
<1> HIDE DEF TypeOK
<1> QED
  BY <1>1, <1>2, <1>3, <1>4, <1>5, <1>6, <1>7, <1>8, <1>9, <1>10, <1>11, <1>12,
           <1>13, <1>14, Steps

(* A thread stays where such a thread may be. *)
LEMMA PlacesKept ==
  ASSUME IInv, [Next]_vars
  PROVE  Places'
<1> USE ThreadsAssumption DEF TypeOK, Places, IInv
<1>1. CASE UserBegins
  BY <1>1 DEF UserBegins, Open, Prepare, TryToCancel, StartBegins, StopBegins,
         CloseBegins
<1>2. CASE StartSucceeds \/ StartFails \/ ClosedAtLast
  BY <1>2 DEF StartSucceeds, StartFails, ClosedAtLast
<1>3. ASSUME NEW t \in Stoppers, StopTrigger(t)
      PROVE  Places'
  <2>1. CASE Halt(t)
    BY <2>1 DEF Halt, TryToCancel
  <2>2. CASE StopEnds(t)
    BY <2>2 DEF StopEnds
  <2> QED
    BY <1>3, <2>1, <2>2 DEF StopTrigger
<1>4. ASSUME NEW t \in {"user", "pm"}, FullStop(t)
      PROVE  Places'
  BY <1>4 DEF FullStop, CancelTimer, CancelWork
<1>5. ASSUME NEW t \in Threads, (DeviceStarts(t) \/ DeviceStops(t))
      PROVE  Places'
  <2>1. CASE DeviceStarts(t)
    BY <2>1 DEF DeviceStarts
  <2>2. CASE DeviceStops(t)
    BY <2>2 DEF DeviceStops, Stopped
  <2> QED
    BY <1>5, <2>1, <2>2
<1>6. CASE PeerStep
  <2>1. CASE PeerStartBegins
    BY <2>1 DEF PeerStartBegins, PeerGoes
  <2>2. CASE PeerStartSucceeds
    BY <2>2 DEF PeerStartSucceeds, PeerGoes
  <2>3. CASE PeerStartFails
    BY <2>3 DEF PeerStartFails, PeerGoes
  <2>4. CASE PeerStopBegins
    BY <2>4 DEF PeerStopBegins, PeerGoes
  <2>5. CASE PeerStopEnds
    BY <2>5 DEF PeerStopEnds, PeerGoes, StopIo, Stopped
  <2> QED
    BY <1>6, <2>1, <2>2, <2>3, <2>4, <2>5 DEF PeerStep
<1>7. CASE TimerStep
  BY <1>7 DEF TimerStep, TimerFires, TimerForwards
<1>8. CASE PeriodWorkStarts
  BY <1>8 DEF PeriodWorkStarts
<1>9. ASSUME NEW t \in Handlers \union {"period"}, PeriodElapses(t)
      PROVE  Places'
  BY <1>9 DEF PeriodElapses
<1>10. ASSUME NEW h \in Handlers, TimestampStep(h)
      PROVE  Places'
  <2>1. CASE TimestampComes(h)
    BY <2>1 DEF TimestampComes
  <2>2. CASE DropTimestamp(h)
    BY <2>2 DEF DropTimestamp
  <2>3. CASE TakeTimestamp(h)
    BY <2>3 DEF TakeTimestamp
  <2>4. CASE StartPeriodTimer(h)
    BY <2>4 DEF StartPeriodTimer
  <2> QED
    BY <1>10, <2>1, <2>2, <2>3, <2>4 DEF TimestampStep
<1>11. ASSUME NEW goal \in {"asleep", "down"}, QuiesceBegins(goal)
      PROVE  Places'
  BY <1>11 DEF QuiesceBegins
<1>12. ASSUME NEW p \in {"resuming", "running"},
              NEW r \in {"enabled", "due"},
              Resume(p, r)
      PROVE  Places'
  BY <1>12 DEF Resume
<1>13. CASE PmStep
  <2>1. CASE QuiescedTimer
    BY <2>1 DEF QuiescedTimer
  <2>2. CASE ResetEnds
    BY <2>2 DEF ResetEnds
  <2>3. CASE QuiesceStopsIo
    BY <2>3 DEF QuiesceStopsIo, StopIo, Stopped
  <2>4. CASE SuspendPcm
    BY <2>4 DEF SuspendPcm
  <2>5. CASE ResumeEnables
    BY <2>5 DEF ResumeEnables
  <2>6. CASE ResetBegins
    BY <2>6 DEF ResetBegins
  <2> QED
    BY <1>13, <2>1, <2>2, <2>3, <2>4, <2>5, <2>6 DEF PmStep
<1>14. CASE UNCHANGED vars
  BY <1>14 DEF vars
<1> HIDE DEF TypeOK, Places, IInv
<1> QED
  BY <1>1, <1>2, <1>3, <1>4, <1>5, <1>6, <1>7, <1>8, <1>9, <1>10, <1>11, <1>12,
           <1>13, <1>14, Steps

(* The lock is taken at the start of TRIGGER START and STOP and let go at  *)
(* the end.                                                                *)
LEMMA LockKept ==
  ASSUME IInv, [Next]_vars
  PROVE  LockHeld'
<1> USE ThreadsAssumption DEF TypeOK, Places, LockHeld, IInv
<1>1. CASE UserBegins
  BY <1>1 DEF UserBegins, Open, Prepare, TryToCancel, StartBegins, StopBegins,
         CloseBegins
<1>2. CASE StartSucceeds \/ StartFails \/ ClosedAtLast
  <2>1. CASE StartSucceeds
    BY <2>1 DEF StartSucceeds
  <2>2. CASE StartFails
    BY <2>2 DEF StartFails
  <2>3. CASE ClosedAtLast
    BY <2>3 DEF ClosedAtLast
  <2> QED
    BY <1>2, <2>1, <2>2, <2>3
<1>3. ASSUME NEW t \in Stoppers, StopTrigger(t)
      PROVE  LockHeld'
  <2>1. CASE Halt(t)
    BY <2>1 DEF Halt, TryToCancel
  <2>2. CASE StopEnds(t)
    <3>1. \E place \in {"open", "idle"} : pc' = [pc EXCEPT ![t] = place]
      BY <2>2 DEF StopEnds
    <3>2. /\ pc[t] \in {"io stopped", "stopping"}
          /\ lock = t /\ lock' = Nobody /\ t # Nobody
      BY <2>2, StopReturns
    <3> QED
      BY <3>1, <3>2
  <2> QED
    BY <1>3, <2>1, <2>2 DEF StopTrigger
<1>4. ASSUME NEW t \in {"user", "pm"}, FullStop(t)
      PROVE  LockHeld'
  <2>1. CASE CancelTimer(t)
    BY <2>1 DEF CancelTimer
  <2>2. CASE CancelWork(t)
    BY <2>2 DEF CancelWork
  <2> QED
    BY <1>4, <2>1, <2>2 DEF FullStop
<1>5. ASSUME NEW t \in Threads, (DeviceStarts(t) \/ DeviceStops(t))
      PROVE  LockHeld'
  <2>1. CASE DeviceStarts(t)
    BY <2>1 DEF DeviceStarts
  <2>2. CASE DeviceStops(t)
    BY <2>2 DEF DeviceStops, Stopped
  <2> QED
    BY <1>5, <2>1, <2>2
<1>6. CASE PeerStep
  <2>1. CASE PeerStartBegins
    BY <2>1 DEF PeerStartBegins, PeerGoes
  <2>2. CASE PeerStartSucceeds
    BY <2>2 DEF PeerStartSucceeds, PeerGoes
  <2>3. CASE PeerStartFails
    BY <2>3 DEF PeerStartFails, PeerGoes
  <2>4. CASE PeerStopBegins
    BY <2>4 DEF PeerStopBegins, PeerGoes
  <2>5. CASE PeerStopEnds
    BY <2>5 DEF PeerStopEnds, PeerGoes, StopIo, Stopped
  <2> QED
    BY <1>6, <2>1, <2>2, <2>3, <2>4, <2>5 DEF PeerStep
<1>7. CASE TimerStep
  BY <1>7 DEF TimerStep, TimerFires, TimerForwards
<1>8. CASE PeriodWorkStarts
  BY <1>8 DEF PeriodWorkStarts
<1>9. ASSUME NEW t \in Handlers \union {"period"}, PeriodElapses(t)
      PROVE  LockHeld'
  BY <1>9 DEF PeriodElapses
<1>10. ASSUME NEW h \in Handlers, TimestampStep(h)
      PROVE  LockHeld'
  <2>1. CASE TimestampComes(h)
    BY <2>1 DEF TimestampComes
  <2>2. CASE DropTimestamp(h)
    BY <2>2 DEF DropTimestamp
  <2>3. CASE TakeTimestamp(h)
    BY <2>3 DEF TakeTimestamp
  <2>4. CASE StartPeriodTimer(h)
    BY <2>4 DEF StartPeriodTimer
  <2> QED
    BY <1>10, <2>1, <2>2, <2>3, <2>4 DEF TimestampStep
<1>11. ASSUME NEW goal \in {"asleep", "down"}, QuiesceBegins(goal)
      PROVE  LockHeld'
  BY <1>11 DEF QuiesceBegins
<1>12. ASSUME NEW p \in {"resuming", "running"},
              NEW r \in {"enabled", "due"},
              Resume(p, r)
      PROVE  LockHeld'
  BY <1>12 DEF Resume
<1>13. CASE PmStep
  <2>1. CASE QuiescedTimer
    BY <2>1 DEF QuiescedTimer
  <2>2. CASE ResetEnds
    BY <2>2 DEF ResetEnds
  <2>3. CASE QuiesceStopsIo
    BY <2>3 DEF QuiesceStopsIo, StopIo, Stopped
  <2>4. CASE SuspendPcm
    BY <2>4 DEF SuspendPcm
  <2>5. CASE ResumeEnables
    BY <2>5 DEF ResumeEnables
  <2>6. CASE ResetBegins
    BY <2>6 DEF ResetBegins
  <2> QED
    BY <1>13, <2>1, <2>2, <2>3, <2>4, <2>5, <2>6 DEF PmStep
<1>14. CASE UNCHANGED vars
  BY <1>14 DEF vars
<1> HIDE DEF TypeOK, Places, LockHeld, IInv
<1> QED
  BY <1>1, <1>2, <1>3, <1>4, <1>5, <1>6, <1>7, <1>8, <1>9, <1>10, <1>11, <1>12,
           <1>13, <1>14, Steps

(* A quiesce stops the stream before the system sleeps, and no process     *)
(* starts it before the resets of a resume are over.                       *)
LEMMA PhaseKept ==
  ASSUME IInv, [Next]_vars
  PROVE  PhaseInv'
<1> USE ThreadsAssumption DEF TypeOK, Places, LockHeld, PhaseInv, AlsaInv, IInv
<1>1. CASE UserBegins
  BY <1>1 DEF UserBegins, Open, Prepare, TryToCancel, StartBegins, StopBegins,
         CloseBegins
<1>2. CASE StartSucceeds \/ StartFails \/ ClosedAtLast
  BY <1>2 DEF StartSucceeds, StartFails, ClosedAtLast
<1>3. ASSUME NEW t \in Stoppers, StopTrigger(t)
      PROVE  PhaseInv'
  <2>1. CASE Halt(t)
    BY <2>1 DEF Halt, TryToCancel
  <2>2. CASE StopEnds(t)
    BY <2>2 DEF StopEnds
  <2> QED
    BY <1>3, <2>1, <2>2 DEF StopTrigger
<1>4. ASSUME NEW t \in {"user", "pm"}, FullStop(t)
      PROVE  PhaseInv'
  <2>1. CASE CancelTimer(t)
    BY <2>1 DEF CancelTimer
  <2>2. CASE CancelWork(t)
    BY <2>2 DEF CancelWork
  <2> QED
    BY <1>4, <2>1, <2>2 DEF FullStop
<1>5. ASSUME NEW t \in Threads, (DeviceStarts(t) \/ DeviceStops(t))
      PROVE  PhaseInv'
  <2>1. CASE DeviceStarts(t)
    BY <2>1 DEF DeviceStarts
  <2>2. CASE DeviceStops(t)
    BY <2>2 DEF DeviceStops, Stopped
  <2> QED
    BY <1>5, <2>1, <2>2
<1>6. CASE PeerStep
  <2>1. CASE PeerStartBegins
    BY <2>1 DEF PeerStartBegins, PeerGoes
  <2>2. CASE PeerStartSucceeds
    BY <2>2 DEF PeerStartSucceeds, PeerGoes
  <2>3. CASE PeerStartFails
    BY <2>3 DEF PeerStartFails, PeerGoes
  <2>4. CASE PeerStopBegins
    BY <2>4 DEF PeerStopBegins, PeerGoes
  <2>5. CASE PeerStopEnds
    BY <2>5 DEF PeerStopEnds, PeerGoes, StopIo, Stopped
  <2> QED
    BY <1>6, <2>1, <2>2, <2>3, <2>4, <2>5 DEF PeerStep
<1>7. CASE TimerStep
  <2>1. CASE TimerFires
    BY <2>1 DEF TimerFires
  <2>2. CASE TimerForwards
    BY <2>2 DEF TimerForwards
  <2> QED
    BY <1>7, <2>1, <2>2 DEF TimerStep
<1>8. CASE PeriodWorkStarts
  BY <1>8 DEF PeriodWorkStarts
<1>9. ASSUME NEW t \in Handlers \union {"period"}, PeriodElapses(t)
      PROVE  PhaseInv'
  <2>1. CASE Goto(t, "idle") /\ UNCHANGED lock
    BY <1>9, <2>1 DEF PeriodElapses
  <2>2. CASE alsa = "running" /\ Goto(t, "halting") /\ lock' = t
    BY <1>9, <2>2 DEF PeriodElapses
  <2> QED
    BY <1>9, <2>1, <2>2 DEF PeriodElapses
<1>10. ASSUME NEW h \in Handlers, TimestampStep(h)
      PROVE  PhaseInv'
  <2>1. CASE TimestampComes(h)
    BY <2>1 DEF TimestampComes
  <2>2. CASE DropTimestamp(h)
    BY <2>2 DEF DropTimestamp
  <2>3. CASE TakeTimestamp(h)
    BY <2>3 DEF TakeTimestamp
  <2>4. CASE StartPeriodTimer(h)
    BY <2>4 DEF StartPeriodTimer
  <2> QED
    BY <1>10, <2>1, <2>2, <2>3, <2>4 DEF TimestampStep
<1>11. ASSUME NEW goal \in {"asleep", "down"}, QuiesceBegins(goal)
      PROVE  PhaseInv'
  BY <1>11 DEF QuiesceBegins
<1>12. ASSUME NEW p \in {"resuming", "running"},
              NEW r \in {"enabled", "due"},
              Resume(p, r)
      PROVE  PhaseInv'
  BY <1>12 DEF Resume
<1>13. CASE PmStep
  <2>1. CASE QuiescedTimer
    BY <2>1 DEF QuiescedTimer
  <2>2. CASE ResetEnds
    BY <2>2 DEF ResetEnds
  <2>3. CASE QuiesceStopsIo
    BY <2>3 DEF QuiesceStopsIo, StopIo, Stopped
  <2>4. CASE SuspendPcm
    BY <2>4 DEF SuspendPcm
  <2>5. CASE ResumeEnables
    BY <2>5 DEF ResumeEnables
  <2>6. CASE ResetBegins
    BY <2>6 DEF ResetBegins
  <2> QED
    BY <1>13, <2>1, <2>2, <2>3, <2>4, <2>5, <2>6 DEF PmStep
<1>14. CASE UNCHANGED vars
  BY <1>14 DEF vars
<1> HIDE DEF TypeOK, Places, LockHeld, PhaseInv, AlsaInv, IInv
<1> QED
  BY <1>1, <1>2, <1>3, <1>4, <1>5, <1>6, <1>7, <1>8, <1>9, <1>10, <1>11, <1>12,
           <1>13, <1>14, Steps

(* started stays within what ALSA takes the stream for. *)
LEMMA AlsaKept ==
  ASSUME IInv, [Next]_vars
  PROVE  AlsaInv'
<1> USE ThreadsAssumption DEF TypeOK, Places, LockHeld, PhaseInv, AlsaInv, IInv
<1>1. CASE UserBegins
  <2>1. CASE Open
    BY <2>1 DEF Open
  <2>2. CASE Prepare
    BY <2>2 DEF Prepare, TryToCancel
  <2>3. CASE StartBegins
    BY <2>3 DEF StartBegins
  <2>4. CASE StopBegins
    BY <2>4 DEF StopBegins
  <2>5. CASE CloseBegins
    BY <2>5 DEF CloseBegins
  <2> QED
    BY <1>1, <2>1, <2>2, <2>3, <2>4, <2>5 DEF UserBegins
<1>2. CASE StartSucceeds \/ StartFails \/ ClosedAtLast
  <2>1. CASE StartSucceeds
    BY <2>1 DEF StartSucceeds
  <2>2. CASE StartFails
    BY <2>2 DEF StartFails
  <2>3. CASE ClosedAtLast
    BY <2>3 DEF ClosedAtLast
  <2> QED
    BY <1>2, <2>1, <2>2, <2>3
<1>3. ASSUME NEW t \in Stoppers, StopTrigger(t)
      PROVE  AlsaInv'
  <2>1. CASE Halt(t)
    BY <2>1 DEF Halt, TryToCancel
  <2>2. CASE StopEnds(t)
    <3>1. /\ pc[t] \in {"io stopped", "stopping"}
          /\ lock = t /\ lock' = Nobody /\ t # Nobody
      BY <2>2, StopReturns
    <3> QED
      BY <2>2, <3>1 DEF StopEnds
  <2> QED
    BY <1>3, <2>1, <2>2 DEF StopTrigger
<1>4. ASSUME NEW t \in {"user", "pm"}, FullStop(t)
      PROVE  AlsaInv'
  <2>1. CASE CancelTimer(t)
    BY <2>1 DEF CancelTimer
  <2>2. CASE CancelWork(t)
    BY <2>2 DEF CancelWork
  <2> QED
    BY <1>4, <2>1, <2>2 DEF FullStop
<1>5. ASSUME NEW t \in Threads, (DeviceStarts(t) \/ DeviceStops(t))
      PROVE  AlsaInv'
  <2>1. CASE DeviceStarts(t)
    BY <2>1 DEF DeviceStarts
  <2>2. CASE DeviceStops(t)
    <3>1. CASE pc[t] = "stopping"
      BY <2>2, <3>1 DEF DeviceStops, Stopped
    <3>2. CASE pc[t] = "quiescing"
      BY <2>2, <3>2 DEF DeviceStops, Stopped
    <3> QED
      BY <2>2, <3>1, <3>2 DEF DeviceStops
  <2> QED
    BY <1>5, <2>1, <2>2
<1>6. CASE PeerStep
  <2>1. CASE PeerStartBegins
    BY <2>1 DEF PeerStartBegins, PeerGoes
  <2>2. CASE PeerStartSucceeds
    BY <2>2 DEF PeerStartSucceeds, PeerGoes
  <2>3. CASE PeerStartFails
    BY <2>3 DEF PeerStartFails, PeerGoes
  <2>4. CASE PeerStopBegins
    BY <2>4 DEF PeerStopBegins, PeerGoes
  <2>5. CASE PeerStopEnds
    BY <2>5 DEF PeerStopEnds, PeerGoes, StopIo, Stopped
  <2> QED
    BY <1>6, <2>1, <2>2, <2>3, <2>4, <2>5 DEF PeerStep
<1>7. CASE TimerStep
  <2>1. CASE TimerFires
    BY <2>1 DEF TimerFires
  <2>2. CASE TimerForwards
    BY <2>2 DEF TimerForwards
  <2> QED
    BY <1>7, <2>1, <2>2 DEF TimerStep
<1>8. CASE PeriodWorkStarts
  BY <1>8 DEF PeriodWorkStarts
<1>9. ASSUME NEW t \in Handlers \union {"period"}, PeriodElapses(t)
      PROVE  AlsaInv'
  <2>1. CASE Goto(t, "idle") /\ UNCHANGED lock
    BY <1>9, <2>1 DEF PeriodElapses
  <2>2. CASE alsa = "running" /\ Goto(t, "halting") /\ lock' = t
    BY <1>9, <2>2 DEF PeriodElapses
  <2> QED
    BY <1>9, <2>1, <2>2 DEF PeriodElapses
<1>10. ASSUME NEW h \in Handlers, TimestampStep(h)
      PROVE  AlsaInv'
  <2>1. CASE TimestampComes(h)
    BY <2>1 DEF TimestampComes
  <2>2. CASE DropTimestamp(h)
    BY <2>2 DEF DropTimestamp
  <2>3. CASE TakeTimestamp(h)
    BY <2>3 DEF TakeTimestamp
  <2>4. CASE StartPeriodTimer(h)
    BY <2>4 DEF StartPeriodTimer
  <2> QED
    BY <1>10, <2>1, <2>2, <2>3, <2>4 DEF TimestampStep
<1>11. ASSUME NEW goal \in {"asleep", "down"}, QuiesceBegins(goal)
      PROVE  AlsaInv'
  BY <1>11 DEF QuiesceBegins
<1>12. ASSUME NEW p \in {"resuming", "running"},
              NEW r \in {"enabled", "due"},
              Resume(p, r)
      PROVE  AlsaInv'
  BY <1>12 DEF Resume
<1>13. CASE PmStep
  <2>1. CASE QuiescedTimer
    BY <2>1 DEF QuiescedTimer
  <2>2. CASE ResetEnds
    BY <2>2 DEF ResetEnds
  <2>3. CASE QuiesceStopsIo
    BY <2>3 DEF QuiesceStopsIo, StopIo, Stopped
  <2>4. CASE SuspendPcm
    BY <2>4 DEF SuspendPcm
  <2>5. CASE ResumeEnables
    BY <2>5 DEF ResumeEnables
  <2>6. CASE ResetBegins
    BY <2>6 DEF ResetBegins
  <2> QED
    BY <1>13, <2>1, <2>2, <2>3, <2>4, <2>5, <2>6 DEF PmStep
<1>14. CASE UNCHANGED vars
  BY <1>14 DEF vars
<1> HIDE DEF TypeOK, Places, LockHeld, PhaseInv, AlsaInv, IInv
<1> QED
  BY <1>1, <1>2, <1>3, <1>4, <1>5, <1>6, <1>7, <1>8, <1>9, <1>10, <1>11, <1>12,
           <1>13, <1>14, Steps

(* The period work reports one late period at most. *)
LEMMA LateKept ==
  ASSUME IInv, [Next]_vars
  PROVE  LateInv'
<1> USE ThreadsAssumption DEF TypeOK, Places, LockHeld, AlsaInv, LateInv, IInv
<1>1. CASE UserBegins
  BY <1>1 DEF UserBegins, Open, Prepare, TryToCancel, StartBegins, StopBegins,
         CloseBegins
<1>2. CASE StartSucceeds \/ StartFails \/ ClosedAtLast
  BY <1>2 DEF StartSucceeds, StartFails, ClosedAtLast
<1>3. ASSUME NEW t \in Stoppers, StopTrigger(t)
      PROVE  LateInv'
  <2>1. CASE Halt(t)
    BY <2>1 DEF Halt, TryToCancel
  <2>2. CASE StopEnds(t)
    BY <2>2 DEF StopEnds
  <2> QED
    BY <1>3, <2>1, <2>2 DEF StopTrigger
<1>4. ASSUME NEW t \in {"user", "pm"}, FullStop(t)
      PROVE  LateInv'
  BY <1>4 DEF FullStop, CancelTimer, CancelWork
<1>5. ASSUME NEW t \in Threads, (DeviceStarts(t) \/ DeviceStops(t))
      PROVE  LateInv'
  BY <1>5 DEF DeviceStarts, DeviceStops, Stopped
<1>6. CASE PeerStep
  <2>1. CASE PeerStartBegins
    BY <2>1 DEF PeerStartBegins, PeerGoes
  <2>2. CASE PeerStartSucceeds
    BY <2>2 DEF PeerStartSucceeds, PeerGoes
  <2>3. CASE PeerStartFails
    BY <2>3 DEF PeerStartFails, PeerGoes
  <2>4. CASE PeerStopBegins
    BY <2>4 DEF PeerStopBegins, PeerGoes
  <2>5. CASE PeerStopEnds
    BY <2>5 DEF PeerStopEnds, PeerGoes, StopIo, Stopped
  <2> QED
    BY <1>6, <2>1, <2>2, <2>3, <2>4, <2>5 DEF PeerStep
<1>7. CASE TimerStep
  BY <1>7 DEF TimerStep, TimerFires, TimerForwards
<1>8. CASE PeriodWorkStarts
  BY <1>8 DEF PeriodWorkStarts
<1>9. ASSUME NEW t \in Handlers \union {"period"}, PeriodElapses(t)
      PROVE  LateInv'
  BY <1>9, LateByOne
<1>10. ASSUME NEW h \in Handlers, TimestampStep(h)
      PROVE  LateInv'
  BY <1>10 DEF TimestampStep, TimestampComes, DropTimestamp, TakeTimestamp,
         StartPeriodTimer
<1>11. ASSUME NEW goal \in {"asleep", "down"}, QuiesceBegins(goal)
      PROVE  LateInv'
  BY <1>11 DEF QuiesceBegins
<1>12. ASSUME NEW p \in {"resuming", "running"},
              NEW r \in {"enabled", "due"},
              Resume(p, r)
      PROVE  LateInv'
  BY <1>12 DEF Resume
<1>13. CASE PmStep
  BY <1>13 DEF PmStep, QuiescedTimer, ResetEnds, QuiesceStopsIo, StopIo,
         Stopped, SuspendPcm, ResumeEnables, ResetBegins
<1>14. CASE UNCHANGED vars
  BY <1>14 DEF vars
<1> HIDE DEF TypeOK, Places, LockHeld, AlsaInv, LateInv, IInv
<1> QED
  BY <1>1, <1>2, <1>3, <1>4, <1>5, <1>6, <1>7, <1>8, <1>9, <1>10, <1>11, <1>12,
           <1>13, <1>14, Steps

(* A close leaves nothing behind that it has seen to. *)
LEMMA CloseKept ==
  ASSUME IInv, [Next]_vars
  PROVE  CloseInv'
<1> USE ThreadsAssumption DEF TypeOK, Places, LockHeld, PhaseInv, AlsaInv,
           CloseInv, IInv
<1>1. CASE UserBegins
  BY <1>1 DEF UserBegins, Open, Prepare, TryToCancel, StartBegins, StopBegins,
         CloseBegins
<1>2. CASE StartSucceeds \/ StartFails \/ ClosedAtLast
  <2>1. CASE StartSucceeds
    BY <2>1 DEF StartSucceeds
  <2>2. CASE StartFails
    BY <2>2 DEF StartFails
  <2>3. CASE ClosedAtLast
    BY <2>3 DEF ClosedAtLast
  <2> QED
    BY <1>2, <2>1, <2>2, <2>3
<1>3. ASSUME NEW t \in Stoppers, StopTrigger(t)
      PROVE  CloseInv'
  <2>1. CASE Halt(t)
    BY <2>1 DEF Halt, TryToCancel
  <2>2. CASE StopEnds(t)
    BY <2>2 DEF StopEnds
  <2> QED
    BY <1>3, <2>1, <2>2 DEF StopTrigger
<1>4. ASSUME NEW t \in {"user", "pm"}, FullStop(t)
      PROVE  CloseInv'
  <2>1. CASE CancelTimer(t)
    BY <2>1 DEF CancelTimer
  <2>2. CASE CancelWork(t)
    BY <2>2 DEF CancelWork
  <2> QED
    BY <1>4, <2>1, <2>2 DEF FullStop
<1>5. ASSUME NEW t \in Threads, (DeviceStarts(t) \/ DeviceStops(t))
      PROVE  CloseInv'
  <2>1. CASE DeviceStarts(t)
    BY <2>1 DEF DeviceStarts
  <2>2. CASE DeviceStops(t)
    BY <2>2 DEF DeviceStops, Stopped
  <2> QED
    BY <1>5, <2>1, <2>2
<1>6. CASE PeerStep
  <2>1. CASE PeerStartBegins
    BY <2>1 DEF PeerStartBegins, PeerGoes
  <2>2. CASE PeerStartSucceeds
    BY <2>2 DEF PeerStartSucceeds, PeerGoes
  <2>3. CASE PeerStartFails
    BY <2>3 DEF PeerStartFails, PeerGoes
  <2>4. CASE PeerStopBegins
    BY <2>4 DEF PeerStopBegins, PeerGoes
  <2>5. CASE PeerStopEnds
    BY <2>5 DEF PeerStopEnds, PeerGoes, StopIo, Stopped
  <2> QED
    BY <1>6, <2>1, <2>2, <2>3, <2>4, <2>5 DEF PeerStep
<1>7. CASE TimerStep
  BY <1>7 DEF TimerStep, TimerFires, TimerForwards
<1>8. CASE PeriodWorkStarts
  BY <1>8 DEF PeriodWorkStarts
<1>9. ASSUME NEW t \in Handlers \union {"period"}, PeriodElapses(t)
      PROVE  CloseInv'
  <2>1. CASE Goto(t, "idle") /\ UNCHANGED lock
    BY <1>9, <2>1 DEF PeriodElapses
  <2>2. CASE alsa = "running" /\ Goto(t, "halting") /\ lock' = t
    BY <1>9, <2>2 DEF PeriodElapses
  <2> QED
    BY <1>9, <2>1, <2>2 DEF PeriodElapses
<1>10. ASSUME NEW h \in Handlers, TimestampStep(h)
      PROVE  CloseInv'
  <2>1. CASE TimestampComes(h)
    BY <2>1 DEF TimestampComes
  <2>2. CASE DropTimestamp(h)
    BY <2>2 DEF DropTimestamp
  <2>3. CASE TakeTimestamp(h)
    BY <2>3 DEF TakeTimestamp
  <2>4. CASE StartPeriodTimer(h)
    BY <2>4 DEF StartPeriodTimer
  <2> QED
    BY <1>10, <2>1, <2>2, <2>3, <2>4 DEF TimestampStep
<1>11. ASSUME NEW goal \in {"asleep", "down"}, QuiesceBegins(goal)
      PROVE  CloseInv'
  BY <1>11 DEF QuiesceBegins
<1>12. ASSUME NEW p \in {"resuming", "running"},
              NEW r \in {"enabled", "due"},
              Resume(p, r)
      PROVE  CloseInv'
  BY <1>12 DEF Resume
<1>13. CASE PmStep
  <2>1. CASE QuiescedTimer
    BY <2>1 DEF QuiescedTimer
  <2>2. CASE ResetEnds
    BY <2>2 DEF ResetEnds
  <2>3. CASE QuiesceStopsIo
    BY <2>3 DEF QuiesceStopsIo, StopIo, Stopped
  <2>4. CASE SuspendPcm
    BY <2>4 DEF SuspendPcm
  <2>5. CASE ResumeEnables
    BY <2>5 DEF ResumeEnables
  <2>6. CASE ResetBegins
    BY <2>6 DEF ResetBegins
  <2> QED
    BY <1>13, <2>1, <2>2, <2>3, <2>4, <2>5, <2>6 DEF PmStep
<1>14. CASE UNCHANGED vars
  BY <1>14 DEF vars
<1> HIDE DEF TypeOK, Places, LockHeld, PhaseInv, AlsaInv, CloseInv, IInv
<1> QED
  BY <1>1, <1>2, <1>3, <1>4, <1>5, <1>6, <1>7, <1>8, <1>9, <1>10, <1>11, <1>12,
           <1>13, <1>14, Steps

(* Nobody clears started of a stream ALSA runs but a stop of it, a reset   *)
(* or power management.                                                    *)
LEMMA StoppedKept ==
  ASSUME IInv, [Next]_vars
  PROVE  StoppedInv'
<1> USE ThreadsAssumption DEF TypeOK, Places, LockHeld, PhaseInv, AlsaInv,
           StoppedInv, IInv
<1>1. CASE UserBegins
  BY <1>1 DEF UserBegins, Open, Prepare, TryToCancel, StartBegins, StopBegins,
         CloseBegins
<1>2. CASE StartSucceeds \/ StartFails \/ ClosedAtLast
  BY <1>2 DEF StartSucceeds, StartFails, ClosedAtLast
<1>3. ASSUME NEW t \in Stoppers, StopTrigger(t)
      PROVE  StoppedInv'
  <2>1. CASE Halt(t)
    <3>1. pc[t] \in InStop /\ lock' = lock
      BY <2>1 DEF Halt
    <3> QED
      BY <3>1, StopperLocks
  <2>2. CASE StopEnds(t)
    BY <2>2 DEF StopEnds
  <2> QED
    BY <1>3, <2>1, <2>2 DEF StopTrigger
<1>4. ASSUME NEW t \in {"user", "pm"}, FullStop(t)
      PROVE  StoppedInv'
  BY <1>4 DEF FullStop, CancelTimer, CancelWork
<1>5. ASSUME NEW t \in Threads, (DeviceStarts(t) \/ DeviceStops(t))
      PROVE  StoppedInv'
  <2>1. CASE DeviceStarts(t)
    BY <2>1 DEF DeviceStarts
  <2>2. CASE DeviceStops(t)
    <3>1. CASE t = "peer"
      BY <2>2, <3>1 DEF DeviceStops, Stopped
    <3>2. CASE t = "pm"
      BY <2>2, <3>2 DEF DeviceStops, Stopped
    <3>3. CASE t \in Stoppers
      <4>1. lock = t /\ lock' = lock /\ t # Nobody
        BY <2>2, <3>3 DEF DeviceStops
      <4> QED
        BY <4>1
    <3> QED
      BY <3>1, <3>2, <3>3
  <2> QED
    BY <1>5, <2>1, <2>2
<1>6. CASE PeerStep
  BY <1>6 DEF PeerStep, PeerStartBegins, PeerGoes, PeerStartSucceeds,
         PeerStartFails, PeerStopBegins, PeerStopEnds, StopIo, Stopped
<1>7. CASE TimerStep
  BY <1>7 DEF TimerStep, TimerFires, TimerForwards
<1>8. CASE PeriodWorkStarts
  BY <1>8 DEF PeriodWorkStarts
<1>9. ASSUME NEW t \in Handlers \union {"period"}, PeriodElapses(t)
      PROVE  StoppedInv'
  BY <1>9 DEF PeriodElapses
<1>10. ASSUME NEW h \in Handlers, TimestampStep(h)
      PROVE  StoppedInv'
  BY <1>10 DEF TimestampStep, TimestampComes, DropTimestamp, TakeTimestamp,
         StartPeriodTimer
<1>11. ASSUME NEW goal \in {"asleep", "down"}, QuiesceBegins(goal)
      PROVE  StoppedInv'
  BY <1>11 DEF QuiesceBegins
<1>12. ASSUME NEW p \in {"resuming", "running"},
              NEW r \in {"enabled", "due"},
              Resume(p, r)
      PROVE  StoppedInv'
  BY <1>12 DEF Resume
<1>13. CASE PmStep
  BY <1>13 DEF PmStep, QuiescedTimer, ResetEnds, QuiesceStopsIo, StopIo,
         Stopped, SuspendPcm, ResumeEnables, ResetBegins
<1>14. CASE UNCHANGED vars
  BY <1>14 DEF vars
<1> HIDE DEF TypeOK, Places, LockHeld, PhaseInv, AlsaInv, StoppedInv, IInv
<1> QED
  BY <1>1, <1>2, <1>3, <1>4, <1>5, <1>6, <1>7, <1>8, <1>9, <1>10, <1>11, <1>12,
           <1>13, <1>14, Steps

(* Nobody stops the I/O of a stream ALSA runs but a stop of it, the peer   *)
(* or power management.                                                    *)
LEMMA IoKept ==
  ASSUME IInv, [Next]_vars
  PROVE  IoOn'
<1> USE ThreadsAssumption DEF TypeOK, Places, LockHeld, PhaseInv, AlsaInv,
           IoOn, IInv
<1>1. CASE UserBegins
  BY <1>1 DEF UserBegins, Open, Prepare, TryToCancel, StartBegins, StopBegins,
         CloseBegins
<1>2. CASE StartSucceeds \/ StartFails \/ ClosedAtLast
  BY <1>2 DEF StartSucceeds, StartFails, ClosedAtLast
<1>3. ASSUME NEW t \in Stoppers, StopTrigger(t)
      PROVE  IoOn'
  <2>1. CASE Halt(t)
    BY <2>1 DEF Halt, TryToCancel
  <2>2. CASE StopEnds(t)
    BY <2>2, StopReturns DEF StopEnds
  <2> QED
    BY <1>3, <2>1, <2>2 DEF StopTrigger
<1>4. ASSUME NEW t \in {"user", "pm"}, FullStop(t)
      PROVE  IoOn'
  <2>1. CASE CancelTimer(t)
    BY <2>1 DEF CancelTimer
  <2>2. CASE CancelWork(t)
    BY <2>2 DEF CancelWork
  <2> QED
    BY <1>4, <2>1, <2>2 DEF FullStop
<1>5. ASSUME NEW t \in Threads, (DeviceStarts(t) \/ DeviceStops(t))
      PROVE  IoOn'
  <2>1. CASE DeviceStarts(t)
    BY <2>1 DEF DeviceStarts
  <2>2. CASE DeviceStops(t)
    BY <2>2 DEF DeviceStops, Stopped
  <2> QED
    BY <1>5, <2>1, <2>2
<1>6. CASE PeerStep
  <2>1. CASE PeerStartBegins
    BY <2>1 DEF PeerStartBegins, PeerGoes
  <2>2. CASE PeerStartSucceeds
    BY <2>2 DEF PeerStartSucceeds, PeerGoes
  <2>3. CASE PeerStartFails
    BY <2>3 DEF PeerStartFails, PeerGoes
  <2>4. CASE PeerStopBegins
    BY <2>4 DEF PeerStopBegins, PeerGoes
  <2>5. CASE PeerStopEnds
    BY <2>5, PeerStopReturns DEF PeerStopEnds, PeerGoes
  <2> QED
    BY <1>6, <2>1, <2>2, <2>3, <2>4, <2>5 DEF PeerStep
<1>7. CASE TimerStep
  BY <1>7 DEF TimerStep, TimerFires, TimerForwards
<1>8. CASE PeriodWorkStarts
  BY <1>8 DEF PeriodWorkStarts
<1>9. ASSUME NEW t \in Handlers \union {"period"}, PeriodElapses(t)
      PROVE  IoOn'
  <2>1. CASE Goto(t, "idle") /\ UNCHANGED lock
    BY <1>9, <2>1 DEF PeriodElapses
  <2>2. CASE alsa = "running" /\ Goto(t, "halting") /\ lock' = t
    BY <1>9, <2>2 DEF PeriodElapses
  <2> QED
    BY <1>9, <2>1, <2>2 DEF PeriodElapses
<1>10. ASSUME NEW h \in Handlers, TimestampStep(h)
      PROVE  IoOn'
  <2>1. CASE TimestampComes(h)
    BY <2>1 DEF TimestampComes
  <2>2. CASE DropTimestamp(h)
    BY <2>2 DEF DropTimestamp
  <2>3. CASE TakeTimestamp(h)
    BY <2>3 DEF TakeTimestamp
  <2>4. CASE StartPeriodTimer(h)
    BY <2>4 DEF StartPeriodTimer
  <2> QED
    BY <1>10, <2>1, <2>2, <2>3, <2>4 DEF TimestampStep
<1>11. ASSUME NEW goal \in {"asleep", "down"}, QuiesceBegins(goal)
      PROVE  IoOn'
  BY <1>11 DEF QuiesceBegins
<1>12. ASSUME NEW p \in {"resuming", "running"},
              NEW r \in {"enabled", "due"},
              Resume(p, r)
      PROVE  IoOn'
  BY <1>12 DEF Resume
<1>13. CASE PmStep
  <2>1. CASE QuiescedTimer
    BY <2>1 DEF QuiescedTimer
  <2>2. CASE ResetEnds
    BY <2>2 DEF ResetEnds
  <2>3. CASE QuiesceStopsIo
    BY <2>3 DEF QuiesceStopsIo, StopIo, Stopped
  <2>4. CASE SuspendPcm
    BY <2>4 DEF SuspendPcm
  <2>5. CASE ResumeEnables
    BY <2>5 DEF ResumeEnables
  <2>6. CASE ResetBegins
    BY <2>6 DEF ResetBegins
  <2> QED
    BY <1>13, <2>1, <2>2, <2>3, <2>4, <2>5, <2>6 DEF PmStep
<1>14. CASE UNCHANGED vars
  BY <1>14 DEF vars
<1> HIDE DEF TypeOK, Places, LockHeld, PhaseInv, AlsaInv, IoOn, IInv
<1> QED
  BY <1>1, <1>2, <1>3, <1>4, <1>5, <1>6, <1>7, <1>8, <1>9, <1>10, <1>11, <1>12,
           <1>13, <1>14, Steps

(* The I/O of the device is not left to nobody. *)
LEMMA InUseKept ==
  ASSUME IInv, [Next]_vars
  PROVE  IoInUse'
<1> USE ThreadsAssumption DEF TypeOK, Places, LockHeld, PhaseInv, AlsaInv,
           IoInUse, InUse, IInv
<1>1. CASE UserBegins
  <2>1. CASE Open
    BY <2>1 DEF Open
  <2>2. CASE Prepare
    BY <2>2 DEF Prepare, TryToCancel
  <2>3. CASE StartBegins
    BY <2>3 DEF StartBegins
  <2>4. CASE StopBegins
    BY <2>4 DEF StopBegins
  <2>5. CASE CloseBegins
    BY <2>5 DEF CloseBegins
  <2> QED
    BY <1>1, <2>1, <2>2, <2>3, <2>4, <2>5 DEF UserBegins
<1>2. CASE StartSucceeds \/ StartFails \/ ClosedAtLast
  <2>1. CASE StartSucceeds
    BY <2>1 DEF StartSucceeds
  <2>2. CASE StartFails
    BY <2>2 DEF StartFails
  <2>3. CASE ClosedAtLast
    BY <2>3 DEF ClosedAtLast
  <2> QED
    BY <1>2, <2>1, <2>2, <2>3
<1>3. ASSUME NEW t \in Stoppers, StopTrigger(t)
      PROVE  IoInUse'
  <2>1. CASE Halt(t)
    BY <2>1 DEF Halt, TryToCancel
  <2>2. CASE StopEnds(t)
    <3>1. /\ pc[t] = "io stopped" \/ stopFailed'
          /\ stopFailed => stopFailed'
          /\ lock = t /\ lock' = Nobody /\ t # Nobody
          /\ UNCHANGED <<io, resetHit, cut>>
      BY <2>2, StopReturns
    <3>2. CASE stopFailed'
      BY <3>2
    <3>3. CASE ~stopFailed'
      BY <2>2, <3>1, <3>3 DEF StopEnds
    <3> QED
      BY <3>2, <3>3
  <2> QED
    BY <1>3, <2>1, <2>2 DEF StopTrigger
<1>4. ASSUME NEW t \in {"user", "pm"}, FullStop(t)
      PROVE  IoInUse'
  <2>1. CASE CancelTimer(t)
    BY <2>1 DEF CancelTimer
  <2>2. CASE CancelWork(t)
    BY <2>2 DEF CancelWork
  <2> QED
    BY <1>4, <2>1, <2>2 DEF FullStop
<1>5. ASSUME NEW t \in Threads, (DeviceStarts(t) \/ DeviceStops(t))
      PROVE  IoInUse'
  <2>1. CASE DeviceStarts(t)
    BY <2>1 DEF DeviceStarts
  <2>2. CASE DeviceStops(t)
    BY <2>2 DEF DeviceStops, Stopped
  <2> QED
    BY <1>5, <2>1, <2>2
<1>6. CASE PeerStep
  <2>1. CASE PeerStartBegins
    BY <2>1 DEF PeerStartBegins, PeerGoes
  <2>2. CASE PeerStartSucceeds
    BY <2>2 DEF PeerStartSucceeds, PeerGoes
  <2>3. CASE PeerStartFails
    BY <2>3 DEF PeerStartFails, PeerGoes
  <2>4. CASE PeerStopBegins
    BY <2>4 DEF PeerStopBegins, PeerGoes
  <2>5. CASE PeerStopEnds
    <3>1. CASE stopFailed'
      BY <3>1
    <3>2. CASE ~stopFailed'
      BY <2>5, <3>2, PeerStopReturns DEF PeerStopEnds, PeerGoes
    <3> QED
      BY <3>1, <3>2
  <2> QED
    BY <1>6, <2>1, <2>2, <2>3, <2>4, <2>5 DEF PeerStep
<1>7. CASE TimerStep
  BY <1>7 DEF TimerStep, TimerFires, TimerForwards
<1>8. CASE PeriodWorkStarts
  BY <1>8 DEF PeriodWorkStarts
<1>9. ASSUME NEW t \in Handlers \union {"period"}, PeriodElapses(t)
      PROVE  IoInUse'
  <2>1. CASE Goto(t, "idle") /\ UNCHANGED lock
    BY <1>9, <2>1 DEF PeriodElapses
  <2>2. CASE alsa = "running" /\ Goto(t, "halting") /\ lock' = t
    BY <1>9, <2>2 DEF PeriodElapses
  <2> QED
    BY <1>9, <2>1, <2>2 DEF PeriodElapses
<1>10. ASSUME NEW h \in Handlers, TimestampStep(h)
      PROVE  IoInUse'
  <2>1. CASE TimestampComes(h)
    BY <2>1 DEF TimestampComes
  <2>2. CASE DropTimestamp(h)
    BY <2>2 DEF DropTimestamp
  <2>3. CASE TakeTimestamp(h)
    BY <2>3 DEF TakeTimestamp
  <2>4. CASE StartPeriodTimer(h)
    BY <2>4 DEF StartPeriodTimer
  <2> QED
    BY <1>10, <2>1, <2>2, <2>3, <2>4 DEF TimestampStep
<1>11. ASSUME NEW goal \in {"asleep", "down"}, QuiesceBegins(goal)
      PROVE  IoInUse'
  BY <1>11 DEF QuiesceBegins
<1>12. ASSUME NEW p \in {"resuming", "running"},
              NEW r \in {"enabled", "due"},
              Resume(p, r)
      PROVE  IoInUse'
  BY <1>12 DEF Resume
<1>13. CASE PmStep
  <2>1. CASE QuiescedTimer
    BY <2>1 DEF QuiescedTimer
  <2>2. CASE ResetEnds
    BY <2>2 DEF ResetEnds
  <2>3. CASE QuiesceStopsIo
    <3>1. CASE stopFailed'
      BY <3>1
    <3>2. CASE ~stopFailed'
      BY <2>3, <3>2, QuiesceReturns DEF QuiesceStopsIo
    <3> QED
      BY <3>1, <3>2
  <2>4. CASE SuspendPcm
    BY <2>4 DEF SuspendPcm
  <2>5. CASE ResumeEnables
    BY <2>5 DEF ResumeEnables
  <2>6. CASE ResetBegins
    BY <2>6 DEF ResetBegins
  <2> QED
    BY <1>13, <2>1, <2>2, <2>3, <2>4, <2>5, <2>6 DEF PmStep
<1>14. CASE UNCHANGED vars
  BY <1>14 DEF vars
<1> HIDE DEF TypeOK, Places, LockHeld, PhaseInv, AlsaInv, IoInUse, InUse, IInv
<1> QED
  BY <1>1, <1>2, <1>3, <1>4, <1>5, <1>6, <1>7, <1>8, <1>9, <1>10, <1>11, <1>12,
           <1>13, <1>14, Steps

-----------------------------------------------------------------------------
(* The stream is closed at first. *)
LEMMA InitIInv == Init => IInv
<1> SUFFICES ASSUME Init
             PROVE  IInv
  OBVIOUS
<1> USE ThreadsAssumption DEF Init
<1>1. TypeOK
  BY DEF TypeOK, Points
<1>2. Places /\ LockHeld
  BY DEF Places, LockHeld
<1>3. PhaseInv /\ AlsaInv
  BY DEF PhaseInv, AlsaInv
<1>4. LateInv /\ CloseInv /\ StoppedInv /\ IoOn /\ IoInUse
  BY DEF LateInv, CloseInv, StoppedInv, IoOn, IoInUse
<1> QED
  BY Zenon, <1>1, <1>2, <1>3, <1>4 DEF IInv

LEMMA Inductive == IInv /\ [Next]_vars => IInv'
<1> SUFFICES ASSUME IInv, [Next]_vars
             PROVE  IInv'
  OBVIOUS
<1>1. TypeOK'
  BY Zenon, PointsKept, TypesKept DEF IInv
<1>2. Places' /\ LockHeld' /\ PhaseInv' /\ AlsaInv'
  BY Zenon, PlacesKept, LockKept, PhaseKept, AlsaKept
<1>3. LateInv' /\ CloseInv' /\ StoppedInv' /\ IoOn' /\ IoInUse'
  BY Zenon, LateKept, CloseKept, StoppedKept, IoKept, InUseKept
<1> QED
  BY Zenon, <1>1, <1>2, <1>3 DEF IInv

(* The inductive invariant of the stream: the lock is held by the thread   *)
(* in TRIGGER START or STOP and by no other, a close and a quiesce have    *)
(* stopped what they passed, started and the I/O are as ALSA takes the     *)
(* stream to be, or one of the threads named is about to make them so.     *)
THEOREM Invariant == Spec => []IInv
  BY InitIInv, Inductive, PTL DEF Spec

(* A halt waits neither for the timer nor for the period work; whatever    *)
(* they were at, snd_pcm_period_elapsed is called at most once for a       *)
(* stream that was stopped.                                                *)
THEOREM AtMostOneLatePeriod == Spec => []OneLatePeriod
<1>1. IInv => OneLatePeriod
  BY DEF IInv, LateInv, OneLatePeriod
<1> QED
  BY <1>1, Invariant, PTL

(* No late timer, work, close, quiesce or stop of the peer leaves a stream *)
(* that ALSA runs without its started flag, or, but for a STOP_IO of the   *)
(* peer, without its I/O.                                                  *)
THEOREM RunsWithIo == Spec => []RunningHasIo
<1>1. ASSUME IInv
      PROVE  RunningHasIo
  <2> SUFFICES ASSUME alsa = "running", lock = Nobody, phase = "running",
                      ~resetHit
               PROVE  started /\ (~cut => io)
    BY DEF RunningHasIo
  <2>1. \A t \in Threads \ {"peer"} : pc[t] # "io stopped"
    BY <1>1, ThreadsAssumption DEF IInv, LockHeld
  <2>2. started
    BY <1>1 DEF IInv, StoppedInv
  <2>3. ~cut => io
    BY <1>1, <2>1 DEF IInv, IoOn
  <2> QED
    BY <2>2, <2>3
<1> QED
  BY <1>1, Invariant, PTL

(* When t2audio_pcm_close has returned, neither the period work nor, but   *)
(* for a timer that a timestamp work has armed late, anything else is left *)
(* of the stream.                                                          *)
THEOREM ClosesForGood == Spec => []ClosedIsStopped
<1>1. IInv => ClosedIsStopped
  BY DEF IInv, CloseInv, AlsaInv, ClosedIsStopped
<1> QED
  BY <1>1, Invariant, PTL

(* The device runs no I/O for a stream that is closed with its peer        *)
(* stopped, nor after a shutdown.                                          *)
THEOREM IoIsStopped == Spec => []NoIoLeftOn
<1>1. ASSUME IInv
      PROVE  NoIoLeftOn
  <2> SUFFICES ASSUME ~stopFailed, ~resetHit, io,
                      \/ pc["user"] = "closed" /\ pc["peer"] = "idle"
                      \/ /\ phase = "down" /\ pc["pm"] = "idle"
                         /\ lock = Nobody
                         /\ pc["peer"] \in {"idle", "running"}
               PROVE  FALSE
    BY DEF NoIoLeftOn
  <2>1. InUse
    BY <1>1 DEF IInv, IoInUse
  <2> USE DEF IInv
  <2>2. CASE pc["user"] = "closed" /\ pc["peer"] = "idle"
    BY <1>1, <2>1, <2>2, ThreadsAssumption
       DEF InUse, TypeOK, Places, LockHeld, PhaseInv, AlsaInv
  <2>3. CASE /\ phase = "down" /\ pc["pm"] = "idle" /\ lock = Nobody
             /\ pc["peer"] \in {"idle", "running"}
    BY <1>1, <2>1, <2>3, ThreadsAssumption DEF InUse, LockHeld, PhaseInv
  <2> QED
    BY <2>2, <2>3
<1> QED
  BY <1>1, Invariant, PTL
=============================================================================
