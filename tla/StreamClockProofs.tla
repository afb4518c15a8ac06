------------------------- MODULE StreamClockProofs --------------------------
(***************************************************************************)
(* Proofs about StreamClock, for any number of works, of seeds and of      *)
(* suspends, for clocks that differ by any amount and for every order of   *)
(* the stores of a reset.  As long as no reset has run into the start of   *)
(* the stream (torn), a timestamp is not mapped to before its event        *)
(* (NotBeforeEvent), the anchor does not jump (NoJitter), and is not one   *)
(* from before the start (OldEpochIgnored).                                *)
(***************************************************************************)
EXTENDS StreamClock, SequenceTheorems, TLAPS

ClockTyped ==
  /\ skew \in Skews
  /\ since \in 0 .. now + 1
  /\ now \in Times
  /\ sampled \in BOOLEAN
  /\ clock \in Nat
  /\ power \in {"on", "asleep", "reset clock", "stop stream", "reset stream"}
  /\ unreset \in Seq(Fields)
  /\ frozen \in BOOLEAN
  /\ sleeps \in 0 .. MaxSleeps

WorkTyped ==
  work \in [Handlers -> [pc : {"idle", "came", "clocked"}, stamp : Stamps,
                         offset : Nat, ready : BOOLEAN]]

StreamTyped ==
  /\ starting \in BOOLEAN
  /\ started \in BOOLEAN
  /\ waiting \in BOOLEAN
  /\ after \in Times
  /\ latch \in [valid : BOOLEAN, offset : Nat, seed : Seeds]
  /\ remote \in Int
  /\ anchor \in Stamps
  /\ foreign \in BOOLEAN
  /\ cleared \in BOOLEAN
  /\ startedAt \in Times
  /\ torn \in BOOLEAN
  /\ mixed \in BOOLEAN

LEMMA TypeParts == /\ TypeOK <=> ClockTyped /\ WorkTyped /\ StreamTyped
                   /\ TypeOK' <=> ClockTyped' /\ WorkTyped' /\ StreamTyped'
BY DEF TypeOK, ClockTyped, WorkTyped, StreamTyped

LEMMA Values ==
  ASSUME TypeOK
  PROVE  /\ skew \in Int /\ now \in Nat /\ now <= MaxTime /\ MaxTime \in Nat
         /\ since \in Nat /\ since <= now + 1 /\ clock \in Nat
<1>1. skew \in Skews /\ now \in Times /\ since \in 0 .. now + 1 /\ clock \in Nat
  BY Zenon DEF TypeOK
<1>2. MaxTime \in Nat /\ Skews \subseteq Int BY SkewAssumption
<1>3. now \in Nat /\ now <= MaxTime BY <1>1, <1>2 DEF Times
<1> QED BY <1>1, <1>2, <1>3

LEMMA StreamValues ==
  ASSUME TypeOK
  PROVE  /\ after \in Nat /\ remote \in Int /\ anchor \in Stamps
         /\ latch \in [valid : BOOLEAN, offset : Nat, seed : Seeds]
         /\ now \in Times /\ 0 \in Times /\ 0 \in Int
<1>1. /\ after \in Times /\ remote \in Int /\ anchor \in Stamps /\ now \in Times
      /\ latch \in [valid : BOOLEAN, offset : Nat, seed : Seeds]
  BY Zenon DEF TypeOK
<1>2. Times \subseteq Nat /\ 0 \in Times BY SkewAssumption DEF Times
<1> QED BY <1>1, <1>2

LEMMA NothingTyped ==
  /\ Nothing \in Stamps
  /\ NoLatch \in [valid : BOOLEAN, offset : Nat, seed : Seeds]
  /\ NoLatch.valid = FALSE
  /\ IdleWork \in [pc : {"idle", "came", "clocked"}, stamp : Stamps,
                   offset : Nat, ready : BOOLEAN]
  /\ IdleWork.pc = "idle"
<1>1. Nothing.seed \in Seeds BY SeedsAssumption DEF Nothing
<1>2. 0 \in Times /\ 0 \in Int BY SkewAssumption DEF Times
<1>3. Nothing \in Stamps BY <1>1, <1>2 DEF Nothing, Stamps
<1> HIDE DEF Nothing
<1>4. NoLatch \in [valid : BOOLEAN, offset : Nat, seed : Seeds]
  BY <1>1 DEF NoLatch
<1> QED BY <1>3, <1>4 DEF IdleWork, NoLatch

(* What a work holds. *)
LEMMA WorkHolds ==
  ASSUME TypeOK, NEW h \in Handlers
  PROVE  /\ work[h].pc \in {"idle", "came", "clocked"}
         /\ work[h].stamp \in Stamps
         /\ work[h].offset \in Nat /\ work[h].ready \in BOOLEAN
         /\ work[h].stamp.at \in Nat /\ work[h].stamp.dev \in Int
         /\ work[h].stamp.came \in Nat /\ work[h].stamp.seed \in Seeds
         /\ work[h].stamp.at \in Times /\ work[h].stamp.came \in Times
<1>1. work[h] \in [pc : {"idle", "came", "clocked"}, stamp : Stamps,
                   offset : Nat, ready : BOOLEAN]
  BY TypeParts DEF WorkTyped
<1>2. work[h].stamp \in [at : Times, dev : Int, came : Times, seed : Seeds]
  BY <1>1 DEF Stamps
<1>3. Times \subseteq Nat BY SkewAssumption DEF Times
<1> QED BY <1>1, <1>2, <1>3

-----------------------------------------------------------------------------
(* The parts of the invariant about one work, for a proof work by work.    *)
HoldsFor(h) ==
  LET stamp == work[h].stamp IN
  /\ stamp.at <= stamp.came /\ stamp.came <= now
  /\ ~Outdated(stamp) => stamp.dev = DeviceTime(stamp.at)
  /\ (frozen /\ power # "asleep") => Outdated(stamp)
  /\ (~mixed /\ work[h].pc = "clocked" /\ work[h].ready /\ ~Outdated(stamp))
       => work[h].offset >= skew
  /\ (work[h].pc = "clocked" /\ stamp.came >= stamp.dev) =>
       work[h].ready /\ stamp.dev + work[h].offset <= stamp.came

WorksInv == \A h \in Busy : HoldsFor(h)

(* and those that are not. *)
ClockInv ==
  /\ power = "asleep" => frozen
  /\ frozen => ~started /\ ~starting
  /\ (~mixed /\ sampled /\ ~ToBeReset) => clock >= skew

LatchInv ==
  /\ (~mixed /\ started /\ ~torn /\ latch.valid) => latch.offset >= skew
  /\ AnchorInv
  /\ NotBeforeEvent

LEMMA IInvParts ==
  /\ IInv <=> TypeOK /\ WorksInv /\ ClockInv /\ ResetInv /\ LatchInv
  /\ IInv' <=> TypeOK' /\ WorksInv' /\ ClockInv' /\ ResetInv' /\ LatchInv'
<1>1. IInv <=> TypeOK /\ WorksInv /\ ClockInv /\ ResetInv /\ LatchInv
  BY DEF IInv, StampInv, FrozenInv, OffsetInv, SampleInv, WorksInv, HoldsFor,
         ClockInv, LatchInv
<1>2. IInv' <=> TypeOK' /\ WorksInv' /\ ClockInv' /\ ResetInv' /\ LatchInv'
  BY DEF IInv, StampInv, FrozenInv, OffsetInv, SampleInv, WorksInv, HoldsFor,
         ClockInv, LatchInv
<1> QED BY <1>1, <1>2

-----------------------------------------------------------------------------
(* Steps that leave the clocks alone, and the works, but for one that ends. *)
LEMMA WorksKept ==
  ASSUME TypeOK, WorksInv, UNCHANGED <<skew, since>>,
         now' \in Nat, now <= now', mixed => mixed',
         (frozen' /\ power' # "asleep") => frozen /\ power # "asleep",
         \A g \in Handlers : work'[g].pc # "idle" => work'[g] = work[g]
  PROVE  WorksInv'
<1>1. SUFFICES ASSUME NEW g \in Handlers, g \in Busy' PROVE HoldsFor(g)'
  BY DEF WorksInv, Busy
<1>2. work'[g] = work[g] /\ g \in Busy
  BY <1>1 DEF Busy
<1>3. HoldsFor(g) BY <1>2 DEF WorksInv
<1>4. work[g].stamp.came \in Nat /\ now \in Nat BY WorkHolds, Values
<1>5. Outdated(work[g].stamp)' <=> Outdated(work[g].stamp)
  BY <1>2 DEF Outdated
<1>6. DeviceTime(work[g].stamp.at)' = DeviceTime(work[g].stamp.at)
  BY <1>2 DEF DeviceTime
<1> QED BY <1>2, <1>3, <1>4, <1>5, <1>6 DEF HoldsFor

(* A stream that is not changed. *)
LEMMA LatchKept ==
  ASSUME LatchInv, UNCHANGED streamVars, UNCHANGED skew \/ ~started,
         mixed => mixed'
  PROVE  LatchInv'
BY DEF LatchInv, streamVars, fieldVars, startVars, AnchorInv, NotBeforeEvent,
  Anchored

(* A stream that is not anchored, and has latched no offset or is not      *)
(* started.                                                                *)
LEMMA NotAnchored ==
  ASSUME ~Anchored', ~(started' /\ latch'.valid)
  PROVE  LatchInv'
BY DEF LatchInv, AnchorInv, NotBeforeEvent

(* Nothing is promised of a stream that is stopped, or torn. *)
LEMMA NotKept ==
  ASSUME started' => torn'
  PROVE  LatchInv'
BY DEF LatchInv, AnchorInv, NotBeforeEvent, Anchored

-----------------------------------------------------------------------------
LEMMA TimePassesKeeps == ASSUME IInv, TimePasses PROVE IInv'
<1>1. TypeOK /\ WorksInv /\ ClockInv /\ ResetInv /\ LatchInv BY IInvParts
<1>2. now' = now + 1 /\ now < MaxTime
      /\ UNCHANGED <<skew, since, sampled, clock, work, starting, started,
                     waiting, after, latch, remote, anchor, foreign, cleared,
                     startedAt, torn, power, unreset, frozen, sleeps, mixed>>
  BY DEF TimePasses, clockVars, streamVars, fieldVars, startVars, powerVars
<1>3. now \in Nat /\ since \in Nat /\ since <= now + 1 /\ MaxTime \in Nat
  BY <1>1, Values
<1>4. now' \in Times /\ since' \in 0 .. now' + 1
  BY <1>2, <1>3 DEF Times
<1>5. TypeOK'
  <2>1. ClockTyped' BY <1>1, <1>2, <1>4, TypeParts DEF ClockTyped
  <2>2. WorkTyped' BY <1>1, <1>2, TypeParts DEF WorkTyped
  <2>3. StreamTyped' BY <1>1, <1>2, TypeParts DEF StreamTyped
  <2> QED BY <2>1, <2>2, <2>3, TypeParts
<1>6. WorksInv' BY <1>1, <1>2, <1>3, WorksKept
<1>7. ClockInv' BY <1>1, <1>2 DEF ClockInv, ToBeReset
<1>8. LatchInv' BY <1>1, <1>2, LatchKept DEF streamVars, fieldVars, startVars
<1>9. ResetInv' BY <1>1, <1>2 DEF ResetInv
<1> QED BY <1>5, <1>6, <1>7, <1>8, <1>9, IInvParts

LEMMA TimestampComesKeeps ==
  ASSUME IInv, NEW h \in Handlers, NEW seed \in Seeds, TimestampComes(h, seed)
  PROVE  IInv'
<1>1. TypeOK /\ WorksInv /\ ClockInv /\ ResetInv /\ LatchInv BY IInvParts
<1>2. PICK at \in (since .. now) \ {work[g].stamp.at : g \in Busy} :
        work' = [work EXCEPT ![h] =
          [IdleWork EXCEPT !.pc = "came", !.stamp = Stamp(at, seed)]]
  BY DEF TimestampComes
<1>3. ~frozen
      /\ UNCHANGED <<skew, since, now, sampled, clock, starting, started,
                     waiting, after, latch, remote, anchor, foreign, cleared,
                     startedAt, torn, power, unreset, frozen, sleeps, mixed>>
  BY DEF TimestampComes, timeVars, clockVars, streamVars, fieldVars, startVars,
    powerVars
<1> DEFINE new == [IdleWork EXCEPT !.pc = "came", !.stamp = Stamp(at, seed)]
<1>4. /\ now \in Nat /\ since \in Nat /\ skew \in Int /\ now <= MaxTime
      /\ MaxTime \in Nat
  BY <1>1, Values
<1>5. at \in Nat /\ since <= at /\ at <= now /\ at \in Times /\ now \in Times
  BY <1>2, <1>4 DEF Times
<1>6. Stamp(at, seed) \in Stamps
  BY <1>4, <1>5 DEF Stamp, Stamps, DeviceTime
<1>7. /\ new \in [pc : {"idle", "came", "clocked"}, stamp : Stamps,
                   offset : Nat, ready : BOOLEAN]
      /\ new.pc = "came" /\ new.stamp = Stamp(at, seed)
  BY <1>6, NothingTyped DEF IdleWork
<1>8. /\ Stamp(at, seed).at = at /\ Stamp(at, seed).came = now
      /\ Stamp(at, seed).dev = DeviceTime(at)
  BY DEF Stamp
<1> HIDE DEF new
<1>9. /\ work' = [work EXCEPT ![h] = new]
      /\ work'[h] = new
      /\ \A g \in Handlers \ {h} : work'[g] = work[g]
  BY <1>1, <1>2 DEF new, TypeOK
<1>10. TypeOK'
  <2>1. WorkTyped' BY <1>1, <1>7, <1>9, TypeParts DEF WorkTyped
  <2>2. ClockTyped' BY <1>1, <1>3, TypeParts DEF ClockTyped, Times
  <2>3. StreamTyped' BY <1>1, <1>3, TypeParts DEF StreamTyped
  <2> QED BY <2>1, <2>2, <2>3, TypeParts
<1>11. WorksInv'
  <2>1. SUFFICES ASSUME NEW g \in Handlers, g \in Busy' PROVE HoldsFor(g)'
    BY DEF WorksInv, Busy
  <2>2. CASE g = h
    <3>1. DeviceTime(at)' = DeviceTime(at) BY <1>3 DEF DeviceTime
    <3>2. work'[g].stamp = Stamp(at, seed) /\ work'[g].pc = "came"
      BY <1>7, <1>9, <2>2
    <3>3. /\ work'[g].stamp.at = at /\ work'[g].stamp.came = now
          /\ work'[g].stamp.dev = DeviceTime(at)
      BY <1>8, <3>2
    <3>4. ~frozen' /\ now' = now BY <1>3
    <3>5. now <= now BY <1>4
    <3> QED BY <1>5, <3>1, <3>2, <3>3, <3>4, <3>5 DEF HoldsFor
  <2>3. CASE g # h
    <3>1. work'[g] = work[g] BY <1>9, <2>3
    <3>2. HoldsFor(g) BY <1>1, <2>1, <3>1 DEF WorksInv, Busy
    <3>3. /\ Outdated(work[g].stamp)' <=> Outdated(work[g].stamp)
          /\ DeviceTime(work[g].stamp.at)' = DeviceTime(work[g].stamp.at)
      BY <1>3, <3>1 DEF Outdated, DeviceTime
    <3> QED BY <1>3, <3>1, <3>2, <3>3 DEF HoldsFor
  <2> QED BY <2>2, <2>3
<1>12. ClockInv' BY <1>1, <1>3 DEF ClockInv, ToBeReset
<1>13. LatchInv' BY <1>1, <1>3, LatchKept DEF streamVars, fieldVars, startVars
<1>14. ResetInv' BY <1>1, <1>3 DEF ResetInv
<1> QED BY <1>10, <1>11, <1>12, <1>13, <1>14, IInvParts

(* The smallest of the samples that is not outdated is no less than skew.  *)
LEMMA ClockSampleKeeps ==
  ASSUME IInv, NEW h \in Handlers, ClockSample(h)
  PROVE  IInv'
<1>1. TypeOK /\ WorksInv /\ ClockInv /\ ResetInv /\ LatchInv BY IInvParts
<1> DEFINE stamp == work[h].stamp
           sample == stamp.came - stamp.dev
           new == [work[h] EXCEPT !.pc = "clocked", !.offset = clock',
                                  !.ready = sampled']
<1>2. /\ work[h].pc = "came" /\ h \in Busy
      /\ work' = [work EXCEPT ![h] = new]
      /\ mixed' = (mixed \/ Outdated(stamp))
      /\ UNCHANGED <<skew, since, now, starting, started, waiting, after, latch,
                     remote, anchor, foreign, cleared, startedAt, torn, power,
                     unreset, frozen, sleeps>>
  BY DEF ClockSample, timeVars, streamVars, fieldVars, startVars, powerVars,
    Busy
<1>3. \/ /\ sample >= 0 /\ sampled' = TRUE
         /\ clock' = IF ~sampled \/ sample < clock THEN sample ELSE clock
      \/ ~(sample >= 0) /\ clock' = clock /\ sampled' = sampled
  BY DEF ClockSample, clockVars
<1>4. /\ stamp \in Stamps /\ stamp.at \in Nat /\ stamp.dev \in Int
      /\ stamp.came \in Nat /\ skew \in Int /\ clock \in Nat
      /\ sampled \in BOOLEAN /\ mixed \in BOOLEAN
  BY <1>1, WorkHolds, Values DEF TypeOK
<1>5. sample \in Int BY <1>4
<1>6. clock' \in Nat /\ sampled' \in BOOLEAN
      /\ (sample >= 0 => sampled' /\ clock' <= sample)
  <2>1. clock \in Nat /\ sampled \in BOOLEAN BY <1>4
  <2> HIDE DEF sample
  <2>2. sampled' \in BOOLEAN /\ (sample >= 0 => sampled') BY <1>3, <2>1, Zenon
  <2>3. \/ sample >= 0
             /\ (clock' = sample \/ (~(sample < clock) /\ clock' = clock))
        \/ ~(sample >= 0) /\ clock' = clock
    BY <1>3, Zenon
  <2>4. clock' \in Nat /\ (sample >= 0 => clock' <= sample)
    BY <1>5, <2>1, <2>3
  <2> QED BY <2>2, <2>4
<1>7. HoldsFor(h) BY <1>1, <1>2 DEF WorksInv
<1>8. ~Outdated(stamp) => sample >= skew
  BY <1>4, <1>7 DEF HoldsFor, DeviceTime
<1>9. (~mixed' /\ sampled') => ~Outdated(stamp) /\ ~ToBeReset /\ clock' >= skew
  <2>1. SUFFICES ASSUME ~mixed', sampled'
                 PROVE  ~Outdated(stamp) /\ ~ToBeReset /\ clock' >= skew
    OBVIOUS
  <2>2. ~Outdated(stamp) /\ ~mixed BY <1>2, <2>1
  <2>3. ~ToBeReset BY <1>7, <2>2 DEF HoldsFor, ToBeReset
  <2>4. sampled => clock >= skew BY <1>1, <2>2, <2>3 DEF ClockInv
  <2>5. clock' >= skew
    <3> HIDE DEF sample, stamp
    <3> QED BY <1>3, <1>4, <1>5, <1>8, <2>1, <2>2, <2>4
  <2> QED BY <2>2, <2>3, <2>5
<1>10. /\ new \in [pc : {"idle", "came", "clocked"}, stamp : Stamps,
                    offset : Nat, ready : BOOLEAN]
       /\ new.pc = "clocked" /\ new.stamp = stamp
       /\ new.offset = clock' /\ new.ready = sampled'
  <2>1. work[h] \in [pc : {"idle", "came", "clocked"}, stamp : Stamps,
                     offset : Nat, ready : BOOLEAN]
    BY <1>1 DEF TypeOK
  <2> QED BY <1>6, <2>1
<1> HIDE DEF new
<1>11. /\ work'[h] = new
       /\ \A g \in Handlers \ {h} : work'[g] = work[g]
  BY <1>1, <1>2 DEF TypeOK
<1>12. TypeOK'
  <2>1. WorkTyped' BY <1>1, <1>2, <1>10, TypeParts DEF WorkTyped
  <2>2. mixed' \in BOOLEAN BY <1>2, <1>4 DEF Outdated
  <2>3. ClockTyped' BY <1>1, <1>2, <1>6, TypeParts DEF ClockTyped
  <2>4. StreamTyped' BY <1>1, <1>2, <2>2, TypeParts DEF StreamTyped
  <2> QED BY <2>1, <2>3, <2>4, TypeParts
<1>13. WorksInv'
  <2>1. SUFFICES ASSUME NEW g \in Handlers, g \in Busy' PROVE HoldsFor(g)'
    BY DEF WorksInv, Busy
  <2>2. CASE g = h
    <3> HIDE DEF stamp
    <3>1. /\ Outdated(stamp)' <=> stamp'.at < since
          /\ DeviceTime(stamp.at)' = stamp'.at - skew
      BY <1>2 DEF Outdated, DeviceTime
    <3>2. work'[g].stamp = stamp /\ work'[g].pc = "clocked"
          /\ work'[g].offset = clock' /\ work'[g].ready = sampled'
      BY <1>10, <1>11, <2>2
    <3>3. /\ stamp.at <= stamp.came /\ stamp.came <= now
          /\ ~Outdated(stamp) => stamp.dev = DeviceTime(stamp.at)
          /\ (frozen /\ power # "asleep") => Outdated(stamp)
      BY <1>7 DEF HoldsFor, stamp
    <3>4. stamp.came >= stamp.dev
            => sampled' /\ stamp.dev + clock' <= stamp.came
      <4>1. sample = stamp.came - stamp.dev OBVIOUS
      <4>2. stamp.came \in Nat /\ stamp.dev \in Int BY <1>4
      <4> HIDE DEF sample
      <4> QED BY <1>6, <4>1, <4>2
    <3> HIDE DEF sample
    <3> QED BY <1>2, <1>9, <3>2, <3>3, <3>4 DEF HoldsFor, Outdated, DeviceTime
  <2>3. CASE g # h
    <3>1. work'[g] = work[g] BY <1>11, <2>3
    <3>2. HoldsFor(g) BY <1>1, <2>1, <3>1 DEF WorksInv, Busy
    <3>3. /\ Outdated(work[g].stamp)' <=> Outdated(work[g].stamp)
          /\ DeviceTime(work[g].stamp.at)' = DeviceTime(work[g].stamp.at)
      BY <1>2, <3>1 DEF Outdated, DeviceTime
    <3> QED BY <1>2, <3>1, <3>2, <3>3 DEF HoldsFor
  <2> QED BY <2>2, <2>3
<1>14. ClockInv' BY <1>1, <1>2, <1>9 DEF ClockInv, ToBeReset
<1>15. LatchInv' BY <1>1, <1>2, LatchKept DEF streamVars, fieldVars, startVars
<1>16. ResetInv' BY <1>1, <1>2 DEF ResetInv
<1> QED BY <1>12, <1>13, <1>14, <1>15, <1>16, IInvParts

-----------------------------------------------------------------------------
(* A work that ends. *)
LEMMA LocksEnds ==
  ASSUME TypeOK, NEW h \in Handlers, Locks(h)
  PROVE  /\ WorkTyped'
         /\ \A g \in Handlers : work'[g].pc # "idle" => work'[g] = work[g]
<1>1. WorkTyped BY TypeParts
<1>2. work' = [work EXCEPT ![h] = IdleWork] BY DEF Locks
<1>3. WorkTyped' BY <1>1, <1>2, NothingTyped DEF WorkTyped
<1>4. work'[h] = IdleWork /\ \A g \in Handlers \ {h} : work'[g] = work[g]
  BY <1>1, <1>2 DEF WorkTyped
<1> QED BY <1>3, <1>4, NothingTyped

LEMMA IgnoreKeeps ==
  ASSUME IInv, NEW h \in Handlers, Ignore(h)
  PROVE  IInv'
<1>1. TypeOK /\ WorksInv /\ ClockInv /\ ResetInv /\ LatchInv BY IInvParts
<1>2. UNCHANGED <<skew, since, now, sampled, clock, starting, started, waiting,
                  after, latch, remote, anchor, foreign, cleared, startedAt,
                  torn, power, unreset, frozen, sleeps, mixed>>
  BY DEF Ignore, timeVars, clockVars, streamVars, fieldVars, startVars,
    powerVars
<1>3. /\ WorkTyped'
      /\ \A g \in Handlers : work'[g].pc # "idle" => work'[g] = work[g]
  BY <1>1, LocksEnds DEF Ignore
<1>4. TypeOK'
  <2>1. ClockTyped' BY <1>1, <1>2, TypeParts DEF ClockTyped, Times
  <2>2. StreamTyped' BY <1>1, <1>2, TypeParts DEF StreamTyped
  <2> QED BY <1>3, <2>1, <2>2, TypeParts
<1>5. now \in Nat BY <1>1, Values
<1>6. WorksInv' BY <1>1, <1>2, <1>3, <1>5, WorksKept
<1>7. ClockInv' BY <1>1, <1>2 DEF ClockInv, ToBeReset
<1>8. LatchInv' BY <1>1, <1>2, LatchKept DEF streamVars, fieldVars, startVars
<1>9. ResetInv' BY <1>1, <1>2 DEF ResetInv
<1> QED BY <1>4, <1>6, <1>7, <1>8, <1>9, IInvParts

(* What a work latches, and whether it anchors the stream. *)
LEMMA MapsWith ==
  ASSUME TypeOK, NEW h \in Handlers, MapTimestamp(h)
  PROVE  LET stamp == work[h].stamp IN
         /\ started /\ started' /\ work[h].pc = "clocked" /\ work[h].ready
         /\ latch' \in [valid : BOOLEAN, offset : Nat, seed : Seeds]
         /\ latch'.valid
         /\ \/ latch' = latch /\ latch.seed = stamp.seed
            \/ /\ ~latch.valid \/ latch.seed # stamp.seed
               /\ latch'.offset = work[h].offset /\ latch'.seed = stamp.seed
         /\ \/ /\ UNCHANGED <<remote, anchor, waiting>>
               /\ foreign' = (foreign \/ stamp.seed # anchor.seed)
            \/ /\ remote' = stamp.dev + latch'.offset /\ remote' >= after
               /\ remote' \in Int /\ anchor' = stamp
               /\ ~waiting' /\ ~foreign'
<1> DEFINE stamp == work[h].stamp
<1>1. /\ work[h].offset \in Nat /\ stamp.seed \in Seeds /\ stamp.dev \in Int
      /\ after \in Int
      /\ latch \in [valid : BOOLEAN, offset : Nat, seed : Seeds]
  <2>1. work[h].offset \in Nat /\ stamp.seed \in Seeds /\ stamp.dev \in Int
    BY WorkHolds
  <2>2. after \in Int BY StreamValues
  <2> QED BY <2>1, <2>2, StreamValues
<1>2. /\ started /\ started' /\ work[h].pc = "clocked" /\ work[h].ready
      /\ latch' = Latched(h)
  BY DEF MapTimestamp, Locks
<1>3. /\ latch' \in [valid : BOOLEAN, offset : Nat, seed : Seeds]
      /\ latch'.valid
      /\ \/ latch' = latch /\ latch.seed = stamp.seed
         \/ /\ ~latch.valid \/ latch.seed # stamp.seed
            /\ latch'.offset = work[h].offset /\ latch'.seed = stamp.seed
  <2>1. CASE ~latch.valid \/ latch.seed # stamp.seed
    <3>1. latch' = [valid |-> TRUE, offset |-> work[h].offset,
                    seed |-> stamp.seed]
      BY <1>2, <2>1 DEF Latched
    <3> QED BY <1>1, <2>1, <3>1
  <2>2. CASE ~(~latch.valid \/ latch.seed # stamp.seed)
    <3>1. latch' = latch BY <1>2, <2>2 DEF Latched
    <3> QED BY <1>1, <2>2, <3>1
  <2> QED BY <2>1, <2>2
<1>4. latch'.offset \in Nat BY <1>3
<1> DEFINE event == stamp.dev + latch'.offset
<1>5. event \in Int BY <1>1, <1>4
<1>6. CASE event < after
  <2>1. /\ UNCHANGED <<remote, anchor, waiting>>
        /\ foreign' = (foreign \/ stamp.seed # anchor.seed)
    BY <1>6 DEF MapTimestamp
  <2> QED BY <1>2, <1>3, <2>1
<1>7. CASE ~(event < after)
  <2>1. /\ remote' = event /\ anchor' = stamp
        /\ waiting' = FALSE /\ foreign' = FALSE
    BY <1>7 DEF MapTimestamp
  <2>2. event >= after
    <3> HIDE DEF event
    <3> QED BY <1>1, <1>5, <1>7
  <2> QED BY <1>2, <1>3, <1>5, <2>1, <2>2
<1> QED BY <1>6, <1>7

LEMMA MapTimestampKeeps ==
  ASSUME IInv, NEW h \in Handlers, MapTimestamp(h)
  PROVE  IInv'
<1>1. TypeOK /\ WorksInv /\ ClockInv /\ ResetInv /\ LatchInv BY IInvParts
<1> DEFINE stamp == work[h].stamp
<1>2. UNCHANGED <<skew, since, now, sampled, clock, starting, started, after,
                  cleared, startedAt, torn, power, unreset, frozen, sleeps>>
      /\ mixed' = (mixed \/ Outdated(stamp))
  BY DEF MapTimestamp, timeVars, clockVars, startVars, powerVars
<1>3. /\ WorkTyped'
      /\ \A g \in Handlers : work'[g].pc # "idle" => work'[g] = work[g]
  BY <1>1, LocksEnds DEF MapTimestamp
<1>4. /\ started /\ work[h].pc = "clocked" /\ work[h].ready
      /\ latch' \in [valid : BOOLEAN, offset : Nat, seed : Seeds]
      /\ latch'.valid
      /\ \/ latch' = latch /\ latch.seed = stamp.seed
         \/ /\ ~latch.valid \/ latch.seed # stamp.seed
            /\ latch'.offset = work[h].offset /\ latch'.seed = stamp.seed
      /\ \/ /\ UNCHANGED <<remote, anchor, waiting>>
            /\ foreign' = (foreign \/ stamp.seed # anchor.seed)
         \/ /\ remote' = stamp.dev + latch'.offset /\ remote' >= after
            /\ remote' \in Int /\ anchor' = stamp
            /\ ~waiting' /\ ~foreign'
  BY <1>1, MapsWith
<1>5. /\ stamp \in Stamps /\ stamp.dev \in Int /\ stamp.at \in Nat
      /\ work[h].offset \in Nat /\ skew \in Int
      /\ latch'.offset \in Nat
  BY <1>1, <1>4, WorkHolds, Values
<1>6. TypeOK'
  <2>1. StreamTyped BY <1>1, TypeParts
  <2>2. /\ mixed' \in BOOLEAN /\ foreign' \in BOOLEAN /\ waiting' \in BOOLEAN
    <3>1. mixed \in BOOLEAN /\ foreign \in BOOLEAN /\ waiting \in BOOLEAN
      BY <2>1 DEF StreamTyped
    <3>2. waiting' \in {waiting, FALSE} BY DEF MapTimestamp
    <3>3. foreign' \in BOOLEAN BY <3>1 DEF MapTimestamp
    <3>4. mixed' \in BOOLEAN BY <1>2, <3>1 DEF Outdated
    <3> QED BY <3>1, <3>2, <3>3, <3>4
  <2>3. remote' \in Int /\ anchor' \in Stamps
    <3>1. remote \in Int /\ anchor \in Stamps BY <2>1 DEF StreamTyped
    <3> QED BY <1>4, <1>5, <3>1
  <2>4. StreamTyped' BY <1>2, <1>4, <2>1, <2>2, <2>3 DEF StreamTyped
  <2>5. ClockTyped' BY <1>1, <1>2, TypeParts DEF ClockTyped
  <2> QED BY <1>3, <2>4, <2>5, TypeParts
<1>7. WorksInv'
  <2>1. now \in Nat BY <1>1, Values
  <2>2. now' \in Nat /\ now <= now'
    <3>1. now' = now BY <1>2, Zenon
    <3> QED BY <2>1, <3>1
  <2>3. mixed => mixed' BY <1>2
  <2> QED BY <1>1, <1>2, <1>3, <2>2, <2>3, WorksKept
<1>8. ClockInv' BY <1>1, <1>2 DEF ClockInv, ToBeReset
<1>9. HoldsFor(h) BY <1>1, <1>4 DEF WorksInv, Busy
<1>10. ~mixed' => /\ ~mixed /\ stamp.dev = stamp.at - skew
                  /\ work[h].offset >= skew
  BY <1>2, <1>4, <1>9 DEF HoldsFor, DeviceTime
<1>11. (~mixed' /\ ~torn) => latch'.offset >= skew
  BY <1>1, <1>4, <1>10 DEF LatchInv
<1>12. NotBeforeEvent'
  <2>1. SUFFICES ASSUME ~waiting', ~mixed', ~torn
                 PROVE  remote' >= anchor'.at
    BY <1>2 DEF NotBeforeEvent, Anchored
  <2>2. CASE UNCHANGED <<remote, anchor, waiting>>
    BY <1>1, <1>4, <1>10, <2>1, <2>2 DEF LatchInv, NotBeforeEvent, Anchored
  <2>3. CASE remote' = stamp.dev + latch'.offset /\ anchor' = stamp
    <3>1. stamp.dev = stamp.at - skew /\ latch'.offset >= skew
      BY <1>10, <1>11, <2>1
    <3>2. anchor'.at = stamp.at BY <2>3
    <3> HIDE DEF stamp
    <3> QED BY <1>5, <2>3, <3>1, <3>2
  <2> QED BY <1>4, <2>2, <2>3
<1>13. AnchorInv'
  <2>1. SUFFICES ASSUME ~waiting', ~foreign', ~torn
                 PROVE  /\ latch'.valid /\ latch'.seed = anchor'.seed
                        /\ remote' = anchor'.dev + latch'.offset
    BY <1>2 DEF AnchorInv, Anchored
  <2>2. CASE remote' = stamp.dev + latch'.offset /\ anchor' = stamp
    BY <1>4, <2>2
  <2>3. CASE /\ UNCHANGED <<remote, anchor, waiting>>
             /\ foreign' = (foreign \/ stamp.seed # anchor.seed)
    <3>1. /\ ~foreign /\ stamp.seed = anchor.seed /\ ~waiting
      BY <2>1, <2>3
    <3>2. /\ latch.valid /\ latch.seed = anchor.seed
          /\ remote = anchor.dev + latch.offset
      BY <1>1, <1>4, <2>1, <3>1 DEF LatchInv, AnchorInv, Anchored
    <3>3. latch' = latch BY <1>4, <3>1, <3>2
    <3> QED BY <2>3, <3>2, <3>3
  <2> QED BY <1>4, <2>2, <2>3
<1>14. LatchInv' BY <1>2, <1>11, <1>12, <1>13 DEF LatchInv
<1>15. ~starting BY DEF MapTimestamp, Locks
<1>16. ResetInv' BY <1>1, <1>2, <1>15 DEF ResetInv
<1> QED BY <1>6, <1>7, <1>8, <1>14, <1>16, IInvParts

-----------------------------------------------------------------------------
(* The steps of the callbacks leave the works alone. *)
LEMMA StartsKeep ==
  ASSUME IInv,
         StartBegins \/ StartFails \/ StartForgets \/ StartEnds \/ Stop
  PROVE  IInv'
<1>1. TypeOK /\ WorksInv /\ ClockInv /\ ResetInv /\ LatchInv BY IInvParts
<1>2. /\ UNCHANGED <<skew, since, now, sampled, clock, work, power, unreset,
                     frozen, sleeps, mixed>>
      /\ starting' \in BOOLEAN
  BY <1>1 DEF StartBegins, StartFails, StartForgets, StartEnds, Stop, TypeOK,
              timeVars, clockVars, powerVars
<1>3. /\ (power = "reset stream")' = (power = "reset stream")
      /\ started' \in BOOLEAN /\ starting \in BOOLEAN
      /\ \/ /\ UNCHANGED streamVars
            /\ \/ starting' /\ ~started
               \/ ~starting' /\ ~cleared
         \/ /\ started' = FALSE /\ cleared' /\ starting'
            /\ waiting' = TRUE /\ latch' = NoLatch
            /\ after' = now /\ startedAt' = now
            /\ torn' = (power = "reset stream")
         \/ /\ started' /\ ~cleared' /\ ~starting' /\ cleared
            /\ UNCHANGED <<fieldVars, startedAt, torn>>
         \/ /\ started' = FALSE /\ ~cleared' /\ UNCHANGED startVars
            /\ waiting' = TRUE /\ latch' = NoLatch
  <2>1. started \in BOOLEAN /\ starting \in BOOLEAN BY <1>1 DEF TypeOK
  <2>2. CASE StartBegins
    BY <1>2, <2>1, <2>2 DEF StartBegins, streamVars
  <2>3. CASE StartFails
    BY <1>2, <2>1, <2>3 DEF StartFails, streamVars
  <2>4. CASE StartForgets
    BY <1>1, <1>2, <2>1, <2>4 DEF StartForgets, ForgetTimestamps, ResetInv
  <2>5. CASE StartEnds BY <1>2, <2>1, <2>5 DEF StartEnds
  <2>6. CASE Stop
    BY <1>1, <1>2, <2>1, <2>6 DEF Stop, ForgetTimestamps, ResetInv, startVars
  <2> QED BY <2>2, <2>3, <2>4, <2>5, <2>6
<1>4. frozen => ~started' /\ ~starting'
  BY <1>1 DEF ClockInv, ResetInv, StartBegins, StartFails, StartForgets,
              StartEnds, Stop, streamVars, fieldVars, startVars
<1>5. \/ UNCHANGED <<fieldVars, startedAt, torn>> /\ cleared' \in BOOLEAN
      \/ /\ waiting' = TRUE /\ after' \in Times
         /\ latch' = NoLatch /\ remote' = 0 /\ anchor' = Nothing
         /\ foreign' = FALSE /\ startedAt' \in Times /\ torn' \in BOOLEAN
         /\ cleared' \in BOOLEAN
  <2>1. /\ 0 \in Times /\ now \in Times /\ startedAt \in Times
        /\ torn \in BOOLEAN /\ cleared \in BOOLEAN
    BY <1>1, StreamValues DEF TypeOK
  <2> QED BY <2>1 DEF StartBegins, StartFails, StartForgets, StartEnds, Stop,
                      ForgetTimestamps, streamVars, startVars
<1>6. TypeOK'
  <2>1. ClockTyped' /\ WorkTyped'
    BY <1>1, <1>2, TypeParts DEF ClockTyped, WorkTyped
  <2>2. StreamTyped BY <1>1, TypeParts
  <2>3. StreamTyped'
    <3>1. CASE UNCHANGED <<fieldVars, startedAt, torn>> /\ cleared' \in BOOLEAN
      BY <1>2, <1>3, <2>2, <3>1 DEF StreamTyped, fieldVars
    <3>2. CASE ~(UNCHANGED <<fieldVars, startedAt, torn>>
                   /\ cleared' \in BOOLEAN)
      <4>1. 0 \in Int OBVIOUS
      <4> HIDE DEF Nothing, NoLatch
      <4> QED BY <1>2, <1>3, <1>5, <2>2, <3>2, <4>1, NothingTyped
              DEF StreamTyped
    <3> QED BY <3>1, <3>2
  <2> QED BY <2>1, <2>3, TypeParts
<1>7. WorksInv'
  <2>1. now \in Nat BY <1>1, Values
  <2>2. now' \in Nat /\ now <= now'
    <3>1. now' = now BY <1>2, Zenon
    <3> QED BY <2>1, <3>1
  <2>3. (frozen' /\ power' # "asleep") => frozen /\ power # "asleep"
    BY <1>2
  <2> QED BY <1>1, <1>2, <2>2, <2>3, WorksKept
<1>8. ClockInv' BY <1>1, <1>2, <1>4 DEF ClockInv, ToBeReset
<1>9. LatchInv'
  <2>1. CASE UNCHANGED streamVars BY <1>1, <1>2, <2>1, LatchKept
  <2>2. CASE waiting' = TRUE /\ latch' = NoLatch
    BY <2>2, NothingTyped, NotAnchored DEF Anchored
  <2>3. CASE cleared /\ UNCHANGED fieldVars
    BY <1>1, <2>3, NotAnchored DEF Anchored, ResetInv, fieldVars
  <2> QED BY <1>3, <2>1, <2>2, <2>3
<1>10. ResetInv'
  <2>1. CASE UNCHANGED streamVars
    BY <1>1, <1>3, <2>1 DEF ResetInv, streamVars, fieldVars, startVars
  <2>2. CASE /\ started' = FALSE /\ cleared' /\ starting'
             /\ waiting' = TRUE /\ latch' = NoLatch
             /\ after' = now /\ startedAt' = now
             /\ torn' = (power = "reset stream")
    BY <1>3, <2>2 DEF ResetInv, NoLatch
  <2>3. CASE /\ started' /\ ~cleared' /\ ~starting' /\ cleared
             /\ UNCHANGED <<fieldVars, startedAt, torn>>
    BY <1>1, <1>3, <2>3 DEF ResetInv, fieldVars
  <2>4. CASE started' = FALSE /\ ~cleared' BY <1>3, <2>4 DEF ResetInv
  <2> QED BY <1>3, <2>1, <2>2, <2>3, <2>4
<1> QED BY <1>6, <1>7, <1>8, <1>9, <1>10, IInvParts

LEMMA SleepKeeps == ASSUME IInv, Sleep PROVE IInv'
<1>1. TypeOK /\ WorksInv /\ ClockInv /\ ResetInv /\ LatchInv BY IInvParts
<1>2. /\ UNCHANGED <<skew, since, now, sampled, clock, work, starting, waiting,
                     after, latch, remote, anchor, foreign, cleared, startedAt,
                     torn, unreset, mixed>>
      /\ power' = "asleep" /\ frozen' = TRUE /\ started' = FALSE
      /\ ~starting /\ sleeps' = sleeps + 1 /\ sleeps < MaxSleeps
  BY DEF Sleep, timeVars, clockVars, fieldVars, startVars
<1>3. sleeps' \in 0 .. MaxSleeps
  <2>1. sleeps \in 0 .. MaxSleeps /\ MaxSleeps \in Nat
    BY <1>1, SkewAssumption DEF TypeOK
  <2> QED BY <1>2, <2>1
<1>4. TypeOK'
  BY <1>1, <1>2, <1>3, TypeParts DEF ClockTyped, WorkTyped, StreamTyped
<1>5. WorksInv'
  <2>1. now \in Nat BY <1>1, Values
  <2>2. now' \in Nat /\ now <= now'
    <3>1. now' = now BY <1>2, Zenon
    <3> QED BY <2>1, <3>1
  <2>3. (frozen' /\ power' # "asleep") => frozen /\ power # "asleep"
    BY <1>2
  <2> QED BY <1>1, <1>2, <2>2, <2>3, WorksKept
<1>6. ClockInv'
  <2>1. (~mixed /\ sampled) => clock >= skew
    <3>1. ~ToBeReset BY DEF Sleep, ToBeReset
    <3> QED BY <1>1, <3>1 DEF ClockInv
  <2> QED BY <1>2, <2>1 DEF ClockInv
<1>7. LatchInv' BY <1>2, NotAnchored DEF Anchored
<1>8. ResetInv' BY <1>1, <1>2 DEF ResetInv
<1> QED BY <1>4, <1>5, <1>6, <1>7, <1>8, IInvParts

(* A clock that is started anew leaves only outdated timestamps. *)
LEMMA WakeKeeps ==
  ASSUME IInv, NEW lost \in BOOLEAN, Wake(lost)
  PROVE  IInv'
<1>1. TypeOK /\ WorksInv /\ ClockInv /\ ResetInv /\ LatchInv BY IInvParts
<1>2. /\ UNCHANGED <<now, sampled, clock, work, starting, started, waiting,
                     after, latch, remote, anchor, foreign, cleared, startedAt,
                     torn, unreset, sleeps, mixed>>
      /\ power = "asleep" /\ power' = "reset clock" /\ frozen' = lost
  BY DEF Wake, clockVars, streamVars, fieldVars, startVars
<1>3. \/ lost /\ skew' \in Skews /\ since' = now + 1
      \/ ~lost /\ UNCHANGED <<skew, since>>
  BY DEF Wake
<1>4. frozen /\ ~started /\ ~starting BY <1>1, <1>2 DEF ClockInv
<1>5. now \in Nat /\ skew \in Skews /\ since \in 0 .. now + 1
  <2>1. skew \in Skews /\ since \in 0 .. now + 1 BY <1>1, Zenon DEF TypeOK
  <2> QED BY <1>1, <2>1, Values
<1>6. TypeOK'
  <2>1. skew' \in Skews BY <1>3, <1>5
  <2>2. now' = now BY <1>2
  <2>3. since' = now + 1 \/ since' = since BY <1>3
  <2>4. since' \in 0 .. now' + 1 BY <1>5, <2>2, <2>3
  <2> QED BY <1>1, <1>2, <2>1, <2>4, TypeParts DEF ClockTyped, WorkTyped,
                                                   StreamTyped
<1>7. WorksInv'
  <2>1. CASE lost
    <3>1. SUFFICES ASSUME NEW g \in Handlers, g \in Busy PROVE HoldsFor(g)'
      BY <1>2 DEF WorksInv, Busy
    <3>2. HoldsFor(g) BY <1>1, <3>1 DEF WorksInv
    <3>3. work[g].stamp.at \in Nat /\ work[g].stamp.came \in Nat
          /\ work[g].stamp.at <= work[g].stamp.came
          /\ work[g].stamp.came <= now
      BY <1>1, <3>2, WorkHolds DEF HoldsFor
    <3>4. work[g].stamp.at < now + 1 BY <1>5, <3>3
    <3>5. since' = now + 1 BY <1>3, <2>1
    <3>6. Outdated(work[g].stamp)' BY <1>2, <3>4, <3>5 DEF Outdated
    <3> QED BY <1>2, <3>2, <3>3, <3>6 DEF HoldsFor
  <2>2. CASE ~lost
    <3>1. now' \in Nat /\ now <= now'
      <4>1. now' = now BY <1>2, Zenon
      <4> QED BY <1>5, <4>1
    <3>2. UNCHANGED <<skew, since>> /\ ~frozen' BY <1>2, <1>3, <2>2
    <3> QED BY <1>1, <1>2, <3>1, <3>2, WorksKept
  <2> QED BY <2>1, <2>2
<1>8. ClockInv' BY <1>1, <1>2, <1>3, <1>4 DEF ClockInv, ToBeReset
<1>9. LatchInv' BY <1>2, <1>4, NotAnchored DEF Anchored
<1>10. ResetInv' BY <1>1, <1>2, <1>4 DEF ResetInv
<1> QED BY <1>6, <1>7, <1>8, <1>9, <1>10, IInvParts

LEMMA ResetClockKeeps == ASSUME IInv, ResetClock PROVE IInv'
<1>1. TypeOK /\ WorksInv /\ ClockInv /\ ResetInv /\ LatchInv BY IInvParts
<1>2. /\ UNCHANGED <<skew, since, now, work, starting, started, waiting, after,
                     latch, remote, anchor, foreign, cleared, startedAt, torn,
                     unreset, frozen, sleeps, mixed>>
      /\ power = "reset clock" /\ power' = "stop stream"
      /\ sampled' = FALSE /\ clock' = 0
  BY DEF ResetClock, timeVars, streamVars, fieldVars, startVars
<1>3. TypeOK'
  BY <1>1, <1>2, TypeParts DEF ClockTyped, WorkTyped, StreamTyped
<1>4. WorksInv'
  <2>1. now \in Nat BY <1>1, Values
  <2>2. now' \in Nat /\ now <= now'
    <3>1. now' = now BY <1>2, Zenon
    <3> QED BY <2>1, <3>1
  <2>3. (frozen' /\ power' # "asleep") => frozen /\ power # "asleep"
    BY <1>2
  <2> QED BY <1>1, <1>2, <2>2, <2>3, WorksKept
<1>5. ClockInv' BY <1>1, <1>2 DEF ClockInv
<1>6. LatchInv' BY <1>1, <1>2, LatchKept DEF streamVars, fieldVars, startVars
<1>7. ResetInv' BY <1>1, <1>2 DEF ResetInv
<1> QED BY <1>3, <1>4, <1>5, <1>6, <1>7, IInvParts

(* The reset of a stream touches only one that is stopped, or torn.        *)
LEMMA ResetStreamKeeps ==
  ASSUME IInv, ResetStreamBegins \/ ResetsField \/ ResetStreamEnds
  PROVE  IInv'
<1>1. TypeOK /\ WorksInv /\ ClockInv /\ ResetInv /\ LatchInv BY IInvParts
<1>2. /\ UNCHANGED <<skew, since, now, sampled, clock, work, starting, foreign,
                     cleared, startedAt, sleeps, mixed>>
      /\ torn' \in BOOLEAN /\ (torn => torn')
      /\ power \in {"stop stream", "reset stream"}
      /\ power' \in {"reset stream", "on"}
      /\ frozen' \in BOOLEAN /\ (frozen' => frozen)
      /\ started' \in BOOLEAN /\ (started' => started)
  <2>1. /\ frozen \in BOOLEAN /\ started \in BOOLEAN
        /\ torn \in BOOLEAN /\ cleared \in BOOLEAN
    BY <1>1 DEF TypeOK
  <2>2. CASE ResetStreamBegins
    BY <2>1, <2>2 DEF ResetStreamBegins, timeVars, clockVars, fieldVars,
                      startVars
  <2>3. CASE ResetsField
    BY <2>1, <2>3 DEF ResetsField, timeVars, clockVars, startVars
  <2>4. CASE ResetStreamEnds
    BY <2>1, <2>4 DEF ResetStreamEnds, timeVars, clockVars, streamVars,
                      fieldVars, startVars
  <2> QED BY <2>2, <2>3, <2>4
<1>3. unreset' \in Seq(Fields)
  <2>1. unreset \in Seq(Fields) BY <1>1, TypeParts DEF ClockTyped
  <2>2. CASE ResetStreamBegins
    BY <2>2, OrdersAssumption DEF ResetStreamBegins
  <2>3. CASE ResetsField
    <3>1. unreset # <<>> /\ unreset' = Tail(unreset)
      BY <2>3 DEF ResetsField
    <3> QED BY <2>1, <3>1, HeadTailProperties
  <2>4. CASE ResetStreamEnds BY <2>1, <2>4 DEF ResetStreamEnds
  <2> QED BY <2>2, <2>3, <2>4
<1>4. \/ UNCHANGED <<waiting, after, latch, remote, anchor>>
      \/ /\ waiting' \in {waiting, TRUE} /\ after' \in {after, 0}
         /\ remote' \in {remote, 0} /\ anchor' \in {anchor, Nothing}
         /\ latch' \in [valid : {latch.valid, NoLatch.valid},
                        offset : {latch.offset, NoLatch.offset},
                        seed : {latch.seed, NoLatch.seed}]
  <2> HIDE DEF Nothing, NoLatch
  <2>1. CASE ResetStreamBegins BY <2>1 DEF ResetStreamBegins, fieldVars
  <2>2. CASE ResetStreamEnds
    BY <2>2 DEF ResetStreamEnds, streamVars, fieldVars
  <2>3. CASE ResetsField
    <3>1. /\ waiting' \in {waiting, TRUE} /\ after' \in {after, 0}
          /\ remote' \in {remote, 0} /\ anchor' \in {anchor, Nothing}
      BY <2>3 DEF ResetsField
    <3>2. PICK v \in {latch.valid, NoLatch.valid},
               o \in {latch.offset, NoLatch.offset},
               d \in {latch.seed, NoLatch.seed} :
            latch' = [valid |-> v, offset |-> o, seed |-> d]
      BY <2>3 DEF ResetsField
    <3>3. latch' \in [valid : {latch.valid, NoLatch.valid},
                      offset : {latch.offset, NoLatch.offset},
                      seed : {latch.seed, NoLatch.seed}]
      BY <3>2
    <3> QED BY <3>1, <3>3
  <2> QED BY <2>1, <2>2, <2>3
<1>5. TypeOK'
  <2>1. ClockTyped' /\ WorkTyped'
    BY <1>1, <1>2, <1>3, TypeParts DEF ClockTyped, WorkTyped
  <2>2. StreamTyped BY <1>1, TypeParts
  <2>3. /\ waiting' \in BOOLEAN /\ after' \in Times /\ remote' \in Int
        /\ anchor' \in Stamps
        /\ latch' \in [valid : BOOLEAN, offset : Nat, seed : Seeds]
    <3>1. 0 \in Int /\ 0 \in Times BY SkewAssumption DEF Times
    <3> HIDE DEF Nothing, NoLatch
    <3>2. CASE UNCHANGED <<waiting, after, latch, remote, anchor>>
      BY <2>2, <3>2 DEF StreamTyped
    <3>3. CASE ~UNCHANGED <<waiting, after, latch, remote, anchor>>
      <4>1. /\ waiting' \in BOOLEAN /\ after' \in Times /\ remote' \in Int
            /\ anchor' \in Stamps
        BY <1>4, <2>2, <3>1, <3>3, NothingTyped DEF StreamTyped
      <4>2. /\ latch \in [valid : BOOLEAN, offset : Nat, seed : Seeds]
            /\ NoLatch \in [valid : BOOLEAN, offset : Nat, seed : Seeds]
        BY <2>2, NothingTyped DEF StreamTyped
      <4>3. /\ {latch.valid, NoLatch.valid} \subseteq BOOLEAN
            /\ {latch.offset, NoLatch.offset} \subseteq Nat
            /\ {latch.seed, NoLatch.seed} \subseteq Seeds
        BY <4>2
      <4>4. latch' \in [valid : BOOLEAN, offset : Nat, seed : Seeds]
        BY <1>4, <3>3, <4>3
      <4> QED BY <4>1, <4>4
    <3> QED BY <3>2, <3>3
  <2>4. StreamTyped' BY <1>2, <2>2, <2>3 DEF StreamTyped
  <2> QED BY <2>1, <2>4, TypeParts
<1>6. WorksInv'
  <2>1. now \in Nat BY <1>1, Values
  <2>2. now' \in Nat /\ now <= now'
    <3>1. now' = now BY <1>2, Zenon
    <3> QED BY <2>1, <3>1
  <2>3. (frozen' /\ power' # "asleep") => frozen /\ power # "asleep"
    BY <1>2
  <2> QED BY <1>1, <1>2, <2>2, <2>3, WorksKept
<1>7. ClockInv' BY <1>1, <1>2 DEF ClockInv, ToBeReset
<1>8. CASE ResetStreamBegins \/ ResetsField
  <2>1. started' \/ cleared' => torn'
    <3>1. CASE ResetStreamBegins
      <4>1. cleared \in BOOLEAN BY <1>1 DEF TypeOK
      <4>2. started' = FALSE /\ torn' = (torn \/ cleared) /\ cleared' = cleared
        BY <3>1, Zenon DEF ResetStreamBegins
      <4> QED BY <4>1, <4>2
    <3>2. CASE ResetsField
      BY <1>1, <1>2, <3>2 DEF ResetsField, ResetInv
    <3> QED BY <1>8, <3>1, <3>2
  <2>2. ResetInv'
    <3>1. waiting => waiting' BY <1>4
    <3>2. ~latch.valid => ~latch'.valid BY <1>4 DEF NoLatch
    <3> QED BY <1>1, <1>2, <2>1, <3>1, <3>2 DEF ResetInv
  <2>3. LatchInv' BY <2>1, NotKept
  <2> QED BY <1>5, <1>6, <1>7, <2>2, <2>3, IInvParts
<1>9. CASE ResetStreamEnds
  <2>1. UNCHANGED streamVars BY <1>9 DEF ResetStreamEnds
  <2>2. LatchInv' BY <1>1, <1>2, <2>1, LatchKept
  <2>3. ResetInv'
    <3>1. /\ UNCHANGED <<starting, started, waiting, after, latch, cleared,
                         startedAt, torn>>
          /\ power' = "on"
      BY <1>9 DEF ResetStreamEnds, streamVars, fieldVars, startVars
    <3> QED BY <1>1, <3>1 DEF ResetInv
  <2> QED BY <1>5, <1>6, <1>7, <2>2, <2>3, IInvParts
<1> QED BY <1>8, <1>9

LEMMA NextKeeps == IInv /\ [Next]_vars => IInv'
<1> SUFFICES ASSUME IInv, [Next]_vars PROVE IInv' OBVIOUS
<1>1. ASSUME NEW h \in Handlers, HandlerStep(h) PROVE IInv'
  BY <1>1, TimestampComesKeeps, ClockSampleKeeps, IgnoreKeeps,
     MapTimestampKeeps DEF HandlerStep
<1>2. CASE UNCHANGED vars
  <2>1. TypeOK /\ WorksInv /\ ClockInv /\ ResetInv /\ LatchInv BY IInvParts
  <2>2. UNCHANGED <<skew, since, now, sampled, clock, work, starting, started,
                    waiting, after, latch, remote, anchor, foreign, cleared,
                    startedAt, torn, power, unreset, frozen, sleeps, mixed>>
    BY <1>2 DEF vars, timeVars, clockVars, streamVars, fieldVars, startVars,
      powerVars
  <2>3. TypeOK'
    <3>1. ClockTyped' BY <2>1, <2>2, TypeParts DEF ClockTyped
    <3>2. WorkTyped' BY <2>1, <2>2, TypeParts DEF WorkTyped
    <3>3. StreamTyped' BY <2>1, <2>2, TypeParts DEF StreamTyped
    <3> QED BY <3>1, <3>2, <3>3, TypeParts
  <2>4. WorksInv'
    <3>1. now \in Nat BY <2>1, Values
    <3> QED BY <2>1, <2>2, <3>1, WorksKept
  <2>5. ClockInv' BY <2>1, <2>2 DEF ClockInv, ToBeReset
  <2>6. LatchInv' BY <2>1, <2>2, LatchKept DEF streamVars, fieldVars, startVars
  <2>7. ResetInv' BY <2>1, <2>2 DEF ResetInv
  <2> QED BY <2>3, <2>4, <2>5, <2>6, <2>7, IInvParts
<1> QED BY <1>1, <1>2, TimePassesKeeps, StartsKeep, SleepKeeps, WakeKeeps,
           ResetClockKeeps, ResetStreamKeeps DEF Next

-----------------------------------------------------------------------------
(* Whatever the works, the suspends and the clocks do, the offset in use   *)
(* is not below the true one, and a timestamp is never mapped to a time    *)
(* before its event: if no work has used a timestamp of a clock that was   *)
(* lost, and no reset has run into the start of the stream                 *)
(* (t2audio_reset_stream takes no lock).                                   *)
THEOREM Invariant == Spec => []IInv
<1>1. Init => IInv
  <2> SUFFICES ASSUME Init PROVE IInv OBVIOUS
  <2>1. 0 \in Times /\ 0 \in Int /\ 0 \in 0 .. MaxSleeps
    BY SkewAssumption DEF Times
  <2>2. ClockTyped
    <3>1. skew \in Skews /\ since = 0 /\ now = 0 /\ clock = 0 /\ sleeps = 0
          /\ sampled = FALSE /\ frozen = FALSE /\ power = "on"
          /\ unreset = <<>>
      BY DEF Init
    <3>2. 0 \in 0 .. 0 + 1 /\ 0 \in Nat /\ <<>> \in Seq(Fields) OBVIOUS
    <3> QED BY <2>1, <3>1, <3>2, Zenon DEF ClockTyped
  <2>3. WorkTyped
    <3>1. work = [h \in Handlers |-> IdleWork] BY DEF Init
    <3> QED BY <3>1, NothingTyped DEF WorkTyped
  <2>4. StreamTyped
    <3> HIDE DEF Nothing, NoLatch
    <3> QED BY <2>1, NothingTyped DEF Init, StreamTyped
  <2>5. Busy = {} BY NothingTyped DEF Init, Busy
  <2>6. ClockInv /\ ~started /\ ~starting /\ ~cleared BY DEF Init, ClockInv
  <2>7. LatchInv BY <2>6 DEF LatchInv, AnchorInv, NotBeforeEvent, Anchored
  <2>8. ResetInv BY <2>6 DEF ResetInv
  <2> QED BY <2>2, <2>3, <2>4, <2>5, <2>6, <2>7, <2>8, IInvParts, TypeParts
             DEF WorksInv
<1> QED BY <1>1, NextKeeps, PTL DEF Spec

(* Only t2audio_handle_stream_timestamp leaves a stream that was not torn  *)
(* anchored, and changes something of it.                                  *)
LEMMA OnlyMapsAnchored ==
  ASSUME IInv, [Next]_vars, Anchored', ~torn, streamVars' # streamVars
  PROVE  \E h \in Handlers : MapTimestamp(h)
<1>1. ASSUME NEW h \in Handlers, HandlerStep(h)
      PROVE  MapTimestamp(h)
  BY <1>1 DEF HandlerStep, TimestampComes, ClockSample, Ignore
<1>2. ASSUME ResetsField PROVE FALSE
  <2>1. started BY <1>2 DEF ResetsField, Anchored
  <2> QED BY <1>2, <2>1 DEF ResetsField, IInv, ResetInv
<1>3. ASSUME StartEnds PROVE FALSE
  <2>1. waiting' = waiting /\ cleared BY <1>3 DEF StartEnds, fieldVars
  <2> QED BY <2>1 DEF Anchored, IInv, ResetInv
<1> QED BY <1>1, <1>2, <1>3
        DEF Next, vars, TimePasses, StartBegins, StartFails, StartForgets,
            Stop, Sleep, Wake, ResetClock, ResetStreamBegins, ResetStreamEnds,
            ForgetTimestamps, Anchored, streamVars, fieldVars, startVars

(* The anchor moves by what the device says, for as long as it keeps its   *)
(* seed, if no reset has run into the start of the stream                  *)
(* (t2audio_handle_stream_timestamp).                                      *)
THEOREM AnchorsWithoutJitter == Spec => NoJitter
<1>1. ASSUME IInv, [Next]_vars
      PROVE  [ (Anchored /\ Anchored' /\ ~foreign /\ ~torn
                  /\ anchor'.seed = anchor.seed)
                 => remote' - remote = anchor'.dev - anchor.dev ]_streamVars
  <2>1. SUFFICES ASSUME streamVars' # streamVars, Anchored, Anchored', ~foreign,
                        ~torn, anchor'.seed = anchor.seed
                 PROVE  remote' - remote = anchor'.dev - anchor.dev
    OBVIOUS
  <2>2. PICK h \in Handlers : MapTimestamp(h)
    BY <1>1, <2>1, OnlyMapsAnchored
  <2>3. TypeOK /\ AnchorInv BY <1>1 DEF IInv
  <2>4. /\ latch.valid /\ latch.seed = anchor.seed
        /\ remote = anchor.dev + latch.offset
    BY <2>1, <2>3 DEF AnchorInv
  <2>5. anchor \in Stamps /\ remote \in Int /\ latch.offset \in Nat
    BY <2>3, TypeParts DEF StreamTyped
  <2>6. anchor.dev \in Int BY <2>5 DEF Stamps
  <2> DEFINE stamp == work[h].stamp
  <2>7. stamp.dev \in Int BY <2>3, WorkHolds
  <2>8. \/ UNCHANGED <<remote, anchor>>
        \/ remote' = stamp.dev + latch'.offset /\ anchor' = stamp
    BY <2>2, <2>3, MapsWith
  <2>9. CASE UNCHANGED <<remote, anchor>>
    BY <2>5, <2>6, <2>9
  <2>10. CASE remote' = stamp.dev + latch'.offset /\ anchor' = stamp
    <3>1. latch' = latch
      BY <2>1, <2>2, <2>3, <2>4, <2>10, MapsWith
    <3>2. anchor'.dev = stamp.dev BY <2>10
    <3> HIDE DEF stamp
    <3> QED BY <2>4, <2>5, <2>6, <2>7, <2>10, <3>1, <3>2
  <2> QED BY <2>8, <2>9, <2>10
<1> QED BY <1>1, Invariant, PTL DEF Spec, NoJitter

(* The timestamp that anchors a started stream first has come since the    *)
(* start, for the offset is at most the sample it has given itself; unless *)
(* a reset that ran into the start has taken the time it is compared with. *)
THEOREM FirstAnchorIsNew == Spec => OldEpochIgnored
<1>1. ASSUME IInv, [Next]_vars
      PROVE  [ (~Anchored /\ Anchored' /\ ~latch.valid /\ ~torn
                  /\ anchor'.came >= anchor'.dev)
                 => anchor'.came >= startedAt' ]_streamVars
  <2>1. SUFFICES ASSUME streamVars' # streamVars, ~Anchored, Anchored',
                        ~latch.valid, ~torn, anchor'.came >= anchor'.dev
                 PROVE  anchor'.came >= startedAt'
    OBVIOUS
  <2>2. PICK h \in Handlers : MapTimestamp(h)
    BY <1>1, <2>1, OnlyMapsAnchored
  <2>3. TypeOK /\ WorksInv BY <1>1, IInvParts
  <2> DEFINE stamp == work[h].stamp
  <2>4. /\ started /\ work[h].pc = "clocked" /\ latch'.offset = work[h].offset
        /\ anchor' = stamp /\ remote' = stamp.dev + latch'.offset
        /\ remote' >= after
    BY <2>1, <2>2, <2>3, MapsWith DEF Anchored
  <2>5. after = startedAt'
    <3>1. startedAt' = startedAt BY <2>2 DEF MapTimestamp, startVars
    <3> QED BY <1>1, <2>1, <2>4, <3>1 DEF IInv, ResetInv
  <2>6. HoldsFor(h) BY <2>3, <2>4 DEF WorksInv, Busy
  <2>7. /\ stamp.dev \in Int /\ stamp.came \in Nat /\ work[h].offset \in Nat
        /\ after \in Nat
    <3>1. Times \subseteq Nat BY SkewAssumption DEF Times
    <3> QED BY <2>3, <3>1, WorkHolds, TypeParts DEF StreamTyped
  <2>8. anchor'.came = stamp.came /\ anchor'.dev = stamp.dev BY <2>4
  <2>9. stamp.dev + work[h].offset <= stamp.came
    BY <2>1, <2>4, <2>6, <2>8 DEF HoldsFor
  <2> HIDE DEF stamp
  <2> QED BY <2>4, <2>5, <2>7, <2>8, <2>9
<1> QED BY <1>1, Invariant, PTL DEF Spec, OldEpochIgnored
=============================================================================
