----------------------- MODULE PowerManagementProofs ------------------------
(***************************************************************************)
(* Proofs about PowerManagement, for any number of suspends and of requests *)
(* on the link.  FlagsInv is inductive: a quiesce is disturbed by the work *)
(* it has cancelled only if the work has slipped in before resume_deferred *)
(* is reset (OnlyASlippedWorkRuns), and otherwise a quiesce is skipped     *)
(* only when the access is off already (QuiescedIsOff).  With it, SleepInv *)
(* is: what is stopped without a failure is off (OffWhenStopped), and what *)
(* is resumed without one is on and starts afresh (ResumedInFull).         *)
(***************************************************************************)
EXTENDS PowerManagement, TLAPS

LinkInv ==
  /\ RequestsAwaited
  /\ OneRequestEach
  /\ AbandonedIsLate
  /\ AnswersAwaited

-----------------------------------------------------------------------------
(* The initial states. *)

LEMMA InitFlagsInv == Init => FlagsInv
<1> SUFFICES ASSUME Init PROVE FlagsInv
  OBVIOUS
<1>1. TypeOK
  <2>1. sent \in Seq([from : Threads \union {"nobody"}, mode : {"on", "off"}])
    BY DEF Init
  <2> QED
    BY <2>1 DEF Init, TypeOK, Points, Threads
<1>2. OnlyASlippedWorkRuns /\ CallbackInv
  BY DEF Init, OnlyASlippedWorkRuns, CallbackInv, Quiesces, Threads
<1>3. sent = <<>>
  BY DEF Init
<1>4. RequestsAwaited /\ OneRequestEach /\ AbandonedIsLate
  BY <1>3 DEF RequestsAwaited, OneRequestEach, AbandonedIsLate
<1>5. AnswersAwaited /\ GrantedIsOff /\ QuiescedInv
  BY DEF Init, AnswersAwaited, GrantedIsOff, QuiescedInv, Quiesces, Threads
<1> QED
  BY <1>1, <1>2, <1>4, <1>5 DEF FlagsInv

-----------------------------------------------------------------------------
(* The link: what a step does to the requests and their answers. *)

LEMMA FunctionIsSeq ==
  ASSUME NEW S, NEW n \in Nat, NEW f \in [1 .. n -> S]
  PROVE  f \in Seq(S) /\ Len(f) = n
BY SMT

(* A step that neither sends nor ends a call. *)
LEMMA LinkKept ==
  ASSUME LinkInv,
         UNCHANGED <<sent, reply, lateOn>>,
         \A t \in Threads :
           /\ pc'[t] = "waiting" <=> pc[t] = "waiting"
           /\ pc[t] = "waiting" => Wanted(t)' = Wanted(t)
  PROVE  LinkInv'
<1>1. RequestsAwaited'
  BY DEF LinkInv, RequestsAwaited
<1>2. OneRequestEach' /\ AbandonedIsLate'
  BY DEF LinkInv, OneRequestEach, AbandonedIsLate
<1>3. AnswersAwaited'
  BY DEF LinkInv, AnswersAwaited
<1> QED
  BY <1>1, <1>2, <1>3 DEF LinkInv

LEMMA LinkSends ==
  ASSUME TypeOK, LinkInv, NEW t \in Threads, SendAccess(t)
  PROVE  TypeOK' /\ LinkInv'
<1> DEFINE request == [from |-> t, mode |-> Wanted(t)]
<1>1. /\ request \in [from : Threads \union {"nobody"}, mode : {"on", "off"}]
      /\ request.from = t /\ request.mode = Wanted(t)
  BY DEF Wanted
<1>2. /\ sent' = Append(sent, request)
      /\ pc[t] = "sending"
      /\ reply' = [reply EXCEPT ![t] = "none"]
      /\ pc' = [pc EXCEPT ![t] = "waiting"]
      /\ UNCHANGED <<phase, op, quiesced, deferred, noticed, queued, access,
                     stale, sleeps, failed, lateOn, overlap, slipped>>
  BY DEF SendAccess, flags, resumeVars, ghosts
<1>3. \A u \in Threads : Wanted(u)' = Wanted(u)
  BY <1>2 DEF Wanted
<1> HIDE DEF request
<1>4. TypeOK'
  BY <1>1, <1>2 DEF TypeOK, Points
<1>5. /\ Len(sent') = Len(sent) + 1
      /\ Len(sent) \in Nat
      /\ \A i \in 1 .. Len(sent) : sent'[i] = sent[i]
      /\ sent'[Len(sent) + 1] = request
  BY <1>1, <1>2 DEF TypeOK
<1>6. \A i \in 1 .. Len(sent) : sent[i].from # t
  BY <1>2 DEF LinkInv, RequestsAwaited
<1>7. \A i \in 1 .. Len(sent') :
        (i \in 1 .. Len(sent) /\ sent'[i] = sent[i])
        \/ (i = Len(sent) + 1 /\ sent'[i] = request)
  BY <1>5
<1>8. RequestsAwaited'
  BY <1>1, <1>2, <1>3, <1>6, <1>7 DEF LinkInv, RequestsAwaited, TypeOK
<1>9. OneRequestEach'
  BY <1>1, <1>6, <1>7 DEF LinkInv, OneRequestEach
<1>10. AbandonedIsLate'
  <2>1. t # "nobody"
    BY DEF Threads
  <2> QED
    BY <1>1, <1>2, <1>7, <2>1 DEF LinkInv, AbandonedIsLate
<1>11. AnswersAwaited'
  BY <1>2 DEF LinkInv, AnswersAwaited, TypeOK
<1> QED
  BY <1>4, <1>8, <1>9, <1>10, <1>11 DEF LinkInv

(* The request that is left behind when a call ends has timed out. *)
LEMMA LinkCallEnds ==
  ASSUME TypeOK, LinkInv, NEW t \in Threads, NEW status \in Statuses,
         NEW next \in Points \ {"waiting"}, AccessCallEnds(t, status, next),
         \A u \in Threads \ {t} : Wanted(u)' = Wanted(u)
  PROVE  /\ LinkInv'
         /\ sent' \in Seq([from : Threads \union {"nobody"},
                            mode : {"on", "off"}])
         /\ Len(sent') = Len(sent)
         /\ \A i \in 1 .. Len(sent) :
              \/ sent[i].from = t /\ sent'[i].from = "nobody"
                 /\ sent'[i].mode = sent[i].mode
              \/ sent[i].from # t /\ sent'[i] = sent[i]
<1> DEFINE Request == [from : Threads \union {"nobody"}, mode : {"on", "off"}]
           LeftBehind(r) ==
             IF r.from = t THEN [r EXCEPT !.from = "nobody"] ELSE r
<1>1. /\ sent' = Abandoned(t)
      /\ reply' = [reply EXCEPT ![t] = "none"]
      /\ pc' = [pc EXCEPT ![t] = next]
      /\ lateOn' = (lateOn \/ (status = "timedout" /\ Wanted(t) = "on"))
  BY DEF AccessCallEnds
<1>2. sent \in Seq(Request)
  BY DEF TypeOK
<1>3. \A r \in Request : LeftBehind(r) \in Request
  OBVIOUS
<1>4. sent' = [i \in DOMAIN sent |-> LeftBehind(sent[i])]
  BY <1>1 DEF Abandoned
<1>5. \A r \in Request :
        \/ r.from = t /\ LeftBehind(r).from = "nobody"
           /\ LeftBehind(r).mode = r.mode
        \/ r.from # t /\ LeftBehind(r) = r
  OBVIOUS
<1> HIDE DEF Request, LeftBehind
<1>6. sent' \in Seq(Request) /\ Len(sent') = Len(sent)
  <2>1. DOMAIN sent = 1 .. Len(sent) /\ Len(sent) \in Nat
    BY <1>2
  <2>2. \A i \in 1 .. Len(sent) : sent[i] \in Request
    BY <1>2
  <2>3. sent' \in [1 .. Len(sent) -> Request]
    BY <1>3, <1>4, <2>1, <2>2
  <2> QED
    BY <2>1, <2>3, FunctionIsSeq
<1>7. \A i \in 1 .. Len(sent) : sent'[i] = LeftBehind(sent[i])
  BY <1>2, <1>4
<1>8. "nobody" \notin Threads
  BY DEF Threads
<1>9. \A i \in 1 .. Len(sent) :
        \/ sent[i].from = t /\ sent'[i].from = "nobody"
           /\ sent'[i].mode = sent[i].mode
        \/ sent[i].from # t /\ sent'[i] = sent[i]
  <2>1. \A i \in 1 .. Len(sent) : sent[i] \in Request
    BY <1>2
  <2> QED
    BY <1>7, <1>5, <2>1
<1>10. RequestsAwaited'
  BY <1>1, <1>6, <1>8, <1>9 DEF LinkInv, RequestsAwaited, TypeOK
<1>11. OneRequestEach'
  BY <1>6, <1>8, <1>9 DEF LinkInv, OneRequestEach
<1>12. AbandonedIsLate'
  <2>1. ASSUME NEW i \in 1 .. Len(sent), sent[i].from = t, sent[i].mode = "on"
        PROVE  lateOn'
    <3>1. pc[t] = "waiting" /\ reply[t] = "none" /\ Wanted(t) = "on"
      BY <2>1 DEF LinkInv, RequestsAwaited
    <3>2. status = "timedout"
      BY <3>1 DEF AccessCallEnds
    <3> QED
      BY <1>1, <3>1, <3>2
  <2>2. lateOn => lateOn'
    BY <1>1
  <2> QED
    BY <1>6, <1>9, <2>1, <2>2 DEF LinkInv, AbandonedIsLate
<1>13. AnswersAwaited'
  BY <1>1 DEF LinkInv, AnswersAwaited, TypeOK
<1> QED
  BY <1>6, <1>9, <1>10, <1>11, <1>12, <1>13 DEF LinkInv, Request

-----------------------------------------------------------------------------
(* The device applies a request. *)
LEMMA LinkApplies ==
  ASSUME TypeOK, LinkInv, DeviceApplies
  PROVE  /\ LinkInv'
         /\ TypeOK'
         /\ \A t \in Threads : Wanted(t)' = Wanted(t)
         /\ \E answer \in {"ok", "refused", "none"}, request \in
                [from : Threads \union {"nobody"}, mode : {"on", "off"}] :
              /\ Len(sent) > 0 /\ request = sent[1]
              /\ access' = IF answer = "refused" THEN access ELSE request.mode
              /\ reply' = [t \in Threads |-> IF t = request.from THEN answer
                                                               ELSE reply[t]]
              /\ request.from \in Threads =>
                   /\ pc[request.from] = "waiting"
                   /\ reply[request.from] = "none"
                   /\ request.mode = Wanted(request.from)
                   /\ \A i \in 1 .. Len(sent') : sent'[i].from # request.from
              /\ (request.from = "nobody" /\ request.mode = "on") => lateOn
              /\ \A i \in 1 .. Len(sent') :
                   \E j \in 1 .. Len(sent) : sent'[i] = sent[j]
<1> DEFINE Request == [from : Threads \union {"nobody"}, mode : {"on", "off"}]
<1>1. sent \in Seq(Request) /\ sent # <<>>
  BY DEF TypeOK, DeviceApplies
<1> HIDE DEF Request
<1>2. /\ Len(sent) \in Nat /\ Len(sent) > 0
      /\ Head(sent) = sent[1] /\ sent[1] \in Request
      /\ Tail(sent) \in Seq(Request) /\ Len(Tail(sent)) = Len(sent) - 1
      /\ \A i \in 1 .. Len(sent) - 1 : Tail(sent)[i] = sent[i + 1]
  BY <1>1
<1>3. PICK answer \in {"ok", "refused", "none"} :
        /\ access' = IF answer = "refused" THEN access ELSE sent[1].mode
        /\ reply' = [t \in Threads |-> IF t = sent[1].from THEN answer
                                                          ELSE reply[t]]
  BY <1>2 DEF DeviceApplies
<1>4. /\ sent' = Tail(sent)
      /\ UNCHANGED <<phase, op, pc, quiesced, deferred, noticed, queued, stale,
                     sleeps, failed, lateOn, overlap, slipped>>
  BY DEF DeviceApplies, flags, resumeVars, ghosts
<1>5. \A i \in 1 .. Len(sent') :
        i + 1 \in 1 .. Len(sent) /\ sent'[i] = sent[i + 1]
  BY <1>2, <1>4
<1>6. \A t \in Threads : Wanted(t)' = Wanted(t)
  BY <1>4 DEF Wanted
<1>7. sent[1].from \in Threads =>
        /\ pc[sent[1].from] = "waiting"
        /\ reply[sent[1].from] = "none"
        /\ sent[1].mode = Wanted(sent[1].from)
        /\ \A i \in 1 .. Len(sent') : sent'[i].from # sent[1].from
  <2>1. 1 \in 1 .. Len(sent) /\ \A i \in 1 .. Len(sent') : i + 1 # 1
    BY <1>2, <1>4
  <2> QED
    BY <1>5, <2>1 DEF LinkInv, RequestsAwaited, OneRequestEach
<1>8. (sent[1].from = "nobody" /\ sent[1].mode = "on") => lateOn
  BY <1>2 DEF LinkInv, AbandonedIsLate
<1>9. RequestsAwaited'
  BY <1>3, <1>4, <1>5, <1>6, <1>7 DEF LinkInv, RequestsAwaited
<1>10. OneRequestEach'
  <2>1. \A i, j \in 1 .. Len(sent') : i + 1 = j + 1 => i = j
    BY <1>2, <1>4
  <2> QED
    BY <1>5, <2>1 DEF LinkInv, OneRequestEach
<1>11. AbandonedIsLate'
  BY <1>4, <1>5 DEF LinkInv, AbandonedIsLate
<1>12. AnswersAwaited'
  BY <1>3, <1>4, <1>7 DEF LinkInv, AnswersAwaited
<1>13. TypeOK'
  <2>1. sent[1].mode \in {"on", "off"}
    BY <1>2 DEF Request
  <2>2. access' \in {"on", "off"}
    BY <1>3, <2>1 DEF TypeOK
  <2>3. reply' \in [Threads -> {"none", "ok", "refused"}]
    BY <1>3 DEF TypeOK
  <2>4. sent' \in Seq(Request)
    BY <1>2, <1>4
  <2> QED
    BY <1>4, <2>2, <2>3, <2>4 DEF TypeOK, Request
<1>14. LinkInv'
  BY <1>9, <1>10, <1>11, <1>12 DEF LinkInv
<1> QED
  BY <1>2, <1>3, <1>5, <1>6, <1>7, <1>8, <1>13, <1>14 DEF Request

-----------------------------------------------------------------------------
(* FlagsInv by its parts, with those of the link together. *)
LEMMA FlagsInvParts ==
  /\ FlagsInv <=> /\ TypeOK /\ OnlyASlippedWorkRuns /\ CallbackInv
              /\ LinkInv /\ GrantedIsOff /\ QuiescedInv
  /\ FlagsInv' <=> /\ TypeOK' /\ OnlyASlippedWorkRuns' /\ CallbackInv'
               /\ LinkInv' /\ GrantedIsOff' /\ QuiescedInv'
BY DEF FlagsInv, LinkInv

(* A callback that returns leaves a phase. *)
LEMMA ReturnsType ==
  ASSUME TypeOK, NEW o \in Quiesces, CallbackReturns(o)
  PROVE  /\ phase' \in {"running", "preparing", "asleep", "down"}
         /\ op' = "none" /\ sleeps' \in Nat /\ stale' \in BOOLEAN
<1>1. phase' \in {"running", "preparing", "asleep", "down"}
  BY DEF TypeOK, CallbackReturns, PhaseAfter, Quiesces
<1>2. op' = "none" /\ sleeps' \in Nat
  BY DEF TypeOK, CallbackReturns
<1>3. stale' \in BOOLEAN
  BY DEF TypeOK, CallbackReturns
<1> QED
  BY <1>1, <1>2, <1>3

-----------------------------------------------------------------------------
(* The steps that neither send nor end a call nor come from the device. *)

(* A thread that waits, or has been granted the access, goes on as before. *)
Undisturbed(t) ==
  /\ pc'[t] = "waiting" <=> pc[t] = "waiting"
  /\ pc[t] = "clearing" => pc'[t] = "clearing"
  /\ pc[t] \in {"waiting", "clearing"} => Wanted(t)' = Wanted(t)

(* The access and the link are as before, and so are the threads that      *)
(* turn it on; a thread at most becomes one that is about to send.         *)
LEMMA ControlStep ==
  ASSUME FlagsInv,
         UNCHANGED <<sent, reply, access, lateOn, quiesced>>,
         slipped => slipped',
         \A t \in Threads : Undisturbed(t)
  PROVE  LinkInv' /\ QuiescedInv'
<1>1. LinkInv'
  BY LinkKept DEF FlagsInv, LinkInv, Undisturbed
<1>2. \A t \in Threads : MayBeOn(t) => MayBeOn(t)'
  BY DEF MayBeOn, Enabling, Undisturbed
<1>3. QuiescedInv'
  BY <1>2 DEF FlagsInv, QuiescedInv
<1> QED
  BY <1>1, <1>3

LEMMA QuiesceSkippedKeeps ==
  ASSUME FlagsInv, NEW o \in Quiesces, QuiesceSkipped(o)
  PROVE  FlagsInv'
<1>1. TypeOK'
  <2>1. overlap' \in BOOLEAN
    BY DEF FlagsInv, TypeOK, QuiesceSkipped
  <2> QED
    BY <2>1, ReturnsType
      DEF FlagsInv, TypeOK, QuiesceSkipped, flags, resumeVars,
           linkVars, ghosts
<1>2. LinkInv' /\ QuiescedInv'
  <2>1. /\ UNCHANGED <<sent, reply, access, lateOn, quiesced>>
        /\ slipped => slipped'
    BY DEF QuiesceSkipped, MayCall, CallbackReturns, flags, resumeVars,
           linkVars, ghosts
  <2>2. \A t \in Threads : Undisturbed(t)
    BY DEF Undisturbed, FlagsInv, TypeOK, CallbackInv, Wanted, Threads,
           Quiesces,
           QuiesceSkipped, MayCall, CallbackReturns,
           flags, resumeVars, linkVars, ghosts
  <2> QED
    BY <2>1, <2>2, ControlStep
<1>3. OnlyASlippedWorkRuns' /\ CallbackInv'
  BY DEF FlagsInv, TypeOK, OnlyASlippedWorkRuns, CallbackInv, Threads, Quiesces,
         QuiesceSkipped, MayCall, CallbackReturns, flags, resumeVars,
         linkVars, ghosts
<1>4. GrantedIsOff'
  BY DEF FlagsInv, TypeOK, GrantedIsOff, CallbackInv, AnswersAwaited, Threads,
         Quiesces, QuiesceSkipped, MayCall, CallbackReturns, flags,
         resumeVars, linkVars, ghosts
<1> QED
  BY <1>1, <1>2, <1>3, <1>4, FlagsInvParts

LEMMA QuiesceStartsKeeps ==
  ASSUME FlagsInv, NEW o \in Quiesces, QuiesceStarts(o)
  PROVE  FlagsInv'
<1>1. TypeOK'
  BY DEF FlagsInv, TypeOK, QuiesceStarts, MayCall, Quiesces, Threads,
         flags, resumeVars, linkVars, ghosts
<1>2. LinkInv' /\ QuiescedInv'
  <2>1. /\ UNCHANGED <<sent, reply, access, lateOn, quiesced>>
        /\ slipped => slipped'
    BY DEF QuiesceStarts, MayCall, flags, resumeVars, linkVars, ghosts
  <2>2. \A t \in Threads : Undisturbed(t)
    BY DEF Undisturbed, FlagsInv, TypeOK, CallbackInv, Wanted, Threads,
           Quiesces,
           QuiesceStarts, MayCall,
           flags, resumeVars, linkVars, ghosts
  <2> QED
    BY <2>1, <2>2, ControlStep
<1>3. OnlyASlippedWorkRuns' /\ CallbackInv'
  BY DEF FlagsInv, TypeOK, OnlyASlippedWorkRuns, CallbackInv, Threads, Quiesces,
         QuiesceStarts, MayCall, flags, resumeVars, linkVars, ghosts
<1>4. GrantedIsOff'
  BY DEF FlagsInv, TypeOK, GrantedIsOff, CallbackInv, AnswersAwaited, Threads,
         Quiesces, QuiesceStarts, MayCall, flags, resumeVars, linkVars, ghosts
<1> QED
  BY <1>1, <1>2, <1>3, <1>4, FlagsInvParts

(* A step that only moves a thread, or sets a flag, keeps the types. *)
LEMMA ControlTyped ==
  ASSUME TypeOK,
         UNCHANGED <<sent, reply, access, sleeps, failed, lateOn>>,
         phase' \in {"running", "preparing", "asleep", "down"},
         op' \in Quiesces \union {"resume", "none"},
         pc' \in [Threads -> Points],
         quiesced' \in BOOLEAN, deferred' \in BOOLEAN, noticed' \in BOOLEAN,
         queued' \in BOOLEAN, stale' \in BOOLEAN, overlap' \in BOOLEAN,
         slipped' \in BOOLEAN
  PROVE  TypeOK'
BY DEF TypeOK

LEMMA ThreadMoves ==
  ASSUME TypeOK, NEW t \in Threads, NEW p \in Points,
         pc' = [pc EXCEPT ![t] = p]
  PROVE  pc' \in [Threads -> Points]
BY DEF TypeOK

LEMMA ResumeFailsKeeps == ASSUME FlagsInv, ResumeFails PROVE FlagsInv'
<1>1. TypeOK'
  BY DEF FlagsInv, TypeOK, ResumeFails, Quiesces, Threads,
         flags, resumeVars, linkVars, ghosts
<1>2. LinkInv' /\ QuiescedInv'
  <2>1. /\ UNCHANGED <<sent, reply, access, lateOn, quiesced>>
        /\ slipped => slipped'
    BY DEF ResumeFails, flags, resumeVars, linkVars, ghosts
  <2>2. \A t \in Threads : Undisturbed(t)
    BY DEF Undisturbed, FlagsInv, TypeOK, CallbackInv, Wanted, Threads,
           Quiesces, ResumeFails,
           flags, resumeVars, linkVars, ghosts
  <2> QED
    BY <2>1, <2>2, ControlStep
<1>3. OnlyASlippedWorkRuns' /\ CallbackInv'
  BY DEF FlagsInv, TypeOK, OnlyASlippedWorkRuns, CallbackInv, Threads, Quiesces,
         ResumeFails, flags, resumeVars, linkVars, ghosts
<1>4. GrantedIsOff'
  BY DEF FlagsInv, TypeOK, GrantedIsOff, CallbackInv, AnswersAwaited, Threads,
         Quiesces, ResumeFails, flags, resumeVars, linkVars, ghosts
<1> QED
  BY <1>1, <1>2, <1>3, <1>4, FlagsInvParts

LEMMA ResumeStatefulKeeps == ASSUME FlagsInv, ResumeStateful PROVE FlagsInv'
<1>1. TypeOK'
  BY DEF FlagsInv, TypeOK, ResumeStateful, Quiesces, Threads,
         flags, resumeVars, linkVars, ghosts
<1>2. LinkInv' /\ QuiescedInv'
  <2>1. /\ UNCHANGED <<sent, reply, access, lateOn, quiesced>>
        /\ slipped => slipped'
    BY DEF ResumeStateful, flags, resumeVars, linkVars, ghosts
  <2>2. \A t \in Threads : Undisturbed(t)
    BY DEF Undisturbed, FlagsInv, TypeOK, CallbackInv, Wanted, Threads,
           Quiesces,
           ResumeStateful,
           flags, resumeVars, linkVars, ghosts
  <2> QED
    BY <2>1, <2>2, ControlStep
<1>3. OnlyASlippedWorkRuns' /\ CallbackInv'
  BY DEF FlagsInv, TypeOK, OnlyASlippedWorkRuns, CallbackInv, Threads, Quiesces,
         ResumeStateful, flags, resumeVars, linkVars, ghosts
<1>4. GrantedIsOff'
  BY DEF FlagsInv, TypeOK, GrantedIsOff, CallbackInv, AnswersAwaited, Threads,
         Quiesces, ResumeStateful, flags, resumeVars, linkVars, ghosts
<1> QED
  BY <1>1, <1>2, <1>3, <1>4, FlagsInvParts

LEMMA ResumeNoStateKeeps == ASSUME FlagsInv, ResumeNoState PROVE FlagsInv'
<1>1. TypeOK'
  <2>1. UNCHANGED <<sent, reply, access, sleeps, failed, lateOn>>
    BY DEF ResumeNoState, flags, resumeVars, linkVars, ghosts
  <2>2. pc' \in [Threads -> Points]
    BY ThreadMoves DEF FlagsInv, ResumeNoState, Threads, Points
  <2>3. /\ phase' = phase /\ stale' = stale /\ noticed' \in BOOLEAN
        /\ quiesced' \in BOOLEAN /\ deferred' \in BOOLEAN
        /\ queued' \in BOOLEAN /\ overlap' \in BOOLEAN /\ slipped' \in BOOLEAN
        /\ op' \in Quiesces \union {"resume", "none"}
    BY DEF FlagsInv, TypeOK, ResumeNoState, flags, resumeVars, linkVars, ghosts
  <2> QED
    BY <2>1, <2>2, <2>3, ControlTyped DEF FlagsInv, TypeOK
<1>2. LinkInv' /\ QuiescedInv'
  <2>1. /\ UNCHANGED <<sent, reply, access, lateOn, quiesced>>
        /\ slipped => slipped'
    BY DEF ResumeNoState, flags, resumeVars, linkVars, ghosts
  <2>2. \A t \in Threads : Undisturbed(t)
    BY DEF Undisturbed, FlagsInv, TypeOK, CallbackInv, Wanted, Threads,
           Quiesces,
           ResumeNoState,
           flags, resumeVars, linkVars, ghosts
  <2> QED
    BY <2>1, <2>2, ControlStep
<1>3. OnlyASlippedWorkRuns' /\ CallbackInv'
  BY DEF FlagsInv, TypeOK, OnlyASlippedWorkRuns, CallbackInv, Threads, Quiesces,
         ResumeNoState, flags, resumeVars, linkVars, ghosts
<1>4. GrantedIsOff'
  BY DEF FlagsInv, TypeOK, GrantedIsOff, CallbackInv, AnswersAwaited, Threads,
         Quiesces, ResumeNoState, flags, resumeVars, linkVars, ghosts
<1> QED
  BY <1>1, <1>2, <1>3, <1>4, FlagsInvParts

LEMMA QuiesceCancelsKeeps == ASSUME FlagsInv, QuiesceCancels PROVE FlagsInv'
<1>1. TypeOK'
  <2>1. UNCHANGED <<sent, reply, access, sleeps, failed, lateOn>>
    BY DEF QuiesceCancels, flags, resumeVars, linkVars, ghosts
  <2>2. pc' \in [Threads -> Points]
    BY ThreadMoves DEF FlagsInv, QuiesceCancels, Threads, Points
  <2>3. /\ phase' = phase /\ stale' = stale /\ noticed' \in BOOLEAN
        /\ quiesced' \in BOOLEAN /\ deferred' \in BOOLEAN
        /\ queued' \in BOOLEAN /\ overlap' \in BOOLEAN /\ slipped' \in BOOLEAN
        /\ op' \in Quiesces \union {"resume", "none"}
    BY DEF FlagsInv, TypeOK, QuiesceCancels, flags, resumeVars, linkVars, ghosts
  <2> QED
    BY <2>1, <2>2, <2>3, ControlTyped DEF FlagsInv, TypeOK
<1>2. LinkInv' /\ QuiescedInv'
  <2>1. UNCHANGED <<sent, reply, lateOn, quiesced>>
    BY DEF QuiesceCancels, flags, linkVars
  <2>2. \A t \in Threads : Undisturbed(t)
    BY DEF Undisturbed, FlagsInv, TypeOK, CallbackInv, Wanted, Threads,
           Quiesces,
           QuiesceCancels
  <2>3. LinkInv'
    BY <2>1, <2>2, LinkKept DEF Undisturbed, FlagsInv, LinkInv
  <2>4. ~quiesced
    BY DEF QuiesceCancels, FlagsInv, CallbackInv
  <2> QED
    BY <2>1, <2>3, <2>4 DEF QuiescedInv
<1>3. OnlyASlippedWorkRuns' /\ CallbackInv'
  BY DEF FlagsInv, TypeOK, OnlyASlippedWorkRuns, CallbackInv, Threads, Quiesces,
         QuiesceCancels, flags, resumeVars, linkVars, ghosts
<1>4. GrantedIsOff'
  BY DEF FlagsInv, TypeOK, GrantedIsOff, CallbackInv, AnswersAwaited, Threads,
         Quiesces, QuiesceCancels, flags, resumeVars, linkVars, ghosts
<1> QED
  BY <1>1, <1>2, <1>3, <1>4, FlagsInvParts

LEMMA QuiesceResetsKeeps == ASSUME FlagsInv, QuiesceResets PROVE FlagsInv'
<1>1. TypeOK'
  <2>1. UNCHANGED <<sent, reply, access, sleeps, failed, lateOn>>
    BY DEF QuiesceResets, flags, resumeVars, linkVars, ghosts
  <2>2. pc' \in [Threads -> Points]
    BY ThreadMoves DEF FlagsInv, QuiesceResets, Threads, Points
  <2>3. /\ phase' = phase /\ stale' = stale /\ noticed' \in BOOLEAN
        /\ quiesced' \in BOOLEAN /\ deferred' \in BOOLEAN
        /\ queued' \in BOOLEAN /\ overlap' \in BOOLEAN /\ slipped' \in BOOLEAN
        /\ op' \in Quiesces \union {"resume", "none"}
    BY DEF FlagsInv, TypeOK, QuiesceResets, flags, resumeVars, linkVars, ghosts
  <2> QED
    BY <2>1, <2>2, <2>3, ControlTyped DEF FlagsInv, TypeOK
<1>2. LinkInv' /\ QuiescedInv'
  <2>1. /\ UNCHANGED <<sent, reply, access, lateOn, quiesced>>
        /\ slipped => slipped'
    BY DEF QuiesceResets, flags, resumeVars, linkVars, ghosts
  <2>2. \A t \in Threads : Undisturbed(t)
    BY DEF Undisturbed, FlagsInv, TypeOK, CallbackInv, Wanted, Threads,
           Quiesces,
           QuiesceResets, flags, resumeVars, linkVars, ghosts
  <2> QED
    BY <2>1, <2>2, ControlStep
<1>3. OnlyASlippedWorkRuns' /\ CallbackInv'
  BY DEF FlagsInv, TypeOK, OnlyASlippedWorkRuns, CallbackInv, Threads, Quiesces,
         QuiesceResets, flags, resumeVars, linkVars, ghosts
<1>4. GrantedIsOff'
  BY DEF FlagsInv, TypeOK, GrantedIsOff, CallbackInv, AnswersAwaited, Threads,
         Quiesces, QuiesceResets, flags, resumeVars, linkVars, ghosts
<1> QED
  BY <1>1, <1>2, <1>3, <1>4, FlagsInvParts

LEMMA ResumeCompleteChecksKeeps ==
  ASSUME FlagsInv, ResumeCompleteChecks
  PROVE  FlagsInv'
<1>1. TypeOK'
  <2>1. UNCHANGED <<sent, reply, access, sleeps, failed, lateOn>>
    BY DEF ResumeCompleteChecks, flags, resumeVars, linkVars, ghosts
  <2>2. pc' \in [Threads -> Points]
    BY DEF FlagsInv, TypeOK, ResumeCompleteChecks
  <2>3. /\ phase' = phase /\ stale' = stale /\ noticed' \in BOOLEAN
        /\ quiesced' \in BOOLEAN /\ deferred' \in BOOLEAN
        /\ queued' \in BOOLEAN /\ overlap' \in BOOLEAN /\ slipped' \in BOOLEAN
        /\ op' \in Quiesces \union {"resume", "none"}
    BY DEF FlagsInv, TypeOK, ResumeCompleteChecks, flags, resumeVars, linkVars, ghosts
  <2> QED
    BY <2>1, <2>2, <2>3, ControlTyped DEF FlagsInv, TypeOK
<1>2. LinkInv' /\ QuiescedInv'
  <2>1. /\ UNCHANGED <<sent, reply, access, lateOn, quiesced>>
        /\ slipped => slipped'
    BY DEF ResumeCompleteChecks, flags, resumeVars, linkVars, ghosts
  <2>2. \A t \in Threads : Undisturbed(t)
    BY DEF Undisturbed, FlagsInv, TypeOK, CallbackInv, Wanted, Threads,
           Quiesces,
           ResumeCompleteChecks,
           flags, resumeVars, linkVars, ghosts
  <2> QED
    BY <2>1, <2>2, ControlStep
<1>3. OnlyASlippedWorkRuns' /\ CallbackInv'
  BY DEF FlagsInv, TypeOK, OnlyASlippedWorkRuns, CallbackInv, Threads, Quiesces,
         ResumeCompleteChecks, flags, resumeVars, linkVars, ghosts
<1>4. GrantedIsOff'
  BY DEF FlagsInv, TypeOK, GrantedIsOff, CallbackInv, AnswersAwaited, Threads,
         Quiesces, ResumeCompleteChecks, flags, resumeVars, linkVars, ghosts
<1> QED
  BY <1>1, <1>2, <1>3, <1>4, FlagsInvParts

LEMMA ResumeCompleteSchedulesKeeps ==
  ASSUME FlagsInv, ResumeCompleteSchedules
  PROVE  FlagsInv'
<1>1. TypeOK'
  <2>1. UNCHANGED <<sent, reply, access, sleeps, failed, lateOn>>
    BY DEF ResumeCompleteSchedules, flags, resumeVars, linkVars, ghosts
  <2>2. pc' \in [Threads -> Points]
    BY DEF FlagsInv, TypeOK, ResumeCompleteSchedules
  <2>3. /\ phase' = phase /\ stale' = stale /\ noticed' \in BOOLEAN
        /\ quiesced' \in BOOLEAN /\ deferred' \in BOOLEAN
        /\ queued' \in BOOLEAN /\ overlap' \in BOOLEAN /\ slipped' \in BOOLEAN
        /\ op' \in Quiesces \union {"resume", "none"}
    BY DEF FlagsInv, TypeOK, ResumeCompleteSchedules, flags, resumeVars, linkVars, ghosts
  <2> QED
    BY <2>1, <2>2, <2>3, ControlTyped DEF FlagsInv, TypeOK
<1>2. LinkInv' /\ QuiescedInv'
  <2>1. /\ UNCHANGED <<sent, reply, access, lateOn, quiesced>>
        /\ slipped => slipped'
    BY DEF ResumeCompleteSchedules, flags, resumeVars, linkVars, ghosts
  <2>2. \A t \in Threads : Undisturbed(t)
    BY DEF Undisturbed, FlagsInv, TypeOK, CallbackInv, Wanted, Threads,
           Quiesces,
           ResumeCompleteSchedules,
           flags, resumeVars, linkVars, ghosts
  <2> QED
    BY <2>1, <2>2, ControlStep
<1>3. OnlyASlippedWorkRuns' /\ CallbackInv'
  BY DEF FlagsInv, TypeOK, OnlyASlippedWorkRuns, CallbackInv, Threads, Quiesces,
         ResumeCompleteSchedules, flags, resumeVars, linkVars, ghosts
<1>4. GrantedIsOff'
  BY DEF FlagsInv, TypeOK, GrantedIsOff, CallbackInv, AnswersAwaited, Threads,
         Quiesces, ResumeCompleteSchedules, flags, resumeVars, linkVars,
         ghosts
<1> QED
  BY <1>1, <1>2, <1>3, <1>4, FlagsInvParts

LEMMA WorkStartsKeeps == ASSUME FlagsInv, WorkStarts PROVE FlagsInv'
<1>1. TypeOK'
  <2>1. UNCHANGED <<sent, reply, access, sleeps, failed, lateOn>>
    BY DEF WorkStarts, flags, resumeVars, linkVars, ghosts
  <2>2. pc' \in [Threads -> Points]
    <3>1. CASE deferred
      BY <3>1, ThreadMoves DEF FlagsInv, WorkStarts, Threads, Points
    <3>2. CASE ~deferred
      BY <3>2 DEF FlagsInv, TypeOK, WorkStarts
    <3> QED
      BY <3>1, <3>2
  <2>3. /\ phase' = phase /\ stale' = stale /\ noticed' \in BOOLEAN
        /\ quiesced' \in BOOLEAN /\ deferred' \in BOOLEAN
        /\ queued' \in BOOLEAN /\ overlap' \in BOOLEAN /\ slipped' \in BOOLEAN
        /\ op' \in Quiesces \union {"resume", "none"}
    BY DEF FlagsInv, TypeOK, WorkStarts, flags, resumeVars, linkVars, ghosts
  <2> QED
    BY <2>1, <2>2, <2>3, ControlTyped DEF FlagsInv, TypeOK
<1>2. LinkInv' /\ QuiescedInv'
  <2>1. /\ UNCHANGED <<sent, reply, access, lateOn, quiesced>>
        /\ slipped => slipped'
    BY DEF WorkStarts, flags, resumeVars, linkVars, ghosts
  <2>2. \A t \in Threads : Undisturbed(t)
    BY DEF Undisturbed, FlagsInv, TypeOK, CallbackInv, Wanted, Threads,
           Quiesces, WorkStarts,
           flags, resumeVars, linkVars, ghosts
  <2> QED
    BY <2>1, <2>2, ControlStep
<1>3. OnlyASlippedWorkRuns' /\ CallbackInv'
  <2>1. /\ pc' = IF deferred THEN [pc EXCEPT !["work"] = "sending"] ELSE pc
        /\ slipped' = (slipped \/ (deferred /\ pc["pm"] = "cancelled"))
        /\ UNCHANGED <<phase, op, quiesced, deferred>>
        /\ pc["work"] = "idle"
    BY DEF WorkStarts, flags
  <2>2. /\ pc'["pm"] = pc["pm"] /\ pc'["work"] # "cancelled"
        /\ ~deferred => pc'["work"] = "idle"
    BY <2>1 DEF FlagsInv, TypeOK, Threads
  <2>3. CallbackInv'
    BY <2>1, <2>2 DEF FlagsInv, CallbackInv
  <2>4. OnlyASlippedWorkRuns'
    <3>1. SUFFICES ASSUME op \in Quiesces, pc["pm"] # "idle", deferred
                   PROVE  slipped'
      BY <2>1, <2>2 DEF OnlyASlippedWorkRuns
    <3>2. pc["pm"] = "cancelled"
      BY <3>1 DEF FlagsInv, TypeOK, CallbackInv, Points, Threads
    <3> QED
      BY <2>1, <3>1, <3>2
  <2> QED
    BY <2>3, <2>4
<1>4. GrantedIsOff'
  BY DEF FlagsInv, TypeOK, GrantedIsOff, CallbackInv, AnswersAwaited, Threads,
         Quiesces, WorkStarts, flags, resumeVars, linkVars, ghosts
<1> QED
  BY <1>1, <1>2, <1>3, <1>4, FlagsInvParts

(* Once pm_quiesced is reset nothing is claimed of the access. *)
LEMMA ClearsQuiescedKeeps ==
  ASSUME FlagsInv, NEW t \in Threads, ClearsQuiesced(t)
  PROVE  FlagsInv'
<1>1. /\ pc[t] = "clearing" /\ pc' = [pc EXCEPT ![t] = "resetting"]
      /\ quiesced' = FALSE
      /\ UNCHANGED <<phase, op, deferred, noticed, queued, sent, reply, access,
                     stale, sleeps, failed, lateOn, overlap, slipped>>
  BY DEF ClearsQuiesced, resumeVars, linkVars, ghosts
<1>2. TypeOK'
  <2>1. pc' \in [Threads -> Points]
    BY <1>1, ThreadMoves DEF FlagsInv, Points
  <2> QED
    BY <1>1, <2>1, ControlTyped DEF FlagsInv, TypeOK
<1>3. LinkInv'
  <2>1. \A u \in Threads : (pc'[u] = "waiting" <=> pc[u] = "waiting")
    BY <1>1 DEF FlagsInv, TypeOK
  <2>2. \A u \in Threads : Wanted(u)' = Wanted(u)
    BY <1>1 DEF Wanted
  <2> QED
    BY <1>1, <2>1, <2>2, LinkKept DEF FlagsInv, LinkInv
<1>4. OnlyASlippedWorkRuns' /\ CallbackInv'
  BY <1>1 DEF FlagsInv, TypeOK, OnlyASlippedWorkRuns, CallbackInv, Threads,
              Quiesces
<1>5. GrantedIsOff' /\ QuiescedInv'
  BY <1>1 DEF FlagsInv, GrantedIsOff, QuiescedInv
<1> QED
  BY <1>2, <1>3, <1>4, <1>5, FlagsInvParts

LEMMA ResetsStreamsKeeps ==
  ASSUME FlagsInv, NEW t \in Threads, ResetsStreams(t)
  PROVE  FlagsInv'
<1>1. /\ pc[t] = "resetting" /\ pc' = [pc EXCEPT ![t] = "idle"]
      /\ stale' = FALSE
      /\ t = "pm" => op' = "none" /\ phase' = "running"
      /\ t = "work" => UNCHANGED <<op, phase>>
      /\ UNCHANGED <<quiesced, deferred, noticed, queued, sent, reply, access,
                     sleeps, failed, lateOn, overlap, slipped>>
  BY DEF ResetsStreams, flags, resumeVars, linkVars, ghosts
<1>2. TypeOK'
  <2>1. pc' \in [Threads -> Points]
    BY <1>1, ThreadMoves DEF FlagsInv, Points
  <2>2. /\ op' \in Quiesces \union {"resume", "none"}
        /\ phase' \in {"running", "preparing", "asleep", "down"}
    BY <1>1 DEF FlagsInv, TypeOK, Threads
  <2> QED
    BY <1>1, <2>1, <2>2, ControlTyped DEF FlagsInv, TypeOK
<1>3. LinkInv' /\ QuiescedInv'
  <2>1. \A u \in Threads : Undisturbed(u)
    BY <1>1 DEF Undisturbed, FlagsInv, TypeOK, Wanted, Threads
  <2> QED
    BY <1>1, <2>1, ControlStep
<1>4. OnlyASlippedWorkRuns' /\ CallbackInv'
  BY <1>1 DEF FlagsInv, TypeOK, OnlyASlippedWorkRuns, CallbackInv, Threads,
              Quiesces
<1>5. GrantedIsOff'
  BY <1>1 DEF FlagsInv, GrantedIsOff, Threads, Quiesces
<1> QED
  BY <1>2, <1>3, <1>4, <1>5, FlagsInvParts

-----------------------------------------------------------------------------
(* The steps of a command. *)
LEMMA SendAccessKeeps ==
  ASSUME FlagsInv, NEW t \in Threads, SendAccess(t)
  PROVE  FlagsInv'
<1>1. TypeOK' /\ LinkInv'
  BY LinkSends, FlagsInvParts
<1>2. /\ pc[t] = "sending"
      /\ reply' = [reply EXCEPT ![t] = "none"]
      /\ pc' = [pc EXCEPT ![t] = "waiting"]
      /\ UNCHANGED <<phase, op, quiesced, deferred, access, lateOn, slipped>>
  BY DEF SendAccess, flags, ghosts
<1>3. OnlyASlippedWorkRuns' /\ CallbackInv'
  BY <1>2 DEF FlagsInv, TypeOK, OnlyASlippedWorkRuns, CallbackInv, Threads,
         Quiesces
<1>4. GrantedIsOff'
  BY <1>2 DEF FlagsInv, TypeOK, GrantedIsOff, Threads
<1>5. QuiescedInv'
  <2>1. \A u \in Threads : MayBeOn(u) => u # t
    BY <1>2 DEF MayBeOn, Enabling
  <2>2. \A u \in Threads : MayBeOn(u) => MayBeOn(u)'
    <3>1. SUFFICES ASSUME NEW u \in Threads, MayBeOn(u) PROVE MayBeOn(u)'
      OBVIOUS
    <3>2. u # t
      BY <2>1, <3>1
    <3>3. pc'[u] = pc[u] /\ reply'[u] = reply[u] /\ Wanted(u)' = Wanted(u)
      BY <1>2, <3>2 DEF FlagsInv, TypeOK, Wanted
    <3>4. \A i \in 1 .. Len(sent') : sent'[i].from # u
      <4> DEFINE request == [from |-> t, mode |-> Wanted(t)]
      <4>1. request \in [from : Threads \union {"nobody"}, mode : {"on", "off"}]
        BY DEF Wanted
      <4>2. request.from = t /\ sent' = Append(sent, request)
        BY DEF SendAccess
      <4> HIDE DEF request
      <4>3. \A i \in 1 .. Len(sent') :
              (i \in 1 .. Len(sent) /\ sent'[i] = sent[i]) \/ sent'[i] = request
        BY <4>1, <4>2 DEF FlagsInv, TypeOK
      <4> QED
        BY <3>1, <3>2, <4>2, <4>3 DEF MayBeOn
    <3> QED
      BY <3>1, <3>3, <3>4 DEF MayBeOn, Enabling
  <2> QED
    BY <1>2, <2>2 DEF FlagsInv, QuiescedInv
<1> QED
  BY <1>1, <1>3, <1>4, <1>5, FlagsInvParts

(* Whoever may have turned the access on when a call ends, may still have, *)
(* or has just timed out.                                                  *)
LEMMA CallEndsMayBeOn ==
  ASSUME FlagsInv, NEW t \in Threads, NEW status \in Statuses,
         NEW next \in Points \ {"waiting"}, AccessCallEnds(t, status, next),
         status = "ok" => next = "clearing" /\ Wanted(t)' = Wanted(t),
         ~lateOn',
         \A u \in Threads \ {t} : Wanted(u)' = Wanted(u)
  PROVE  \A u \in Threads : MayBeOn(u) => MayBeOn(u)'
<1>1. SUFFICES ASSUME NEW u \in Threads, MayBeOn(u) PROVE MayBeOn(u)'
  OBVIOUS
<1>2. /\ reply' = [reply EXCEPT ![t] = "none"]
      /\ pc' = [pc EXCEPT ![t] = next]
      /\ lateOn' = (lateOn \/ (status = "timedout" /\ Wanted(t) = "on"))
  BY DEF AccessCallEnds
<1>3. pc'[u] \in {"waiting", "clearing"} /\ reply'[u] # "refused"
      /\ Wanted(u)' = "on"
  <2>1. CASE u = t
    <3>1. pc[t] = "waiting" /\ Wanted(t) = "on" /\ reply[t] # "refused"
      BY <1>1, <2>1 DEF MayBeOn, Enabling, AccessCallEnds
    <3>2. status = "timedout" \/ status = "ok"
      BY <3>1 DEF AccessCallEnds, FlagsInv, TypeOK
    <3>3. status = "ok"
      BY <1>2, <3>1, <3>2
    <3> QED
      BY <1>2, <2>1, <3>1, <3>3 DEF FlagsInv, TypeOK
  <2>2. CASE u # t
    BY <1>1, <1>2, <2>2 DEF FlagsInv, TypeOK, MayBeOn, Enabling
  <2> QED
    BY <2>1, <2>2
<1>4. \A i \in 1 .. Len(sent') : sent'[i].from # u
  <2>1. /\ Len(sent') = Len(sent)
        /\ \A i \in 1 .. Len(sent) :
             \/ sent[i].from = t /\ sent'[i].from = "nobody"
                /\ sent'[i].mode = sent[i].mode
             \/ sent[i].from # t /\ sent'[i] = sent[i]
    BY LinkCallEnds, FlagsInvParts
  <2>2. u # "nobody"
    BY DEF Threads
  <2> QED
    BY <1>1, <2>1, <2>2 DEF MayBeOn
<1> QED
  BY <1>3, <1>4 DEF MayBeOn, Enabling

LEMMA QuiesceEndsKeeps ==
  ASSUME FlagsInv, NEW status \in Statuses, QuiesceEnds(status)
  PROVE  FlagsInv'
<1>1. /\ AccessCallEnds("pm", status, "idle")
      /\ "pm" \in Threads
      /\ reply' = [reply EXCEPT !["pm"] = "none"]
      /\ pc' = [pc EXCEPT !["pm"] = "idle"]
      /\ access' = access
  BY DEF QuiesceEnds, AccessCallEnds, Threads
<1> "idle" \in Points \ {"waiting"}
  BY DEF Points
<1>2. \A u \in Threads \ {"pm"} : Wanted(u)' = Wanted(u)
  BY DEF Wanted, Threads
<1>3. /\ LinkInv'
      /\ sent' \in Seq([from : Threads \union {"nobody"}, mode : {"on", "off"}])
  BY <1>1, <1>2, LinkCallEnds, FlagsInvParts
<1>4. failed' \in BOOLEAN /\ lateOn' \in BOOLEAN /\ (lateOn => lateOn')
  BY <1>1 DEF AccessCallEnds, FlagsInv, TypeOK
<1>5. /\ op \in Quiesces /\ CallbackReturns(op)
      /\ quiesced' = (quiesced \/ status = "ok")
      /\ UNCHANGED <<deferred, noticed, queued, overlap, slipped>>
  BY DEF QuiesceEnds, resumeVars
<1>6. TypeOK'
  <2>1. /\ phase' \in {"running", "preparing", "asleep", "down"}
        /\ op' = "none" /\ sleeps' \in Nat /\ stale' \in BOOLEAN
    BY <1>5, ReturnsType DEF FlagsInv
  <2>2. pc' \in [Threads -> Points]
        /\ reply' \in [Threads -> {"none", "ok", "refused"}]
    BY <1>1 DEF FlagsInv, TypeOK, Points
  <2>3. quiesced' \in BOOLEAN
    BY <1>5 DEF FlagsInv, TypeOK
  <2> QED
    BY <1>1, <1>3, <1>4, <1>5, <2>1, <2>2, <2>3 DEF FlagsInv, TypeOK
<1>7. OnlyASlippedWorkRuns' /\ CallbackInv' /\ GrantedIsOff'
  BY <1>1, <1>5 DEF FlagsInv, TypeOK, OnlyASlippedWorkRuns, CallbackInv,
                    GrantedIsOff, CallbackReturns, Quiesces, Threads
<1>8. QuiescedInv'
  <2>1. SUFFICES ASSUME status = "ok", ~lateOn, ~slipped
        PROVE  access = "off"
    <3>1. ~quiesced
      BY <1>5 DEF FlagsInv, CallbackInv
    <3> QED
      BY <1>1, <1>4, <1>5, <3>1 DEF QuiescedInv
  <2>2. reply["pm"] = "ok"
    BY <1>1, <2>1 DEF AccessCallEnds
  <2> QED
    BY <1>5, <2>1, <2>2 DEF FlagsInv, GrantedIsOff
<1> QED
  BY <1>3, <1>6, <1>7, <1>8, FlagsInvParts

LEMMA ResumeEndsKeeps ==
  ASSUME FlagsInv, NEW status \in Statuses, ResumeEnds(status)
  PROVE  FlagsInv'
<1> DEFINE next == IF status = "ok" THEN "clearing" ELSE "idle"
<1>1. /\ AccessCallEnds("pm", status, next)
      /\ "pm" \in Threads
      /\ reply' = [reply EXCEPT !["pm"] = "none"]
      /\ pc' = [pc EXCEPT !["pm"] = next]
      /\ access' = access
  BY DEF ResumeEnds, AccessCallEnds, Threads
<1>2. \A u \in Threads \ {"pm"} : Wanted(u)' = Wanted(u)
  BY DEF ResumeEnds, Wanted, Threads
<1>3. /\ next \in Points \ {"waiting"}
      /\ status = "ok" => next = "clearing"
      /\ status # "ok" => next = "idle"
  BY DEF Points
<1> HIDE DEF next
<1>4. /\ LinkInv'
      /\ sent' \in Seq([from : Threads \union {"nobody"}, mode : {"on", "off"}])
      /\ failed' \in BOOLEAN /\ lateOn' \in BOOLEAN /\ (lateOn => lateOn')
  <2>1. failed' \in BOOLEAN /\ lateOn' \in BOOLEAN /\ (lateOn => lateOn')
    BY <1>1 DEF AccessCallEnds, FlagsInv, TypeOK
  <2> QED
    BY <1>1, <1>2, <1>3, <2>1, LinkCallEnds, FlagsInvParts
<1>5. /\ op = "resume"
      /\ status = "ok" => deferred' = FALSE /\ UNCHANGED <<op, phase>>
      /\ status # "ok" => /\ op' = "none" /\ phase' = "running"
                          /\ UNCHANGED deferred
      /\ UNCHANGED <<quiesced, noticed, queued, stale, sleeps, overlap,
                     slipped>>
  BY DEF ResumeEnds, resumeVars
<1>6. TypeOK'
  <2>1. pc' \in [Threads -> Points]
        /\ reply' \in [Threads -> {"none", "ok", "refused"}]
    BY <1>1, <1>3 DEF FlagsInv, TypeOK
  <2> QED
    BY <1>1, <1>4, <1>5, <2>1 DEF FlagsInv, TypeOK
<1>7. OnlyASlippedWorkRuns' /\ CallbackInv' /\ GrantedIsOff'
  <2>1. CallbackInv'
    BY <1>1, <1>3, <1>5 DEF FlagsInv, TypeOK, CallbackInv, Quiesces, Threads
  <2>2. OnlyASlippedWorkRuns'
    BY <1>1, <1>3, <1>5 DEF FlagsInv, TypeOK, OnlyASlippedWorkRuns, Quiesces,
           Threads, AccessCallEnds
  <2>3. GrantedIsOff'
    BY <1>1, <1>4, <1>5 DEF FlagsInv, TypeOK, GrantedIsOff, Quiesces, Threads
  <2> QED
    BY <2>1, <2>2, <2>3
<1>8. QuiescedInv'
  <2>1. SUFFICES ASSUME quiesced, ~lateOn', ~slipped,
                        \A u \in Threads : ~MayBeOn(u)'
        PROVE  access = "off"
    BY <1>1, <1>5 DEF QuiescedInv
  <2>2. \A u \in Threads : MayBeOn(u) => MayBeOn(u)'
    <3>1. status = "ok" => Wanted("pm")' = Wanted("pm")
      BY <1>5 DEF Wanted
    <3>2. ~lateOn'
      BY <2>1
    <3> QED
      BY <1>1, <1>2, <1>3, <3>1, <3>2, CallEndsMayBeOn
  <2> QED
    BY <1>4, <2>1, <2>2 DEF FlagsInv, QuiescedInv
<1> QED
  BY <1>4, <1>6, <1>7, <1>8, FlagsInvParts

LEMMA WorkEndsKeeps ==
  ASSUME FlagsInv, NEW status \in Statuses, WorkEnds(status)
  PROVE  FlagsInv'
<1> DEFINE next == IF status = "ok" THEN "clearing" ELSE "idle"
<1>1. /\ AccessCallEnds("work", status, next)
      /\ "work" \in Threads
      /\ reply' = [reply EXCEPT !["work"] = "none"]
      /\ pc' = [pc EXCEPT !["work"] = next]
      /\ access' = access
  BY DEF WorkEnds, AccessCallEnds, Threads
<1>2. \A u \in Threads \ {"work"} : Wanted(u)' = Wanted(u)
  BY DEF WorkEnds, Wanted, Threads
<1>3. /\ next \in Points \ {"waiting"}
      /\ status = "ok" => next = "clearing"
      /\ status # "ok" => next = "idle"
  BY DEF Points
<1> HIDE DEF next
<1>4. /\ LinkInv'
      /\ sent' \in Seq([from : Threads \union {"nobody"}, mode : {"on", "off"}])
      /\ failed' \in BOOLEAN /\ lateOn' \in BOOLEAN /\ (lateOn => lateOn')
  <2>1. failed' \in BOOLEAN /\ lateOn' \in BOOLEAN /\ (lateOn => lateOn')
    BY <1>1 DEF AccessCallEnds, FlagsInv, TypeOK
  <2> QED
    BY <1>1, <1>2, <1>3, <2>1, LinkCallEnds, FlagsInvParts
<1>5. /\ deferred' = FALSE
      /\ UNCHANGED <<phase, op, quiesced, noticed, queued, stale, sleeps,
                     overlap, slipped>>
  BY DEF WorkEnds, resumeVars
<1>6. TypeOK'
  <2>1. pc' \in [Threads -> Points]
        /\ reply' \in [Threads -> {"none", "ok", "refused"}]
    BY <1>1, <1>3 DEF FlagsInv, TypeOK
  <2> QED
    BY <1>1, <1>4, <1>5, <2>1 DEF FlagsInv, TypeOK
<1>7. OnlyASlippedWorkRuns' /\ CallbackInv' /\ GrantedIsOff'
  <2>1. CallbackInv'
    BY <1>1, <1>3, <1>5 DEF FlagsInv, TypeOK, CallbackInv, Quiesces, Threads
  <2>2. OnlyASlippedWorkRuns'
    BY <1>1, <1>3, <1>5 DEF FlagsInv, TypeOK, OnlyASlippedWorkRuns, Quiesces,
           Threads, AccessCallEnds
  <2>3. GrantedIsOff'
    BY <1>1, <1>4, <1>5 DEF FlagsInv, TypeOK, GrantedIsOff, Quiesces, Threads
  <2> QED
    BY <2>1, <2>2, <2>3
<1>8. QuiescedInv'
  <2>1. SUFFICES ASSUME quiesced, ~lateOn', ~slipped,
                        \A u \in Threads : ~MayBeOn(u)'
        PROVE  access = "off"
    BY <1>1, <1>5 DEF QuiescedInv
  <2>2. \A u \in Threads : MayBeOn(u) => MayBeOn(u)'
    <3>1. status = "ok" => Wanted("work")' = Wanted("work")
      BY <1>5 DEF Wanted
    <3>2. ~lateOn'
      BY <2>1
    <3> QED
      BY <1>1, <1>2, <1>3, <3>1, <3>2, CallEndsMayBeOn
  <2> QED
    BY <1>4, <2>1, <2>2 DEF FlagsInv, QuiescedInv
<1> QED
  BY <1>4, <1>6, <1>7, <1>8, FlagsInvParts

LEMMA DeviceAppliesKeeps ==
  ASSUME FlagsInv, DeviceApplies
  PROVE  FlagsInv'
<1> DEFINE Request == [from : Threads \union {"nobody"}, mode : {"on", "off"}]
<1>1. /\ LinkInv' /\ TypeOK'
      /\ \A t \in Threads : Wanted(t)' = Wanted(t)
  BY LinkApplies, FlagsInvParts
<1>2. PICK answer \in {"ok", "refused", "none"}, request \in Request :
        /\ Len(sent) > 0 /\ request = sent[1]
        /\ access' = IF answer = "refused" THEN access ELSE request.mode
        /\ reply' = [t \in Threads |-> IF t = request.from THEN answer
                                                         ELSE reply[t]]
        /\ request.from \in Threads =>
             /\ pc[request.from] = "waiting"
             /\ reply[request.from] = "none"
             /\ request.mode = Wanted(request.from)
             /\ \A i \in 1 .. Len(sent') : sent'[i].from # request.from
        /\ (request.from = "nobody" /\ request.mode = "on") => lateOn
        /\ \A i \in 1 .. Len(sent') :
             \E j \in 1 .. Len(sent) : sent'[i] = sent[j]
  BY LinkApplies, FlagsInvParts
<1>3. UNCHANGED <<phase, op, pc, quiesced, deferred, lateOn, slipped>>
  BY DEF DeviceApplies, flags, ghosts
<1>4. /\ request.from \in Threads \union {"nobody"}
      /\ request.mode \in {"on", "off"}
  BY <1>2
<1> HIDE DEF Request
<1>5. OnlyASlippedWorkRuns' /\ CallbackInv'
  BY <1>3 DEF FlagsInv, OnlyASlippedWorkRuns, CallbackInv
<1>6. GrantedIsOff'
  <2>1. SUFFICES ASSUME op \in Quiesces, reply'["pm"] = "ok", ~lateOn, ~slipped
        PROVE  access' = "off"
    BY <1>3 DEF GrantedIsOff
  <2>2. CASE request.from = "pm"
    <3>1. request.mode = "off"
      BY <1>2, <2>1, <2>2 DEF Wanted, Threads
    <3>2. answer = "ok"
      BY <1>2, <2>1, <2>2 DEF Threads
    <3> QED
      BY <1>2, <3>1, <3>2
  <2>3. CASE request.from # "pm"
    <3>1. reply["pm"] = "ok"
      BY <1>2, <2>1, <2>3 DEF Threads
    <3>2. pc["pm"] = "waiting"
      BY <3>1 DEF FlagsInv, AnswersAwaited, Threads
    <3>3. pc["work"] = "idle"
      BY <2>1, <3>2 DEF FlagsInv, OnlyASlippedWorkRuns
    <3>4. request.from = "nobody"
      BY <1>2, <1>4, <2>3, <3>3 DEF Threads
    <3>5. request.mode = "off"
      BY <1>2, <1>4, <2>1, <3>4
    <3>6. access = "off"
      BY <2>1, <3>1 DEF FlagsInv, GrantedIsOff
    <3> QED
      BY <1>2, <3>5, <3>6
  <2> QED
    BY <2>2, <2>3
<1>7. QuiescedInv'
  <2>1. SUFFICES ASSUME quiesced, ~lateOn, ~slipped,
                        \A t \in Threads : ~MayBeOn(t)'
        PROVE  access' = "off"
    BY <1>3 DEF QuiescedInv
  <2>2. \A t \in Threads : ~MayBeOn(t)
    <3>1. SUFFICES ASSUME NEW t \in Threads, MayBeOn(t) PROVE MayBeOn(t)'
      BY <2>1
    <3>2. t # request.from
      <4>1. 1 \in 1 .. Len(sent)
        BY <1>2 DEF FlagsInv, TypeOK
      <4> QED
        BY <1>2, <3>1, <4>1 DEF MayBeOn
    <3>3. reply'[t] = reply[t] /\ pc'[t] = pc[t] /\ Wanted(t)' = Wanted(t)
      BY <1>1, <1>2, <1>3, <3>2
    <3>4. \A i \in 1 .. Len(sent') : sent'[i].from # t
      BY <1>2, <3>1 DEF MayBeOn
    <3> QED
      BY <3>1, <3>3, <3>4 DEF MayBeOn, Enabling
  <2>3. access = "off"
    BY <2>1, <2>2 DEF FlagsInv, QuiescedInv
  <2>4. CASE request.mode = "on" /\ answer # "refused"
    <3>1. request.from \in Threads
      BY <1>2, <1>4, <2>1, <2>4
    <3>2. MayBeOn(request.from)'
      BY <1>1, <1>2, <1>3, <2>4, <3>1 DEF MayBeOn, Enabling
    <3> QED
      BY <2>1, <3>1, <3>2
  <2>5. CASE request.mode = "off" \/ answer = "refused"
    BY <1>2, <2>3, <2>5
  <2> QED
    BY <1>4, <2>4, <2>5
<1> QED
  BY <1>1, <1>5, <1>6, <1>7, FlagsInvParts

-----------------------------------------------------------------------------
LEMMA NextFlagsInv == FlagsInv /\ [Next]_vars => FlagsInv'
<1> SUFFICES ASSUME FlagsInv, [Next]_vars PROVE FlagsInv'
  OBVIOUS
<1>1. CASE CallbackStep
  BY <1>1, QuiesceSkippedKeeps, QuiesceStartsKeeps, ResumeFailsKeeps,
     ResumeStatefulKeeps, ResumeNoStateKeeps DEF CallbackStep
<1>2. CASE PmStep
  <2>1. "pm" \in Threads
    BY DEF Threads
  <2> QED
    BY <1>2, <2>1, QuiesceCancelsKeeps, QuiesceResetsKeeps, SendAccessKeeps,
       QuiesceEndsKeeps, ResumeEndsKeeps, ClearsQuiescedKeeps,
       ResetsStreamsKeeps DEF PmStep
<1>3. CASE WorkStep
  <2>1. "work" \in Threads
    BY DEF Threads
  <2> QED
    BY <1>3, <2>1, WorkStartsKeeps, SendAccessKeeps, WorkEndsKeeps,
       ClearsQuiescedKeeps, ResetsStreamsKeeps DEF WorkStep
<1>4. CASE UNCHANGED vars
  <2>1. TypeOK'
    BY <1>4 DEF FlagsInv, TypeOK, vars, flags, resumeVars, linkVars, ghosts
  <2>2. OnlyASlippedWorkRuns' /\ CallbackInv' /\ GrantedIsOff'
    BY <1>4 DEF FlagsInv, OnlyASlippedWorkRuns, CallbackInv, GrantedIsOff, vars,
                flags, linkVars, ghosts
  <2>3. LinkInv' /\ QuiescedInv'
    <3>1. UNCHANGED <<sent, reply, access, lateOn, quiesced, slipped, pc, op>>
      BY <1>4 DEF vars, flags, linkVars, ghosts
    <3>2. \A t \in Threads : Undisturbed(t)
      BY <3>1 DEF Wanted, Undisturbed
    <3> QED
      BY <3>1, <3>2, ControlStep
  <2> QED
    BY <2>1, <2>2, <2>3, FlagsInvParts
<1> QED
  BY <1>1, <1>2, <1>3, <1>4, ResumeCompleteChecksKeeps,
     ResumeCompleteSchedulesKeeps, DeviceAppliesKeeps DEF Next

-----------------------------------------------------------------------------
-----------------------------------------------------------------------------
(* The second half of the invariant: requests and grants, as long as no    *)
(* command has failed.                                                     *)

LEMMA KeptSleeps ==
  ASSUME FlagsInv, SleepInv,
         UNCHANGED <<sent, reply, access, lateOn, quiesced>>,
         failed => failed', slipped => slipped',
         \A t \in Threads :
           /\ pc'[t] \in {"clearing", "resetting"} => pc'[t] = pc[t]
           /\ pc[t] # "idle" => Wanted(t)' = Wanted(t)
  PROVE  NoneAbandoned' /\ GrantedIsOn'
<1>1. NoneAbandoned'
  BY DEF SleepInv, NoneAbandoned
<1>2. \A t \in Threads : reply[t] = "ok" => pc[t] = "waiting"
  BY DEF FlagsInv, AnswersAwaited
<1>3. GrantedIsOn'
  BY <1>2 DEF SleepInv, GrantedIsOn
<1> QED
  BY <1>1, <1>3

LEMMA SendSleeps ==
  ASSUME FlagsInv, SleepInv, NEW t \in Threads, SendAccess(t)
  PROVE  NoneAbandoned' /\ GrantedIsOn'
<1> DEFINE request == [from |-> t, mode |-> Wanted(t)]
<1>1. /\ sent' = Append(sent, request)
      /\ reply' = [reply EXCEPT ![t] = "none"]
      /\ pc' = [pc EXCEPT ![t] = "waiting"]
      /\ UNCHANGED <<op, quiesced, access, failed, lateOn, slipped>>
  BY DEF SendAccess, flags, ghosts
<1>2. /\ request \in [from : Threads \union {"nobody"}, mode : {"on", "off"}]
      /\ request.from # "nobody"
  BY DEF Wanted, Threads
<1> HIDE DEF request
<1>3. NoneAbandoned'
  <2>1. \A i \in 1 .. Len(sent') :
          (i \in 1 .. Len(sent) /\ sent'[i] = sent[i]) \/ sent'[i] = request
    BY <1>1, <1>2 DEF FlagsInv, TypeOK
  <2> QED
    BY <1>1, <1>2, <2>1 DEF SleepInv, NoneAbandoned
<1>4. GrantedIsOn'
  <2>1. \A u \in Threads : Wanted(u)' = Wanted(u)
    BY <1>1 DEF Wanted
  <2>2. \A u \in Threads :
          /\ reply'[u] = "ok" => reply[u] = "ok"
          /\ pc'[u] \in {"clearing", "resetting"} => pc'[u] = pc[u]
    BY <1>1 DEF FlagsInv, TypeOK
  <2> QED
    BY <1>1, <2>1, <2>2 DEF SleepInv, GrantedIsOn
<1> QED
  BY <1>3, <1>4

(* A call that does not fail leaves no request behind. *)
LEMMA CallEndsSleeps ==
  ASSUME FlagsInv, SleepInv, NEW t \in Threads, NEW status \in Statuses,
         NEW next \in {"idle", "clearing"}, AccessCallEnds(t, status, next),
         next = "clearing" => status = "ok" /\ Wanted(t) = "on",
         access' = access, slipped' = slipped,
         \A u \in Threads : (pc[u] = "resetting" /\ ~slipped) => ~quiesced',
         \A u \in Threads \ {t} : Wanted(u)' = Wanted(u)
  PROVE  /\ NoneAbandoned' /\ GrantedIsOn'
         /\ ~failed' => ~failed /\ status = "ok" /\ reply[t] = "ok"
<1>1. /\ reply' = [reply EXCEPT ![t] = "none"]
      /\ pc' = [pc EXCEPT ![t] = next]
      /\ next \in Points \ {"waiting"}
      /\ failed' = (failed \/ status # "ok")
      /\ lateOn' = (lateOn \/ (status = "timedout" /\ Wanted(t) = "on"))
      /\ status = "ok" => reply[t] = "ok"
  BY DEF AccessCallEnds, Points
<1>2. NoneAbandoned'
  <2>1. SUFFICES ASSUME ~failed'
                 PROVE  /\ ~lateOn'
                        /\ \A i \in 1 .. Len(sent') : sent'[i].from # "nobody"
    BY DEF NoneAbandoned
  <2>2. ~failed /\ status = "ok" /\ reply[t] = "ok"
    BY <1>1, <2>1
  <2>3. \A i \in 1 .. Len(sent) : sent[i].from # t /\ sent[i].from # "nobody"
    BY <2>2 DEF FlagsInv, RequestsAwaited, SleepInv, NoneAbandoned
  <2>4. /\ Len(sent') = Len(sent)
        /\ \A i \in 1 .. Len(sent) :
             \/ sent[i].from = t /\ sent'[i].from = "nobody"
                /\ sent'[i].mode = sent[i].mode
             \/ sent[i].from # t /\ sent'[i] = sent[i]
    BY <1>1, LinkCallEnds, FlagsInvParts
  <2>5. ~lateOn'
    BY <1>1, <2>2 DEF SleepInv, NoneAbandoned
  <2> QED
    BY <2>3, <2>4, <2>5
<1>3. GrantedIsOn'
  <2>1. ASSUME NEW u \in Threads, ~failed', ~slipped, Wanted(u)' = "on",
               reply'[u] = "ok" \/ pc'[u] \in {"clearing", "resetting"}
        PROVE  access = "on"
    <3>1. ~failed
      BY <1>1, <2>1
    <3>2. CASE u = t
      <4>1. next = "clearing"
        BY <1>1, <2>1, <3>2 DEF FlagsInv, TypeOK
      <4> QED
        BY <1>1, <2>1, <3>1, <4>1 DEF SleepInv, GrantedIsOn
    <3>3. CASE u # t
      BY <1>1, <2>1, <3>1, <3>3 DEF FlagsInv, TypeOK, SleepInv, GrantedIsOn
    <3> QED
      BY <3>2, <3>3
  <2>2. ASSUME NEW u \in Threads, pc'[u] = "resetting", ~slipped
        PROVE  ~quiesced'
    BY <1>1, <2>2 DEF FlagsInv, TypeOK
  <2> QED
    BY <2>1, <2>2 DEF GrantedIsOn
<1> QED
  BY <1>1, <1>2, <1>3

(* What the device applies now does not take back what it has granted.     *)
LEMMA AppliesSleeps ==
  ASSUME FlagsInv, SleepInv, DeviceApplies
  PROVE  /\ NoneAbandoned' /\ GrantedIsOn'
         /\ (~failed /\ op \notin Quiesces /\ access = "on") => access' = "on"
<1> DEFINE Request == [from : Threads \union {"nobody"}, mode : {"on", "off"}]
<1>1. \A t \in Threads : Wanted(t)' = Wanted(t)
  BY LinkApplies, FlagsInvParts
<1>2. PICK answer \in {"ok", "refused", "none"}, request \in Request :
        /\ Len(sent) > 0 /\ request = sent[1]
        /\ access' = IF answer = "refused" THEN access ELSE request.mode
        /\ reply' = [t \in Threads |-> IF t = request.from THEN answer
                                                         ELSE reply[t]]
        /\ request.from \in Threads =>
             /\ pc[request.from] = "waiting"
             /\ reply[request.from] = "none"
             /\ request.mode = Wanted(request.from)
             /\ \A i \in 1 .. Len(sent') : sent'[i].from # request.from
        /\ (request.from = "nobody" /\ request.mode = "on") => lateOn
        /\ \A i \in 1 .. Len(sent') :
             \E j \in 1 .. Len(sent) : sent'[i] = sent[j]
  BY LinkApplies, FlagsInvParts
<1>3. UNCHANGED <<op, pc, quiesced, failed, lateOn, slipped>>
  BY DEF DeviceApplies, flags, ghosts
<1>4. /\ request.from \in Threads \union {"nobody"}
      /\ request.mode \in {"on", "off"}
  BY <1>2
<1> HIDE DEF Request
<1>5. NoneAbandoned'
  BY <1>2, <1>3 DEF SleepInv, NoneAbandoned
<1>6. ~failed => request.from \in Threads
  <2>1. 1 \in 1 .. Len(sent)
    BY <1>2 DEF FlagsInv, TypeOK
  <2> QED
    BY <1>2, <1>4, <2>1 DEF SleepInv, NoneAbandoned
<1>7. (~failed /\ op \notin Quiesces /\ access = "on") => access' = "on"
  BY <1>2, <1>6 DEF Wanted
<1>8. GrantedIsOn'
  <2>1. SUFFICES ASSUME NEW t \in Threads, ~failed, ~slipped, Wanted(t) = "on",
                        reply'[t] = "ok" \/ pc[t] \in {"clearing", "resetting"}
                 PROVE  access' = "on"
    BY <1>1, <1>3 DEF SleepInv, GrantedIsOn
  <2>2. CASE t = request.from
    BY <1>2, <2>1, <2>2
  <2>3. CASE t # request.from
    <3>1. reply[t] = "ok" \/ pc[t] \in {"clearing", "resetting"}
      BY <1>2, <2>1, <2>3
    <3>2. access = "on"
      BY <2>1, <3>1 DEF SleepInv, GrantedIsOn
    <3>3. pc[t] # "idle"
      BY <3>1 DEF FlagsInv, AnswersAwaited
    <3>4. CASE op \notin Quiesces
      BY <1>7, <2>1, <3>2, <3>4
    <3>5. CASE op \in Quiesces
      <4>1. t = "work"
        BY <2>1, <3>5 DEF Wanted, Threads
      <4>2. pc["pm"] = "idle"
        BY <2>1, <3>3, <3>5, <4>1 DEF FlagsInv, OnlyASlippedWorkRuns
      <4>3. request.from = "pm"
        BY <1>6, <2>1, <2>3, <4>1 DEF Threads
      <4> QED
        BY <1>2, <4>2, <4>3 DEF Threads
    <3> QED
      BY <3>4, <3>5
  <2> QED
    BY <2>2, <2>3
<1> QED
  BY <1>5, <1>7, <1>8

(* A quiesce that begins to send finds no thread that has been granted the *)
(* access.                                                                 *)
LEMMA CancelsSleeps ==
  ASSUME FlagsInv, SleepInv, QuiesceCancels
  PROVE  NoneAbandoned' /\ GrantedIsOn'
<1>1. /\ pc["pm"] = "idle" /\ pc["work"] = "idle"
      /\ pc' = [pc EXCEPT !["pm"] = "cancelled"]
      /\ UNCHANGED <<sent, reply, lateOn, failed>>
  BY DEF QuiesceCancels, linkVars
<1>2. NoneAbandoned'
  BY <1>1 DEF SleepInv, NoneAbandoned
<1>3. \A t \in Threads : /\ reply'[t] # "ok"
                         /\ pc'[t] \notin {"clearing", "resetting"}
  BY <1>1 DEF FlagsInv, TypeOK, AnswersAwaited, Threads
<1> QED
  BY <1>2, <1>3 DEF GrantedIsOn

LEMMA ClearsSleeps ==
  ASSUME FlagsInv, SleepInv, NEW t \in Threads, ClearsQuiesced(t)
  PROVE  NoneAbandoned' /\ GrantedIsOn'
<1>1. /\ pc[t] = "clearing" /\ pc' = [pc EXCEPT ![t] = "resetting"]
      /\ quiesced' = FALSE
      /\ UNCHANGED <<op, sent, reply, access, lateOn, failed, slipped>>
  BY DEF ClearsQuiesced, linkVars, ghosts
<1>2. NoneAbandoned'
  BY <1>1 DEF SleepInv, NoneAbandoned
<1>3. \A u \in Threads :
        pc'[u] \in {"clearing", "resetting"}
          => pc[u] \in {"clearing", "resetting"}
  BY <1>1 DEF FlagsInv, TypeOK
<1>4. \A u \in Threads : Wanted(u)' = Wanted(u)
  BY <1>1 DEF Wanted
<1> QED
  BY <1>1, <1>2, <1>3, <1>4 DEF SleepInv, GrantedIsOn

LEMMA ResetsSleeps ==
  ASSUME FlagsInv, SleepInv, NEW t \in Threads, ResetsStreams(t)
  PROVE  NoneAbandoned' /\ GrantedIsOn'
<1>1. /\ pc[t] = "resetting" /\ pc' = [pc EXCEPT ![t] = "idle"]
      /\ t = "pm" => op' = "none"
      /\ t = "work" => op' = op
      /\ UNCHANGED <<sent, reply, access, lateOn, quiesced, failed, slipped>>
  BY DEF ResetsStreams, flags, linkVars, ghosts
<1>2. \A u \in Threads :
        /\ pc'[u] \in {"clearing", "resetting"} => pc'[u] = pc[u]
        /\ Wanted(u)' = Wanted(u)
  BY <1>1 DEF FlagsInv, TypeOK, CallbackInv, Wanted, Threads, Quiesces
<1> QED
  BY <1>1, <1>2, KeptSleeps

LEMMA NextNoneAbandoned ==
  ASSUME FlagsInv, SleepInv, [Next]_vars
  PROVE  NoneAbandoned' /\ GrantedIsOn'
<1>1. /\ "pm" \in Threads /\ "work" \in Threads
      /\ pc \in [Threads -> Points]
      /\ \A t \in Threads : (pc[t] = "resetting" /\ ~slipped) => ~quiesced
  BY DEF Threads, FlagsInv, TypeOK, SleepInv, GrantedIsOn
<1>2. \A u \in Threads \ {"pm"} : Wanted(u)' = Wanted(u)
  BY DEF Wanted, Threads
<1>3. CASE CallbackStep
  <2>1. /\ UNCHANGED <<sent, reply, access, lateOn, quiesced>>
        /\ failed => failed'
        /\ slipped => slipped'
    BY <1>3 DEF CallbackStep, QuiesceSkipped, QuiesceStarts, ResumeFails,
                ResumeStateful, ResumeNoState, flags, linkVars, ghosts
  <2>2. op = "none" /\ pc["pm"] = "idle"
    <3>1. op = "none"
      BY <1>3 DEF CallbackStep, QuiesceSkipped, QuiesceStarts, ResumeFails,
                  ResumeStateful, ResumeNoState, MayCall
    <3> QED
      BY <3>1 DEF FlagsInv, CallbackInv
  <2>3. pc' = pc \/ pc' = [pc EXCEPT !["pm"] = "sending"]
    BY <1>3 DEF CallbackStep, QuiesceSkipped, QuiesceStarts, ResumeFails,
                ResumeStateful, ResumeNoState
  <2>4. \A t \in Threads :
          /\ pc'[t] \in {"clearing", "resetting"} => pc'[t] = pc[t]
          /\ pc[t] # "idle" => Wanted(t)' = Wanted(t)
    BY <1>1, <1>2, <2>2, <2>3
  <2> QED
    BY <2>1, <2>4, KeptSleeps
<1>4. CASE QuiesceCancels
  BY <1>4, CancelsSleeps
<1>5. CASE QuiesceResets \/ WorkStarts \/ ResumeCompleteChecks
           \/ ResumeCompleteSchedules \/ UNCHANGED vars
  <2>1. /\ UNCHANGED <<op, sent, reply, access, lateOn, failed, quiesced>>
        /\ slipped => slipped'
        /\ \/ pc' = pc
           \/ \E t \in Threads : pc' = [pc EXCEPT ![t] = "sending"]
    <3>1. CASE QuiesceResets
      BY <1>1, <3>1 DEF QuiesceResets, linkVars
    <3>2. CASE WorkStarts
      BY <1>1, <3>2 DEF WorkStarts, flags, linkVars
    <3>3. CASE ResumeCompleteChecks \/ ResumeCompleteSchedules \/ UNCHANGED vars
      BY <3>3 DEF ResumeCompleteChecks, ResumeCompleteSchedules, vars, flags,
                  linkVars, ghosts
    <3> QED
      BY <1>5, <3>1, <3>2, <3>3
  <2>2. \A t \in Threads :
          /\ pc'[t] \in {"clearing", "resetting"} => pc'[t] = pc[t]
          /\ Wanted(t)' = Wanted(t)
    BY <1>1, <2>1 DEF Wanted
  <2> QED
    BY <2>1, <2>2, KeptSleeps
<1>6. CASE \E t \in Threads : SendAccess(t)
  BY <1>6, SendSleeps
<1>7. ASSUME NEW status \in Statuses, QuiesceEnds(status)
      PROVE  NoneAbandoned' /\ GrantedIsOn'
  <2>1. AccessCallEnds("pm", status, "idle") /\ access' = access
        /\ slipped' = slipped
    BY <1>7 DEF QuiesceEnds
  <2>2. \A u \in Threads : (pc[u] = "resetting" /\ ~slipped) => ~quiesced'
    BY <1>7 DEF QuiesceEnds, AccessCallEnds, FlagsInv, OnlyASlippedWorkRuns,
                Threads
  <2> QED
    BY <1>1, <1>2, <2>1, <2>2, CallEndsSleeps
<1>8. ASSUME NEW status \in Statuses, ResumeEnds(status)
      PROVE  NoneAbandoned' /\ GrantedIsOn'
  <2> DEFINE next == IF status = "ok" THEN "clearing" ELSE "idle"
  <2>1. /\ AccessCallEnds("pm", status, next) /\ op = "resume"
        /\ UNCHANGED <<access, slipped, quiesced>>
    BY <1>8 DEF ResumeEnds
  <2>2. next \in {"idle", "clearing"} /\ (next = "clearing" => status = "ok")
    OBVIOUS
  <2>3. Wanted("pm") = "on"
    BY <2>1 DEF Wanted, Quiesces
  <2> HIDE DEF next
  <2> QED
    BY <1>1, <1>2, <2>1, <2>2, <2>3, CallEndsSleeps
<1>9. ASSUME NEW status \in Statuses, WorkEnds(status)
      PROVE  NoneAbandoned' /\ GrantedIsOn'
  <2> DEFINE next == IF status = "ok" THEN "clearing" ELSE "idle"
  <2>1. /\ AccessCallEnds("work", status, next)
        /\ UNCHANGED <<op, access, slipped, quiesced>>
    BY <1>9 DEF WorkEnds
  <2>2. next \in {"idle", "clearing"} /\ (next = "clearing" => status = "ok")
    OBVIOUS
  <2>3. Wanted("work") = "on" /\ \A u \in Threads : Wanted(u)' = Wanted(u)
    BY <2>1 DEF Wanted
  <2> HIDE DEF next
  <2> QED
    BY <1>1, <2>1, <2>2, <2>3, CallEndsSleeps
<1>10. CASE DeviceApplies
  BY <1>10, AppliesSleeps
<1> QED
  BY <1>1, <1>3, <1>4, <1>5, <1>6, <1>7, <1>8, <1>9, <1>10, ClearsSleeps,
     ResetsSleeps DEF Next, PmStep, WorkStep

-----------------------------------------------------------------------------
(* The work is due, or a quiesce was skipped. *)
LEMMA NextWorkIsDue ==
  ASSUME FlagsInv, SleepInv, [Next]_vars
  PROVE  WorkIsDue'
<1>1. pc \in [Threads -> Points] /\ "work" \in Threads /\ "pm" \in Threads
  BY DEF FlagsInv, TypeOK, Threads
<1>2. WorkIsDue
  BY DEF SleepInv
<1>3. CASE CallbackStep
  <2>1. ASSUME NEW o \in Quiesces, QuiesceSkipped(o)
        PROVE  WorkIsDue'
    <3>1. /\ overlap' = (overlap \/ deferred \/ pc["work"] # "idle")
          /\ UNCHANGED <<pc, deferred, slipped>>
      BY <2>1 DEF QuiesceSkipped, flags
    <3> QED
      BY <1>2, <3>1 DEF WorkIsDue
  <2>2. ASSUME NEW o \in Quiesces, QuiesceStarts(o)
        PROVE  WorkIsDue'
    BY <1>2, <2>2 DEF WorkIsDue, QuiesceStarts, flags, ghosts
  <2>3. CASE ResumeFails
    BY <1>2, <2>3 DEF WorkIsDue, ResumeFails, flags
  <2>4. CASE ResumeStateful
    BY <1>2, <2>4 DEF WorkIsDue, ResumeStateful
  <2>5. CASE ResumeNoState
    <3>1. pc'["work"] = pc["work"]
      BY <1>1, <2>5 DEF ResumeNoState
    <3> QED
      BY <1>2, <2>5, <3>1 DEF WorkIsDue, ResumeNoState, flags, ghosts
  <2> QED
    BY <1>3, <2>1, <2>2, <2>3, <2>4, <2>5 DEF CallbackStep
<1>4. CASE QuiesceCancels
  <2>1. pc'["work"] = "idle" /\ UNCHANGED <<phase, deferred, overlap>>
    BY <1>1, <1>4 DEF QuiesceCancels, flags
  <2> QED
    BY <1>2, <2>1 DEF WorkIsDue
<1>5. CASE QuiesceResets
  <2>1. ~deferred' /\ UNCHANGED slipped /\ pc'["work"] = pc["work"]
    BY <1>1, <1>5 DEF QuiesceResets
  <2>2. pc["work"] # "idle" => slipped
    BY <1>5 DEF QuiesceResets, FlagsInv, TypeOK, OnlyASlippedWorkRuns,
                CallbackInv
  <2> QED
    BY <2>1, <2>2 DEF WorkIsDue
<1>6. ASSUME NEW t \in Threads, SendAccess(t)
      PROVE  WorkIsDue'
  <2>1. \/ pc'["work"] = pc["work"]
        \/ pc["work"] = "sending" /\ pc'["work"] = "waiting"
    <3>1. pc[t] = "sending" /\ pc' = [pc EXCEPT ![t] = "waiting"]
      BY <1>6 DEF SendAccess
    <3> QED
      BY <1>1, <3>1
  <2>2. UNCHANGED <<phase, deferred, overlap, slipped>>
    BY <1>6 DEF SendAccess, flags, ghosts
  <2> QED
    BY <1>2, <2>1, <2>2 DEF WorkIsDue
<1>7. ASSUME NEW status \in Statuses, QuiesceEnds(status)
      PROVE  WorkIsDue'
  <2>1. (pc["work"] # "idle" => slipped) /\ ~deferred
    BY <1>7 DEF QuiesceEnds, AccessCallEnds, FlagsInv, OnlyASlippedWorkRuns,
                CallbackInv
  <2>2. pc'["work"] = pc["work"] /\ UNCHANGED <<deferred, slipped>>
    BY <1>1, <1>7 DEF QuiesceEnds, AccessCallEnds
  <2> QED
    BY <2>1, <2>2 DEF WorkIsDue
<1>8. ASSUME NEW status \in Statuses, ResumeEnds(status)
      PROVE  WorkIsDue'
  <2>1. phase = "asleep" /\ phase' \in {"asleep", "running"}
    BY <1>8 DEF ResumeEnds, FlagsInv, CallbackInv
  <2>2. pc["work"] # "idle" => overlap \/ slipped
    BY <1>2, <2>1 DEF WorkIsDue
  <2>3. pc'["work"] = pc["work"] /\ UNCHANGED <<overlap, slipped>>
        /\ (deferred' => deferred)
    BY <1>1, <1>8 DEF ResumeEnds, AccessCallEnds
  <2> QED
    BY <1>2, <2>1, <2>2, <2>3 DEF WorkIsDue
<1>9. ASSUME NEW status \in Statuses, WorkEnds(status)
      PROVE  WorkIsDue'
  <2>1. /\ ~deferred' /\ UNCHANGED <<phase, overlap, slipped>>
        /\ pc'["work"] \in {"idle", "clearing"} /\ pc["work"] # "idle"
    BY <1>1, <1>9 DEF WorkEnds, AccessCallEnds
  <2> QED
    BY <1>2, <2>1 DEF WorkIsDue
<1>10. CASE WorkStarts
  <2>1. /\ pc'["work"] # "idle" => deferred \/ pc["work"] # "idle"
        /\ (slipped => slipped') /\ UNCHANGED <<phase, deferred, overlap>>
    BY <1>10 DEF WorkStarts, flags
  <2>2. pc["work"] = "idle"
    BY <1>10 DEF WorkStarts
  <2> QED
    BY <1>2, <2>1, <2>2 DEF WorkIsDue
<1>11. ASSUME NEW t \in Threads, ClearsQuiesced(t) \/ ResetsStreams(t)
       PROVE  WorkIsDue'
  <2>1. /\ pc'["work"] # pc["work"] =>
             pc["work"] # "idle" /\ pc'["work"] \in {"idle", "resetting"}
        /\ UNCHANGED <<deferred, overlap, slipped>>
        /\ phase' = phase \/ phase' = "running"
    BY <1>1, <1>11 DEF ClearsQuiesced, ResetsStreams, flags, ghosts
  <2> QED
    BY <1>2, <2>1 DEF WorkIsDue
<1>12. CASE ResumeCompleteChecks \/ ResumeCompleteSchedules \/ DeviceApplies
            \/ UNCHANGED vars
  <2>1. UNCHANGED <<phase, pc, deferred, overlap, slipped>>
    BY <1>12 DEF ResumeCompleteChecks, ResumeCompleteSchedules, DeviceApplies,
                 vars, flags, ghosts
  <2> QED
    BY <1>2, <2>1 DEF WorkIsDue
<1> QED
  BY <1>1, <1>3, <1>4, <1>5, <1>6, <1>7, <1>8, <1>9, <1>10, <1>11, <1>12
     DEF Next, PmStep, WorkStep

(* A quiesce leaves a system that does not run. *)
LEMMA ReturnsStopped ==
  ASSUME NEW o \in Quiesces, CallbackReturns(o)
  PROVE  phase' # "running"
BY DEF CallbackReturns, PhaseAfter, Quiesces

(* Between the callbacks a stopped system is quiesced, one that runs is on. *)
LEMMA NextBetweenCallbacks ==
  ASSUME FlagsInv, SleepInv, [Next]_vars
  PROVE  BetweenCallbacks'
<1>1. /\ NoneAbandoned /\ GrantedIsOn /\ WorkIsDue /\ BetweenCallbacks
      /\ "pm" \in Threads /\ "work" \in Threads /\ "pm" # "work"
      /\ "none" \notin Quiesces /\ "resume" \notin Quiesces
      /\ pc \in [Threads -> Points]
  BY DEF SleepInv, Threads, Quiesces, FlagsInv, TypeOK
<1>2. CASE CallbackStep
  <2>1. ASSUME NEW o \in Quiesces, QuiesceSkipped(o)
        PROVE  BetweenCallbacks'
    <3>1. quiesced' /\ phase' # "running"
      BY <2>1, ReturnsStopped DEF QuiesceSkipped, flags
    <3> QED
      BY <3>1 DEF BetweenCallbacks
  <2>2. ASSUME NEW o \in Quiesces, QuiesceStarts(o)
        PROVE  BetweenCallbacks'
    BY <2>2 DEF QuiesceStarts, BetweenCallbacks
  <2>3. CASE ResumeFails
    BY <2>3 DEF ResumeFails, BetweenCallbacks
  <2>4. CASE ResumeStateful
    BY <2>4 DEF ResumeStateful, BetweenCallbacks
  <2>5. CASE ResumeNoState
    <3>1. op = "none" /\ phase' = "asleep" /\ phase = "asleep"
          /\ UNCHANGED <<quiesced, failed, overlap, slipped>>
      BY <2>5 DEF ResumeNoState, flags, ghosts
    <3>2. pc["pm"] = "idle"
      BY <3>1 DEF FlagsInv, CallbackInv
    <3> QED
      BY <1>1, <3>1, <3>2 DEF BetweenCallbacks
  <2> QED
    BY <1>2, <2>1, <2>2, <2>3, <2>4, <2>5 DEF CallbackStep
<1>3. CASE QuiesceCancels \/ QuiesceResets
  <2>1. op' \in Quiesces
    BY <1>3 DEF QuiesceCancels, QuiesceResets, FlagsInv, TypeOK, CallbackInv
  <2> QED
    BY <2>1 DEF BetweenCallbacks
<1>4. ASSUME NEW status \in Statuses, QuiesceEnds(status)
      PROVE  BetweenCallbacks'
  <2>1. AccessCallEnds("pm", status, "idle") /\ op \in Quiesces
        /\ CallbackReturns(op) /\ quiesced' = (quiesced \/ status = "ok")
    BY <1>4 DEF QuiesceEnds
  <2>2. SUFFICES ASSUME ~failed' PROVE BetweenCallbacks'
    BY DEF BetweenCallbacks
  <2>3. quiesced'
    BY <2>1, <2>2 DEF AccessCallEnds
  <2>4. phase' # "running"
    BY <2>1, ReturnsStopped
  <2> QED
    BY <2>3, <2>4 DEF BetweenCallbacks
<1>5. ASSUME NEW status \in Statuses, ResumeEnds(status)
      PROVE  BetweenCallbacks'
  <2>1. SUFFICES ASSUME ~failed' PROVE BetweenCallbacks'
    BY DEF BetweenCallbacks
  <2>2. ~failed /\ status = "ok"
    BY <1>5, <2>1 DEF ResumeEnds, AccessCallEnds
  <2>3. /\ op = "resume" /\ UNCHANGED <<op, phase, quiesced, overlap, slipped>>
        /\ pc["pm"] # "resetting"
    BY <1>5, <2>2 DEF ResumeEnds, AccessCallEnds
  <2>4. phase = "asleep"
    BY <2>3 DEF FlagsInv, CallbackInv
  <2> QED
    BY <1>1, <2>2, <2>3, <2>4 DEF BetweenCallbacks
<1>6. ASSUME NEW status \in Statuses, WorkEnds(status)
      PROVE  BetweenCallbacks'
  <2>1. /\ UNCHANGED <<phase, op, quiesced, access, overlap, slipped>>
        /\ pc["work"] # "idle" /\ pc'["pm"] = pc["pm"]
    BY <1>1, <1>6 DEF WorkEnds, AccessCallEnds
  <2>2. SUFFICES ASSUME ~failed', ~slipped PROVE BetweenCallbacks'
    BY <2>1 DEF BetweenCallbacks
  <2>3. ~failed /\ reply["work"] = "ok" /\ pc'["work"] = "clearing"
    BY <1>1, <1>6, <2>2 DEF WorkEnds, AccessCallEnds
  <2>4. access = "on"
    BY <1>1, <2>2, <2>3 DEF GrantedIsOn, Wanted
  <2>5. phase \in {"asleep", "down"} => overlap
    BY <1>1, <2>1, <2>2 DEF WorkIsDue
  <2> QED
    BY <2>1, <2>3, <2>4, <2>5 DEF BetweenCallbacks
<1>7. CASE DeviceApplies
  <2>1. (~failed /\ op \notin Quiesces /\ access = "on") => access' = "on"
    BY <1>7, AppliesSleeps
  <2>2. UNCHANGED <<phase, op, pc, quiesced, deferred, stale, failed, overlap,
                    slipped>>
    BY <1>7 DEF DeviceApplies, flags, ghosts
  <2> QED
    BY <1>1, <2>1, <2>2 DEF BetweenCallbacks
<1>8. ASSUME NEW t \in Threads, SendAccess(t)
      PROVE  BetweenCallbacks'
  <2>1. /\ UNCHANGED <<phase, op, quiesced, deferred, access, stale, failed,
                      overlap, slipped>>
        /\ pc["pm"] = "resetting" => pc'["pm"] = "resetting"
        /\ pc["work"] \in {"clearing", "resetting"} => pc'["work"] = pc["work"]
    BY <1>1, <1>8 DEF SendAccess, flags, ghosts
  <2> QED
    BY <1>1, <2>1 DEF BetweenCallbacks
<1>9. CASE WorkStarts
  <2>1. /\ UNCHANGED <<phase, op, quiesced, deferred, access, stale, failed,
                      overlap>>
        /\ slipped => slipped'
        /\ pc'["pm"] = pc["pm"] /\ pc["work"] = "idle"
    BY <1>1, <1>9 DEF WorkStarts, flags
  <2> QED
    BY <1>1, <2>1 DEF BetweenCallbacks
<1>10. CASE ClearsQuiesced("work")
  <2>1. /\ UNCHANGED <<phase, op, deferred, access, stale, failed, overlap,
                       slipped>>
        /\ ~quiesced' /\ pc["work"] = "clearing" /\ pc'["work"] = "resetting"
    BY <1>1, <1>10 DEF ClearsQuiesced, ghosts
  <2>2. phase \in {"asleep", "down"} => overlap \/ slipped
    BY <1>1, <2>1 DEF WorkIsDue
  <2> QED
    BY <1>1, <2>1, <2>2 DEF BetweenCallbacks
<1>11. CASE ResetsStreams("work")
  <2>1. /\ UNCHANGED <<phase, op, quiesced, deferred, access, failed, overlap,
                       slipped>>
        /\ ~stale' /\ pc["work"] = "resetting" /\ pc'["pm"] = pc["pm"]
    BY <1>1, <1>11 DEF ResetsStreams, flags, ghosts
  <2> QED
    BY <1>1, <2>1 DEF BetweenCallbacks
<1>12. CASE ClearsQuiesced("pm")
  <2>1. /\ pc["pm"] = "clearing" /\ pc'["pm"] = "resetting"
        /\ UNCHANGED <<op, phase>>
    BY <1>1, <1>12 DEF ClearsQuiesced
  <2>2. phase = "asleep"
    BY <2>1 DEF FlagsInv, TypeOK, CallbackInv
  <2> QED
    BY <2>1, <2>2 DEF BetweenCallbacks
<1>13. CASE ResetsStreams("pm")
  <2>1. /\ UNCHANGED <<quiesced, access, failed, slipped>> /\ ~stale'
        /\ phase' = "running" /\ pc["pm"] = "resetting"
    BY <1>13 DEF ResetsStreams, flags, ghosts
  <2>2. op = "resume"
    BY <2>1 DEF FlagsInv, TypeOK, CallbackInv
  <2>3. (~failed /\ ~slipped) => access = "on" /\ ~quiesced
    BY <1>1, <2>1, <2>2 DEF GrantedIsOn, Wanted
  <2> QED
    BY <2>1, <2>3 DEF BetweenCallbacks
<1>14. CASE ResumeCompleteChecks \/ ResumeCompleteSchedules \/ UNCHANGED vars
  <2>1. UNCHANGED <<phase, op, pc, quiesced, deferred, access, stale, failed,
                    overlap, slipped>>
    BY <1>14 DEF ResumeCompleteChecks, ResumeCompleteSchedules, vars, flags,
                 ghosts
  <2> QED
    BY <1>1, <2>1 DEF BetweenCallbacks
<1> QED
  BY <1>1, <1>2, <1>3, <1>4, <1>5, <1>6, <1>7, <1>8, <1>9, <1>10, <1>11,
     <1>12, <1>13, <1>14 DEF Next, PmStep, WorkStep

LEMMA InitSleepInv == Init => SleepInv
<1> SUFFICES ASSUME Init PROVE SleepInv
  OBVIOUS
<1>1. sent = <<>> /\ ~lateOn
  BY DEF Init
<1>2. NoneAbandoned
  BY <1>1 DEF NoneAbandoned
<1>3. GrantedIsOn /\ WorkIsDue /\ BetweenCallbacks
  BY DEF Init, GrantedIsOn, WorkIsDue, BetweenCallbacks, Threads
<1> QED
  BY <1>2, <1>3 DEF SleepInv

-----------------------------------------------------------------------------
(* The invariant of the runs, types included, for every bound.             *)
THEOREM Invariant == Spec => []IInv
<1>1. Init => IInv
  BY InitFlagsInv, InitSleepInv DEF IInv
<1>2. IInv /\ [Next]_vars => IInv'
  BY NextFlagsInv, NextNoneAbandoned, NextWorkIsDue, NextBetweenCallbacks
     DEF IInv, SleepInv
<1> QED
  BY <1>1, <1>2, PTL DEF Spec

(* Once a quiesce has cancelled resume_work, the work is out of it,        *)
(* whatever t2audio_resume_complete schedules: unless it slips in before   *)
(* resume_deferred is reset.                                               *)
THEOREM OnlyTheSlippedDisturb == Spec => []OnlyASlippedWorkRuns
<1>1. IInv => OnlyASlippedWorkRuns
  BY DEF IInv, FlagsInv
<1> QED
  BY <1>1, Invariant, PTL

(* A quiesce that pm_quiesced lets t2audio_quiesce skip finds the access   *)
(* off, unless a resume is just turning it on or timed out with it, or a   *)
(* work has slipped into the last quiesce.                                 *)
THEOREM SkippedIsOff == Spec => []QuiescedIsOff
<1>1. IInv => QuiescedIsOff
  BY DEF IInv, FlagsInv, QuiescedInv, QuiescedIsOff, MayBeOn
<1> QED
  BY <1>1, Invariant, PTL

(* A system that t2audio_suspend or t2audio_shutdown has stopped without a *)
(* failure has the access off: the last quiesce was granted, or skipped    *)
(* rightly, and no resume still at work can turn the access on again, if   *)
(* none has slipped into it.                                               *)
THEOREM StoppedIsOff == Spec => []OffWhenStopped
<1>1. IInv => OffWhenStopped
  <2> SUFFICES ASSUME IInv, phase \in {"asleep", "down"}, op = "none",
                      ~failed, ~overlap, ~slipped
               PROVE  access = "off"
    BY DEF OffWhenStopped
  <2>1. quiesced
    BY DEF IInv, FlagsInv, CallbackInv, SleepInv, BetweenCallbacks, Quiesces
  <2>2. ~lateOn
    BY DEF IInv, SleepInv, NoneAbandoned
  <2>3. pc["pm"] = "idle" /\ pc["work"] = "idle"
    BY DEF IInv, FlagsInv, CallbackInv, SleepInv, WorkIsDue
  <2>4. \A t \in Threads : ~MayBeOn(t)
    BY <2>3 DEF MayBeOn, Enabling, Threads
  <2> QED
    BY <2>1, <2>2, <2>4 DEF IInv, FlagsInv, QuiescedInv
<1> QED
  BY <1>1, Invariant, PTL

(* A resume that did not fail has turned the access on, lets the next      *)
(* quiesce do its work and has dropped the clock of before the sleep,      *)
(* whether t2audio_resume or t2audio_resume_work did it, if no work has    *)
(* slipped into the quiesce before.                                        *)
THEOREM ResumesInFull == Spec => []ResumedInFull
<1>1. IInv => ResumedInFull
  BY DEF IInv, SleepInv, BetweenCallbacks, ResumedInFull, Quiesces
<1> QED
  BY <1>1, Invariant, PTL

=============================================================================
