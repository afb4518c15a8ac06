------------------------- MODULE AudioDeviceProofs -------------------------
(***************************************************************************)
(* Proofs about AudioDevice: wherever a probe fails no resource is held,   *)
(* and memory is left behind once at most; every subdevice of a bound      *)
(* driver has the place of the BufferStruct that bears its name; and once  *)
(* the jack works have come to rest, ALSA shows the state of its jack.     *)
(***************************************************************************)
EXTENDS AudioDevice, SequenceTheorems, FiniteSetTheorems,
        WellFoundedInduction, TLAPS

-----------------------------------------------------------------------------
(* Sequences that name nobody twice. *)

(* A set of numbers has a least one. *)
LEMMA LeastNumber ==
  ASSUME NEW T, T \subseteq Nat, T # {}
  PROVE  \E x \in T : \A y \in T : x <= y
<1> DEFINE R == OpToRel(<, Nat)
<1>1. IsWellFoundedOn(R, Nat) BY NatLessThanWellFounded
<1>2. \A a, b \in Nat : a < b => <<a, b>> \in R BY DEF OpToRel
<1> HIDE DEF R
<1>3. PICK x \in T : \A y \in T : <<y, x>> \notin R BY <1>1, WFMin
<1>4. \A y \in T : ~(y < x) BY <1>2, <1>3
<1> QED BY <1>3, <1>4

LEMMA AppendedNew ==
  ASSUME NEW S, NEW s \in Seq(S), NEW x \in S, IsInjective(s), x \notin Range(s)
  PROVE  /\ IsInjective(Append(s, x))
         /\ Range(Append(s, x)) = Range(s) \union {x}
<1> DEFINE t == Append(s, x)
<1>1. /\ t \in Seq(S) /\ Len(t) = Len(s) + 1
      /\ \A i \in 1 .. Len(s) : t[i] = s[i]
      /\ t[Len(s) + 1] = x
  BY AppendProperties
<1>2. /\ DOMAIN s = 1 .. Len(s) /\ DOMAIN t = 1 .. Len(s) + 1
      /\ Len(s) \in Nat
  BY <1>1, LenProperties
<1> HIDE DEF t
<1>3. \A i \in 1 .. Len(s) + 1 : i \in 1 .. Len(s) \/ i = Len(s) + 1
  BY <1>2
<1>4. \A i \in 1 .. Len(s) : t[i] # x BY <1>1, <1>2 DEF Range
<1>5. IsInjective(t)
  <2> SUFFICES ASSUME NEW i \in DOMAIN t, NEW j \in DOMAIN t, t[i] = t[j]
               PROVE  i = j
    BY DEF IsInjective
  <2> QED BY <1>1, <1>2, <1>3, <1>4 DEF IsInjective
<1>6. Range(t) = Range(s) \union {x}
  <2>1. Len(s) + 1 \in DOMAIN t /\ 1 .. Len(s) \subseteq 1 .. Len(s) + 1
    BY <1>2
  <2> QED BY <1>1, <1>2, <1>3, <2>1 DEF Range
<1> QED BY <1>5, <1>6 DEF t

LEMMA HeadOnce ==
  ASSUME NEW S, NEW s \in Seq(S), s # <<>>, IsInjective(s)
  PROVE  /\ Tail(s) \in Seq(S) /\ Head(s) \in S
         /\ IsInjective(Tail(s))
         /\ Head(s) \notin Range(Tail(s))
         /\ Range(s) = Range(Tail(s)) \union {Head(s)}
<1> DEFINE t == Tail(s)
<1>1. /\ t \in Seq(S) /\ Len(t) = Len(s) - 1 /\ Head(s) \in S
      /\ Head(s) = s[1]
      /\ \A i \in 1 .. Len(t) : t[i] = s[i + 1]
  BY HeadTailProperties
<1>2. /\ DOMAIN s = 1 .. Len(s) /\ DOMAIN t = 1 .. Len(t)
      /\ Len(s) \in Nat /\ Len(s) # 0
  BY <1>1, LenProperties, EmptySeq
<1> HIDE DEF t
<1>3. /\ 1 \in DOMAIN s
      /\ \A i \in DOMAIN t : i + 1 \in DOMAIN s /\ i + 1 # 1
      /\ \A i \in DOMAIN s : i = 1 \/ (i - 1 \in DOMAIN t /\ i - 1 + 1 = i)
  BY <1>1, <1>2
<1>4. IsInjective(t)
  <2> SUFFICES ASSUME NEW i \in DOMAIN t, NEW j \in DOMAIN t, t[i] = t[j]
               PROVE  i = j
    BY DEF IsInjective
  <2>1. s[i + 1] = s[j + 1] BY <1>1, <1>2
  <2>2. i + 1 = j + 1 BY <1>3, <2>1 DEF IsInjective
  <2> QED BY <1>2, <2>2
<1>5. Head(s) \notin Range(t)
  <2> SUFFICES ASSUME NEW i \in DOMAIN t, t[i] = s[1] PROVE FALSE
    BY <1>1 DEF Range
  <2> QED BY <1>1, <1>2, <1>3 DEF IsInjective
<1>6. Range(s) = Range(t) \union {s[1]}
  <2>1. ASSUME NEW x \in Range(s) PROVE x \in Range(t) \union {s[1]}
    <3>1. PICK i \in DOMAIN s : s[i] = x BY DEF Range
    <3>2. CASE i = 1 BY <3>1, <3>2
    <3>3. CASE i # 1
      <4>1. i - 1 \in DOMAIN t /\ t[i - 1] = s[i] BY <1>1, <1>2, <1>3, <3>3
      <4> QED BY <3>1, <4>1 DEF Range
    <3> QED BY <3>2, <3>3
  <2>2. Range(t) \subseteq Range(s) BY <1>1, <1>2, <1>3 DEF Range
  <2>3. s[1] \in Range(s) BY <1>3 DEF Range
  <2> QED BY <2>1, <2>2, <2>3
<1> QED BY <1>1, <1>4, <1>5, <1>6 DEF t

(* Two lists name nobody twice if neither does and they share no name. *)
LEMMA NamedApart ==
  ASSUME NEW S, NEW s \in Seq(S), NEW t \in Seq(S)
  PROVE  IsInjective(s \o t) <=>
           /\ IsInjective(s) /\ IsInjective(t)
           /\ Range(s) \intersect Range(t) = {}
<1> DEFINE u == s \o t
           m == Len(s)
           n == Len(t)
<1>1. /\ u \in Seq(S) /\ Len(u) = m + n
      /\ \A i \in 1 .. m + n : u[i] = IF i <= m THEN s[i] ELSE t[i - m]
  BY ConcatProperties
<1>2. /\ DOMAIN s = 1 .. m /\ DOMAIN t = 1 .. n /\ DOMAIN u = 1 .. m + n
      /\ m \in Nat /\ n \in Nat
  BY <1>1, LenProperties
<1> HIDE DEF u, m, n
<1>3. \A i \in 1 .. m : i \in 1 .. m + n /\ u[i] = s[i] BY <1>1, <1>2
<1>4. \A i \in 1 .. n : m + i \in 1 .. m + n /\ u[m + i] = t[i]
  <2> TAKE i \in 1 .. n
  <2> DEFINE k == m + i
  <2>1. k \in 1 .. m + n /\ ~(k <= m) /\ k - m = i BY <1>2
  <2> HIDE DEF k
  <2>2. u[k] = t[k - m] BY <1>1, <2>1
  <2> QED BY <2>1, <2>2 DEF k
<1>5. \A i \in 1 .. m + n :
        i \in 1 .. m \/ (i - m \in 1 .. n /\ m + (i - m) = i)
  BY <1>2
<1>6. ASSUME IsInjective(u)
      PROVE  /\ IsInjective(s) /\ IsInjective(t)
             /\ Range(s) \intersect Range(t) = {}
  <2>1. IsInjective(s) BY <1>2, <1>3, <1>6 DEF IsInjective
  <2>2. IsInjective(t)
    <3> SUFFICES ASSUME NEW i \in DOMAIN t, NEW j \in DOMAIN t, t[i] = t[j]
                 PROVE  i = j
      BY DEF IsInjective
    <3>1. m + i = m + j BY <1>2, <1>4, <1>6 DEF IsInjective
    <3> QED BY <1>2, <3>1
  <2>3. ASSUME NEW i \in DOMAIN s, NEW j \in DOMAIN t, s[i] = t[j]
        PROVE  FALSE
    <3>1. i = m + j BY <1>2, <1>3, <1>4, <1>6, <2>3 DEF IsInjective
    <3> QED BY <1>2, <3>1
  <2> QED BY <2>1, <2>2, <2>3 DEF Range
<1>7. ASSUME IsInjective(s), IsInjective(t), Range(s) \intersect Range(t) = {}
      PROVE  IsInjective(u)
  <2> SUFFICES ASSUME NEW i \in 1 .. m + n, NEW j \in 1 .. m + n, u[i] = u[j]
               PROVE  i = j
    BY <1>2 DEF IsInjective
  <2>1. \A k \in 1 .. m, l \in 1 .. n : s[k] # t[l]
    BY <1>2, <1>7 DEF Range
  <2>2. CASE i \in 1 .. m /\ j \in 1 .. m
    BY <1>2, <1>3, <1>7, <2>2 DEF IsInjective
  <2>3. CASE i \in 1 .. m /\ j - m \in 1 .. n /\ m + (j - m) = j
    <3>1. u[i] = s[i] /\ u[j] = t[j - m] BY <1>3, <1>4, <2>3
    <3> QED BY <2>1, <2>3, <3>1
  <2>4. CASE j \in 1 .. m /\ i - m \in 1 .. n /\ m + (i - m) = i
    <3>1. u[j] = s[j] /\ u[i] = t[i - m] BY <1>3, <1>4, <2>4
    <3> QED BY <2>1, <2>4, <3>1
  <2>5. CASE /\ i - m \in 1 .. n /\ m + (i - m) = i
             /\ j - m \in 1 .. n /\ m + (j - m) = j
    <3>1. t[i - m] = t[j - m] BY <1>4, <2>5
    <3>2. i - m = j - m BY <1>2, <1>7, <2>5, <3>1 DEF IsInjective
    <3> QED BY <1>2, <3>2
  <2> QED BY <1>5, <2>2, <2>3, <2>4, <2>5
<1> QED BY <1>6, <1>7 DEF u
-----------------------------------------------------------------------------
(* t2audio_init_bs: the loop over the list of subdevices names each of     *)
(* them that has no name yet.                                              *)

(* What the loop has made of the names after i subdevices. *)
NamedNext(f, i) ==
  IF i = 0 THEN bs
  ELSE IF listed[i] \in Range(bs) THEN f[i - 1]
  ELSE Append(f[i - 1], listed[i])

IsLoop(f, n) == f = [i \in 0 .. n |-> NamedNext(f, i)]

LEMMA LoopRuns ==
  ASSUME NEW n \in Nat
  PROVE  \E f : IsLoop(f, n)
<1> DEFINE T == {k \in Nat : ~\E f : IsLoop(f, k)}
<1>1. SUFFICES ASSUME T # {} PROVE FALSE OBVIOUS
<1>2. PICK k \in T : \A j \in T : k <= j BY <1>1, LeastNumber
<1>3. k # 0
  <2>1. IsLoop([i \in 0 .. 0 |-> bs], 0) BY DEF IsLoop, NamedNext
  <2> QED BY <2>1
<1>4. k - 1 \in Nat /\ k - 1 \notin T BY <1>2, <1>3
<1>5. PICK f : IsLoop(f, k - 1) BY <1>4
<1> DEFINE g == [i \in 0 .. k |-> NamedNext(f, i)]
<1>6. \A i \in 0 .. k - 1 : g[i] = f[i]
  <2> TAKE i \in 0 .. k - 1
  <2>1. i \in 0 .. k BY <1>2
  <2>2. g[i] = NamedNext(f, i) BY <2>1
  <2>3. f[i] = NamedNext(f, i) BY <1>5 DEF IsLoop
  <2> QED BY <2>2, <2>3
<1>7. \A i \in 0 .. k : NamedNext(g, i) = NamedNext(f, i)
  <2> TAKE i \in 0 .. k
  <2>1. CASE i = 0 BY <2>1 DEF NamedNext
  <2>2. CASE i # 0
    <3>1. i - 1 \in 0 .. k - 1 BY <1>2, <2>2
    <3> HIDE DEF g
    <3> QED BY <1>6, <3>1 DEF NamedNext
  <2> QED BY <2>1, <2>2
<1>8. IsLoop(g, k)
  <2>1. g = [i \in 0 .. k |-> NamedNext(g, i)] BY <1>7
  <2> QED BY <2>1 DEF IsLoop
<1> QED BY <1>2, <1>8

(* Afterwards all of them are named, and nobody twice. *)
LEMMA AllHaveNames ==
  ASSUME TypeOK, IsInjective(bs), IsInjective(listed)
  PROVE  /\ AllNamed \in Seq(Names)
         /\ IsInjective(AllNamed)
         /\ Range(AllNamed) = Range(bs) \union Range(listed)
<1> DEFINE n == Len(listed)
           named == CHOOSE f : IsLoop(f, n)
           Before(k) == {listed[j] : j \in 1 .. k}
           Good(k) == /\ named[k] \in Seq(Names)
                      /\ IsInjective(named[k])
                      /\ Range(named[k]) = Range(bs) \union Before(k)
           T == {k \in 0 .. n : ~Good(k)}
<1>1. n \in Nat /\ DOMAIN listed = 1 .. n BY LenProperties DEF TypeOK
<1>2. IsLoop(named, n)
  <2>1. \E f : IsLoop(f, n) BY <1>1, LoopRuns
  <2> QED BY <2>1
<1>3. AllNamed = named[n] BY DEF AllNamed, IsLoop, NamedNext
<1> HIDE DEF n, named
<1>4. \A k \in 0 .. n : named[k] = NamedNext(named, k) BY <1>2 DEF IsLoop
<1>5. ASSUME T # {} PROVE FALSE
  <2>1. PICK k \in T : \A j \in T : k <= j
    <3>1. T \subseteq Nat BY <1>1
    <3> HIDE DEF T
    <3> QED BY <1>5, <3>1, LeastNumber
  <2>2. k \in 0 .. n BY <2>1
  <2>3. CASE k = 0
    <3>1. named[k] = bs BY <1>4, <2>2, <2>3 DEF NamedNext
    <3>2. Before(k) = {} BY <2>3
    <3>3. Good(k) BY <3>1, <3>2 DEF TypeOK
    <3> QED BY <2>1, <3>3
  <2>4. CASE k # 0
    <3> DEFINE d == listed[k]
               old == named[k - 1]
    <3>1. k - 1 \in 0 .. n /\ k \in 1 .. n /\ k - 1 \notin T
      <4>1. k - 1 \in 0 .. n /\ k \in 1 .. n /\ k - 1 < k
        BY <1>1, <2>2, <2>4
      <4>2. k - 1 \notin T
        <5> HIDE DEF T
        <5> QED BY <2>1, <4>1
      <4> QED BY <4>1, <4>2
    <3>2. Good(k - 1) BY <3>1
    <3>3. d \in Devices /\ d \in Names
      BY <1>1, <3>1, ElementOfSeq DEF TypeOK, Names, n
    <3>4. Before(k) = Before(k - 1) \union {d} /\ d \notin Before(k - 1)
      <4>1. \A j \in 1 .. k : j \in 1 .. k - 1 \/ j = k BY <2>2
      <4>2. \A j \in 1 .. k - 1 : j \in 1 .. k /\ j # k /\ j \in 1 .. n
        BY <2>2, <1>1
      <4>3. \A j \in 1 .. k - 1 : listed[j] # listed[k]
        BY <1>1, <3>1, <4>2 DEF IsInjective
      <4> QED BY <3>1, <4>1, <4>2, <4>3
    <3>5. named[k] = IF d \in Range(bs) THEN old ELSE Append(old, d)
      BY <1>4, <2>2, <2>4 DEF NamedNext
    <3> HIDE DEF d
    <3>6. CASE d \in Range(bs)
      <4>1. named[k] = old BY <3>5, <3>6
      <4>2. Range(bs) \union Before(k) = Range(bs) \union Before(k - 1)
        BY <3>4, <3>6
      <4>3. Good(k) BY <3>2, <4>1, <4>2
      <4> QED BY <2>1, <4>3
    <3>7. CASE d \notin Range(bs)
      <4>1. named[k] = Append(old, d) BY <3>5, <3>7
      <4>2. old \in Seq(Names) /\ IsInjective(old) /\ d \notin Range(old)
        BY <3>2, <3>4, <3>7
      <4>3. /\ Append(old, d) \in Seq(Names) /\ IsInjective(Append(old, d))
            /\ Range(Append(old, d)) = Range(old) \union {d}
        BY <3>3, <4>2, AppendedNew, AppendProperties
      <4>4. Good(k) BY <3>2, <3>4, <4>1, <4>3
      <4> QED BY <2>1, <4>4
    <3> QED BY <3>6, <3>7
  <2> QED BY <2>3, <2>4
<1>6. Good(n) BY <1>1, <1>5
<1>7. Before(n) = Range(listed) BY <1>1 DEF Range
<1> QED BY <1>3, <1>6, <1>7
-----------------------------------------------------------------------------
(* The types. *)

LEMMA AcquiredSeq ==
  /\ Len(Acquired) = 6 /\ DOMAIN Acquired = 1 .. 6
  /\ Range(Acquired) = {Acquired[i] : i \in 1 .. 6}
  /\ Len(ModuleAcquired) = 3 /\ DOMAIN ModuleAcquired = 1 .. 3
  /\ Range(ModuleAcquired) = {ModuleAcquired[i] : i \in 1 .. 3}
BY DEF Acquired, ModuleAcquired, Range

LEMMA ListIsOnce ==
  ASSUME NEW s \in Contract!SetToAllKPermutations(Devices)
  PROVE  s \in Seq(Devices) /\ IsInjective(s)
<1>1. PICK D \in SUBSET Devices : s \in Contract!SetToSeqs(D)
  BY DEF Contract!SetToAllKPermutations
<1>2. Cardinality(D) \in Nat
  BY DevicesAssumption, FS_Subset, FS_CardinalityType
<1> DEFINE n == Cardinality(D)
<1>a. Contract!Cardinality(D) = n BY DEF Contract!Cardinality, Cardinality
<1>3. s \in [1 .. n -> D] /\ \A i, j \in 1 .. n : i # j => s[i] # s[j]
  BY <1>1, <1>a DEF Contract!SetToSeqs
<1> HIDE DEF n
<1>4. s \in Seq(Devices) BY <1>2, <1>3 DEF n
<1> QED BY <1>3, <1>4 DEF IsInjective

LEMMA InitInv == Init => IInv /\ BuffersNamed
<1> SUFFICES ASSUME Init PROVE IInv /\ BuffersNamed OBVIOUS
<1>1. bs \in Seq(Names) /\ IsInjective(bs)
  <2>1. bs \in Published BY DEF Init
  <2>2. bs \in Seq(Range(bs)) /\ Range(bs) \subseteq Names
    BY <2>1, PublishedAssumption DEF Names
  <2>3. bs \in Seq(Names) BY <2>2, SeqMonotonic
  <2> QED BY <2>1, <2>3, PublishedAssumption
<1>2. TypeOK
  <2>1. pc \in Points BY DEF Init, Points
  <2>2. NoAnswer \in Answers BY DEF NoAnswer, Answers
  <2>3. bufId \in [Devices -> Nat] BY DEF Init, NoNumbers, NoBuffer
  <2>4. work \in [Works -> [at : {"idle", "finding", "asking", "reporting"},
                            answer : Answers]]
    BY <2>2 DEF Init, IdleWork
  <2>5. /\ held \subseteq Resources /\ module \subseteq Range(ModuleAcquired)
        /\ todo \in Seq(Devices) /\ listed \in Seq(Devices)
    BY DEF Init
  <2> QED BY <1>1, <2>1, <2>2, <2>3, <2>4, <2>5 DEF Init, TypeOK
<1>3. NothingHeld /\ LeftOnce BY DEF Init, NothingHeld, LeftOnce
<1>4. ProbeInv BY <1>1 DEF Init, ProbeInv, Connected
<1>5. Unreported = {}
  BY DEF Init, Unreported, IdleWork
<1>6. LastAnswerInv BY <1>5 DEF Init, LastAnswerInv
<1>7. IsInjective(listed \o todo)
  <2>1. listed \o todo = <<>> BY DEF Init
  <2>2. DOMAIN <<>> = {} BY EmptySeq
  <2> QED BY <2>1, <2>2 DEF IsInjective
<1>8. BuffersNamed BY <1>7 DEF Init, BuffersNamed
<1> QED BY <1>2, <1>3, <1>4, <1>6, <1>8 DEF IInv

(* What a step does to the list and the BufferStruct. *)
ListStep ==
  \/ UNCHANGED listVars
  \/ Forget
  \/ /\ Contract!Got \/ Contract!Skip \/ Contract!List
     /\ UNCHANGED bsVars
  \/ InitBufferStruct

LEMMA EveryListStep == [Next]_vars => ListStep
<1>1. LoadModule \/ LoadFails \/ UnloadModule => UNCHANGED listVars
  BY DEF LoadModule, LoadFails, UnloadModule
<1>2. ProbeBegins \/ Acquire \/ InitTransport \/ NewCard => UNCHANGED listVars
  BY DEF ProbeBegins, Acquire, InitTransport, NewCard
<1>3. ProbeFails \/ UnbindDriver => Forget BY DEF ProbeFails, UnbindDriver
<1>4. Greet \/ AliveComes => UNCHANGED listVars BY DEF Greet, AliveComes
<1>5. GetDeviceList => Contract!Got /\ UNCHANGED bsVars
  BY DEF GetDeviceList
<1>6. SkipDevice => Contract!Skip /\ UNCHANGED bsVars BY DEF SkipDevice
<1>7. ListDevice \/ ListJackDevice => Contract!List /\ UNCHANGED bsVars
  BY DEF ListDevice, ListJackDevice, ListNext
<1>8. NewJack \/ ListenToJack => UNCHANGED listVars BY DEF NewJack, ListenToJack
<1>9. AskJack \/ AskJackFails \/ ReportJack => UNCHANGED listVars
  BY DEF AskJack, AskJackFails, ReportJack
<1>10. AllListed \/ SetRemoteAccess \/ RegisterCard => UNCHANGED listVars
  BY DEF AllListed, SetRemoteAccess, RegisterCard
<1>11. JackChanges \/ LosesNotice => UNCHANGED listVars
  BY DEF JackChanges, LosesNotice
<1>12. \A w \in Works : WorkStep(w) => UNCHANGED listVars
  BY DEF WorkStep, ScheduleWork, FindsNone, FindsDevice, Asks, AskFails,
         Reports, WorkGoes
<1>13. UNCHANGED vars => UNCHANGED listVars BY DEF vars
<1> QED BY <1>1, <1>2, <1>3, <1>4, <1>5, <1>6, <1>7, <1>8, <1>9, <1>10, <1>11,
           <1>12, <1>13 DEF Next, ProbeStep, ListStep

LEMMA ListTyped ==
  ASSUME TypeOK, IsInjective(bs), IsInjective(listed), ListStep
  PROVE  /\ todo' \in Seq(Devices) /\ listed' \in Seq(Devices)
         /\ bs' \in Seq(Names) /\ IsInjective(bs')
<1>1. CASE UNCHANGED listVars BY <1>1 DEF listVars, bsVars, TypeOK
<1>2. CASE Forget BY <1>2 DEF Forget, TypeOK
<1>3. CASE /\ Contract!Got \/ Contract!Skip \/ Contract!List
           /\ UNCHANGED bsVars
  <2> USE DEF bsVars
  <2>1. CASE Contract!Got
    BY <1>3, <2>1, ListIsOnce DEF Contract!Got, TypeOK
  <2>2. CASE Contract!Skip
    BY <1>3, <2>2, HeadTailProperties DEF Contract!Skip, TypeOK
  <2>3. CASE Contract!List
    BY <1>3, <2>3, HeadTailProperties, AppendProperties
    DEF Contract!List, TypeOK
  <2> QED BY <1>3, <2>1, <2>2, <2>3
<1>4. CASE InitBufferStruct
  BY <1>4, AllHaveNames DEF InitBufferStruct, TypeOK
<1> QED BY <1>1, <1>2, <1>3, <1>4 DEF ListStep

(* The place of a name that is there. *)
LEMMA PlaceOfName ==
  ASSUME NEW S, NEW names \in Seq(S), NEW d \in Range(names)
  PROVE  /\ Place(names, d) \in Nat
         /\ Place(names, d) + 1 \in DOMAIN names
         /\ names[Place(names, d) + 1] = d
<1> DEFINE j == CHOOSE i \in DOMAIN names : names[i] = d
<1>1. j \in DOMAIN names /\ names[j] = d BY DEF Range
<1>2. DOMAIN names = 1 .. Len(names) /\ Len(names) \in Nat BY LenProperties
<1>3. Place(names, d) = j - 1 BY DEF Place
<1> HIDE DEF j
<1>4. j - 1 \in Nat /\ j - 1 + 1 = j BY <1>1, <1>2
<1> QED BY <1>1, <1>3, <1>4

LEMMA NumbersTyped ==
  ASSUME TypeOK, IsInjective(bs), IsInjective(listed), ListStep
  PROVE  bufId' \in [Devices -> Nat] /\ buffered' \subseteq Devices
<1>1. CASE UNCHANGED listVars BY <1>1 DEF listVars, bsVars, TypeOK
<1>2. CASE Forget BY <1>2 DEF Forget, NoNumbers, NoBuffer
<1>3. CASE UNCHANGED bsVars BY <1>3 DEF bsVars, TypeOK
<1>4. CASE InitBufferStruct
  <2>1. bs' \in Seq(Names) /\ Range(listed) \subseteq Range(bs')
    BY <1>4, AllHaveNames DEF InitBufferStruct
  <2>2. \A d \in Range(listed) : Place(bs', d) \in Nat
    BY <2>1, PlaceOfName
  <2>3. bufId' = [d \in Devices |-> IF d \in Range(listed) THEN Place(bs', d)
                                                          ELSE NoBuffer]
    BY <1>4 DEF InitBufferStruct
  <2>4. NoBuffer \in Nat BY DEF NoBuffer
  <2>5. buffered' \subseteq Devices
    BY <1>4, HostAssumption DEF InitBufferStruct
  <2> QED BY <2>2, <2>3, <2>4, <2>5
<1> QED BY <1>1, <1>2, <1>3, <1>4 DEF ListStep

WorkTypes == [at : {"idle", "finding", "asking", "reporting"},
              answer : Answers]

(* What a step does to the driver and what it holds. *)
LEMMA ProbeTyped ==
  ASSUME TypeOK, ProbeInv, [Next]_vars
  PROVE  /\ pc' \in Points
         /\ probes' \in Nat
         /\ held' \subseteq Resources
         /\ module' \subseteq Range(ModuleAcquired)
         /\ left' \subseteq {"callback", "buffers", "subdevices"}
         /\ queues' \in BOOLEAN
         /\ remoteAlive' \in BOOLEAN
<1> USE DEF TypeOK
<1>1. CASE LoadModule
  <2>1. PICK i \in DOMAIN ModuleAcquired :
          /\ module' = module \union {ModuleAcquired[i]}
          /\ pc' \in {"unbound", "loading"}
    BY <1>1 DEF LoadModule
  <2>2. ModuleAcquired[i] \in Range(ModuleAcquired) BY DEF Range
  <2> QED BY <1>1, <2>1, <2>2 DEF LoadModule, Points
<1>2. CASE LoadFails \/ UnloadModule
  BY <1>2 DEF LoadFails, UnloadModule, Goes, Points
<1>3. CASE ProbeBegins
  BY <1>3 DEF ProbeBegins, Goes, Points, Fallible
<1>4. CASE Acquire
  <2>1. PICK i \in DOMAIN Acquired :
          /\ held' = held \union {Acquired[i]}
          /\ remoteAlive' = (remoteAlive /\ Acquired[i] # "chardev")
          /\ pc' \in {"transport", pc}
    BY <1>4 DEF Acquire
  <2>2. Acquired[i] \in Resources BY DEF Range, Resources
  <2> QED BY <1>4, <2>1, <2>2 DEF Acquire, Points, Fallible
<1>5. CASE InitTransport \/ NewCard
  BY <1>5 DEF InitTransport, NewCard, Goes, Points, Fallible, Resources
<1>6. CASE ProbeFails
  BY <1>6 DEF ProbeFails, Forget, Points, NeverReleased
<1>7. CASE UnbindDriver
  BY <1>7 DEF UnbindDriver, Forget, Goes, Points, NeverReleased
<1>8. CASE AliveComes BY <1>8 DEF AliveComes
<1>9. CASE Greet \/ GetDeviceList \/ AllListed \/ InitBufferStruct
  BY <1>9 DEF Greet, GetDeviceList, AllListed, InitBufferStruct, Goes, Points,
              Fallible, resourceVars
<1>10. CASE SkipDevice \/ ListDevice
  BY <1>10 DEF SkipDevice, ListDevice, resourceVars
<1>11. CASE NewJack \/ ListenToJack
  BY <1>11 DEF NewJack, ListenToJack, Goes, Points, resourceVars
<1>12. CASE AskJack \/ AskJackFails \/ ReportJack \/ ListJackDevice
  BY <1>12 DEF AskJack, AskJackFails, ReportJack, ListJackDevice, Goes, Points,
               resourceVars
<1>13. CASE SetRemoteAccess \/ RegisterCard
  BY <1>13 DEF SetRemoteAccess, RegisterCard, Goes, Points, Fallible,
               resourceVars
<1>14. CASE JackChanges \/ LosesNotice
  BY <1>14 DEF JackChanges, LosesNotice, resourceVars
<1>15. ASSUME NEW w \in Works, WorkStep(w)
       PROVE  UNCHANGED <<pc, resourceVars>>
  BY <1>15 DEF WorkStep, ScheduleWork, FindsNone, FindsDevice, Asks, AskFails,
               Reports, WorkGoes
<1>16. CASE UNCHANGED <<pc, resourceVars>> BY <1>16 DEF resourceVars
<1>17. CASE UNCHANGED vars BY <1>16, <1>17 DEF vars
<1> QED BY <1>1, <1>2, <1>3, <1>4, <1>5, <1>6, <1>7, <1>8, <1>9, <1>10, <1>11,
           <1>12, <1>13, <1>14, <1>15, <1>16, <1>17 DEF Next, ProbeStep

(* Of the steps of the probe these alone touch the jack. *)
JackSteps ==
  \/ NewJack \/ ListenToJack
  \/ AskJack \/ AskJackFails \/ ReportJack
  \/ JackChanges \/ LosesNotice
  \/ \E w \in Works : WorkStep(w)

(* The other steps leave it alone, as they do the points of the probe that *)
(* have to do with it.                                                     *)
AtJack == {"listening", "asking", "reporting"}

Quiet == UNCHANGED jackVars
  /\ (pc' = pc \/ (pc \notin AtJack /\ pc' \notin AtJack))

LEMMA EveryJackStep ==
  [Next]_vars => Quiet \/ (Forget /\ pc' = "unbound") \/ JackSteps
<1> USE DEF Quiet, AtJack
<1>1. LoadModule => Quiet
  <2>1. LoadModule => /\ UNCHANGED jackVars /\ pc \in {"unloaded", "loading"}
                      /\ pc' \in {"unbound", "loading"}
    BY DEF LoadModule
  <2> QED BY <2>1
<1>2. LoadFails \/ UnloadModule => Quiet BY DEF LoadFails, UnloadModule, Goes
<1>3. ProbeBegins \/ InitTransport \/ NewCard => Quiet
  BY DEF ProbeBegins, InitTransport, NewCard, Goes
<1>4. Acquire => Quiet
  <2>1. Acquire => /\ UNCHANGED jackVars /\ pc = "acquiring"
                   /\ pc' \in {"transport", "acquiring"}
    BY DEF Acquire
  <2> QED BY <2>1
<1>5. ProbeFails \/ UnbindDriver => Forget /\ pc' = "unbound"
  BY DEF ProbeFails, UnbindDriver, Goes
<1>6. Greet \/ AliveComes \/ GetDeviceList => Quiet
  BY DEF Greet, AliveComes, GetDeviceList, Goes
<1>7. SkipDevice \/ ListDevice \/ ListJackDevice => Quiet
  BY DEF SkipDevice, ListDevice, ListJackDevice, Goes
<1>8. AllListed \/ InitBufferStruct \/ SetRemoteAccess \/ RegisterCard => Quiet
  BY DEF AllListed, InitBufferStruct, SetRemoteAccess, RegisterCard, Goes
<1>9. UNCHANGED vars => Quiet BY DEF vars
<1> QED BY <1>1, <1>2, <1>3, <1>4, <1>5, <1>6, <1>7, <1>8, <1>9
        DEF Next, ProbeStep, JackSteps

LEMMA JackTyped ==
  ASSUME TypeOK, [Next]_vars
  PROVE  /\ jack' \in BOOLEAN /\ reported' \in BOOLEAN
         /\ probeAnswer' \in Answers
         /\ work' \in [Works -> WorkTypes]
         /\ notices' \in Nat
         /\ listening' \in BOOLEAN /\ plugged' \in BOOLEAN /\ plugs' \in Nat
         /\ asks' \in Nat /\ lastReport' \in Nat /\ missed' \in BOOLEAN
<1> USE DEF TypeOK
<1>1. IdleWork \in WorkTypes
  BY DEF IdleWork, NoAnswer, WorkTypes, Answers
<1>2. Answer \in Answers BY DEF Answer, Answers
<1>3. work \in [Works -> WorkTypes] BY DEF WorkTypes
<1>4. CASE Quiet
  BY <1>3, <1>4 DEF Quiet, jackVars, hostJackVars, workVars, t2JackVars, ghosts
<1>5. CASE Forget
  BY <1>1, <1>5 DEF Forget, t2JackVars, ghosts
<1>6. CASE NewJack
  BY <1>3, <1>6 DEF NewJack, workVars, t2JackVars, ghosts
<1>7. CASE ListenToJack
  BY <1>3, <1>7 DEF ListenToJack, hostJackVars, workVars, ghosts
<1>8. CASE AskJack
  <2>1. asks' \in Nat /\ missed' = FALSE BY <1>8 DEF AskJack
  <2>2. probeAnswer' = Answer BY <1>8 DEF AskJack
  <2> QED BY <1>2, <1>3, <1>8, <2>1, <2>2 DEF AskJack, workVars, t2JackVars
<1>9. CASE AskJackFails
  BY <1>3, <1>9 DEF AskJackFails, hostJackVars, workVars, t2JackVars
<1>10. CASE ReportJack
  BY <1>3, <1>10 DEF ReportJack, workVars, t2JackVars, Answers
<1>11. CASE JackChanges
  BY <1>3, <1>11 DEF JackChanges, hostJackVars, ghosts
<1>12. CASE LosesNotice
  BY <1>3, <1>12 DEF LosesNotice, hostJackVars, t2JackVars
<1>13. ASSUME NEW w \in Works, WorkStep(w)
       PROVE  /\ work' \in [Works -> WorkTypes]
              /\ UNCHANGED <<jack, probeAnswer, t2JackVars>>
              /\ reported' \in BOOLEAN /\ notices' \in Nat
              /\ asks' \in Nat /\ lastReport' \in Nat /\ missed' \in BOOLEAN
  <2>1. CASE ScheduleWork(w)
    <3>1. [IdleWork EXCEPT !.at = "finding"] \in WorkTypes
      BY <1>1 DEF WorkTypes
    <3> QED BY <1>3, <2>1, <3>1
            DEF ScheduleWork, WorkGoes, hostJackVars, ghosts
  <2>2. CASE FindsNone(w)
    BY <1>1, <1>3, <2>2 DEF FindsNone, WorkGoes, hostJackVars
  <2>3. CASE FindsDevice(w)
    <3>1. [IdleWork EXCEPT !.at = "asking"] \in WorkTypes
      BY <1>1 DEF WorkTypes
    <3> QED BY <1>1, <1>3, <2>3, <3>1
            DEF FindsDevice, WorkGoes, hostJackVars, ghosts
  <2>4. CASE Asks(w)
    <3>1. [at |-> "reporting", answer |-> Answer] \in WorkTypes
      BY <1>2 DEF WorkTypes
    <3>2. work' \in [Works -> WorkTypes] BY <1>3, <2>4, <3>1 DEF Asks, WorkGoes
    <3>3. asks' \in Nat /\ missed' = FALSE BY <2>4 DEF Asks
    <3> QED BY <2>4, <3>2, <3>3 DEF Asks, WorkGoes, hostJackVars
  <2>5. CASE AskFails(w)
    BY <1>1, <1>3, <2>5 DEF AskFails, WorkGoes, hostJackVars
  <2>6. CASE Reports(w)
    <3>1. work[w].answer \in Answers BY <1>3 DEF WorkTypes
    <3> QED BY <1>1, <1>3, <2>6, <3>1 DEF Reports, WorkGoes, Answers
  <2> QED BY <1>13, <2>1, <2>2, <2>3, <2>4, <2>5, <2>6 DEF WorkStep
<1>14. CASE \E w \in Works : WorkStep(w)
  BY <1>13, <1>14 DEF t2JackVars
<1> QED BY <1>4, <1>5, <1>6, <1>7, <1>8, <1>9, <1>10, <1>11, <1>12, <1>14,
           EveryJackStep DEF JackSteps

LEMMA TypeStays ==
  ASSUME IInv, IsInjective(listed), [Next]_vars
  PROVE  TypeOK'
<1>1. TypeOK /\ ProbeInv /\ IsInjective(bs) BY DEF IInv, ProbeInv
<1> QED BY <1>1, EveryListStep, ListTyped, NumbersTyped, ProbeTyped, JackTyped
        DEF TypeOK, WorkTypes

-----------------------------------------------------------------------------
(* What is held. *)

(* The resources of a driver that is not there, and of one that is. *)
LEMMA ProbeStays ==
  ASSUME IInv, IsInjective(listed), [Next]_vars
  PROVE  NothingHeld' /\ ProbeInv'
<1> USE DEF IInv, NothingHeld, ProbeInv, Connected
<1>1. IsInjective(bs') BY EveryListStep, ListTyped
<1>2. held \subseteq Resources BY DEF TypeOK
<1>3. CASE LoadModule
  <2>1. PICK i \in DOMAIN ModuleAcquired :
          /\ module = {ModuleAcquired[j] : j \in 1 .. i - 1}
          /\ module' = module \union {ModuleAcquired[i]}
          /\ pc' = IF i = Len(ModuleAcquired) THEN "unbound" ELSE "loading"
    BY <1>3 DEF LoadModule
  <2>2. i = Len(ModuleAcquired) => module' = Range(ModuleAcquired)
    <3>1. SUFFICES ASSUME i = Len(ModuleAcquired)
                   PROVE  module' = Range(ModuleAcquired)
      OBVIOUS
    <3>2. i = 3 BY <3>1, AcquiredSeq
    <3>3. 1 .. 3 = (1 .. 3 - 1) \union {3} OBVIOUS
    <3> QED BY <2>1, <3>2, <3>3, AcquiredSeq
  <2>3. pc \in {"unloaded", "loading"} /\ pc' \in {"unbound", "loading"}
    BY <1>3, <2>1 DEF LoadModule
  <2> QED BY <1>1, <1>3, <2>1, <2>2, <2>3
          DEF LoadModule, listVars, bsVars, jackVars, hostJackVars
<1>4. CASE LoadFails \/ UnloadModule
  BY <1>1, <1>4
  DEF LoadFails, UnloadModule, Goes, listVars, jackVars, hostJackVars
<1>5. CASE ProbeBegins
  BY <1>1, <1>5 DEF ProbeBegins, Goes, listVars, jackVars, hostJackVars
<1>6. CASE Acquire
  <2>1. pc = "acquiring" /\ pc' \in {"transport", "acquiring"}
    BY <1>6 DEF Acquire
  <2>2. pc' = "transport" => "client" \in held'
    <3>1. PICK i \in 1 .. 6 :
            /\ held = {Acquired[j] : j \in 1 .. i - 1}
            /\ held' = held \union {Acquired[i]}
            /\ pc' = IF i = 6 THEN "transport" ELSE pc
      BY <1>6, AcquiredSeq DEF Acquire
    <3>2. SUFFICES ASSUME i = 6 PROVE "client" \in held'
      BY <2>1, <3>1
    <3>3. 4 \in 1 .. 6 - 1 /\ Acquired[4] = "client" BY DEF Acquired
    <3> QED BY <3>1, <3>2, <3>3
  <2> QED BY <1>1, <1>6, <2>1, <2>2
          DEF Acquire, listVars, bsVars, jackVars, hostJackVars
<1>7. CASE InitTransport \/ NewCard
  BY <1>1, <1>7 DEF InitTransport, NewCard, Goes, listVars, jackVars,
                    hostJackVars
<1>8. CASE ProbeFails
  <2>1. held' = {} /\ pc' = "unbound" /\ listed' = <<>> /\ ~jack'
    BY <1>2, <1>8 DEF ProbeFails, ReleasedOnFailure, Forget
  <2>2. module' = Range(ModuleAcquired)
    BY <1>8 DEF ProbeFails, Fallible, Forget
  <2> QED BY <1>1, <2>1, <2>2
<1>9. CASE UnbindDriver
  BY <1>1, <1>9 DEF UnbindDriver, Forget, Goes
<1>10. CASE Greet \/ GetDeviceList \/ AllListed \/ InitBufferStruct
  BY <1>1, <1>10
  DEF Greet, GetDeviceList, AllListed, InitBufferStruct, Goes, resourceVars
<1>11. CASE SkipDevice \/ ListDevice
  BY <1>1, <1>11 DEF SkipDevice, ListDevice, resourceVars
<1>12. CASE NewJack \/ ListenToJack
  <2>1. /\ pc \in {"listing", "listening"}
        /\ pc' \in {"listening", "asking", "linking"}
        /\ UNCHANGED <<resourceVars, listVars>>
    BY <1>12 DEF NewJack, ListenToJack, Goes
  <2> QED BY <1>1, <2>1 DEF resourceVars, listVars, bsVars
<1>13. CASE AskJack \/ AskJackFails \/ ReportJack \/ ListJackDevice
  BY <1>1, <1>13
  DEF AskJack, AskJackFails, ReportJack, ListJackDevice, Goes, resourceVars
<1>14. CASE SetRemoteAccess \/ RegisterCard
  BY <1>1, <1>14 DEF SetRemoteAccess, RegisterCard, Goes, resourceVars
<1>15. CASE AliveComes
  BY <1>1, <1>15 DEF AliveComes, listVars, jackVars, hostJackVars
<1>16. CASE UNCHANGED <<pc, resourceVars, listVars, jack>>
  BY <1>1, <1>16 DEF resourceVars, listVars
<1>17. CASE JackChanges \/ LosesNotice
  BY <1>16, <1>17 DEF JackChanges, LosesNotice, hostJackVars
<1>18. ASSUME NEW w \in Works, WorkStep(w)
       PROVE  UNCHANGED <<pc, resourceVars, listVars, jack>>
  BY <1>18 DEF WorkStep, ScheduleWork, FindsNone, FindsDevice, Asks, AskFails,
               Reports, WorkGoes, hostJackVars
<1>19. CASE UNCHANGED vars
  BY <1>16, <1>19 DEF vars, jackVars, hostJackVars
<1> QED BY <1>3, <1>4, <1>5, <1>6, <1>7, <1>8, <1>9, <1>10, <1>11, <1>12,
           <1>13, <1>14, <1>15, <1>16, <1>17, <1>18, <1>19 DEF Next, ProbeStep

(* Memory is left behind once, and with it the queues. *)
LEMMA LeftStays ==
  ASSUME IInv, [Next]_vars
  PROVE  LeftOnce'
<1> USE DEF IInv, LeftOnce
<1>1. CASE ProbeFails
  <2>1. /\ pc' = "unbound" /\ buffered' = {}
        /\ left' = left \union NeverReleased \union
                     {x \in {"subdevices"} : listed # <<>>}
    BY <1>1 DEF ProbeFails, Forget
  <2>2. queues => queues' BY <1>1, Zenon DEF ProbeFails
  <2>3. listed # <<>> \/ buffered # {} => queues /\ "client" \in held
    BY DEF ProbeInv, Connected
  <2>4. ~Connected' BY <2>1 DEF Connected
  <2>5. left' \intersect Memory # {} => queues
    BY <2>1, <2>3 DEF NeverReleased, Memory
  <2>6. left' # {} => "callback" \in left'
    BY <2>1, <2>3 DEF NeverReleased
  <2> QED BY <2>1, <2>2, <2>4, <2>5, <2>6
<1>2. CASE UnbindDriver
  <2>1. /\ pc = "bound" /\ pc' = "unbound" /\ buffered' = {} /\ queues' = queues
        /\ left' = left \union NeverReleased
    BY <1>2 DEF UnbindDriver, Forget, Goes
  <2>2. queues /\ "client" \in held BY <2>1 DEF ProbeInv, Connected
  <2>3. ~Connected' BY <2>1 DEF Connected
  <2>4. "callback" \in left' BY <2>1, <2>2 DEF NeverReleased
  <2> QED BY <2>1, <2>2, <2>3, <2>4
<1>3. CASE InitTransport
  <2>1. /\ ~queues /\ pc = "transport" /\ UNCHANGED <<left, buffered>>
    BY <1>3 DEF InitTransport, Goes, listVars, bsVars
  <2> QED BY <2>1
<1>4. CASE InitBufferStruct
  <2>1. /\ pc = "buffers" /\ pc' = "access" /\ UNCHANGED <<left, queues>>
    BY <1>4 DEF InitBufferStruct, Goes, resourceVars
  <2>2. Connected BY <2>1 DEF Connected
  <2> QED BY <2>1, <2>2
<1>5. CASE ~(ProbeFails \/ UnbindDriver \/ InitTransport \/ InitBufferStruct)
  <2>1. /\ UNCHANGED <<left, queues, buffered>>
        /\ Connected' => Connected
        /\ pc \in {"access", "registering", "bound"}
             => pc' \in {"access", "registering", "bound"}
    <3> USE DEF resourceVars, listVars, bsVars, Connected
    <3>1. CASE LoadModule
      <4>1. /\ pc \in {"unloaded", "loading"} /\ pc' \in {"unbound", "loading"}
            /\ UNCHANGED <<left, queues, buffered>>
        BY <3>1 DEF LoadModule
      <4> QED BY <4>1
    <3>2. CASE LoadFails \/ UnloadModule
      BY <3>2 DEF LoadFails, UnloadModule, Goes
    <3>3. CASE ProbeBegins \/ NewCard BY <3>3 DEF ProbeBegins, NewCard, Goes
    <3>4. CASE Acquire
      <4>1. /\ pc = "acquiring" /\ pc' \in {"transport", "acquiring"}
            /\ UNCHANGED <<left, queues, buffered>>
        BY <3>4 DEF Acquire
      <4> QED BY <4>1
    <3>5. CASE AliveComes BY <3>5 DEF AliveComes
    <3>6. CASE Greet \/ GetDeviceList \/ AllListed
      BY <3>6 DEF Greet, GetDeviceList, AllListed, Goes
    <3>7. CASE SkipDevice \/ ListDevice
      BY <3>7 DEF SkipDevice, ListDevice, ListNext
    <3>8. CASE NewJack \/ ListenToJack BY <3>8 DEF NewJack, ListenToJack, Goes
    <3>9. CASE AskJack \/ AskJackFails \/ ReportJack \/ ListJackDevice
      BY <3>9
      DEF AskJack, AskJackFails, ReportJack, ListJackDevice, ListNext, Goes
    <3>10. CASE SetRemoteAccess \/ RegisterCard
      BY <3>10 DEF SetRemoteAccess, RegisterCard, Goes
    <3>11. CASE JackChanges \/ LosesNotice
      BY <3>11 DEF JackChanges, LosesNotice
    <3>12. ASSUME NEW w \in Works, WorkStep(w)
           PROVE  UNCHANGED <<pc, left, queues, buffered>>
      BY <3>12 DEF WorkStep, ScheduleWork, FindsNone, FindsDevice, Asks,
                   AskFails, Reports, WorkGoes
    <3>13. CASE UNCHANGED <<pc, left, queues, buffered>> BY <3>13
    <3>14. CASE UNCHANGED vars BY <3>13, <3>14 DEF vars
    <3> QED BY <1>5, <3>1, <3>2, <3>3, <3>4, <3>5, <3>6, <3>7, <3>8, <3>9,
               <3>10, <3>11, <3>12, <3>13, <3>14 DEF Next, ProbeStep
  <2> QED BY <2>1
<1> QED BY <1>1, <1>2, <1>3, <1>4, <1>5

-----------------------------------------------------------------------------
(* The list and the places. *)

LEMMA NamedApartNow ==
  ASSUME IInv, BuffersNamed
  PROVE  /\ IsInjective(listed) /\ IsInjective(todo)
         /\ Range(listed) \intersect Range(todo) = {}
BY NamedApart DEF IInv, TypeOK, BuffersNamed

(* A step of the list leaves nobody on it twice. *)
LEMMA ListOnce ==
  ASSUME IInv, BuffersNamed, [Next]_vars
  PROVE  IsInjective(listed' \o todo')
<1>1. /\ listed \in Seq(Devices) /\ todo \in Seq(Devices)
      /\ IsInjective(listed \o todo)
  BY DEF IInv, TypeOK, BuffersNamed
<1>2. /\ IsInjective(listed) /\ IsInjective(todo)
      /\ Range(listed) \intersect Range(todo) = {}
  BY NamedApartNow
<1>3. IsInjective(<<>>) /\ Range(<<>>) = {} /\ <<>> \in Seq(Devices)
  <2>1. DOMAIN <<>> = {} BY EmptySeq
  <2> QED BY <2>1 DEF IsInjective, Range
<1>4. CASE UNCHANGED listVars BY <1>1, <1>4 DEF listVars
<1>5. CASE Forget BY <1>3, <1>5, NamedApart DEF Forget
<1>6. CASE Contract!Got
  <2>1. listed' = <<>> /\ todo' \in Seq(Devices) /\ IsInjective(todo')
    BY <1>6, ListIsOnce DEF Contract!Got
  <2> QED BY <1>3, <2>1, NamedApart
<1>7. CASE Contract!Skip \/ Contract!List
  <2>1. todo # <<>> /\ todo' = Tail(todo)
    BY <1>7 DEF Contract!Skip, Contract!List
  <2>2. /\ todo' \in Seq(Devices) /\ Head(todo) \in Devices
        /\ IsInjective(todo')
        /\ Head(todo) \notin Range(todo')
        /\ Range(todo) = Range(todo') \union {Head(todo)}
    BY <1>1, <1>2, <2>1, HeadOnce
  <2>3. CASE Contract!Skip
    <3>1. listed' = listed BY <2>3 DEF Contract!Skip
    <3>2. Range(listed) \intersect Range(todo') = {} BY <1>2, <2>2
    <3> QED BY <1>1, <1>2, <2>2, <3>1, <3>2, NamedApart
  <2>4. CASE Contract!List
    <3>1. listed' = Append(listed, Head(todo)) BY <2>4 DEF Contract!List
    <3>2. Head(todo) \notin Range(listed) BY <1>2, <2>2
    <3>3. /\ listed' \in Seq(Devices) /\ IsInjective(listed')
          /\ Range(listed') = Range(listed) \union {Head(todo)}
      BY <1>1, <1>2, <2>2, <3>1, <3>2, AppendedNew, AppendProperties
    <3>4. Range(listed') \intersect Range(todo') = {} BY <1>2, <2>2, <3>3
    <3> QED BY <2>2, <3>3, <3>4, NamedApart
  <2> QED BY <1>7, <2>3, <2>4
<1>8. CASE InitBufferStruct BY <1>1, <1>8 DEF InitBufferStruct
<1> QED BY <1>4, <1>5, <1>6, <1>7, <1>8, EveryListStep DEF ListStep

(* The places, once given, last as long as the driver is bound. *)
LEMMA PlacesStay ==
  ASSUME IInv, BuffersNamed, [Next]_vars,
         pc' \in {"access", "registering", "bound"}
  PROVE  /\ IsInjective(bs')
         /\ \A d \in Range(listed') :
              bufId'[d] + 1 \in DOMAIN bs' /\ bs'[bufId'[d] + 1] = d
<1>1. /\ TypeOK /\ IsInjective(bs) /\ IsInjective(listed)
  BY NamedApartNow DEF IInv, ProbeInv
<1>2. CASE InitBufferStruct
  <2>1. /\ bs' \in Seq(Names) /\ IsInjective(bs') /\ listed' = listed
        /\ Range(listed) \subseteq Range(bs')
        /\ Range(listed) \subseteq Devices
    BY <1>1, <1>2, AllHaveNames, RangeOfSeq DEF InitBufferStruct, TypeOK
  <2>2. ASSUME NEW d \in Range(listed)
        PROVE  bufId'[d] + 1 \in DOMAIN bs' /\ bs'[bufId'[d] + 1] = d
    <3>1. bufId'[d] = Place(bs', d) BY <1>2, <2>1 DEF InitBufferStruct
    <3> QED BY <2>1, <3>1, PlaceOfName
  <2> QED BY <2>1, <2>2
<1>3. CASE ~InitBufferStruct
  <2>1. pc \in {"access", "registering", "bound"} /\ UNCHANGED listVars
    <3>1. CASE SetRemoteAccess \/ RegisterCard
      BY <3>1 DEF SetRemoteAccess, RegisterCard, Goes
    <3>2. CASE AliveComes BY <3>2 DEF AliveComes
    <3>3. CASE JackChanges \/ LosesNotice BY <3>3 DEF JackChanges, LosesNotice
    <3>4. CASE \E w \in Works : WorkStep(w)
      BY <3>4 DEF WorkStep, ScheduleWork, FindsNone, FindsDevice, Asks,
                  AskFails, Reports, WorkGoes
    <3>5. CASE UNCHANGED vars BY <3>5 DEF vars
    <3>6. CASE LoadModule \/ LoadFails \/ UnloadModule
      BY <3>6 DEF LoadModule, LoadFails, UnloadModule, Goes
    <3>7. CASE ProbeBegins \/ InitTransport \/ NewCard \/ ProbeFails
      BY <3>7 DEF ProbeBegins, InitTransport, NewCard, ProbeFails, Goes
    <3>8. CASE Acquire BY <3>8 DEF Acquire
    <3>9. CASE UnbindDriver \/ Greet \/ GetDeviceList \/ AllListed
      BY <3>9 DEF UnbindDriver, Greet, GetDeviceList, AllListed, Goes
    <3>10. CASE SkipDevice \/ ListDevice BY <3>10 DEF SkipDevice, ListDevice
    <3>11. CASE NewJack \/ ListenToJack \/ ListJackDevice
      BY <3>11 DEF NewJack, ListenToJack, ListJackDevice, Goes
    <3>12. CASE AskJack \/ AskJackFails \/ ReportJack
      BY <3>12 DEF AskJack, AskJackFails, ReportJack, Goes
    <3> QED BY <1>3, <3>1, <3>2, <3>3, <3>4, <3>5, <3>6, <3>7, <3>8, <3>9,
               <3>10, <3>11, <3>12 DEF Next, ProbeStep
  <2> QED BY <2>1 DEF BuffersNamed, listVars, bsVars
<1> QED BY <1>2, <1>3

LEMMA NamedStays ==
  ASSUME IInv, BuffersNamed, [Next]_vars
  PROVE  BuffersNamed'
BY ListOnce, PlacesStay DEF BuffersNamed
-----------------------------------------------------------------------------
(* The jack. *)

(* Nobody has got a new answer, and the last is as true as before. *)
LEMMA AnswersOlder ==
  ASSUME LastAnswerInv, Unreported' \subseteq Unreported,
         UNCHANGED <<asks, lastReport, reported, plugged>>,
         jack' /\ pc' \notin {"listening", "asking"} /\ listening'
           /\ ~ToBeAsked'
           => jack /\ pc \notin {"listening", "asking"} /\ listening
             /\ ~ToBeAsked
  PROVE  LastAnswerInv'
BY DEF LastAnswerInv

(* The T2 has been asked again. *)
LEMMA AnswerIsNew ==
  ASSUME TypeOK, LastAnswerInv,
    Unreported' \subseteq Unreported \union {Answer},
         asks' = asks + 1, UNCHANGED <<lastReport, plugged>>
  PROVE  LastAnswerInv'
<1>1. asks \in Nat /\ lastReport \in Nat BY DEF TypeOK
<1>2. lastReport <= asks' /\ lastReport # asks' BY <1>1 DEF LastAnswerInv
<1>3. Answer.no = asks' /\ Answer.plugged = plugged BY DEF Answer
<1>4. \A a \in Unreported : a.no \in Nat
  BY DEF TypeOK, Unreported, Answers
<1>5. \A a \in Unreported : a.no <= asks' /\ a.no # asks'
  <2> TAKE a \in Unreported
  <2>1. a.no \in Nat /\ a.no <= asks BY <1>4 DEF LastAnswerInv
  <2> QED BY <1>1, <2>1
<1>6. asks' <= asks' BY <1>1
<1>7. \A a \in Unreported' :
        a.no <= asks' /\ (a.no = asks' => a.plugged = plugged)
  BY <1>3, <1>5, <1>6
<1> QED BY <1>2, <1>7 DEF LastAnswerInv

(* One of them is reported. *)
LEMMA AnswerReported ==
  ASSUME LastAnswerInv, NEW a \in Unreported, Unreported' \subseteq Unreported,
         reported' = a.plugged, lastReport' = a.no, UNCHANGED <<asks, plugged>>,
         jack' /\ pc' \notin {"listening", "asking"} /\ listening'
           /\ ~ToBeAsked'
           => jack /\ pc \notin {"listening", "asking"} /\ listening
             /\ ~ToBeAsked
  PROVE  LastAnswerInv'
BY DEF LastAnswerInv

(* The probe is still to ask, or the T2 will be asked again. *)
LEMMA AnswerAwaited ==
  ASSUME LastAnswerInv, Unreported' \subseteq Unreported,
         UNCHANGED <<asks, lastReport>>,
         \/ ~jack' \/ pc' \in {"listening", "asking"}
         \/ ~listening' \/ ToBeAsked'
  PROVE  LastAnswerInv'
BY DEF LastAnswerInv

(* A work goes on, and may have got an answer. *)
LEMMA WorkUnreported ==
  ASSUME TypeOK, NEW w \in Works, NEW from, NEW to, WorkGoes(w, from, to),
         probeAnswer' = probeAnswer
  PROVE  /\ work'[w] = to
         /\ \A v \in Works : v # w => work'[v] = work[v]
         /\ Unreported' \subseteq
              Unreported \union {a \in {to.answer} : to.at = "reporting"}
<1>1. /\ work'[w] = to /\ \A v \in Works : v # w => work'[v] = work[v]
      /\ pc' = pc
  BY DEF TypeOK, WorkGoes
<1>2. ASSUME NEW v \in Works, work'[v].at = "reporting"
      PROVE  \/ work'[v].answer \in Unreported
             \/ to.at = "reporting" /\ work'[v].answer = to.answer
  <2>1. CASE v = w BY <1>1, <1>2, <2>1
  <2>2. CASE v # w
    <3>1. work'[v] = work[v] BY <1>1, <2>2
    <3> QED BY <1>2, <3>1 DEF Unreported
  <2> QED BY <2>1, <2>2
<1>3. {a \in {probeAnswer'} : pc' = "reporting"} \subseteq Unreported
  BY <1>1 DEF Unreported
<1>4. Unreported' =
        {work'[v].answer : v \in {u \in Works : work'[u].at = "reporting"}}
          \union {a \in {probeAnswer'} : pc' = "reporting"}
  BY DEF Unreported
<1> QED BY <1>1, <1>2, <1>3, <1>4

LEMMA WorkAnswers ==
  ASSUME IInv, NEW w \in Works, WorkStep(w)
  PROVE  LastAnswerInv'
<1>1. TypeOK /\ LastAnswerInv BY DEF IInv
<1>2. IdleWork.at = "idle" BY DEF IdleWork
<1>3. CASE ScheduleWork(w)
  <2> DEFINE to == [IdleWork EXCEPT !.at = "finding"]
  <2>1. to.at = "finding" BY DEF IdleWork
  <2>2. WorkGoes(w, "idle", to) /\ UNCHANGED <<hostJackVars, ghosts>>
    BY <1>3 DEF ScheduleWork
  <2> HIDE DEF to
  <2>3. work'[w] = to /\ Unreported' \subseteq Unreported
    BY <1>1, <2>1, <2>2, WorkUnreported DEF hostJackVars
  <2>4. ToBeAsked' BY <2>1, <2>3 DEF ToBeAsked
  <2> QED BY <1>1, <2>2, <2>3, <2>4, AnswerAwaited DEF ghosts
<1>4. CASE FindsNone(w) \/ AskFails(w)
  <2>1. /\ \E from : WorkGoes(w, from, IdleWork)
        /\ missed' = TRUE /\ UNCHANGED <<hostJackVars, asks, lastReport>>
    BY <1>4 DEF FindsNone, AskFails
  <2>2. Unreported' \subseteq Unreported
    BY <1>1, <1>2, <2>1, WorkUnreported DEF hostJackVars
  <2>3. ToBeAsked' BY <2>1 DEF ToBeAsked
  <2> QED BY <1>1, <2>1, <2>2, <2>3, AnswerAwaited
<1>5. CASE FindsDevice(w)
  <2> DEFINE to == IF jack THEN [IdleWork EXCEPT !.at = "asking"] ELSE IdleWork
  <2>1. to.at = IF jack THEN "asking" ELSE "idle" BY DEF IdleWork
  <2>2. WorkGoes(w, "finding", to) /\ UNCHANGED <<hostJackVars, ghosts>>
    BY <1>5 DEF FindsDevice
  <2> HIDE DEF to
  <2>3. work'[w] = to /\ Unreported' \subseteq Unreported
    BY <1>1, <2>1, <2>2, WorkUnreported DEF hostJackVars
  <2>4. ~jack' \/ ToBeAsked'
    BY <2>1, <2>2, <2>3 DEF ToBeAsked, hostJackVars
  <2> QED BY <1>1, <2>2, <2>3, <2>4, AnswerAwaited DEF ghosts
<1>6. CASE Asks(w)
  <2> DEFINE to == [at |-> "reporting", answer |-> Answer]
  <2>1. to.at = "reporting" /\ to.answer = Answer OBVIOUS
  <2>2. /\ WorkGoes(w, "asking", to) /\ UNCHANGED <<hostJackVars, lastReport>>
        /\ asks' = asks + 1
    BY <1>6 DEF Asks
  <2> HIDE DEF to
  <2>3. Unreported' \subseteq Unreported \union {Answer}
    BY <1>1, <2>1, <2>2, WorkUnreported DEF hostJackVars
  <2>4. plugged' = plugged BY <2>2 DEF WorkGoes, t2JackVars
  <2> QED BY <1>1, <2>2, <2>3, <2>4, AnswerIsNew
<1>7. CASE Reports(w)
  <2>1. /\ WorkGoes(w, "reporting", IdleWork)
        /\ reported' = work[w].answer.plugged
        /\ lastReport' = work[w].answer.no
        /\ UNCHANGED <<jack, probeAnswer, notices, asks, missed>>
    BY <1>7 DEF Reports
  <2>2. work[w].at = "reporting" /\ UNCHANGED <<pc, listening, plugged>>
    BY <2>1 DEF WorkGoes, t2JackVars
  <2>3. work[w].answer \in Unreported BY <2>2 DEF Unreported
  <2>4. /\ Unreported' \subseteq Unreported
        /\ \A v \in Works : v # w => work'[v] = work[v]
    BY <1>1, <1>2, <2>1, WorkUnreported
  <2>5. ToBeAsked => ToBeAsked' BY <2>1, <2>2, <2>4 DEF ToBeAsked
  <2> QED BY <1>1, <2>1, <2>2, <2>3, <2>4, <2>5, AnswerReported
<1> QED BY <1>3, <1>4, <1>5, <1>6, <1>7 DEF WorkStep

LEMMA LastAnswerStays ==
  ASSUME IInv, [Next]_vars
  PROVE  LastAnswerInv'
<1> USE DEF IInv
<1>1. TypeOK /\ LastAnswerInv /\ ProbeInv OBVIOUS
<1>2. ASSUME work' = work, probeAnswer' = probeAnswer,
             pc' = "reporting" => pc = "reporting"
      PROVE  Unreported' \subseteq Unreported
  BY <1>2 DEF Unreported
<1>3. CASE Quiet
  <2>1. /\ work' = work /\ probeAnswer' = probeAnswer
        /\ pc' = "reporting" => pc = "reporting"
        /\ pc' \notin {"listening", "asking"}
             => pc \notin {"listening", "asking"}
        /\ UNCHANGED <<asks, lastReport, reported, plugged, jack, listening>>
        /\ UNCHANGED <<notices, missed>>
    BY <1>3 DEF Quiet, AtJack, jackVars, hostJackVars, workVars, t2JackVars,
                ghosts
  <2>2. ToBeAsked' = ToBeAsked BY <2>1 DEF ToBeAsked
  <2>3. Unreported' \subseteq Unreported BY <1>2, <2>1
  <2> QED BY <1>1, <2>1, <2>2, <2>3, AnswersOlder
<1>4. CASE Forget /\ pc' = "unbound"
  <2>1. /\ work' = [w \in Works |-> IdleWork] /\ ~jack'
        /\ UNCHANGED <<asks, lastReport>>
    BY <1>4 DEF Forget, ghosts
  <2>2. \A w \in Works : work'[w].at # "reporting" BY <2>1 DEF IdleWork
  <2>3. Unreported' = {} BY <1>4, <2>2 DEF Unreported
  <2> QED BY <1>1, <2>1, <2>3, AnswerAwaited
<1>5. CASE NewJack
  <2>1. /\ work' = work /\ probeAnswer' = probeAnswer /\ pc' = "listening"
        /\ UNCHANGED <<asks, lastReport>>
    BY <1>5 DEF NewJack, Goes, workVars, ghosts
  <2> QED BY <1>1, <1>2, <2>1, AnswerAwaited
<1>6. CASE ListenToJack
  <2>1. /\ work' = work /\ probeAnswer' = probeAnswer /\ jack' = jack
        /\ pc' = IF jack THEN "asking" ELSE "linking"
        /\ UNCHANGED <<asks, lastReport>>
    BY <1>6 DEF ListenToJack, Goes, workVars, hostJackVars, ghosts
  <2> QED BY <1>1, <1>2, <2>1, AnswerAwaited
<1>7. CASE AskJack
  <2>1. /\ work' = work /\ probeAnswer' = Answer /\ asks' = asks + 1
        /\ UNCHANGED <<lastReport, plugged>>
    BY <1>7 DEF AskJack, workVars, t2JackVars
  <2>2. Unreported' \subseteq Unreported \union {Answer}
    BY <2>1 DEF Unreported
  <2> QED BY <1>1, <2>1, <2>2, AnswerIsNew
<1>8. CASE AskJackFails
  <2>1. /\ work' = work /\ probeAnswer' = probeAnswer /\ pc' = "linking"
        /\ missed' = TRUE /\ UNCHANGED <<asks, lastReport>>
    BY <1>8 DEF AskJackFails, Goes, workVars, hostJackVars
  <2>2. ToBeAsked' BY <2>1 DEF ToBeAsked
  <2> QED BY <1>1, <1>2, <2>1, <2>2, AnswerAwaited
<1>9. CASE ReportJack
  <2>1. /\ work' = work /\ probeAnswer' = probeAnswer
        /\ pc = "reporting" /\ pc' = "linking"
        /\ reported' = probeAnswer.plugged /\ lastReport' = probeAnswer.no
        /\ UNCHANGED <<jack, listening, plugged, notices, asks, missed>>
    BY <1>9 DEF ReportJack, Goes, workVars, t2JackVars
  <2>2. probeAnswer \in Unreported BY <2>1 DEF Unreported
  <2>3. ToBeAsked' = ToBeAsked BY <2>1 DEF ToBeAsked
  <2>4. Unreported' \subseteq Unreported BY <1>2, <2>1
  <2> QED BY <1>1, <2>1, <2>2, <2>3, <2>4, AnswerReported
<1>10. CASE JackChanges
  <2>1. /\ work' = work /\ probeAnswer' = probeAnswer /\ pc' = pc
        /\ jack' = jack /\ listening' = listening
        /\ notices' = IF listening /\ Connected THEN notices + 1 ELSE notices
        /\ UNCHANGED <<asks, lastReport>>
    BY <1>10 DEF JackChanges, hostJackVars, ghosts
  <2>2. jack => Connected BY <1>1 DEF ProbeInv
  <2>3. listening /\ jack => notices' > 0 BY <1>1, <2>1, <2>2 DEF TypeOK
  <2>4. ~jack' \/ ~listening' \/ ToBeAsked' BY <2>1, <2>3 DEF ToBeAsked
  <2> QED BY <1>1, <1>2, <2>1, <2>4, AnswerAwaited
<1>11. CASE LosesNotice
  <2>1. /\ work' = work /\ probeAnswer' = probeAnswer /\ pc' = pc
        /\ missed' = TRUE /\ UNCHANGED <<asks, lastReport>>
    BY <1>11 DEF LosesNotice, hostJackVars
  <2>2. ToBeAsked' BY <2>1 DEF ToBeAsked
  <2> QED BY <1>1, <1>2, <2>1, <2>2, AnswerAwaited
<1>12. CASE \E w \in Works : WorkStep(w) BY <1>12, WorkAnswers
<1> QED BY <1>3, <1>4, <1>5, <1>6, <1>7, <1>8, <1>9, <1>10, <1>11, <1>12,
           EveryJackStep DEF JackSteps

-----------------------------------------------------------------------------
(* The theorems. *)

LEMMA NextInv ==
  IInv /\ BuffersNamed /\ [Next]_vars => IInv' /\ BuffersNamed'
<1> SUFFICES ASSUME IInv, BuffersNamed, [Next]_vars
             PROVE  IInv' /\ BuffersNamed'
  OBVIOUS
<1>1. IsInjective(listed) BY NamedApartNow
<1>2. TypeOK' BY <1>1, TypeStays
<1>3. NothingHeld' /\ LeftOnce' /\ ProbeInv'
  BY <1>1, ProbeStays, LeftStays
<1>4. LastAnswerInv' BY LastAnswerStays
<1>5. BuffersNamed' BY NamedStays
<1> QED BY <1>2, <1>3, <1>4, <1>5 DEF IInv

LEMMA BothInvariant == Spec => [](IInv /\ BuffersNamed)
BY InitInv, NextInv, PTL DEF Spec

(* Wherever a probe or the module's init fails, and after a remove, no     *)
(* resource is held (t2audio_probe, t2audio_remove, t2audio_module_init).  *)
(* What these do not give back is counted as left: the callback of the     *)
(* client, and memory, of one probe only.                                  *)
THEOREM Invariant == Spec => []IInv
BY BothInvariant, PTL

(* Whatever the T2's list and its BufferStruct say, every subdevice of a   *)
(* bound driver has the place that bears its name, alone                   *)
(* (t2audio_init_bs).                                                      *)
THEOREM EveryDeviceHasItsPlace == Spec => []BuffersNamed
BY BothInvariant, PTL

(* When the works have come to rest, ALSA shows the state of the T2's      *)
(* jack, however many works there were and in what order they ran          *)
(* (t2audio_handle_prop_change_work).                                      *)
THEOREM ShowsTheJack == Spec => []JackFollows
<1>1. IInv => JackFollows
  <2> SUFFICES ASSUME IInv, pc = "bound", jack, listening, JackAtRest
               PROVE  reported = plugged
    BY DEF JackFollows
  <2>1. ~ToBeAsked
    BY DEF JackAtRest, ToBeAsked
  <2> QED BY <2>1 DEF IInv, LastAnswerInv, JackAtRest
<1> QED BY <1>1, Invariant, PTL
=============================================================================
