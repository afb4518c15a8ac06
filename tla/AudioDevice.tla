---------------------------- MODULE AudioDevice ----------------------------
(***************************************************************************)
(* The life of a struct t2audio_device, audio.c: what the module and       *)
(* t2audio_probe acquire and what their error paths, t2audio_remove and    *)
(* the exit of the module give back; the list of the T2's audio devices    *)
(* (DeviceList, which Enumeration implements); the places they get in the  *)
(* BufferStruct; and the headphone jack of one of them, whose changes the  *)
(* T2 announces as soon as the probe has asked it to, and which works      *)
(* handle while the probe still runs.                                      *)
(*                                                                         *)
(* Every command may fail or time out.  What a bound driver does with its  *)
(* streams, and power management, are in the other modules.                *)
(***************************************************************************)
EXTENDS Integers, Sequences, SequencesExt

CONSTANTS
  Devices,      \* the T2's audio devices, by uid
  JackDevice,   \* the one with the jack, "Codec Output"
  HostDevices,  \* those with one input stream, whose buffer is the host's
  Works,        \* property-change works that may run at the same time
  Published,    \* the BufferStructs the T2 may start with: sequences of uids
  MaxProbes,    \* bound on the probes of a behaviour
  MaxPlugs      \* bound on the changes of the jack

ASSUME JackAssumption == JackDevice \in Devices
ASSUME HostAssumption == HostDevices \subseteq Devices
ASSUME DevicesAssumption == IsFiniteSet(Devices)
ASSUME PublishedAssumption ==
  \A b \in Published : b \in Seq(Range(b)) /\ IsInjective(b)

VARIABLES
  pc,           \* where the thread that loads, probes or removes is
  module,       \* what t2audio_module_init holds
  probes,       \* probes so far
  held,         \* what the driver holds
  queues,       \* BCE queues of this or of an earlier probe exist
  left,         \* what earlier probes have left behind
  remoteAlive,  \* a->remote_alive is completed
  todo,         \* devices t2audio_init_cmd has still to go through
  listed,       \* a->subdevice_list
  bs,           \* the names in bs->devices, in order
  bufId,        \* sdev->buf_id
  buffered,     \* devices with a buffer from dma_alloc_coherent
  jack,         \* sdev->jack exists
  reported,     \* what snd_jack_report has said of it last
  probeAnswer,  \* the answer the probing thread has got from the T2
  work,         \* where a work is, and the answer it has got
  notices,      \* announced changes no work has taken up
  listening,    \* the T2 announces changes of the jack
  plugged,      \* the jack of the T2
  plugs,        \* changes of the jack so far
  asks,         \* answers of the T2 about the jack so far
  lastReport,   \* the number of the answer that was reported last
  missed        \* a work found no device or got no answer, and none came since

resourceVars == <<module, probes, held, queues, remoteAlive, left>>
bsVars == <<bs, bufId, buffered>>
listVars == <<todo, listed, bsVars>>
hostJackVars == <<jack, reported, probeAnswer>>
workVars == <<work, notices>>
t2JackVars == <<listening, plugged, plugs>>
ghosts == <<asks, lastReport, missed>>
jackVars == <<hostJackVars, workVars, t2JackVars, ghosts>>
vars == <<pc, resourceVars, listVars, jackVars>>

(* What t2audio_probe acquires, in its order, before the queues and the    *)
(* card.                                                                   *)
Acquired == <<"pci", "regions", "struct", "client", "chardev", "maps">>

Resources == Range(Acquired) \union {"card"}

(* What t2audio_module_init acquires, in its order. *)
ModuleAcquired == <<"region", "class", "driver">>

(* The list of the T2's devices. *)
Contract == INSTANCE DeviceList

NoBuffer == 255   \* T2AUDIO_BUFFER_ID_NONE

NoNumbers == [d \in Devices |-> NoBuffer]

NoAnswer == [plugged |-> FALSE, no |-> 0]
IdleWork == [at |-> "idle", answer |-> NoAnswer]

Init ==
  /\ pc = "unloaded"
  /\ module = {}
  /\ probes = 0
  /\ held = {}
  /\ queues = FALSE
  /\ left = {}
  /\ remoteAlive = FALSE
  /\ todo = <<>>
  /\ listed = <<>>
  /\ bs \in Published
  /\ bufId = NoNumbers
  /\ buffered = {}
  /\ jack = FALSE
  /\ reported = FALSE
  /\ probeAnswer = NoAnswer
  /\ work = [w \in Works |-> IdleWork]
  /\ notices = 0
  /\ listening = FALSE
  /\ plugged \in BOOLEAN
  /\ plugs = 0
  /\ asks = 0
  /\ lastReport = 0
  /\ missed = FALSE

(* A step of the probe from one point to another. *)
Goes(from, to) == pc = from /\ pc' = to

-----------------------------------------------------------------------------
(* t2audio_module_init, t2audio_module_exit. *)

(* The next resource is acquired; registering the driver has it probed. *)
LoadModule ==
  /\ pc \in {"unloaded", "loading"}
  /\ \E i \in DOMAIN ModuleAcquired :
       /\ module = {ModuleAcquired[j] : j \in 1 .. i - 1}
       /\ module' = module \union {ModuleAcquired[i]}
       /\ pc' = IF i = Len(ModuleAcquired) THEN "unbound" ELSE "loading"
  /\ UNCHANGED <<probes, held, queues, remoteAlive, left, listVars, jackVars>>

(* The labels "fail_drv" to "fail_chrdev" give back all, one of them more  *)
(* than was acquired, which the kernel takes no notice of.                 *)
LoadFails ==
  /\ Goes("loading", "unloaded")
  /\ module' = {}
  /\ UNCHANGED <<probes, held, queues, remoteAlive, left, listVars, jackVars>>

(* pci_unregister_driver removes the driver first. *)
UnloadModule ==
  /\ Goes("unbound", "unloaded")
  /\ module' = {}
  /\ UNCHANGED <<probes, held, queues, remoteAlive, left, listVars, jackVars>>

-----------------------------------------------------------------------------
(* t2audio_probe: resources and error paths; t2audio_remove. *)

ProbeBegins ==
  /\ Goes("unbound", "acquiring")
  /\ probes < MaxProbes
  /\ probes' = probes + 1
  /\ UNCHANGED <<module, held, queues, remoteAlive, left, listVars, jackVars>>

(* The next resource is acquired, up to the mappings. *)
Acquire ==
  /\ pc = "acquiring"
  /\ \E i \in DOMAIN Acquired :
       /\ held = {Acquired[j] : j \in 1 .. i - 1}
       /\ held' = held \union {Acquired[i]}
       /\ remoteAlive' = (remoteAlive /\ Acquired[i] # "chardev")
       /\ pc' = IF i = Len(Acquired) THEN "transport" ELSE pc
  /\ UNCHANGED <<module, probes, queues, left, listVars, jackVars>>

(* t2audio_bce_init.  Queues of the same names cannot be created twice:    *)
(* the T2 accepts only the first audio probe after t2bce_core is loaded    *)
(* (README.md), and nothing destroys the queues of an earlier one.         *)
InitTransport ==
  /\ Goes("transport", "card")
  /\ ~queues
  /\ queues' = TRUE
  /\ UNCHANGED <<module, probes, held, remoteAlive, left, listVars, jackVars>>

NewCard ==
  /\ Goes("card", "greeting")
  /\ held' = held \union {"card"}
  /\ UNCHANGED <<module, probes, queues, remoteAlive, left, listVars,
                 jackVars>>

(* The list of the subdevices and the jack go; a work that is left runs on *)
(* freed memory, and what it does there is no more the driver's.           *)
Forget ==
  /\ todo' = <<>>
  /\ listed' = <<>>
  /\ bufId' = NoNumbers
  /\ buffered' = {}
  /\ jack' = FALSE
  /\ work' = [w \in Works |-> IdleWork]
  /\ notices' = 0
  /\ UNCHANGED <<module, probes, remoteAlive, bs, reported, probeAnswer,
                 t2JackVars, ghosts>>

(* The points of the probe that have a way to fail. *)
Fallible == {"acquiring", "transport", "card", "greeting", "waiting", "buffers",
             "access", "registering"}

(* Mutant: fail_snd is taken for fail, and the card is not freed. *)
AllButTheCard == Resources \ {"card"}

(* What the labels "fail_snd" and "fail" give back of what is held. *)
ReleasedOnFailure == Resources

(* What neither a failure nor a remove gives back: t2audio_resume_complete *)
(* stays the callback of the client that is put, with the device structure *)
(* that is freed (t2audio_pm_ops do not stay); and the buffers of the host *)
(* streams, for dma_free_coherent is never called.                         *)
NeverReleased ==
  {x \in {"callback"} : "client" \in held} \union
  {x \in {"buffers"} : buffered # {}}

(* A step of the probe fails.  Queues that were created stay, the first    *)
(* one also when the second could not be; the device structure is freed    *)
(* and the subdevices in its list are not, so that nothing refers to them. *)
ProbeFails ==
  /\ pc \in Fallible
  /\ pc' = "unbound"
  /\ held' = held \ ReleasedOnFailure
  /\ left' = left \union NeverReleased \union
               {x \in {"subdevices"} : listed # <<>>}
  /\ Forget
  /\ \/ UNCHANGED queues
     \/ pc = "transport" /\ queues' = TRUE

(* t2audio_remove gives back the subdevices too, but not the queues.       *)
UnbindDriver ==
  /\ Goes("bound", "unbound")
  /\ held' = {}
  /\ left' = left \union NeverReleased
  /\ Forget
  /\ UNCHANGED queues

-----------------------------------------------------------------------------
(* t2audio_init_cmd and t2audio_init_dev. *)

(* The alive notification is sent. *)
Greet ==
  /\ Goes("greeting", "waiting")
  /\ UNCHANGED <<resourceVars, listVars, jackVars>>

(* This probe has queues. *)
Connected ==
  pc \notin {"unloaded", "loading", "unbound", "acquiring", "transport"}

(* T2AUDIO_MSG_NOTIFICATION_ALIVE: complete_all.  (A boot notification is  *)
(* answered with another alive notification, and changes nothing here.)    *)
AliveComes ==
  /\ Connected
  /\ ~remoteAlive
  /\ remoteAlive' = TRUE
  /\ UNCHANGED <<pc, module, probes, held, queues, left, listVars, jackVars>>

(* wait_for_completion_timeout succeeds, and the device list is got. *)
GetDeviceList ==
  /\ Goes("waiting", "listing")
  /\ remoteAlive
  /\ Contract!Got
  /\ UNCHANGED <<resourceVars, bsVars, jackVars>>

(* t2audio_init_dev for the next device: its uid or a stream list cannot   *)
(* be had, and it is left out;                                             *)
SkipDevice ==
  /\ pc = "listing"
  /\ Contract!Skip
  /\ UNCHANGED <<pc, resourceVars, bsVars, jackVars>>

ListNext ==
  /\ Contract!List
  /\ UNCHANGED bsVars

(* it has no jack, and is listed; *)
ListDevice ==
  /\ pc = "listing"
  /\ todo # <<>>
  /\ Head(todo) # JackDevice
  /\ ListNext
  /\ UNCHANGED <<pc, resourceVars, jackVars>>

(* or it has one: snd_jack_new, *)
NewJack ==
  /\ Goes("listing", "listening")
  /\ todo # <<>>
  /\ Head(todo) = JackDevice
  /\ jack' \in BOOLEAN
  /\ reported' = FALSE
  /\ UNCHANGED <<resourceVars, listVars, probeAnswer, workVars, t2JackVars,
                 ghosts>>

(* Mutant: the T2 is asked to announce changes last. *)
ListenLast ==
  \/ /\ Goes("listening", "asking")
     /\ UNCHANGED <<resourceVars, listVars, jackVars>>
  \/ /\ Goes("linking", "linking")
     /\ listening' = TRUE
     /\ UNCHANGED <<resourceVars, listVars, hostJackVars, workVars, plugged,
                    plugs, ghosts>>

(* t2audio_cmd_property_listener, which may fail without a word, *)
ListenToJack ==
  /\ Goes("listening", IF jack THEN "asking" ELSE "linking")
  /\ listening' \in {listening, TRUE}
  /\ UNCHANGED <<resourceVars, listVars, hostJackVars, workVars, plugged, plugs,
                 ghosts>>

(* What the T2 answers when asked for the state of the jack. *)
Answer == [plugged |-> plugged, no |-> asks + 1]

(* t2audio_handle_jack_connection_change, *)
AskJack ==
  /\ Goes("asking", "reporting")
  /\ probeAnswer' = Answer
  /\ asks' = asks + 1
  /\ missed' = FALSE
  /\ UNCHANGED <<resourceVars, listVars, jack, reported, workVars, t2JackVars,
                 lastReport>>

(* perhaps in vain, *)
AskJackFails ==
  /\ Goes("asking", "linking")
  /\ missed' = TRUE
  /\ UNCHANGED <<resourceVars, listVars, hostJackVars, workVars, t2JackVars,
                 asks, lastReport>>

ReportJack ==
  /\ Goes("reporting", "linking")
  /\ reported' = probeAnswer.plugged
  /\ lastReport' = probeAnswer.no
  /\ UNCHANGED <<resourceVars, listVars, jack, probeAnswer, workVars,
                 t2JackVars, asks, missed>>

(* and only then is the subdevice listed. *)
ListJackDevice ==
  /\ Goes("linking", "listing")
  /\ ListNext
  /\ UNCHANGED <<resourceVars, jackVars>>

-----------------------------------------------------------------------------
(* t2audio_init_bs and the end of the probe. *)
AllListed ==
  /\ Goes("listing", "buffers")
  /\ todo = <<>>
  /\ UNCHANGED <<resourceVars, listVars, jackVars>>

(* The subdevices the T2 has no buffers for are named at the end, in their *)
(* order.                                                                  *)
AllNamed ==
  LET named[i \in 0 .. Len(listed)] ==
        IF i = 0 THEN bs
        ELSE IF listed[i] \in Range(bs) THEN named[i - 1]
        ELSE Append(named[i - 1], listed[i])
  IN  named[Len(listed)]

(* Mutant: a new device is numbered after the count was raised. *)
PlaceAfter(names, d) ==
  LET i == CHOOSE j \in DOMAIN names : names[j] = d
  IN  IF i <= Len(bs) THEN i - 1 ELSE i

(* The place of a name, counted from zero. *)
Place(names, d) == (CHOOSE j \in DOMAIN names : names[j] = d) - 1

(* A subdevice gets the place the T2 has given its name, or a new one at   *)
(* the end; the host allocates the buffer of an input stream, if it can.   *)
(* (Address ranges that cannot be set are only logged.)                    *)
InitBufferStruct ==
  /\ Goes("buffers", "access")
  /\ bs' = AllNamed
  /\ bufId' = [d \in Devices |-> IF d \in Range(listed) THEN Place(bs', d)
                                                        ELSE NoBuffer]
  /\ buffered' \in SUBSET (HostDevices \intersect Range(listed))
  /\ UNCHANGED <<resourceVars, todo, listed, jackVars>>

(* t2audio_cmd_set_remote_access *)
SetRemoteAccess ==
  /\ Goes("access", "registering")
  /\ UNCHANGED <<resourceVars, listVars, jackVars>>

RegisterCard ==
  /\ Goes("registering", "bound")
  /\ UNCHANGED <<resourceVars, listVars, jackVars>>

-----------------------------------------------------------------------------
(* The jack and its works. *)

(* A plug goes in or out, and the T2 announces it if it was asked to. *)
JackChanges ==
  /\ plugs < MaxPlugs
  /\ plugs' = plugs + 1
  /\ plugged' = ~plugged
  /\ notices' = IF listening /\ Connected THEN notices + 1 ELSE notices
  /\ UNCHANGED <<pc, resourceVars, listVars, hostJackVars, work, listening,
                 ghosts>>

WorkGoes(w, from, to) ==
  /\ work[w].at = from
  /\ work' = [work EXCEPT ![w] = to]
  /\ UNCHANGED <<pc, resourceVars, listVars, t2JackVars>>

(* t2audio_handle_prop_change schedules a work. *)
ScheduleWork(w) ==
  /\ WorkGoes(w, "idle", [IdleWork EXCEPT !.at = "finding"])
  /\ notices > 0
  /\ notices' = notices - 1
  /\ UNCHANGED <<hostJackVars, ghosts>>

(* There is no memory for the announcement. *)
LosesNotice ==
  /\ notices > 0
  /\ notices' = notices - 1
  /\ missed' = TRUE
  /\ UNCHANGED <<pc, resourceVars, listVars, hostJackVars, work, t2JackVars,
                 asks, lastReport>>

(* t2audio_handle_prop_change_work: "device not found" *)
FindsNone(w) ==
  /\ WorkGoes(w, "finding", IdleWork)
  /\ JackDevice \notin Range(listed)
  /\ missed' = TRUE
  /\ UNCHANGED <<hostJackVars, notices, asks, lastReport>>

(* It is found, and asked if it has a jack here, *)
FindsDevice(w) ==
  /\ WorkGoes(w, "finding", IF jack THEN [IdleWork EXCEPT !.at = "asking"]
                                    ELSE IdleWork)
  /\ JackDevice \in Range(listed)
  /\ UNCHANGED <<hostJackVars, notices, ghosts>>

(* answers, *)
Asks(w) ==
  /\ WorkGoes(w, "asking", [at |-> "reporting", answer |-> Answer])
  /\ asks' = asks + 1
  /\ missed' = FALSE
  /\ UNCHANGED <<hostJackVars, notices, lastReport>>

(* or does not, *)
AskFails(w) ==
  /\ WorkGoes(w, "asking", IdleWork)
  /\ missed' = TRUE
  /\ UNCHANGED <<hostJackVars, notices, asks, lastReport>>

(* and what it has answered is reported. *)
Reports(w) ==
  /\ WorkGoes(w, "reporting", IdleWork)
  /\ reported' = work[w].answer.plugged
  /\ lastReport' = work[w].answer.no
  /\ UNCHANGED <<jack, probeAnswer, notices, asks, missed>>

-----------------------------------------------------------------------------
ProbeStep ==
  \/ LoadModule \/ LoadFails \/ UnloadModule
  \/ ProbeBegins \/ Acquire \/ InitTransport \/ NewCard \/ ProbeFails
  \/ Greet \/ GetDeviceList
  \/ SkipDevice \/ ListDevice
  \/ NewJack \/ ListenToJack
  \/ AskJack \/ AskJackFails \/ ReportJack \/ ListJackDevice
  \/ AllListed \/ InitBufferStruct \/ SetRemoteAccess \/ RegisterCard

WorkStep(w) ==
  \/ ScheduleWork(w)
  \/ FindsNone(w) \/ FindsDevice(w)
  \/ Asks(w) \/ AskFails(w) \/ Reports(w)

Next ==
  \/ ProbeStep \/ UnbindDriver
  \/ AliveComes
  \/ JackChanges \/ LosesNotice
  \/ \E w \in Works : WorkStep(w)

Spec == Init /\ [][Next]_vars

-----------------------------------------------------------------------------
Points == Fallible \union {"unloaded", "loading", "unbound", "listing",
                           "listening", "asking", "reporting", "linking",
                           "bound"}

Answers == [plugged : BOOLEAN, no : Nat]

Names == Devices \union UNION {Range(b) : b \in Published}

TypeOK ==
  /\ pc \in Points
  /\ probes \in Nat /\ notices \in Nat /\ plugs \in Nat
  /\ asks \in Nat /\ lastReport \in Nat
  /\ held \subseteq Resources
  /\ module \subseteq Range(ModuleAcquired)
  /\ left \subseteq {"callback", "buffers", "subdevices"}
  /\ queues \in BOOLEAN /\ remoteAlive \in BOOLEAN
  /\ jack \in BOOLEAN /\ reported \in BOOLEAN /\ listening \in BOOLEAN
  /\ plugged \in BOOLEAN /\ missed \in BOOLEAN
  /\ todo \in Seq(Devices)
  /\ listed \in Seq(Devices)
  /\ bs \in Seq(Names)
  /\ bufId \in [Devices -> Nat]
  /\ buffered \subseteq Devices
  /\ probeAnswer \in Answers
  /\ work \in [Works -> [at : {"idle", "finding", "asking", "reporting"},
                         answer : Answers]]

(* Whatever step of the probe has failed, a driver that is not bound holds *)
(* nothing of Resources (the labels "fail" and "fail_snd" of t2audio_probe *)
(* and t2audio_remove), and one that is not loaded nothing at all.         *)
NothingHeld ==
  /\ pc \in {"unloaded", "loading", "unbound"} => held = {}
  /\ pc = "unloaded" => module = {}
  /\ held # {} => module = Range(ModuleAcquired)

(* The memory a probe can leave behind. *)
Memory == {"buffers", "subdevices"}

(* What is left behind is not held: a callback, from the client on, and    *)
(* memory, the buffers of the host streams and the subdevices of a probe   *)
(* that had listed some.  Memory is lost once: a probe that has left some  *)
(* has left its queues, with which the T2 refuses every later one.         *)
LeftOnce ==
  /\ left \intersect Memory # {} => queues /\ ~Connected
  /\ left # {} => "callback" \in left
  /\ buffered # {} => pc \in {"access", "registering", "bound"}

(* A probe that lists devices has queues, without it none are listed, and  *)
(* there is no jack; the BufferStruct names nobody twice.                  *)
ProbeInv ==
  /\ pc \notin {"unloaded", "loading"} => module = Range(ModuleAcquired)
  /\ pc \notin {"unloaded", "loading", "unbound", "acquiring"}
       => "client" \in held
  /\ IF Connected THEN queues ELSE listed = <<>> /\ ~jack
  /\ IsInjective(bs)

(* Whoever has an answer it has not reported, the probe or a work. *)
Unreported ==
  {work[w].answer : w \in {v \in Works : work[v].at = "reporting"}} \union
  {a \in {probeAnswer} : pc = "reporting"}

(* The T2 will be asked once more, or should have been. *)
ToBeAsked ==
  \/ notices > 0 \/ missed
  \/ \E w \in Works : work[w].at \in {"finding", "asking"}

(* Unless the T2 will be asked again, its last answer is true of the jack  *)
(* now, be it still to be reported or reported last; the others are older. *)
LastAnswerInv ==
  /\ lastReport <= asks
  /\ \A a \in Unreported : a.no <= asks
  /\ jack /\ pc \notin {"listening", "asking"} /\ listening /\ ~ToBeAsked =>
       /\ \A a \in Unreported : a.no = asks => a.plugged = plugged
       /\ lastReport = asks => reported = plugged

IInv ==
  /\ TypeOK
  /\ NothingHeld
  /\ LeftOnce
  /\ ProbeInv
  /\ LastAnswerInv

(* The devices are listed once each, and every subdevice of a bound driver *)
(* has the place of the BufferStruct that bears its name, alone, whatever  *)
(* the T2 has published itself (t2audio_init_bs).                          *)
BuffersNamed ==
  /\ IsInjective(listed \o todo)
  /\ pc \in {"access", "registering", "bound"} =>
       /\ IsInjective(bs)
       /\ \A d \in Range(listed) :
            bufId[d] + 1 \in DOMAIN bs /\ bs[bufId[d] + 1] = d

(* The jack works have come to rest: no change waits to be handled, none   *)
(* was missed, and the answer reported last is the last one given.         *)
JackAtRest ==
  /\ notices = 0
  /\ \A w \in Works : work[w].at = "idle"
  /\ ~missed
  /\ lastReport = asks

(* When they have, ALSA shows the state of the T2's jack, although changes *)
(* come while the probe has not listed the device yet, and works handle    *)
(* them side by side.  (A change the T2 announced before the device was    *)
(* listed is missed, and works may report in another order than the T2     *)
(* answered them; JackAtRest leaves both out.)                             *)
JackFollows ==
  (pc = "bound" /\ jack /\ listening /\ JackAtRest) => reported = plugged
=============================================================================
