---------------------------- MODULE Enumeration ----------------------------
(***************************************************************************)
(* How t2audio_init_cmd and t2audio_init_dev (audio.c) ask the T2 for its  *)
(* audio devices and their streams, with the commands of protocol.c, and   *)
(* what becomes of the buffers the replies are copied to                   *)
(* (t2audio_reply_alloc, t2audio_handle_reply).  Other threads send        *)
(* commands of their own meanwhile, and any command may fail.              *)
(*                                                                         *)
(* A buffer holds words; the first says what the reply is a response to,   *)
(* and the others follow in the order the readers of protocol.c take them. *)
(* A call that gets a reply gets its own (CommandRpc, while the tags have  *)
(* not come round).                                                        *)
(***************************************************************************)
EXTENDS Naturals, Sequences, FiniteSets, SequencesExt

CONSTANTS
  Buffers,     \* the addresses kmalloc may give
  Prober,      \* the thread that probes
  Workers,     \* the other threads: works, and users of the streams
  Said,        \* the devices of the T2, in the order of its list
  Words        \* the size of a buffer

ASSUME ProberAssumption == Prober \notin Workers
ASSUME WordsAssumption ==
  Words \in Nat /\ Words >= 5 /\ Words >= 2 + Len(Said)

None == "none"      \* no device, object, property, value or buffer

ASSUME BuffersAssumption == None \notin Buffers

(* The names of devices and streams. *)
Names ==
  UNION {{d.id, d.uid} \union Range(d.ins) \union Range(d.outs) \union d.linear :
           d \in Range(Said)}

(* A device is on the list once, and has a name of its own. *)
ASSUME SaidAssumption ==
  /\ Said \in Seq([id : Names, uid : Names, ins : Seq(Names),
                   outs : Seq(Names), linear : SUBSET Names])
  /\ \A i, j \in DOMAIN Said : i # j =>
       Said[i].id # Said[j].id /\ Said[i].uid # Said[j].uid

VARIABLES
  padded,      \* the T2 makes all its replies equally long
  mem,         \* what the buffers hold, and the size their owners know of
  allocated,   \* the buffers that are allocated
  leaked,      \* those of commands that failed before they freed them
  call,        \* the command a thread waits for
  at,          \* where the prober is
  devI,        \* devices of the list the prober is through with
  devCnt,      \* dev_cnt
  listBuf,     \* the buffer of t2audio_init_cmd, which holds the list
  devBuf,      \* the buffer of t2audio_init_dev
  sdev,        \* the subdevice t2audio_init_dev makes
  listed,      \* a->subdevice_list
  nextAlsaId   \* a->next_alsa_id

heapVars == <<mem, allocated>>
proberVars == <<at, devI, devCnt, listBuf, devBuf, sdev, listed, nextAlsaId>>
vars == <<padded, heapVars, leaked, call, proberVars>>

Threads == {Prober} \union Workers

-----------------------------------------------------------------------------
(* The commands of protocol.c. *)
Command(msg, dev, obj, prop) ==
  [msg |-> msg, dev |-> dev, obj |-> obj, prop |-> prop]

GetDeviceList == Command("GET_DEVICE_LIST", None, None, None)
GetInputStreamList(dev) == Command("GET_INPUT_STREAM_LIST", dev, None, None)
GetOutputStreamList(dev) == Command("GET_OUTPUT_STREAM_LIST", dev, None, None)
GetProperty(dev, obj, prop) == Command("GET_PROPERTY", dev, obj, prop)
PropertyListener(dev, prop) == Command("PROPERTY_LISTENER", dev, dev, prop)
StartIo(dev) == Command("START_IO", dev, None, None)
StopIo(dev) == Command("STOP_IO", dev, None, None)
SetAddressRanges(dev) ==
  Command("SET_INPUT_STREAM_ADDRESS_RANGES", dev, None, None)
SetRemoteAccess == Command("SET_REMOTE_ACCESS", None, None, None)

(* t2audio_cmd_get_primitive_property; the uid is got without it. *)
IsPrimitive(c) == c.msg = "GET_PROPERTY" /\ c.prop # "uid"

Idle == [at |-> "idle", cmd |-> GetDeviceList, buf |-> None]

-----------------------------------------------------------------------------
(* What the T2 may reply. *)
ASize == 1          \* the size a value of that property has; a uid that fits
Sizes == {1, 2}

Device(id) == CHOOSE d \in Range(Said) : d.id = id

Counted(c, list) == <<c.msg, Len(list)>> \o list

ValueOf(c) ==
  IF c.prop = "uid" THEN Device(c.dev).uid
  ELSE IF c.prop = "format" /\ c.obj \in Device(c.dev).linear THEN "lpcm"
  ELSE None

HasProperty(c) ==
  \/ c.obj = c.dev
  \/ c.obj \in Range(Device(c.dev).ins) \union Range(Device(c.dev).outs)

Response(c) ==
  CASE c.msg = "GET_DEVICE_LIST" ->
         {Counted(c, [i \in DOMAIN Said |-> Said[i].id])}
    [] c.msg = "GET_INPUT_STREAM_LIST" -> {Counted(c, Device(c.dev).ins)}
    [] c.msg = "GET_OUTPUT_STREAM_LIST" -> {Counted(c, Device(c.dev).outs)}
    [] c.msg = "GET_PROPERTY" ->
         {<<c.msg, c.obj, c.prop, n, ValueOf(c)>> :
            n \in {m \in Sizes : HasProperty(c)}}
    [] OTHER -> {<<c.msg>>}

(* The T2 may answer with something else, too. *)
Plain(c) == Response(c) \union {<<"REFUSED">>}

Replies(c) ==
  IF padded THEN {r \o [i \in 1 .. Words - Len(r) |-> None] : r \in Plain(c)}
            ELSE Plain(c)

-----------------------------------------------------------------------------
(* Memory. *)
Blank == [size |-> Words, data |-> [i \in 1 .. Words |-> None], cut |-> FALSE]

(* t2audio_reply_alloc; what is in the memory is arbitrary. *)
Alloc(b) ==
  /\ b \in Buffers \ allocated
  /\ allocated' = allocated \union {b}

(* t2audio_reply_free *)
Free(b) ==
  /\ allocated' = allocated \ {b}
  /\ mem' = [mem EXCEPT ![b] = Blank]

(* t2audio_handle_reply: the size a buffer is known to have never grows    *)
(* again, and what the reply does not reach stays.                         *)
Copied(m, reply) ==
  LET size == IF Len(reply) < m.size THEN Len(reply) ELSE m.size IN
    [size |-> size,
     cut |-> Len(reply) > m.size,
     data |-> [i \in 1 .. Words |-> IF i <= size THEN reply[i] ELSE m.data[i]]]

-----------------------------------------------------------------------------
(* A call. *)
Waits(t, c, b) ==
  /\ call[t].at = "idle"
  /\ call' = [call EXCEPT ![t] = [at |-> "waiting", cmd |-> c, buf |-> b]]

HandleReply(t) ==
  /\ call[t].at = "waiting"
  /\ call' = [call EXCEPT ![t].at = "answered"]
  /\ \E r \in Replies(call[t].cmd) :
       mem' = [mem EXCEPT ![call[t].buf] = Copied(@, r)]
  /\ UNCHANGED <<padded, allocated, leaked, proberVars>>

(* It could not be sent, or times out; the reply may come at the last      *)
(* moment, and is copied then.                                             *)
CallFails(t) ==
  /\ call[t].at = "waiting"
  /\ call' = [call EXCEPT ![t].at = "failed"]
  /\ \/ UNCHANGED mem
     \/ \E r \in Replies(call[t].cmd) :
          mem' = [mem EXCEPT ![call[t].buf] = Copied(@, r)]
  /\ UNCHANGED <<padded, allocated, leaked, proberVars>>

(* The readers take words one after the other. *)
Data(b) == mem[b].data
CountIn(b) == Data(b)[2]
IdIn(b, i) == Data(b)[i + 2]
PropertyIn(b) == [obj |-> Data(b)[2], prop |-> Data(b)[3],
                  size |-> Data(b)[4], value |-> Data(b)[5]]

(* READ_START, and the size of a primitive property. *)
Understood(c, b) ==
  /\ Data(b)[1] = c.msg
  /\ IsPrimitive(c) => PropertyIn(b).size = ASize

(* t2audio_send_cmd_sync and the reader succeed, *)
Succeeds(t) == call[t].at = "answered" /\ Understood(call[t].cmd, call[t].buf)

(* or they do not. *)
Ends(t) == call[t].at \in {"answered", "failed"}

(* Mutant: every error returns before the buffer is freed. *)
LosesAny(t) == ~Succeeds(t)

(* CMD_SEND_REQUEST returns before CMD_HNDL_REPLY_AND_FREE can free; the   *)
(* label "finish" of a primitive property is always reached.               *)
LosesBuffer(t) == call[t].at = "failed" /\ ~IsPrimitive(call[t].cmd)

(* A command with a buffer of its own: it is sent,                         *)
AskWithOwn(t, c) ==
  \E b \in Buffers : Alloc(b) /\ Waits(t, c, b) /\ UNCHANGED <<mem, leaked>>

(* and ends.                                                               *)
OwnEnds(t) ==
  /\ Ends(t)
  /\ call' = [call EXCEPT ![t] = Idle]
  /\ IF LosesBuffer(t) THEN UNCHANGED heapVars ELSE Free(call[t].buf)
  /\ leaked' = IF call[t].at = "failed" /\ call[t].cmd.msg # "GET_PROPERTY"
               THEN leaked \union {call[t].buf}
               ELSE leaked

(* CMD_HNDL_REPLY_NO_FREE: the buffer is the caller's. *)
HandedEnds(t) == Ends(t) /\ call' = [call EXCEPT ![t] = Idle]

-----------------------------------------------------------------------------
(* t2audio_init_cmd. *)
NewSdev(id) ==
  [id |-> id, uid |-> None, ins |-> <<>>, outs |-> <<>>, isPcm |-> FALSE,
   alsaId |-> 0, pcm |-> FALSE, cut |-> FALSE]

Init ==
  /\ padded \in BOOLEAN
  /\ mem = [b \in Buffers |-> Blank]
  /\ allocated = {}
  /\ leaked = {}
  /\ call = [t \in Threads |-> Idle]
  /\ at = "start"
  /\ devI = 0
  /\ devCnt = 0
  /\ listBuf = None
  /\ devBuf = None
  /\ sdev = NewSdev(None)
  /\ listed = <<>>
  /\ nextAlsaId = 100

Goes(from, to) == at = from /\ at' = to

AskForList ==
  /\ Goes("start", "list")
  /\ listBuf' \in Buffers
  /\ Alloc(listBuf')
  /\ Waits(Prober, GetDeviceList, listBuf')
  /\ UNCHANGED <<padded, mem, leaked, devI, devCnt, devBuf, sdev, listed,
                 nextAlsaId>>

(* Mutant: the list is given back before it is gone through. *)
ListFreed ==
  /\ HandedEnds(Prober)
  /\ Goes("list", IF Succeeds(Prober) THEN "next" ELSE "failed")
  /\ devCnt' = IF Succeeds(Prober) THEN CountIn(listBuf) ELSE 0
  /\ Free(listBuf)
  /\ UNCHANGED <<padded, leaked, devI, listBuf, devBuf, sdev, listed,
                 nextAlsaId>>

ListComes ==
  /\ HandedEnds(Prober)
  /\ IF Succeeds(Prober)
     THEN /\ Goes("list", "next")
          /\ devCnt' = CountIn(listBuf)
          /\ UNCHANGED <<heapVars, listBuf>>
     ELSE /\ Goes("list", "failed")
          /\ Free(listBuf)
          /\ listBuf' = None
          /\ UNCHANGED devCnt
  /\ UNCHANGED <<padded, leaked, devI, devBuf, sdev, listed, nextAlsaId>>

(* dev_l[dev_i], which is still in the buffer of the list. *)
NextDevice ==
  /\ Goes("next", "uid")
  /\ devI < devCnt
  /\ devBuf' \in Buffers
  /\ Alloc(devBuf')
  /\ sdev' = NewSdev(IdIn(listBuf, devI + 1))
  /\ UNCHANGED <<padded, mem, leaked, call, devI, devCnt, listBuf, listed,
                 nextAlsaId>>

AllDevices ==
  /\ Goes("next", "done")
  /\ devI = devCnt
  /\ Free(listBuf)
  /\ listBuf' = None
  /\ UNCHANGED <<padded, leaked, call, devI, devCnt, devBuf, sdev, listed,
                 nextAlsaId>>

-----------------------------------------------------------------------------
(* t2audio_init_dev and t2audio_init_stream_info.                          *)

(* The points with a command that is handed devBuf, and those with one     *)
(* that has a buffer of its own.                                           *)
HandedPoints == {"uid", "ins", "outs"}
OwnPoints == {"inLatency", "outLatency", "inFormat", "inStreamLatency",
              "outFormat", "outStreamLatency", "listener", "jack"}

Asked ==
  CASE at = "uid" -> GetProperty(sdev.id, sdev.id, "uid")
    [] at \in {"inLatency", "outLatency"} ->
         GetProperty(sdev.id, sdev.id, "latency")
    [] at = "ins" -> GetInputStreamList(sdev.id)
    [] at = "inFormat" -> GetProperty(sdev.id, sdev.ins[1], "format")
    [] at = "inStreamLatency" -> GetProperty(sdev.id, sdev.ins[1], "latency")
    [] at = "outs" -> GetOutputStreamList(sdev.id)
    [] at = "outFormat" -> GetProperty(sdev.id, sdev.outs[1], "format")
    [] at = "outStreamLatency" -> GetProperty(sdev.id, sdev.outs[1], "latency")
    [] at = "listener" -> PropertyListener(sdev.id, "jack")
    [] at = "jack" -> GetProperty(sdev.id, sdev.id, "jack")

(* Where the prober goes from a point, with the subdevice as it is then.   *)
(* (A jack that could not be made is not asked for.)                       *)
After(from, s) ==
  CASE from = "uid" -> {"inLatency"}
    [] from = "inLatency" -> {"outLatency"}
    [] from = "outLatency" -> {"ins"}
    [] from = "ins" -> IF s.ins = <<>> THEN {"outs"} ELSE {"inFormat"}
    [] from = "inFormat" -> {"inStreamLatency"}
    [] from = "inStreamLatency" -> {"outs"}
    [] from = "outs" -> IF s.outs = <<>> THEN {"pcm"} ELSE {"outFormat"}
    [] from = "outFormat" -> {"outStreamLatency"}
    [] from = "outStreamLatency" -> {"pcm"}
    [] from = "pcm" ->
         IF s.uid = "Codec Output" THEN {"listener"} ELSE {"link"}
    [] from = "listener" -> {"jack", "link"}
    [] from = "jack" -> {"link"}

AskHanded ==
  /\ at \in HandedPoints
  /\ Waits(Prober, Asked, devBuf)
  /\ UNCHANGED <<padded, heapVars, leaked, proberVars>>

AskOwn ==
  /\ at \in OwnPoints
  /\ AskWithOwn(Prober, Asked)
  /\ UNCHANGED <<padded, proberVars>>

(* The label "fail": the device is left out. *)
DropDevice ==
  /\ at' = "next"
  /\ Free(devBuf)
  /\ devBuf' = None
  /\ devI' = devI + 1
  /\ sdev' = NewSdev(None)

(* T2AUDIO_DEVICE_MAX_INPUT_STREAMS, T2AUDIO_DEVICE_MAX_OUTPUT_STREAMS *)
MaxStreams == 1

(* The first stream_cnt of the streams of a list. *)
StreamsIn(b) ==
  LET cnt == IF CountIn(b) < MaxStreams THEN CountIn(b) ELSE MaxStreams IN
    [i \in 1 .. cnt |-> IdIn(b, i)]

(* What a reply in devBuf makes of the subdevice. *)
WithReply(s) ==
  CASE at = "uid" -> [s EXCEPT !.uid = PropertyIn(devBuf).value]
    [] at = "ins" -> [s EXCEPT !.ins = StreamsIn(devBuf),
                               !.cut = @ \/ mem[devBuf].cut]
    [] at = "outs" -> [s EXCEPT !.outs = StreamsIn(devBuf),
                                !.cut = @ \/ mem[devBuf].cut]

(* uid_len > T2AUDIO_DEVICE_MAX_UID_LEN *)
TooLong == at = "uid" /\ PropertyIn(devBuf).size > ASize

HandedReplyComes ==
  /\ at \in HandedPoints
  /\ HandedEnds(Prober)
  /\ IF Succeeds(Prober) /\ ~TooLong
     THEN /\ sdev' = WithReply(sdev)
          /\ at' \in After(at, sdev')
          /\ UNCHANGED <<heapVars, devI, devBuf>>
     ELSE DropDevice
  /\ UNCHANGED <<padded, leaked, devCnt, listBuf, listed, nextAlsaId>>

(* A property of a device or a stream that cannot be had is done without.  *)
(* (strm->desc is zero then, which is no format.)                          *)
OwnReplyComes ==
  /\ at \in OwnPoints
  /\ OwnEnds(Prober)
  /\ sdev' = [sdev EXCEPT !.isPcm = @ \/
       (at \in {"inFormat", "outFormat"} /\ Succeeds(Prober)
          /\ PropertyIn(call[Prober].buf).value = "lpcm")]
  /\ at' \in After(at, sdev')
  /\ UNCHANGED <<padded, devI, devCnt, listBuf, devBuf, listed, nextAlsaId>>

(* t2audio_alsa_id_mappings *)
AlsaIds == <<"Speaker", "Digital Mic", "Codec Output", "Codec Input",
             "Bridge Loopback">>

(* Mutant: a number is taken, and not counted. *)
NumberedAlike(uid) ==
  IF uid \in Range(AlsaIds)
  THEN [id |-> (CHOOSE i \in DOMAIN AlsaIds : AlsaIds[i] = uid) - 1,
        next |-> nextAlsaId]
  ELSE [id |-> nextAlsaId, next |-> nextAlsaId]

AlsaId(uid) ==
  IF uid \in Range(AlsaIds)
  THEN [id |-> (CHOOSE i \in DOMAIN AlsaIds : AlsaIds[i] = uid) - 1,
        next |-> nextAlsaId]
  ELSE [id |-> nextAlsaId, next |-> nextAlsaId + 1]

(* t2audio_create_pcm, whose snd_pcm_new may fail. *)
CreatePcm ==
  /\ at = "pcm"
  /\ IF sdev.isPcm
     THEN \E made \in BOOLEAN :
            /\ sdev' = [sdev EXCEPT !.alsaId = AlsaId(sdev.uid).id,
                                    !.pcm = made]
            /\ nextAlsaId' = AlsaId(sdev.uid).next
     ELSE UNCHANGED <<sdev, nextAlsaId>>
  /\ at' \in After(at, sdev)
  /\ UNCHANGED <<padded, heapVars, leaked, call, devI, devCnt, listBuf, devBuf,
                 listed>>

(* list_add_tail *)
ListDevice ==
  /\ Goes("link", "next")
  /\ Free(devBuf)
  /\ devBuf' = None
  /\ devI' = devI + 1
  /\ listed' = Append(listed, sdev)
  /\ sdev' = NewSdev(None)
  /\ UNCHANGED <<padded, leaked, call, devCnt, listBuf, nextAlsaId>>

-----------------------------------------------------------------------------
(* The other threads: a work asks for the jack of a device that is listed; *)
(* when all are listed, the buffers are made known, and the access and the *)
(* I/O may be switched.                                                    *)
WorkerCommands ==
  UNION {
    {GetProperty(s.id, s.id, "jack")} \union
    (IF at = "done"
     THEN {SetAddressRanges(s.id), StartIo(s.id), StopIo(s.id), SetRemoteAccess}
     ELSE {}) : s \in Range(listed)}

WorkerAsks(w) ==
  /\ \E c \in WorkerCommands : AskWithOwn(w, c)
  /\ UNCHANGED <<padded, proberVars>>

WorkerEnds(w) ==
  /\ OwnEnds(w)
  /\ UNCHANGED <<padded, proberVars>>

-----------------------------------------------------------------------------
Probe ==
  \/ AskForList \/ ListComes
  \/ NextDevice \/ AllDevices
  \/ AskHanded \/ HandedReplyComes
  \/ AskOwn \/ OwnReplyComes
  \/ CreatePcm \/ ListDevice

Next ==
  \/ Probe
  \/ \E w \in Workers : WorkerAsks(w) \/ WorkerEnds(w)
  \/ \E t \in Threads : HandleReply(t) \/ CallFails(t)

Spec == Init /\ [][Next]_vars

-----------------------------------------------------------------------------
TypeOK ==
  /\ padded \in BOOLEAN
  /\ allocated \subseteq Buffers
  /\ leaked \subseteq Buffers
  /\ \A b \in Buffers : mem[b].size \in 1 .. Words /\ Len(Data(b)) = Words
  /\ \A t \in Threads : call[t].at \in {"idle", "waiting", "answered", "failed"}
  /\ at \in HandedPoints \union OwnPoints \union
            {"start", "list", "next", "pcm", "link", "done", "failed"}
  /\ {listBuf, devBuf} \subseteq Buffers \union {None}
  /\ nextAlsaId \in Nat

(* The buffers the prober has not given back. *)
ProberHolds == {listBuf, devBuf} \ {None}

(* Those of commands with a buffer of their own. *)
OwnCalls == {t \in Threads : /\ call[t].at # "idle"
                             /\ t # Prober \/ at \in OwnPoints}
OwnBufs == {call[t].buf : t \in OwnCalls}

(* No two have the same buffer, and none has one that is free: a reply is  *)
(* never copied to memory that is someone else's (t2audio_handle_reply     *)
(* copies to the buffer of a waiter whatever it is).                       *)
NoBufferShared ==
  /\ listBuf = devBuf => listBuf = None
  /\ \A t, u \in OwnCalls : call[t].buf = call[u].buf => t = u
  /\ OwnBufs \intersect ProberHolds = {}
  /\ (OwnBufs \union ProberHolds) \intersect leaked = {}

(* What is allocated is in use, but for what the early return of           *)
(* CMD_SEND_REQUEST leaves behind: no other path, of the dozen that end a  *)
(* command or a device, loses a buffer or frees one twice.                 *)
NothingElseLost == allocated = OwnBufs \union ProberHolds \union leaked

HeapInv == TypeOK /\ NoBufferShared /\ NothingElseLost

(* The parts of the inductive invariant.  The points of the prober at      *)
(* which it is with a device,                                              *)
DevicePoints == HandedPoints \union OwnPoints \union {"pcm", "link"}

(* what it holds there, and what it has asked;                             *)
HoldsInv ==
  /\ DOMAIN mem = Buffers /\ \A b \in Buffers : DOMAIN Data(b) = 1 .. Words
  /\ DOMAIN call = Threads
  /\ \A t \in Threads : DOMAIN call[t] = {"at", "cmd", "buf"}
  /\ \A t \in OwnCalls : call[t].buf \in Buffers
  /\ (listBuf = None) <=> (at \in {"start", "done", "failed"})
  /\ (devBuf = None) <=> (at \notin DevicePoints)

OwnMessages == {"GET_PROPERTY", "PROPERTY_LISTENER", "START_IO", "STOP_IO",
                "SET_INPUT_STREAM_ADDRESS_RANGES", "SET_REMOTE_ACCESS"}

AskedInv ==
  LET c == call[Prober] IN
    /\ c.at # "idle" => at \in {"list"} \union HandedPoints \union OwnPoints
    /\ at = "list" => c.at # "idle" /\ c.cmd = GetDeviceList /\ c.buf = listBuf
    /\ (at \in HandedPoints /\ c.at # "idle") => c.cmd = Asked /\ c.buf = devBuf
    /\ (at \in OwnPoints /\ c.at # "idle") => c.cmd = Asked
    /\ \A t \in OwnCalls :
         call[t].cmd.msg \in OwnMessages /\ call[t].cmd.prop # "uid"

(* what is in the buffer it waits for, or holds,                           *)
BlankInv ==
  /\ \A b \in Buffers \ allocated : mem[b] = Blank
  /\ \A t \in OwnCalls : call[t].at = "waiting" => mem[call[t].buf] = Blank
  /\ (at = "list" /\ call[Prober].at = "waiting") => mem[listBuf] = Blank
  /\ (at = "uid" /\ call[Prober].at \in {"idle", "waiting"}) => mem[devBuf] = Blank
  /\ (at \in DevicePoints /\ ~(at \in HandedPoints /\ Ends(Prober))) =>
       mem[devBuf].size >= 2

(* and what a reply has left there;                                        *)
Shows(b, reply) ==
  /\ Data(b)[1] = reply[1]
  /\ Len(reply) >= 2 => mem[b].size >= 2 /\ Data(b)[2] = reply[2]
  /\ ~mem[b].cut => \A i \in 1 .. Len(reply) : i <= Words /\ Data(b)[i] = reply[i]

AnsweredInv ==
  LET c == call[Prober] IN
    c.at = "answered" =>
      \E reply \in Plain(c.cmd) :
        /\ Shows(c.buf, reply)
        /\ (at \notin {"ins", "outs"} /\ Len(reply) <= Words) => ~mem[c.buf].cut

(* how far it has got with the list,                                       *)
ListInv ==
  /\ at \in {"start", "list", "failed"} => devI = 0 /\ devCnt = 0 /\ listed = <<>>
  /\ at \in {"next"} \union DevicePoints =>
       /\ devCnt = Len(Said)
       /\ \A i \in 1 .. Len(Said) : IdIn(listBuf, i) = Said[i].id
  /\ at = "done" => devI = devCnt
  /\ devCnt \in {0, Len(Said)} /\ devI \in 0 .. devCnt
  /\ at \in DevicePoints => devI < devCnt

FirstOf(list) == SubSeq(list, 1, IF Len(list) < MaxStreams THEN Len(list)
                                                           ELSE MaxStreams)

(* and what it knows of a device: before it has asked for them,            *)
InsUnknown == {"uid", "inLatency", "outLatency", "ins"}
OutsUnknown == InsUnknown \union {"inFormat", "inStreamLatency", "outs"}

(* and when they are known.                                                *)
InsAsSaid(s, d) == ~s.cut => s.ins = FirstOf(d.ins)
OutsAsSaid(s, d) == ~s.cut => s.outs = FirstOf(d.outs)

LinearAsSaid(s, d) ==
  s.isPcm => \/ s.ins # <<>> /\ s.ins[1] \in d.linear
             \/ s.outs # <<>> /\ s.outs[1] \in d.linear

IsSubdevice(s) ==
  /\ DOMAIN s = {"id", "uid", "ins", "outs", "isPcm", "alsaId", "pcm", "cut"}
  /\ \E n \in 0 .. MaxStreams : s.ins = [i \in 1 .. n |-> s.ins[i]]
  /\ \E n \in 0 .. MaxStreams : s.outs = [i \in 1 .. n |-> s.outs[i]]
  /\ {s.isPcm, s.pcm, s.cut} \subseteq BOOLEAN

SdevInv ==
  /\ IsSubdevice(sdev)
  /\ at \in DevicePoints =>
       LET d == Said[devI + 1] IN
         /\ sdev.id = d.id
         /\ at # "uid" => sdev.uid = d.uid
         /\ IF at \in InsUnknown THEN sdev.ins = <<>> /\ ~sdev.cut
                                  ELSE InsAsSaid(sdev, d)
         /\ IF at \in OutsUnknown THEN sdev.outs = <<>> ELSE OutsAsSaid(sdev, d)
         /\ at \in {"inFormat", "inStreamLatency"} => sdev.ins # <<>>
         /\ at \in {"outFormat", "outStreamLatency"} => sdev.outs # <<>>
         /\ LinearAsSaid(sdev, d)
  /\ at \in OutsUnknown \union {"outFormat", "outStreamLatency", "pcm"} => ~sdev.pcm

ListedInv ==
  /\ Len(listed) \in 0 .. devI /\ listed = [i \in 1 .. Len(listed) |-> listed[i]]
  /\ \A i \in DOMAIN listed : LET s == listed[i] IN
       /\ IsSubdevice(s)
       /\ \E k \in 1 .. devI : LET d == Said[k] IN
            /\ s.id = d.id /\ s.uid = d.uid
            /\ InsAsSaid(s, d) /\ OutsAsSaid(s, d) /\ LinearAsSaid(s, d)
       /\ \A j \in DOMAIN listed \ {i} : s.id # listed[j].id

(* A PCM has the number that goes with its name, or one that was counted,  *)
(* for it alone.                                                           *)
Numbered(s) ==
  IF s.uid \in Range(AlsaIds)
  THEN s.alsaId < 100 /\ s.alsaId + 1 \in DOMAIN AlsaIds
         /\ AlsaIds[s.alsaId + 1] = s.uid
  ELSE s.alsaId \in 100 .. nextAlsaId - 1

NumbersInv ==
  /\ nextAlsaId >= 100
  /\ sdev.pcm => Numbered(sdev)
  /\ \A i \in DOMAIN listed :
       listed[i].pcm =>
         /\ Numbered(listed[i])
         /\ (sdev.pcm /\ sdev.uid \notin Range(AlsaIds))
               => listed[i].alsaId # sdev.alsaId
         /\ \A j \in DOMAIN listed \ {i} :
              (listed[j].pcm /\ listed[i].uid \notin Range(AlsaIds))
                => listed[j].alsaId # listed[i].alsaId

IInv ==
  /\ HeapInv /\ HoldsInv /\ AskedInv
  /\ BlankInv /\ AnsweredInv
  /\ ListInv /\ SdevInv /\ ListedInv /\ NumbersInv

(* What is still to be gone through is read from the reply buffer of the   *)
(* list.                                                                   *)
Todo == [i \in 1 .. devCnt - devI |-> IdIn(listBuf, devI + i)]

Contract == INSTANCE DeviceList WITH
  Devices <- {Said[i].id : i \in DOMAIN Said},
  todo <- Todo,
  listed <- [i \in DOMAIN listed |-> listed[i].id]

(* The devices of the T2's list are gone through one by one, although the  *)
(* list is read from a reply buffer while dozens of replies are copied to  *)
(* others, calls time out, and other threads have buffers freed and        *)
(* allocated (t2audio_init_cmd).                                           *)
ListsInOrder == Contract!Spec

(* A listed device has the name and the streams the T2 has said it has,    *)
(* and has a PCM only if one of them is linear; no two PCMs have the same  *)
(* number: whatever of their commands had failed, nothing of one device or *)
(* of another reply is taken for theirs (t2audio_init_dev).  (But for the  *)
(* streams of a reply that was cut: the buffer of a device is used for     *)
(* three replies, and holds no more of one than of those before it.)       *)
ListedAsSaid ==
  \A i \in DOMAIN listed : LET s == listed[i] d == Device(s.id) IN
    /\ s.uid = d.uid
    /\ ~s.cut => s.ins = FirstOf(d.ins) /\ s.outs = FirstOf(d.outs)
    /\ s.isPcm => Range(s.ins \o s.outs) \intersect d.linear # {}
    /\ s.pcm => \A j \in DOMAIN listed \ {i} :
                  listed[j].pcm => listed[j].alsaId # s.alsaId
=============================================================================
