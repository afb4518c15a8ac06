------------------------- MODULE EnumerationProofs -------------------------
(***************************************************************************)
(* Proofs about Enumeration: no reply buffer is shared, lost or freed      *)
(* twice, whatever the other threads ask meanwhile; what is read from one  *)
(* is what the T2 has said, so that the devices are listed as they are     *)
(* said to be; and the list of devices is gone through as DeviceList says. *)
(***************************************************************************)
EXTENDS Enumeration, SequenceTheorems, FiniteSetTheorems, TLAPS

-----------------------------------------------------------------------------
(* What the T2 says. *)

LEMMA SaidTyped ==
  /\ Len(Said) \in Nat
  /\ DOMAIN Said = 1 .. Len(Said)
  /\ \A i \in DOMAIN Said :
       Said[i] \in [id : Names, uid : Names, ins : Seq(Names),
                    outs : Seq(Names), linear : SUBSET Names]
<1> DEFINE D == [id : Names, uid : Names, ins : Seq(Names),
                 outs : Seq(Names), linear : SUBSET Names]
<1>1. Said \in Seq(D) BY SaidAssumption
<1> HIDE DEF D
<1>2. Len(Said) \in Nat /\ DOMAIN Said = 1 .. Len(Said) BY <1>1, LenProperties
<1>3. \A i \in DOMAIN Said : Said[i] \in D
  BY <1>1, <1>2, ElementOfSeq
<1> QED BY <1>2, <1>3 DEF D

LEMMA DeviceSaid ==
  ASSUME NEW i \in DOMAIN Said
  PROVE  Device(Said[i].id) = Said[i]
<1>1. Said[i] \in Range(Said) BY DEF Range
<1>2. \A d \in Range(Said) : d.id = Said[i].id => d = Said[i]
  BY SaidAssumption DEF Range
<1>3. Device(Said[i].id) \in Range(Said) /\ Device(Said[i].id).id = Said[i].id
  BY <1>1 DEF Device
<1> QED BY <1>2, <1>3

LEMMA CountedSays ==
  ASSUME NEW c, NEW S, NEW list \in Seq(S)
  PROVE  /\ Len(Counted(c, list)) = 2 + Len(list)
         /\ DOMAIN Counted(c, list) = 1 .. Len(Counted(c, list))
         /\ Counted(c, list)[1] = c.msg
         /\ Counted(c, list)[2] = Len(list)
         /\ \A i \in 1 .. Len(list) : Counted(c, list)[i + 2] = list[i]
<1> DEFINE T == S \union {c.msg, Len(list)}
           two == <<c.msg, Len(list)>>
<1>1. two \in Seq(T) /\ Len(two) = 2 /\ two[1] = c.msg /\ two[2] = Len(list)
  OBVIOUS
<1>2. list \in Seq(T) BY SeqMonotonic, S \subseteq T
<1>3. Len(list) \in Nat BY LenProperties
<1>4. Counted(c, list) = two \o list BY DEF Counted
<1> HIDE DEF T, two
<1>5. /\ two \o list \in Seq(T)
      /\ Len(two \o list) = Len(two) + Len(list)
      /\ \A i \in 1 .. Len(two) + Len(list) :
           (two \o list)[i]
             = IF i <= Len(two) THEN two[i] ELSE list[i - Len(two)]
  BY <1>1, <1>2, ConcatProperties
<1>6. DOMAIN (two \o list) = 1 .. Len(two \o list) BY <1>5, LenProperties
<1>7. \A i \in 1 .. Len(list) : (two \o list)[i + 2] = list[i]
  <2> TAKE i \in 1 .. Len(list)
  <2>1. i + 2 \in 1 .. Len(two) + Len(list) /\ ~(i + 2 <= 2) /\ i + 2 - 2 = i
    BY <1>1, <1>3
  <2> QED BY <1>1, <1>5, <2>1
<1>8. (two \o list)[1] = c.msg /\ (two \o list)[2] = Len(list)
  BY <1>1, <1>3, <1>5
<1> QED BY <1>1, <1>3, <1>4, <1>5, <1>6, <1>7, <1>8

(* The commands that are sent. *)
KnownCommand(c) ==
  \/ c.msg \in OwnMessages
  \/ c = GetDeviceList
  \/ \E i \in DOMAIN Said :
       c \in {GetInputStreamList(Said[i].id), GetOutputStreamList(Said[i].id),
              GetProperty(Said[i].id, Said[i].id, "uid")}

(* A reply is a sequence that begins with what it is a response to. *)
IsReply(p) == Len(p) \in Nat \ {0} /\ \E S : p \in Seq(S)

LEMMA PlainShape ==
  ASSUME NEW c, KnownCommand(c), NEW p \in Plain(c)
  PROVE  IsReply(p)
<1> DEFINE ids == [i \in DOMAIN Said |-> Said[i].id]
<1>1. CASE p = <<"REFUSED">>
  <2>1. p \in Seq({"REFUSED"}) /\ Len(p) = 1 BY <1>1
  <2> QED BY <2>1 DEF IsReply
<1>2. ASSUME NEW S, NEW list \in Seq(S), p = Counted(c, list)
      PROVE  IsReply(p)
  <2> DEFINE T == S \union {c.msg, Len(list)}
             two == <<c.msg, Len(list)>>
  <2>1. two \in Seq(T) OBVIOUS
  <2>2. list \in Seq(T) BY SeqMonotonic, S \subseteq T
  <2>3. p = two \o list BY <1>2 DEF Counted
  <2> HIDE DEF T, two
  <2>4. p \in Seq(T) BY <2>1, <2>2, <2>3, ConcatProperties
  <2>5. Len(p) = 2 + Len(list) /\ Len(list) \in Nat
    BY <1>2, CountedSays, LenProperties
  <2> QED BY <2>4, <2>5 DEF IsReply
<1>3. ASSUME p \in Response(c) PROVE IsReply(p)
  <2>1. CASE c = GetDeviceList
    <3>1. p = Counted(c, ids)
      BY <1>3, <2>1 DEF Response, GetDeviceList, Command
    <3>2. ids \in Seq(Names) BY SaidTyped
    <3> QED BY <1>2, <3>1, <3>2
  <2>2. ASSUME NEW i \in DOMAIN Said, c = GetInputStreamList(Said[i].id)
        PROVE  IsReply(p)
    <3>1. p = Counted(c, Said[i].ins)
      BY <1>3, <2>2, DeviceSaid DEF Response, GetInputStreamList, Command
    <3>2. Said[i].ins \in Seq(Names) BY SaidTyped
    <3> QED BY <1>2, <3>1, <3>2
  <2>3. ASSUME NEW i \in DOMAIN Said, c = GetOutputStreamList(Said[i].id)
        PROVE  IsReply(p)
    <3>1. p = Counted(c, Said[i].outs)
      BY <1>3, <2>3, DeviceSaid DEF Response, GetOutputStreamList, Command
    <3>2. Said[i].outs \in Seq(Names) BY SaidTyped
    <3> QED BY <1>2, <3>1, <3>2
  <2>4. CASE c.msg = "GET_PROPERTY"
    <3>1. PICK n : p = <<c.msg, c.obj, c.prop, n, ValueOf(c)>>
      BY <1>3, <2>4 DEF Response
    <3>2. p \in Seq({c.msg, c.obj, c.prop, n, ValueOf(c)}) /\ Len(p) = 5
      BY <3>1
    <3> QED BY <3>2 DEF IsReply
  <2>5. CASE c.msg \in OwnMessages /\ c.msg # "GET_PROPERTY"
    <3>1. p = <<c.msg>> BY <1>3, <2>5 DEF Response, OwnMessages
    <3>2. p \in Seq({c.msg}) /\ Len(p) = 1 BY <3>1
    <3> QED BY <3>2 DEF IsReply
  <2>6. ASSUME NEW i \in DOMAIN Said,
               c = GetProperty(Said[i].id, Said[i].id, "uid")
        PROVE  c.msg = "GET_PROPERTY"
    BY <2>6 DEF GetProperty, Command
  <2> QED BY <2>1, <2>2, <2>3, <2>4, <2>5, <2>6 DEF KnownCommand
<1> QED BY <1>1, <1>3 DEF Plain

(* What is padded at the end still says the same. *)
LEMMA ReplyShape ==
  ASSUME NEW c, KnownCommand(c), NEW r \in Replies(c)
  PROVE  \E p \in Plain(c) :
           /\ IsReply(p) /\ Len(r) \in Nat /\ Len(r) >= Len(p)
           /\ Len(p) <= Words => Len(r) <= Words
           /\ \A i \in 1 .. Len(p) : r[i] = p[i]
<1>1. CASE ~padded
  <2>1. r \in Plain(c) BY <1>1 DEF Replies
  <2>2. IsReply(r) BY <2>1, PlainShape
  <2> QED BY <2>1, <2>2 DEF IsReply
<1>2. CASE padded
  <2>1. PICK p \in Plain(c) : r = p \o [i \in 1 .. Words - Len(p) |-> None]
    BY <1>2 DEF Replies
  <2>2. IsReply(p) BY PlainShape
  <2>3. PICK S : p \in Seq(S) BY <2>2 DEF IsReply
  <2>4. Len(p) \in Nat /\ Len(p) # 0 BY <2>2 DEF IsReply
  <2> DEFINE T == S \union {None}
             n == IF Words - Len(p) >= 0 THEN Words - Len(p) ELSE 0
             pad == [i \in 1 .. n |-> None]
  <2>5. p \in Seq(T) BY <2>3, SeqMonotonic, S \subseteq T
  <2>6. n \in Nat BY <2>4, WordsAssumption
  <2>7. pad \in Seq(T) /\ Len(pad) = n BY <2>6
  <2>8. [i \in 1 .. Words - Len(p) |-> None] = pad
    <3>1. 1 .. Words - Len(p) = 1 .. n BY <2>4, WordsAssumption
    <3> QED BY <3>1
  <2>9. r = p \o pad BY <2>1, <2>8
  <2> HIDE DEF T, pad
  <2>10. /\ Len(r) = Len(p) + n
         /\ \A i \in 1 .. Len(p) + n : r[i] = IF i <= Len(p) THEN p[i]
                                              ELSE pad[i - Len(p)]
    BY <2>5, <2>7, <2>9, ConcatProperties
  <2>11. \A i \in 1 .. Len(p) : r[i] = p[i] BY <2>4, <2>6, <2>10
  <2>12. Len(p) <= Words => Len(r) <= Words
    BY <2>4, <2>10, WordsAssumption
  <2>13. Len(r) \in Nat /\ Len(r) >= Len(p) BY <2>4, <2>6, <2>10
  <2> QED BY <2>2, <2>11, <2>12, <2>13
<1> QED BY <1>1, <1>2

-----------------------------------------------------------------------------
(* Memory. *)

IsMemory(m) == m.size \in 1 .. Words /\ DOMAIN m.data = 1 .. Words

LEMMA BlankMemory ==
  IsMemory(Blank) /\ Blank.size = Words /\ Len(Blank.data) = Words
BY WordsAssumption DEF Blank, IsMemory

(* Shows of a buffer as it is. *)
MemShows(m, reply) ==
  /\ m.data[1] = reply[1]
  /\ Len(reply) >= 2 => m.size >= 2 /\ m.data[2] = reply[2]
  /\ ~m.cut => \A i \in 1 .. Len(reply) : i <= Words /\ m.data[i] = reply[i]

LEMMA CopiedShows ==
  ASSUME NEW m, IsMemory(m), NEW c, KnownCommand(c), NEW r \in Replies(c)
  PROVE  /\ IsMemory(Copied(m, r)) /\ Len(Copied(m, r).data) = Words
         /\ m.size >= 2 =>
              \E p \in Plain(c) :
                /\ IsReply(p)
                /\ MemShows(Copied(m, r), p)
                /\ (m = Blank /\ Len(p) <= Words) => ~Copied(m, r).cut
<1>1. PICK p \in Plain(c) :
           /\ IsReply(p) /\ Len(r) \in Nat /\ Len(r) >= Len(p)
           /\ Len(p) <= Words => Len(r) <= Words
           /\ \A i \in 1 .. Len(p) : r[i] = p[i]
  BY ReplyShape
<1>2. Len(p) \in Nat /\ Len(p) >= 1 BY <1>1 DEF IsReply
<1> DEFINE size == IF Len(r) < m.size THEN Len(r) ELSE m.size
           data == [i \in 1 .. Words |-> IF i <= size THEN r[i] ELSE m.data[i]]
           w == Copied(m, r)
<1>3. w.size = size /\ w.data = data /\ w.cut = (Len(r) > m.size)
  BY DEF Copied
<1>4. m.size \in Nat /\ m.size >= 1 /\ m.size <= Words /\ Words \in Nat
  BY WordsAssumption DEF IsMemory
<1>5. size \in 1 .. Words /\ size <= Len(r) /\ size <= m.size
  BY <1>1, <1>2, <1>4
<1>6. DOMAIN data = 1 .. Words /\ Len(data) = Words BY <1>4
<1>7. \A i \in 1 .. size : i \in 1 .. Words /\ data[i] = r[i]
  BY <1>4, <1>5
<1>8. size = Len(r) \/ Len(r) > m.size BY <1>1, <1>4
<1> HIDE DEF size, data, w
<1>9. IsMemory(w) /\ Len(w.data) = Words
  BY <1>3, <1>5, <1>6 DEF IsMemory
<1>10. ASSUME m.size >= 2
       PROVE  /\ MemShows(w, p)
              /\ (m = Blank /\ Len(p) <= Words) => ~w.cut
  <2>1. w.data[1] = p[1]
    BY <1>1, <1>2, <1>3, <1>5, <1>7
  <2>2. ASSUME Len(p) >= 2 PROVE w.size >= 2 /\ w.data[2] = p[2]
    <3>1. size >= 2 BY <1>1, <1>2, <1>4, <1>10, <2>2 DEF size
    <3> QED BY <1>1, <1>2, <1>3, <1>5, <1>7, <2>2, <3>1
  <2>3. ASSUME ~w.cut, NEW i \in 1 .. Len(p)
        PROVE  i <= Words /\ w.data[i] = p[i]
    <3>1. size = Len(r) BY <1>3, <1>8, <2>3
    <3>2. i \in 1 .. size BY <1>1, <1>2, <3>1
    <3> QED BY <1>1, <1>3, <1>4, <1>7, <3>2
  <2>4. ASSUME m = Blank, Len(p) <= Words PROVE ~w.cut
    <3>1. m.size = Words BY <2>4, BlankMemory
    <3>2. ~(Len(r) > m.size) BY <1>1, <1>2, <1>4, <2>4, <3>1
    <3> QED BY <1>3, <3>2, Zenon
  <2> QED BY <2>1, <2>2, <2>3, <2>4 DEF MemShows
<1> QED BY <1>1, <1>9, <1>10 DEF w

-----------------------------------------------------------------------------
(* Who waits with which buffer. *)

Busy(t) == call[t].at # "idle"

LEMMA ProberIsNoWorker ==
  Prober \in Threads /\ Workers \subseteq Threads /\ Prober \notin Workers
BY ProberAssumption DEF Threads

LEMMA PointsDiffer ==
  /\ at \in HandedPoints => at \notin OwnPoints
  /\ at = "list" => at \notin HandedPoints \union OwnPoints
  /\ at \in {"start", "list", "next", "done", "failed", "pcm", "link"} =>
       at \notin HandedPoints \union OwnPoints
  /\ at \in {"start", "list", "next", "done", "failed"}
       => at \notin DevicePoints
  /\ at \in HandedPoints \union OwnPoints \union {"pcm", "link"}
       => at \in DevicePoints
BY DEF HandedPoints, OwnPoints, DevicePoints

LEMMA OwnCallers ==
  ASSUME NEW t \in Threads
  PROVE  t \in OwnCalls <=> (Busy(t) /\ (t \in Workers \/ at \in OwnPoints))
BY ProberIsNoWorker DEF OwnCalls, Busy, Threads

LEMMA Buffered ==
  ASSUME IInv
  PROVE  /\ \A t \in OwnCalls : /\ call[t].buf \in Buffers
                                /\ call[t].buf \in allocated
                                /\ call[t].buf \notin {listBuf, devBuf}
                                /\ call[t].buf \notin leaked
         /\ \A t, u \in OwnCalls : t # u => call[t].buf # call[u].buf
         /\ at \notin {"start", "done", "failed"} =>
              listBuf \in Buffers /\ listBuf \in allocated
                /\ listBuf \notin leaked
         /\ at \in DevicePoints =>
              /\ devBuf \in Buffers /\ devBuf \in allocated
                   /\ devBuf \notin leaked
              /\ devBuf # listBuf
<1> USE BuffersAssumption DEF IInv, HeapInv, HoldsInv, NoBufferShared,
                              NothingElseLost, ProberHolds
<1>1. \A t \in OwnCalls : call[t].buf \in OwnBufs BY DEF OwnBufs
<1>2. {listBuf, devBuf} \subseteq Buffers \union {None} BY DEF TypeOK
<1>3. \A t \in OwnCalls : call[t].buf \in Buffers OBVIOUS
<1>4. \A t \in OwnCalls : call[t].buf \notin {listBuf, devBuf}
  BY <1>1, <1>2, <1>3
<1>5. \A t \in OwnCalls : call[t].buf \in allocated /\ call[t].buf \notin leaked
  BY <1>1
<1>6. \A t, u \in OwnCalls : t # u => call[t].buf # call[u].buf OBVIOUS
<1>7. at \notin {"start", "done", "failed"} =>
        listBuf \in Buffers /\ listBuf \in allocated /\ listBuf \notin leaked
  BY <1>2
<1>8. at \in DevicePoints =>
        /\ devBuf \in Buffers /\ devBuf \in allocated /\ devBuf \notin leaked
        /\ devBuf # listBuf
  BY <1>2
<1> HIDE DEF IInv, HeapInv, HoldsInv, NoBufferShared, NothingElseLost,
      ProberHolds
<1> QED BY <1>3, <1>4, <1>5, <1>6, <1>7, <1>8

LEMMA Calling ==
  ASSUME IInv
  PROVE  /\ \A t \in Threads :
              Busy(t) => call[t].buf \in Buffers /\ call[t].buf \in allocated
         /\ Busy(Prober) =>
              \/ at = "list" /\ call[Prober].buf = listBuf
              \/ at \in HandedPoints /\ call[Prober].buf = devBuf
              \/ at \in OwnPoints /\ Prober \in OwnCalls
<1>1. Busy(Prober) =>
        \/ at = "list" /\ call[Prober].buf = listBuf
        \/ at \in HandedPoints /\ call[Prober].buf = devBuf
        \/ at \in OwnPoints /\ Prober \in OwnCalls
  BY OwnCallers, ProberIsNoWorker DEF IInv, AskedInv, Busy
<1>2. ASSUME NEW t \in Threads, Busy(t)
      PROVE  call[t].buf \in Buffers /\ call[t].buf \in allocated
  <2>1. CASE t \in OwnCalls BY <2>1, Buffered
  <2>2. CASE t \notin OwnCalls
    <3>1. t = Prober BY <1>2, <2>2, OwnCallers DEF Threads
    <3>2. \/ at = "list" /\ call[t].buf = listBuf
          \/ at \in HandedPoints /\ call[t].buf = devBuf
      BY <1>1, <1>2, <2>2, <3>1
    <3> QED BY <3>2, Buffered, PointsDiffer
  <2> QED BY <2>1, <2>2
<1> QED BY <1>1, <1>2

(* Every command that is waited for is a known one. *)
LEMMA CallsKnown ==
  ASSUME IInv, NEW t \in Threads, Busy(t)
  PROVE  KnownCommand(call[t].cmd)
<1>1. CASE t \in OwnCalls BY <1>1 DEF IInv, AskedInv, KnownCommand
<1>2. CASE t \notin OwnCalls
  <2>1. t = Prober BY <1>2, OwnCallers DEF Threads
  <2>2. \/ at = "list" /\ call[t].cmd = GetDeviceList
        \/ at \in HandedPoints /\ call[t].cmd = Asked
    BY <1>2, <2>1, Calling DEF IInv, AskedInv, Busy
  <2>3. ASSUME at \in HandedPoints, call[t].cmd = Asked
        PROVE  KnownCommand(call[t].cmd)
    <3>1. devI + 1 \in DOMAIN Said /\ sdev.id = Said[devI + 1].id
      BY <2>3, SaidTyped, PointsDiffer DEF IInv, ListInv, SdevInv
    <3>2. call[t].cmd \in {GetInputStreamList(sdev.id),
                           GetOutputStreamList(sdev.id),
                           GetProperty(sdev.id, sdev.id, "uid")}
      BY <2>3 DEF HandedPoints, Asked
    <3> QED BY <3>1, <3>2 DEF KnownCommand
  <2> QED BY <2>2, <2>3 DEF KnownCommand
<1> QED BY <1>1, <1>2

-----------------------------------------------------------------------------
(* Steps on memory. *)

Memory ==
  /\ DOMAIN mem = Buffers
  /\ \A b \in Buffers : IsMemory(mem[b]) /\ Len(mem[b].data) = Words

Called ==
  /\ DOMAIN call = Threads
  /\ \A t \in Threads :
       /\ DOMAIN call[t] = {"at", "cmd", "buf"}
       /\ call[t].at \in {"idle", "waiting", "answered", "failed"}

Placed ==
  /\ padded \in BOOLEAN
  /\ at \in HandedPoints \union OwnPoints \union
            {"start", "list", "next", "pcm", "link", "done", "failed"}
  /\ nextAlsaId \in Nat
  /\ (listBuf = None) <=> (at \in {"start", "done", "failed"})
  /\ (devBuf = None) <=> (at \notin DevicePoints)

Accounts ==
  /\ allocated \subseteq Buffers /\ leaked \subseteq Buffers
  /\ {listBuf, devBuf} \subseteq Buffers \union {None}
  /\ \A t \in OwnCalls : call[t].buf \in Buffers
  /\ NoBufferShared /\ NothingElseLost

LEMMA HeapParts ==
  HeapInv /\ HoldsInv <=> Memory /\ Called /\ Placed /\ Accounts
BY DEF HeapInv, TypeOK, HoldsInv, Memory, IsMemory, Called, Placed, Accounts,
  Data

LEMMA FreeStep ==
  ASSUME Memory, NEW b \in Buffers, Free(b)
  PROVE  /\ Memory'
         /\ mem'[b] = Blank
         /\ \A other \in Buffers \ {b} : mem'[other] = mem[other]
BY BlankMemory DEF Memory, Free

LEMMA CopyStep ==
  ASSUME IInv, NEW t \in Threads, Busy(t), NEW r \in Replies(call[t].cmd),
         mem' = [mem EXCEPT ![call[t].buf] = Copied(@, r)]
  PROVE  /\ Memory'
         /\ mem'[call[t].buf] = Copied(mem[call[t].buf], r)
         /\ \A other \in Buffers \ {call[t].buf} : mem'[other] = mem[other]
         /\ mem[call[t].buf].size >= 2 =>
              \E p \in Plain(call[t].cmd) :
                /\ IsReply(p)
                /\ MemShows(mem'[call[t].buf], p)
                /\ (mem[call[t].buf] = Blank /\ Len(p) <= Words)
                     => ~mem'[call[t].buf].cut
<1> DEFINE b == call[t].buf
           c == call[t].cmd
<1>1. Memory BY HeapParts DEF IInv
<1>2. b \in Buffers BY Calling
<1>3. KnownCommand(c) BY CallsKnown
<1>4. IsMemory(mem[b]) BY <1>1, <1>2 DEF Memory
<1> HIDE DEF b, c
<1>5. r \in Replies(c) BY DEF c
<1>6. /\ IsMemory(Copied(mem[b], r)) /\ Len(Copied(mem[b], r).data) = Words
      /\ mem[b].size >= 2 =>
           \E p \in Plain(c) :
             /\ IsReply(p)
             /\ MemShows(Copied(mem[b], r), p)
             /\ (mem[b] = Blank /\ Len(p) <= Words) => ~Copied(mem[b], r).cut
  BY <1>3, <1>4, <1>5, CopiedShows
<1>7. mem' = [mem EXCEPT ![b] = Copied(mem[b], r)] BY DEF b
<1>8. /\ mem'[b] = Copied(mem[b], r)
      /\ \A other \in Buffers \ {b} : mem'[other] = mem[other]
      /\ DOMAIN mem' = Buffers
  BY <1>1, <1>2, <1>7 DEF Memory
<1>9. Memory' BY <1>1, <1>6, <1>8 DEF Memory
<1> QED BY <1>6, <1>8, <1>9 DEF b, c

LEMMA MemoryStep == IInv /\ [Next]_vars => Memory'
<1> SUFFICES ASSUME IInv, [Next]_vars PROVE Memory' OBVIOUS
<1>1. Memory BY HeapParts DEF IInv
<1>2. mem' = mem => Memory' BY <1>1 DEF Memory
<1>3. \A b \in Buffers : Free(b) => Memory' BY <1>1, FreeStep
<1>4. ASSUME NEW t \in Threads, HandleReply(t) \/ CallFails(t) PROVE Memory'
  <2>1. Busy(t) BY <1>4 DEF HandleReply, CallFails, Busy
  <2>2. \/ mem' = mem
        \/ \E r \in Replies(call[t].cmd) :
             mem' = [mem EXCEPT ![call[t].buf] = Copied(@, r)]
    BY <1>4 DEF HandleReply, CallFails
  <2> QED BY <1>2, <2>1, <2>2, CopyStep
<1>5. ASSUME NEW t \in Threads, t \in Workers \/ at \in OwnPoints, OwnEnds(t)
      PROVE  Memory'
  <2>1. t \in OwnCalls BY <1>5, OwnCallers DEF OwnEnds, Ends, Busy
  <2>2. call[t].buf \in Buffers BY <2>1, Buffered
  <2>3. mem' = mem \/ Free(call[t].buf) BY <1>5 DEF OwnEnds, heapVars
  <2> QED BY <1>2, <1>3, <2>2, <2>3
<1>6. CASE Probe
  <2>1. CASE ListComes \/ AllDevices
    <3>1. at \in {"list", "next"} BY <2>1 DEF ListComes, AllDevices, Goes
    <3>2. listBuf \in Buffers BY <3>1, Buffered
    <3>3. mem' = mem \/ Free(listBuf)
            BY <2>1 DEF ListComes, AllDevices, heapVars
    <3> QED BY <1>2, <1>3, <3>2, <3>3
  <2>2. CASE HandedReplyComes \/ ListDevice
    <3>1. at \in DevicePoints
      BY <2>2 DEF HandedReplyComes, ListDevice, Goes, DevicePoints
    <3>2. devBuf \in Buffers BY <3>1, Buffered
    <3>3. mem' = mem \/ Free(devBuf)
      BY <2>2 DEF HandedReplyComes, ListDevice, DropDevice, heapVars
    <3> QED BY <1>2, <1>3, <3>2, <3>3
  <2>3. CASE OwnReplyComes
    <3>1. at \in OwnPoints /\ OwnEnds(Prober) BY <2>3 DEF OwnReplyComes
    <3> QED BY <1>5, <3>1, ProberIsNoWorker
  <2>4. CASE AskForList \/ NextDevice \/ AskHanded \/ AskOwn \/ CreatePcm
    BY <1>2, <2>4 DEF AskForList, NextDevice, AskHanded, AskOwn, AskWithOwn,
                      CreatePcm, heapVars
  <2> QED BY <1>6, <2>1, <2>2, <2>3, <2>4 DEF Probe
<1>7. ASSUME NEW w \in Workers, WorkerAsks(w) \/ WorkerEnds(w) PROVE Memory'
  <2>1. CASE WorkerAsks(w) BY <1>2, <2>1 DEF WorkerAsks, AskWithOwn
  <2>2. CASE WorkerEnds(w) BY <1>5, <2>2, ProberIsNoWorker DEF WorkerEnds
  <2> QED BY <1>7, <2>1, <2>2
<1>8. CASE UNCHANGED vars BY <1>2, <1>8 DEF vars, heapVars
<1> QED BY <1>4, <1>6, <1>7, <1>8 DEF Next

LEMMA CalledStep == IInv /\ [Next]_vars => Called'
<1> SUFFICES ASSUME IInv, [Next]_vars PROVE Called' OBVIOUS
<1>1. Called BY HeapParts DEF IInv
<1>2. call' = call => Called' BY <1>1 DEF Called
<1>3. ASSUME NEW t \in Threads, NEW c, NEW b, Waits(t, c, b) PROVE Called'
  BY <1>1, <1>3 DEF Called, Waits
<1>4. ASSUME NEW t \in Threads, call' = [call EXCEPT ![t] = Idle] PROVE Called'
  BY <1>1, <1>4 DEF Called, Idle
<1>5. ASSUME NEW t \in Threads, NEW point \in {"answered", "failed"},
             call' = [call EXCEPT ![t].at = point]
      PROVE  Called'
  BY <1>1, <1>5 DEF Called
<1>6. CASE AskForList
  BY <1>3, <1>6, ProberIsNoWorker DEF AskForList
<1>7. CASE ListComes \/ HandedReplyComes
  BY <1>4, <1>7, ProberIsNoWorker DEF ListComes, HandedReplyComes, HandedEnds
<1>8. CASE NextDevice \/ AllDevices \/ CreatePcm \/ ListDevice
  BY <1>2, <1>8 DEF NextDevice, AllDevices, CreatePcm, ListDevice
<1>9. CASE AskHanded
  BY <1>3, <1>9, ProberIsNoWorker DEF AskHanded
<1>10. CASE AskOwn
  BY <1>3, <1>10, ProberIsNoWorker DEF AskOwn, AskWithOwn
<1>11. CASE OwnReplyComes
  BY <1>4, <1>11, ProberIsNoWorker DEF OwnReplyComes, OwnEnds
<1>12. ASSUME NEW w \in Workers, WorkerAsks(w) \/ WorkerEnds(w) PROVE Called'
  BY <1>3, <1>4, <1>12, ProberIsNoWorker
     DEF WorkerAsks, WorkerEnds, AskWithOwn, OwnEnds
<1>13. ASSUME NEW t \in Threads, HandleReply(t) \/ CallFails(t) PROVE Called'
  BY <1>5, <1>13 DEF HandleReply, CallFails
<1>14. CASE UNCHANGED vars BY <1>2, <1>14 DEF vars
<1> QED BY <1>6, <1>7, <1>8, <1>9, <1>10, <1>11, <1>12, <1>13, <1>14
        DEF Next, Probe

(* From a point with a device the prober goes to another. *)
LEMMA AfterPoints ==
  ASSUME NEW from \in DevicePoints \ {"link"}, NEW s
  PROVE  After(from, s) \subseteq DevicePoints \ {"uid"}
BY DEF After, DevicePoints, HandedPoints, OwnPoints

LEMMA PlacedStep == IInv /\ [Next]_vars => Placed'
<1> SUFFICES ASSUME IInv, [Next]_vars PROVE Placed' OBVIOUS
<1>1. Placed BY HeapParts DEF IInv
<1>2. UNCHANGED <<padded, proberVars>> => Placed'
  BY <1>1 DEF Placed, proberVars, HandedPoints, OwnPoints, DevicePoints
<1>3. None \notin Buffers BY BuffersAssumption
<1>4. at \in DevicePoints => devBuf # None /\ listBuf # None
  BY <1>1, PointsDiffer DEF Placed, DevicePoints, HandedPoints, OwnPoints
<1>5. DevicePoints = HandedPoints \union OwnPoints \union {"pcm", "link"}
  BY DEF DevicePoints
<1>6. ASSUME at \in DevicePoints \ {"link"}, NEW s, at' \in After(at, s),
             UNCHANGED <<padded, listBuf, devBuf>>, nextAlsaId' \in Nat
      PROVE  Placed'
  <2>1. at' \in DevicePoints BY <1>6, AfterPoints
  <2>2. at' \notin {"start", "done", "failed"}
    BY <2>1 DEF DevicePoints, HandedPoints, OwnPoints
  <2> QED BY <1>1, <1>4, <1>5, <1>6, <2>1, <2>2 DEF Placed
<1>7. CASE AskForList
  BY <1>1, <1>3, <1>7 DEF AskForList, Goes, Placed, DevicePoints, HandedPoints,
                          OwnPoints
<1>8. CASE ListComes
  BY <1>1, <1>8 DEF ListComes, Goes, Placed, DevicePoints, HandedPoints,
                    OwnPoints, heapVars
<1>9. CASE NextDevice
  BY <1>1, <1>3, <1>9 DEF NextDevice, Goes, Placed, DevicePoints,
                          HandedPoints, OwnPoints
<1>10. CASE AllDevices
  BY <1>1, <1>10 DEF AllDevices, Goes, Placed, DevicePoints, HandedPoints,
                     OwnPoints
<1>11. CASE AskHanded
  BY <1>2, <1>11 DEF AskHanded, proberVars
<1>12. CASE AskOwn
  BY <1>2, <1>12 DEF AskOwn
<1>13. CASE HandedReplyComes
  <2>1. at \in HandedPoints /\ UNCHANGED <<padded, listBuf, nextAlsaId>>
    BY <1>13 DEF HandedReplyComes
  <2>2. at \in DevicePoints \ {"link"}
    BY <2>1 DEF DevicePoints, HandedPoints
  <2>3. CASE at' \in After(at, sdev') /\ UNCHANGED devBuf
    BY <1>1, <1>6, <2>1, <2>2, <2>3 DEF Placed
  <2>4. CASE DropDevice
    BY <1>1, <1>4, <2>1, <2>2, <2>4 DEF DropDevice, Placed, DevicePoints,
                                        HandedPoints, OwnPoints
  <2> QED BY <1>13, <2>3, <2>4 DEF HandedReplyComes
<1>14. CASE OwnReplyComes
  <2>1. /\ at \in OwnPoints /\ at' \in After(at, sdev')
        /\ UNCHANGED <<padded, listBuf, devBuf, nextAlsaId>>
    BY <1>14 DEF OwnReplyComes
  <2>2. at \in DevicePoints \ {"link"}
    BY <2>1 DEF DevicePoints, OwnPoints
  <2> QED BY <1>1, <1>6, <2>1, <2>2 DEF Placed
<1>15. CASE CreatePcm
  <2>1. /\ at = "pcm" /\ at' \in After(at, sdev)
        /\ UNCHANGED <<padded, listBuf, devBuf>>
    BY <1>15 DEF CreatePcm
  <2>2. at \in DevicePoints \ {"link"} BY <2>1 DEF DevicePoints
  <2>3. nextAlsaId' \in Nat
    <3>1. AlsaId(sdev.uid).next \in Nat BY <1>1 DEF AlsaId, Placed
    <3>2. nextAlsaId' = AlsaId(sdev.uid).next \/ nextAlsaId' = nextAlsaId
      BY <1>15 DEF CreatePcm
    <3> QED BY <1>1, <3>1, <3>2 DEF Placed
  <2> QED BY <1>6, <2>1, <2>2, <2>3
<1>16. CASE ListDevice
  BY <1>1, <1>16 DEF ListDevice, Goes, Placed, DevicePoints, HandedPoints,
                     OwnPoints
<1>17. ASSUME NEW w \in Workers, WorkerAsks(w) \/ WorkerEnds(w) PROVE Placed'
  BY <1>2, <1>17 DEF WorkerAsks, WorkerEnds
<1>18. ASSUME NEW t \in Threads, HandleReply(t) \/ CallFails(t) PROVE Placed'
  BY <1>2, <1>18 DEF HandleReply, CallFails
<1>19. CASE UNCHANGED vars BY <1>2, <1>19 DEF vars
<1> QED BY <1>7, <1>8, <1>9, <1>10, <1>11, <1>12, <1>13, <1>14, <1>15, <1>16,
           <1>17, <1>18, <1>19 DEF Next, Probe

-----------------------------------------------------------------------------
(* The accounts of the buffers. *)

(* Who has a buffer of its own does not change, *)
OwnersStay ==
  /\ OwnCalls' = OwnCalls
  /\ \A t \in OwnCalls : call'[t].buf = call[t].buf

LEMMA OwnBufsStay == OwnersStay => OwnBufs' = OwnBufs
<1> SUFFICES ASSUME OwnersStay PROVE OwnBufs' = OwnBufs OBVIOUS
<1>1. OwnBufs' = {call'[t].buf : t \in OwnCalls} BY DEF OwnBufs, OwnersStay
<1>2. {call'[t].buf : t \in OwnCalls} = {call[t].buf : t \in OwnCalls}
  BY DEF OwnersStay
<1> QED BY <1>1, <1>2 DEF OwnBufs

(* the prober keeps what it has, *)
LEMMA AccountsStay ==
  ASSUME Accounts, OwnersStay, UNCHANGED <<allocated, leaked, listBuf, devBuf>>
  PROVE  Accounts'
<1>1. OwnBufs' = OwnBufs BY OwnBufsStay
<1>2. ProberHolds' = ProberHolds BY DEF ProberHolds
<1> QED BY <1>1, <1>2 DEF Accounts, OwnersStay, NoBufferShared, NothingElseLost

(* gets a buffer that was free, *)
LEMMA AccountsGain ==
  ASSUME Accounts, OwnersStay, UNCHANGED leaked, NEW b \in Buffers, Alloc(b),
         \/ listBuf = None /\ listBuf' = b /\ UNCHANGED devBuf
         \/ devBuf = None /\ devBuf' = b /\ UNCHANGED listBuf
  PROVE  Accounts'
<1>1. OwnBufs' = OwnBufs BY OwnBufsStay
<1>2. ProberHolds' = ProberHolds \union {b}
  BY BuffersAssumption DEF ProberHolds
<1>3. allocated' = allocated \union {b} /\ b \notin allocated BY DEF Alloc
<1>4. b \notin OwnBufs \union ProberHolds \union leaked
  BY <1>3 DEF Accounts, NothingElseLost
<1>5. {listBuf, devBuf}' \subseteq Buffers \union {None} BY DEF Accounts
<1>6. (listBuf = devBuf => listBuf = None)'
  BY <1>4, BuffersAssumption DEF ProberHolds
<1>7. \A t \in OwnCalls' : call'[t].buf \in Buffers BY DEF Accounts, OwnersStay
<1>8. \A t, u \in OwnCalls' : call'[t].buf = call'[u].buf => t = u
  BY DEF Accounts, OwnersStay, NoBufferShared
<1>9. NoBufferShared'
  BY <1>1, <1>2, <1>4, <1>6, <1>8 DEF Accounts, NoBufferShared
<1>10. NothingElseLost' BY <1>1, <1>2, <1>3 DEF Accounts, NothingElseLost
<1> QED BY <1>3, <1>5, <1>7, <1>9, <1>10 DEF Accounts

(* or gives one back.                                                      *)
LEMMA AccountsLoss ==
  ASSUME Accounts, OwnersStay, UNCHANGED leaked, NEW b \in Buffers, Free(b),
         \/ listBuf = b /\ listBuf' = None /\ UNCHANGED devBuf
         \/ devBuf = b /\ devBuf' = None /\ UNCHANGED listBuf
  PROVE  Accounts'
<1>1. OwnBufs' = OwnBufs BY OwnBufsStay
<1>2. listBuf = devBuf => listBuf = None BY DEF Accounts, NoBufferShared
<1>3. ProberHolds' = ProberHolds \ {b} /\ b \in ProberHolds
  BY <1>2, BuffersAssumption DEF ProberHolds
<1>4. allocated' = allocated \ {b} BY DEF Free
<1>5. b \notin OwnBufs \union leaked BY <1>3 DEF Accounts, NoBufferShared
<1>6. {listBuf, devBuf}' \subseteq Buffers \union {None} BY DEF Accounts
<1>7. \A t \in OwnCalls' : call'[t].buf \in Buffers BY DEF Accounts, OwnersStay
<1>8. \A t, u \in OwnCalls' : call'[t].buf = call'[u].buf => t = u
  BY DEF Accounts, OwnersStay, NoBufferShared
<1>9. (listBuf = devBuf => listBuf = None)' BY <1>2
<1>10. NoBufferShared'
  BY <1>1, <1>3, <1>8, <1>9 DEF Accounts, NoBufferShared
<1>11. NothingElseLost' BY <1>1, <1>3, <1>4, <1>5 DEF Accounts, NothingElseLost
<1>12. allocated' \subseteq Buffers /\ leaked' \subseteq Buffers
  BY <1>4 DEF Accounts
<1> QED BY <1>6, <1>7, <1>10, <1>11, <1>12 DEF Accounts

(* A command with a buffer of its own begins *)
LEMMA OwnBegins ==
  ASSUME Accounts, Called, NEW t \in Threads, t \in Workers \/ at \in OwnPoints,
         NEW c, AskWithOwn(t, c), UNCHANGED proberVars
  PROVE  Accounts'
<1>1. PICK b \in Buffers : Alloc(b) /\ Waits(t, c, b)
  BY DEF AskWithOwn
<1>2. t \notin OwnCalls BY <1>1, OwnCallers DEF Waits, Busy
<1>3. /\ call'[t] = [at |-> "waiting", cmd |-> c, buf |-> b]
      /\ \A u \in Threads \ {t} : call'[u] = call[u]
  BY <1>1 DEF Waits, Called
<1>4. at' = at BY DEF proberVars
<1>5. OwnCalls' = OwnCalls \union {t}
  BY <1>3, <1>4, ProberIsNoWorker DEF OwnCalls
<1>6. OwnCalls \subseteq Threads BY DEF OwnCalls
<1>7. \A u \in OwnCalls : call'[u].buf = call[u].buf BY <1>2, <1>3, <1>6
<1>8. OwnBufs' = OwnBufs \union {b}
  <2>1. OwnBufs' = {call'[u].buf : u \in OwnCalls \union {t}}
    BY <1>5 DEF OwnBufs
  <2>2. {call'[u].buf : u \in OwnCalls \union {t}}
          = {call[u].buf : u \in OwnCalls} \union {b}
    BY <1>2, <1>3, <1>7
  <2> QED BY <2>1, <2>2 DEF OwnBufs
<1>9. allocated' = allocated \union {b} /\ b \notin allocated
  BY <1>1 DEF Alloc
<1>10. UNCHANGED <<leaked, listBuf, devBuf>> /\ ProberHolds' = ProberHolds
  BY DEF AskWithOwn, proberVars, ProberHolds
<1>11. b \notin OwnBufs \union ProberHolds \union leaked
  BY <1>9 DEF Accounts, NothingElseLost
<1>12. \A u \in OwnCalls : call[u].buf # b BY <1>11 DEF OwnBufs
<1>13. \A u, v \in OwnCalls' : call'[u].buf = call'[v].buf => u = v
  BY <1>3, <1>5, <1>7, <1>12 DEF Accounts, NoBufferShared
<1>14. \A u \in OwnCalls' : call'[u].buf \in Buffers
  BY <1>3, <1>5, <1>7 DEF Accounts
<1>15. NoBufferShared'
  BY <1>8, <1>10, <1>11, <1>13 DEF Accounts, NoBufferShared
<1>16. NothingElseLost' BY <1>8, <1>9, <1>10 DEF Accounts, NothingElseLost
<1> QED BY <1>9, <1>10, <1>14, <1>15, <1>16 DEF Accounts

(* and ends: its buffer is given back, or lost, as leaked says.            *)
LEMMA OwnEnding ==
  ASSUME IInv, NEW t \in Threads, t \in Workers \/ at \in OwnPoints, OwnEnds(t),
         OwnCalls' = OwnCalls \ {t}, UNCHANGED <<listBuf, devBuf>>
  PROVE  Accounts'
<1> DEFINE b == call[t].buf
<1>1. t \in OwnCalls BY OwnCallers DEF OwnEnds, Ends, Busy
<1>2. Accounts /\ Called BY HeapParts DEF IInv
<1>3. /\ b \in Buffers /\ b \in allocated /\ b \notin {listBuf, devBuf}
      /\ b \notin leaked
      /\ \A u \in OwnCalls \ {t} : call[u].buf # b
  BY <1>1, Buffered
<1>4. LosesBuffer(t) <=>
        (call[t].at = "failed" /\ call[t].cmd.msg # "GET_PROPERTY")
  BY <1>1 DEF IInv, AskedInv, LosesBuffer, IsPrimitive
<1>5. \/ UNCHANGED allocated /\ leaked' = leaked \union {b}
      \/ allocated' = allocated \ {b} /\ leaked' = leaked
  BY <1>4 DEF OwnEnds, heapVars, Free
<1>6. OwnCalls \subseteq Threads BY DEF OwnCalls
<1>7. \A u \in OwnCalls \ {t} : call'[u].buf = call[u].buf
  BY <1>2, <1>6 DEF OwnEnds, Called
<1> HIDE DEF b
<1>8. OwnBufs = OwnBufs' \union {b} /\ b \notin OwnBufs'
  <2>1. OwnBufs' = {call'[u].buf : u \in OwnCalls \ {t}} BY DEF OwnBufs
  <2>2. {call'[u].buf : u \in OwnCalls \ {t}}
          = {call[u].buf : u \in OwnCalls \ {t}}
    BY <1>7
  <2> QED BY <1>1, <1>3, <2>1, <2>2 DEF OwnBufs, b
<1>9. ProberHolds' = ProberHolds /\ b \notin ProberHolds
  BY <1>3 DEF ProberHolds
<1>10. \A u, v \in OwnCalls' : call'[u].buf = call'[v].buf => u = v
  BY <1>2, <1>7 DEF Accounts, NoBufferShared
<1>11. \A u \in OwnCalls' : call'[u].buf \in Buffers
  BY <1>2, <1>7 DEF Accounts
<1>12. NoBufferShared'
  <2>1. OwnBufs' \intersect ProberHolds' = {}
    BY <1>2, <1>8, <1>9 DEF Accounts, NoBufferShared
  <2>2. (OwnBufs' \union ProberHolds') \intersect leaked' = {}
    BY <1>2, <1>5, <1>8, <1>9 DEF Accounts, NoBufferShared
  <2>3. (listBuf = devBuf => listBuf = None)'
    BY <1>2 DEF Accounts, NoBufferShared
  <2> QED BY <1>10, <2>1, <2>2, <2>3 DEF NoBufferShared
<1>13. NothingElseLost'
  BY <1>2, <1>3, <1>5, <1>8, <1>9 DEF Accounts, NothingElseLost
<1>14. allocated' \subseteq Buffers /\ leaked' \subseteq Buffers
  BY <1>2, <1>3, <1>5 DEF Accounts
<1> QED BY <1>2, <1>11, <1>12, <1>13, <1>14 DEF Accounts

(* Where the prober has no buffer of its own on the way, only its own      *)
(* calls leave and enter OwnCalls.                                         *)
LEMMA OthersOwn ==
  ASSUME Called, Called', ~Busy(Prober) \/ at \notin OwnPoints,
         ~Busy(Prober)' \/ at' \notin OwnPoints,
         \A w \in Workers : call'[w] = call[w]
  PROVE  OwnersStay
<1>1. OwnCalls = {w \in Workers : Busy(w)}
  BY ProberIsNoWorker DEF OwnCalls, Threads, Busy
<1>2. OwnCalls' = {w \in Workers : Busy(w)'}
  BY ProberIsNoWorker DEF OwnCalls, Threads, Busy
<1>3. \A w \in Workers : Busy(w)' <=> Busy(w) BY DEF Busy
<1> QED BY <1>1, <1>2, <1>3 DEF OwnersStay

(* A call that is answered or given up stays a call.                       *)
LEMMA CallGoesOn ==
  ASSUME Called, NEW t \in Threads, Busy(t), at' = at,
         NEW point \in {"answered", "failed"},
         call' = [call EXCEPT ![t].at = point]
  PROVE  OwnersStay
<1>1. \A u \in Threads : /\ Busy(u)' <=> Busy(u)
                         /\ call'[u].buf = call[u].buf
  BY DEF Called, Busy
<1>2. OwnCalls' = OwnCalls BY <1>1 DEF OwnCalls, Busy
<1> QED BY <1>1, <1>2 DEF OwnersStay, OwnCalls

LEMMA WorkersUntouched ==
  ASSUME Called, NEW e, call' = [call EXCEPT ![Prober] = e]
  PROVE  \A w \in Workers : call'[w] = call[w]
BY ProberIsNoWorker DEF Called

LEMMA AccountsStep == IInv /\ [Next]_vars => Accounts'
<1> SUFFICES ASSUME IInv, [Next]_vars PROVE Accounts' OBVIOUS
<1>1. Accounts /\ Called /\ Placed BY HeapParts DEF IInv
<1>2. Called' BY CalledStep
<1>3. at \in {"start", "next", "pcm", "link", "done", "failed"} => ~Busy(Prober)
  BY Calling DEF HandedPoints, OwnPoints
<1>4. call' = call => \A w \in Workers : call'[w] = call[w] OBVIOUS
<1>5. CASE AskForList
  <2>1. PICK b \in Buffers : /\ listBuf' = b /\ Alloc(b)
                             /\ Waits(Prober, GetDeviceList, b)
    BY <1>5 DEF AskForList
  <2>2. at = "start" /\ at' = "list" /\ UNCHANGED <<leaked, devBuf>>
    BY <1>5 DEF AskForList, Goes
  <2>3. OwnersStay
    BY <1>1, <1>2, <2>1, <2>2, OthersOwn, WorkersUntouched
       DEF OwnPoints, Waits
  <2>4. listBuf = None BY <1>1, <2>2 DEF Placed
  <2> QED BY <1>1, <2>1, <2>2, <2>3, <2>4, AccountsGain
<1>6. CASE ListComes
  <2>1. /\ at = "list" /\ at' \in {"next", "failed"}
        /\ call' = [call EXCEPT ![Prober] = Idle]
        /\ UNCHANGED <<leaked, devBuf>>
    BY <1>6 DEF ListComes, HandedEnds, Goes
  <2>2. OwnersStay
    BY <1>1, <1>2, <2>1, OthersOwn, WorkersUntouched DEF OwnPoints
  <2>3. listBuf \in Buffers BY <2>1, Buffered
  <2>4. CASE UNCHANGED <<heapVars, listBuf>>
    BY <1>1, <2>1, <2>2, <2>4, AccountsStay DEF heapVars
  <2>5. CASE Free(listBuf) /\ listBuf' = None
    BY <1>1, <2>1, <2>2, <2>3, <2>5, AccountsLoss
  <2> QED BY <1>6, <2>4, <2>5 DEF ListComes
<1>7. CASE NextDevice
  <2>1. PICK b \in Buffers : devBuf' = b /\ Alloc(b) BY <1>7 DEF NextDevice
  <2>2. /\ at = "next" /\ at' = "uid" /\ call' = call
        /\ UNCHANGED <<leaked, listBuf>>
    BY <1>7 DEF NextDevice, Goes
  <2>3. OwnersStay
    BY <1>1, <1>2, <1>3, <1>4, <2>2, OthersOwn DEF OwnPoints
  <2>4. devBuf = None BY <1>1, <2>2, PointsDiffer DEF Placed
  <2> QED BY <1>1, <2>1, <2>2, <2>3, <2>4, AccountsGain
<1>8. CASE AllDevices
  <2>1. /\ at = "next" /\ at' = "done" /\ call' = call
        /\ Free(listBuf) /\ listBuf' = None /\ UNCHANGED <<leaked, devBuf>>
    BY <1>8 DEF AllDevices, Goes
  <2>2. OwnersStay
    BY <1>1, <1>2, <1>3, <1>4, <2>1, OthersOwn DEF OwnPoints
  <2>3. listBuf \in Buffers BY <2>1, Buffered
  <2> QED BY <1>1, <2>1, <2>2, <2>3, AccountsLoss
<1>9. CASE AskHanded
  <2>1. /\ at \in HandedPoints /\ Waits(Prober, Asked, devBuf)
        /\ UNCHANGED <<heapVars, leaked, proberVars>>
    BY <1>9 DEF AskHanded
  <2>2. at' = at /\ UNCHANGED <<allocated, leaked, listBuf, devBuf>>
    BY <2>1 DEF heapVars, proberVars
  <2>3. OwnersStay
    BY <1>1, <1>2, <2>1, <2>2, OthersOwn, WorkersUntouched, PointsDiffer
       DEF Waits
  <2> QED BY <1>1, <2>2, <2>3, AccountsStay
<1>10. CASE HandedReplyComes
  <2>1. /\ at \in HandedPoints /\ call' = [call EXCEPT ![Prober] = Idle]
        /\ UNCHANGED <<leaked, listBuf>>
    BY <1>10 DEF HandedReplyComes, HandedEnds
  <2>2. ~Busy(Prober)'
    BY <1>1, <2>1, ProberIsNoWorker DEF Busy, Idle, Called
  <2>3. OwnersStay
    BY <1>1, <1>2, <2>1, <2>2, OthersOwn, WorkersUntouched, PointsDiffer
  <2>4. devBuf \in Buffers BY <2>1, Buffered, PointsDiffer
  <2>5. CASE UNCHANGED <<heapVars, devBuf>>
    BY <1>1, <2>1, <2>3, <2>5, AccountsStay DEF heapVars
  <2>6. CASE DropDevice
    BY <1>1, <2>1, <2>3, <2>4, <2>6, AccountsLoss DEF DropDevice
  <2> QED BY <1>10, <2>5, <2>6 DEF HandedReplyComes
<1>11. CASE AskOwn
  <2>1. at \in OwnPoints /\ AskWithOwn(Prober, Asked) /\ UNCHANGED proberVars
    BY <1>11 DEF AskOwn
  <2> QED BY <1>1, <2>1, OwnBegins, ProberIsNoWorker
<1>12. CASE OwnReplyComes
  <2>1. /\ at \in OwnPoints /\ OwnEnds(Prober)
        /\ UNCHANGED <<listBuf, devBuf>>
    BY <1>12 DEF OwnReplyComes
  <2>2. call' = [call EXCEPT ![Prober] = Idle] BY <2>1 DEF OwnEnds
  <2>3. ~Busy(Prober)' /\ \A w \in Workers : call'[w] = call[w]
    BY <1>1, <2>2, ProberIsNoWorker, WorkersUntouched DEF Busy, Idle, Called
  <2>4. OwnCalls' = OwnCalls \ {Prober}
    <3>1. \A w \in Workers : Busy(w)' <=> Busy(w) BY <2>3 DEF Busy
    <3> QED BY <2>3, <3>1, ProberIsNoWorker DEF OwnCalls, Threads, Busy
  <2> QED BY <2>1, <2>4, OwnEnding, ProberIsNoWorker
<1>13. CASE CreatePcm
  <2>1. /\ at = "pcm" /\ at' \in After(at, sdev) /\ call' = call
        /\ UNCHANGED <<allocated, leaked, listBuf, devBuf>>
    BY <1>13 DEF CreatePcm, heapVars
  <2>2. ~Busy(Prober)' BY <1>3, <2>1 DEF Busy
  <2>3. OwnersStay
    BY <1>1, <1>2, <1>3, <1>4, <2>1, <2>2, OthersOwn
  <2> QED BY <1>1, <2>1, <2>3, AccountsStay
<1>14. CASE ListDevice
  <2>1. /\ at = "link" /\ at' = "next" /\ call' = call
        /\ Free(devBuf) /\ devBuf' = None /\ UNCHANGED <<leaked, listBuf>>
    BY <1>14 DEF ListDevice, Goes
  <2>2. OwnersStay
    BY <1>1, <1>2, <1>3, <1>4, <2>1, OthersOwn DEF OwnPoints
  <2>3. devBuf \in Buffers BY <2>1, Buffered, PointsDiffer
  <2> QED BY <1>1, <2>1, <2>2, <2>3, AccountsLoss
<1>15. ASSUME NEW w \in Workers, WorkerAsks(w) PROVE Accounts'
  <2>1. PICK c \in WorkerCommands : AskWithOwn(w, c)
    BY <1>15 DEF WorkerAsks
  <2> QED BY <1>1, <1>15, <2>1, OwnBegins, ProberIsNoWorker DEF WorkerAsks
<1>16. ASSUME NEW w \in Workers, WorkerEnds(w) PROVE Accounts'
  <2>1. OwnEnds(w) /\ UNCHANGED <<at, listBuf, devBuf>>
    BY <1>16 DEF WorkerEnds, proberVars
  <2>2. /\ ~Busy(w)'
        /\ \A u \in Threads \ {w} : call'[u] = call[u]
    BY <1>1, <2>1, ProberIsNoWorker DEF OwnEnds, Busy, Idle, Called
  <2>3. OwnCalls' = OwnCalls \ {w}
    BY <2>1, <2>2, ProberIsNoWorker DEF OwnCalls, Busy
  <2> QED BY <2>1, <2>3, OwnEnding, ProberIsNoWorker
<1>17. ASSUME NEW t \in Threads, HandleReply(t) \/ CallFails(t)
       PROVE  Accounts'
  <2>1. /\ Busy(t)
        /\ \E point \in {"answered", "failed"} :
             call' = [call EXCEPT ![t].at = point]
        /\ at' = at /\ UNCHANGED <<allocated, leaked, listBuf, devBuf>>
    BY <1>17 DEF HandleReply, CallFails, Busy, proberVars
  <2>2. OwnersStay BY <1>1, <2>1, CallGoesOn
  <2> QED BY <1>1, <2>1, <2>2, AccountsStay
<1>18. CASE UNCHANGED vars
  <2>1. /\ OwnersStay
        /\ UNCHANGED <<allocated, leaked, listBuf, devBuf>>
    BY <1>18 DEF vars, heapVars, proberVars, OwnersStay, OwnCalls
  <2> QED BY <1>1, <2>1, AccountsStay
<1> QED BY <1>5, <1>6, <1>7, <1>8, <1>9, <1>10, <1>11, <1>12, <1>13, <1>14,
           <1>15, <1>16, <1>17, <1>18 DEF Next, Probe

-----------------------------------------------------------------------------
(* What is asked. *)

ProberAsked ==
  LET c == call[Prober] IN
    /\ c.at # "idle" => at \in {"list"} \union HandedPoints \union OwnPoints
    /\ at = "list" => c.at # "idle" /\ c.cmd = GetDeviceList /\ c.buf = listBuf
    /\ (at \in HandedPoints /\ c.at # "idle") => c.cmd = Asked /\ c.buf = devBuf
    /\ (at \in OwnPoints /\ c.at # "idle") => c.cmd = Asked

IsOwnCommand(c) == c.msg \in OwnMessages /\ c.prop # "uid"

LEMMA AskedParts ==
  AskedInv <=> ProberAsked /\ \A t \in OwnCalls : IsOwnCommand(call[t].cmd)
BY DEF AskedInv, ProberAsked, IsOwnCommand

LEMMA AskedOwn == at \in OwnPoints => IsOwnCommand(Asked)
BY DEF OwnPoints, Asked, IsOwnCommand, OwnMessages, GetProperty,
       PropertyListener, Command, None

LEMMA WorkersAsk == \A c \in WorkerCommands : IsOwnCommand(c)
BY DEF WorkerCommands, IsOwnCommand, OwnMessages, GetProperty, StartIo, StopIo,
       SetAddressRanges, SetRemoteAccess, Command, None

(* Asked, when the prober is where it was. *)
LEMMA AskedStays == UNCHANGED <<at, sdev>> => Asked' = Asked
BY DEF Asked

LEMMA ProberAskedStep == IInv /\ [Next]_vars => ProberAsked'
<1> SUFFICES ASSUME IInv, [Next]_vars PROVE ProberAsked' OBVIOUS
<1>1. Called /\ ProberAsked BY HeapParts, AskedParts DEF IInv
<1>2. at \in {"start", "next", "pcm", "link", "done", "failed"} => ~Busy(Prober)
  BY Calling DEF HandedPoints, OwnPoints
<1>3. Prober \in Threads BY ProberIsNoWorker
<1>4. UNCHANGED <<at, sdev, listBuf, devBuf>> /\ call'[Prober] = call[Prober]
        => ProberAsked'
  BY <1>1, AskedStays DEF ProberAsked
<1>5. ~Busy(Prober)' /\ at' # "list" => ProberAsked'
  BY DEF ProberAsked, Busy
<1>6. call' = [call EXCEPT ![Prober] = Idle] => ~Busy(Prober)'
  BY <1>1, <1>3 DEF Called, Busy, Idle
<1>7. \A from \in DevicePoints \ {"link"} :
        \A s : "list" \notin After(from, s)
  BY AfterPoints DEF DevicePoints, HandedPoints, OwnPoints
<1>8. \A from : from \in HandedPoints \union OwnPoints \union {"pcm"} =>
        from \in DevicePoints \ {"link"}
  BY DEF DevicePoints, HandedPoints, OwnPoints
<1>9. CASE AskForList
  <2>1. /\ at' = "list"
        /\ call' = [call EXCEPT ![Prober] =
                      [at |-> "waiting", cmd |-> GetDeviceList,
                        buf |-> listBuf']]
    BY <1>9 DEF AskForList, Waits, Goes
  <2>2. call'[Prober] = [at |-> "waiting", cmd |-> GetDeviceList,
                         buf |-> listBuf']
    BY <1>1, <1>3, <2>1 DEF Called
  <2> QED BY <2>1, <2>2 DEF ProberAsked, HandedPoints, OwnPoints
<1>10. CASE ListComes
  <2>1. call' = [call EXCEPT ![Prober] = Idle] /\ at' # "list"
    BY <1>10 DEF ListComes, HandedEnds, Goes
  <2> QED BY <1>5, <1>6, <2>1
<1>11. CASE NextDevice \/ AllDevices \/ ListDevice
  <2>1. /\ at \in {"next", "link"} /\ call' = call /\ at' # "list"
    BY <1>11 DEF NextDevice, AllDevices, ListDevice, Goes
  <2> QED BY <1>2, <1>5, <2>1 DEF Busy
<1>12. CASE CreatePcm
  <2>1. /\ at = "pcm" /\ call' = call /\ at' \in After(at, sdev)
    BY <1>12 DEF CreatePcm
  <2>2. at' # "list" BY <1>7, <1>8, <2>1
  <2> QED BY <1>2, <1>5, <2>1, <2>2 DEF Busy
<1>13. CASE AskHanded
  <2>1. /\ at \in HandedPoints /\ UNCHANGED <<at, sdev, devBuf, listBuf>>
        /\ call' = [call EXCEPT ![Prober] =
                      [at |-> "waiting", cmd |-> Asked, buf |-> devBuf]]
    BY <1>13 DEF AskHanded, Waits, proberVars
  <2>2. call'[Prober] = [at |-> "waiting", cmd |-> Asked, buf |-> devBuf]
    BY <1>1, <1>3, <2>1 DEF Called
  <2> QED BY <2>1, <2>2, AskedStays, PointsDiffer DEF ProberAsked
<1>14. CASE AskOwn
  <2>1. PICK b \in Buffers : Waits(Prober, Asked, b)
    BY <1>14 DEF AskOwn, AskWithOwn
  <2>2. at \in OwnPoints /\ UNCHANGED <<at, sdev, devBuf, listBuf>>
    BY <1>14 DEF AskOwn, proberVars
  <2>3. call'[Prober] = [at |-> "waiting", cmd |-> Asked, buf |-> b]
    BY <1>1, <1>3, <2>1 DEF Called, Waits
  <2> QED BY <2>2, <2>3, AskedStays, PointsDiffer DEF ProberAsked
<1>15. CASE HandedReplyComes
  <2>1. at \in HandedPoints /\ call' = [call EXCEPT ![Prober] = Idle]
    BY <1>15 DEF HandedReplyComes, HandedEnds
  <2>2. at' # "list"
    BY <1>7, <1>8, <1>15, <2>1 DEF HandedReplyComes, DropDevice
  <2> QED BY <1>5, <1>6, <2>1, <2>2
<1>16. CASE OwnReplyComes
  <2>1. at \in OwnPoints /\ call' = [call EXCEPT ![Prober] = Idle]
    BY <1>16 DEF OwnReplyComes, OwnEnds
  <2>2. at' # "list" BY <1>7, <1>8, <1>16, <2>1 DEF OwnReplyComes
  <2> QED BY <1>5, <1>6, <2>1, <2>2
<1>17. ASSUME NEW w \in Workers, WorkerAsks(w) \/ WorkerEnds(w)
       PROVE  ProberAsked'
  <2>1. /\ UNCHANGED <<at, sdev, listBuf, devBuf>>
        /\ \E e : call' = [call EXCEPT ![w] = e]
    BY <1>17 DEF WorkerAsks, WorkerEnds, AskWithOwn, Waits, OwnEnds, proberVars
  <2>2. call'[Prober] = call[Prober]
    BY <1>1, <1>3, <2>1, ProberIsNoWorker DEF Called
  <2> QED BY <1>4, <2>1, <2>2
<1>18. ASSUME NEW t \in Threads, HandleReply(t) \/ CallFails(t)
       PROVE  ProberAsked'
  <2>1. /\ UNCHANGED <<at, sdev, listBuf, devBuf>> /\ Busy(t)
        /\ \E point \in {"answered", "failed"} :
             call' = [call EXCEPT ![t].at = point]
    BY <1>18 DEF HandleReply, CallFails, proberVars, Busy
  <2>2. /\ call'[Prober].cmd = call[Prober].cmd
        /\ call'[Prober].buf = call[Prober].buf
        /\ call'[Prober].at # "idle" <=> call[Prober].at # "idle"
    BY <1>1, <1>3, <2>1 DEF Called, Busy
  <2> QED BY <1>1, <2>1, <2>2, AskedStays DEF ProberAsked
<1>19. CASE UNCHANGED vars BY <1>4, <1>19 DEF vars, proberVars
<1> QED BY <1>9, <1>10, <1>11, <1>12, <1>13, <1>14, <1>15, <1>16, <1>17,
           <1>18, <1>19 DEF Next, Probe

LEMMA OwnAskedStep ==
  ASSUME IInv, [Next]_vars, NEW t \in OwnCalls'
  PROVE  IsOwnCommand(call'[t].cmd)
<1>1. Called /\ Called' BY HeapParts, CalledStep DEF IInv
<1>2. \A u \in OwnCalls : IsOwnCommand(call[u].cmd) BY AskedParts DEF IInv
<1>3. t \in Threads /\ Busy(t)' /\ (t \in Workers \/ at' \in OwnPoints)
  BY ProberIsNoWorker DEF OwnCalls, Busy, Threads
<1>4. call'[t].cmd = call[t].cmd /\ Busy(t) /\ (at' = at \/ t \in Workers)
        => IsOwnCommand(call'[t].cmd)
  BY <1>2, <1>3, OwnCallers
<1>5. at \in {"start", "next", "pcm", "link", "done", "failed"} => ~Busy(Prober)
  BY Calling DEF HandedPoints, OwnPoints
<1>6. ASSUME call' = call,
        at \in {"start", "next", "pcm", "link", "done", "failed"}
      PROVE  IsOwnCommand(call'[t].cmd)
  <2>1. t \in Workers BY <1>3, <1>5, <1>6 DEF Busy, Threads
  <2> QED BY <1>3, <1>4, <1>6, <2>1 DEF Busy
<1>7. ASSUME NEW u \in Threads, call' = [call EXCEPT ![u] = Idle],
             at' = at \/ u = Prober
      PROVE  IsOwnCommand(call'[t].cmd)
  <2>1. t # u BY <1>1, <1>3, <1>7 DEF Called, Busy, Idle
  <2>2. call'[t] = call[t] BY <1>1, <1>3, <1>7, <2>1 DEF Called
  <2>3. at' = at \/ t \in Workers BY <1>3, <1>7, <2>1 DEF Threads
  <2> QED BY <1>3, <1>4, <2>2, <2>3 DEF Busy
<1>8. ASSUME NEW u \in Threads, NEW c, IsOwnCommand(c), NEW b, Waits(u, c, b),
             at' = at
      PROVE  IsOwnCommand(call'[t].cmd)
  <2>1. CASE t = u BY <1>1, <1>8, <2>1 DEF Called, Waits
  <2>2. CASE t # u
    <3>1. call'[t] = call[t] BY <1>1, <1>3, <1>8, <2>2 DEF Called, Waits
    <3> QED BY <1>3, <1>4, <1>8, <3>1 DEF Busy
  <2> QED BY <2>1, <2>2
<1>9. CASE AskForList
  <2>1. PICK b : Waits(Prober, GetDeviceList, b) BY <1>9 DEF AskForList
  <2>2. at' = "list" BY <1>9 DEF AskForList, Goes
  <2>3. t \in Workers BY <1>3, <2>2, PointsDiffer DEF Threads, OwnPoints
  <2>4. call'[t] = call[t]
    BY <1>1, <2>1, <2>3, ProberIsNoWorker DEF Called, Waits
  <2> QED BY <1>3, <1>4, <2>3, <2>4 DEF Busy
<1>10. CASE ListComes \/ HandedReplyComes
  <2>1. call' = [call EXCEPT ![Prober] = Idle]
    BY <1>10 DEF ListComes, HandedReplyComes, HandedEnds
  <2> QED BY <1>7, <2>1, ProberIsNoWorker
<1>11. CASE NextDevice \/ AllDevices \/ ListDevice \/ CreatePcm
  <2>1. at \in {"next", "link", "pcm"} /\ call' = call
    BY <1>11 DEF NextDevice, AllDevices, ListDevice, CreatePcm, Goes
  <2> QED BY <1>6, <2>1
<1>12. CASE AskHanded
  <2>1. at' = at /\ at \in HandedPoints /\ Waits(Prober, Asked, devBuf)
    BY <1>12 DEF AskHanded, proberVars
  <2>2. t \in Workers BY <1>3, <2>1, PointsDiffer DEF Threads
  <2>3. call'[t] = call[t]
    BY <1>1, <2>1, <2>2, ProberIsNoWorker DEF Called, Waits
  <2> QED BY <1>3, <1>4, <2>2, <2>3 DEF Busy
<1>13. CASE AskOwn
  <2>1. at' = at /\ \E b : Waits(Prober, Asked, b)
    BY <1>13 DEF AskOwn, AskWithOwn, proberVars
  <2>2. IsOwnCommand(Asked) BY <1>13, AskedOwn DEF AskOwn
  <2> QED BY <1>8, <2>1, <2>2, ProberIsNoWorker
<1>14. CASE OwnReplyComes
  <2>1. call' = [call EXCEPT ![Prober] = Idle]
    BY <1>14 DEF OwnReplyComes, OwnEnds
  <2> QED BY <1>7, <2>1, ProberIsNoWorker
<1>15. ASSUME NEW w \in Workers, WorkerAsks(w)
       PROVE  IsOwnCommand(call'[t].cmd)
  <2>1. at' = at /\ \E c \in WorkerCommands, b \in Buffers : Waits(w, c, b)
    BY <1>15 DEF WorkerAsks, AskWithOwn, proberVars
  <2> QED BY <1>8, <2>1, WorkersAsk, ProberIsNoWorker
<1>16. ASSUME NEW w \in Workers, WorkerEnds(w)
       PROVE  IsOwnCommand(call'[t].cmd)
  <2>1. at' = at /\ call' = [call EXCEPT ![w] = Idle]
    BY <1>16 DEF WorkerEnds, OwnEnds, proberVars
  <2> QED BY <1>7, <2>1, ProberIsNoWorker
<1>17. ASSUME NEW u \in Threads, HandleReply(u) \/ CallFails(u)
       PROVE  IsOwnCommand(call'[t].cmd)
  <2>1. /\ at' = at /\ Busy(u)
        /\ \E point \in {"answered", "failed"} :
             call' = [call EXCEPT ![u].at = point]
    BY <1>17 DEF HandleReply, CallFails, proberVars, Busy
  <2>2. call'[t].cmd = call[t].cmd /\ Busy(t)
    BY <1>1, <1>3, <2>1 DEF Called, Busy
  <2> QED BY <1>4, <2>1, <2>2
<1>18. CASE UNCHANGED vars
  BY <1>3, <1>4, <1>18 DEF vars, proberVars, Busy
<1> QED BY <1>9, <1>10, <1>11, <1>12, <1>13, <1>14, <1>15, <1>16, <1>17,
           <1>18 DEF Next, Probe

LEMMA AskedStep == IInv /\ [Next]_vars => AskedInv'
<1> SUFFICES ASSUME IInv, [Next]_vars PROVE AskedInv' OBVIOUS
<1>1. ProberAsked' BY ProberAskedStep
<1>2. \A t \in OwnCalls' : IsOwnCommand(call'[t].cmd) BY OwnAskedStep
<1> QED BY <1>1, <1>2 DEF AskedInv, ProberAsked, IsOwnCommand

-----------------------------------------------------------------------------
(* Which buffers a step writes to. *)

LEMMA BuffersApart ==
  ASSUME IInv, NEW t \in Threads, Busy(t)
  PROVE  /\ \A u \in Threads \ {t} : Busy(u) => call[u].buf # call[t].buf
         /\ at \notin {"start", "done", "failed"} /\ call[t].buf = listBuf
              => t = Prober /\ at = "list"
         /\ at \in DevicePoints /\ call[t].buf = devBuf
              => t = Prober /\ at \in HandedPoints
<1>1. \A u \in Threads : Busy(u) =>
        \/ u \in OwnCalls
        \/ u = Prober /\ at = "list" /\ call[u].buf = listBuf
        \/ u = Prober /\ at \in HandedPoints /\ call[u].buf = devBuf
  BY Calling, OwnCallers DEF Threads
<1>2. \A u \in OwnCalls : call[u].buf \notin {listBuf, devBuf} BY Buffered
<1>3. \A u, v \in OwnCalls : u # v => call[u].buf # call[v].buf BY Buffered
<1>4. \A u \in Threads \ {t} : Busy(u) => call[u].buf # call[t].buf
  BY <1>1, <1>2, <1>3
<1>5. at \in DevicePoints => devBuf # listBuf /\ at # "list"
  BY Buffered, PointsDiffer
<1>6. at \in HandedPoints => at \in DevicePoints BY PointsDiffer
<1> QED BY <1>1, <1>2, <1>4, <1>5, <1>6

(* The thread a reply comes to, or that gives up. *)
Gets(t) == HandleReply(t) \/ CallFails(t)

(* A buffer stays as it is, is given back, or gets a reply. *)
Changes(b) ==
  \/ mem'[b] = mem[b] /\ (b \in allocated => b \in allocated')
  \/ mem'[b] = Blank /\ b \notin allocated'
  \/ \E t \in Threads : Gets(t) /\ call[t].buf = b

LEMMA MemoryChange ==
  ASSUME IInv, [Next]_vars, NEW b \in Buffers
  PROVE  Changes(b)
<1>1. Memory BY HeapParts DEF IInv
<1>2. UNCHANGED heapVars => Changes(b) BY DEF heapVars, Changes
<1>3. \A a \in Buffers : Alloc(a) /\ UNCHANGED mem => Changes(b)
        BY DEF Alloc, Changes
<1>4. ASSUME NEW a \in Buffers, Free(a) PROVE Changes(b)
  <2>1. CASE a = b BY <1>1, <1>4, <2>1, FreeStep DEF Free, Changes
  <2>2. CASE a # b BY <1>1, <1>4, <2>2, FreeStep DEF Free, Changes
  <2> QED BY <2>1, <2>2
<1>5. ASSUME NEW t \in Threads, Gets(t) PROVE Changes(b)
  <2>1. CASE call[t].buf = b BY <1>5, <2>1 DEF Changes
  <2>2. CASE call[t].buf # b
    <3>1. Busy(t) /\ UNCHANGED allocated
      BY <1>5 DEF Gets, HandleReply, CallFails, Busy
    <3>2. \/ mem' = mem
          \/ \E r \in Replies(call[t].cmd) :
               mem' = [mem EXCEPT ![call[t].buf] = Copied(@, r)]
      BY <1>5 DEF Gets, HandleReply, CallFails
    <3> QED BY <2>2, <3>1, <3>2, CopyStep DEF Changes
  <2> QED BY <2>1, <2>2
<1>6. ASSUME NEW t \in Threads, t \in Workers \/ at \in OwnPoints, OwnEnds(t)
      PROVE  Changes(b)
  <2>1. t \in OwnCalls BY <1>6, OwnCallers DEF OwnEnds, Ends, Busy
  <2>2. call[t].buf \in Buffers BY <2>1, Buffered
  <2>3. UNCHANGED heapVars \/ Free(call[t].buf) BY <1>6 DEF OwnEnds
  <2> QED BY <1>2, <1>4, <2>2, <2>3
<1>7. CASE AskForList BY <1>3, <1>7 DEF AskForList
<1>8. CASE ListComes \/ AllDevices
  <2>1. at \in {"list", "next"} BY <1>8 DEF ListComes, AllDevices, Goes
  <2>2. listBuf \in Buffers BY <2>1, Buffered
  <2>3. UNCHANGED heapVars \/ Free(listBuf) BY <1>8 DEF ListComes, AllDevices
  <2> QED BY <1>2, <1>4, <2>2, <2>3
<1>9. CASE NextDevice BY <1>3, <1>9 DEF NextDevice
<1>10. CASE AskHanded \/ CreatePcm BY <1>2, <1>10 DEF AskHanded, CreatePcm
<1>11. CASE HandedReplyComes \/ ListDevice
  <2>1. at \in DevicePoints
    BY <1>11 DEF HandedReplyComes, ListDevice, Goes, DevicePoints
  <2>2. devBuf \in Buffers BY <2>1, Buffered
  <2>3. UNCHANGED heapVars \/ Free(devBuf)
    BY <1>11 DEF HandedReplyComes, ListDevice, DropDevice
  <2> QED BY <1>2, <1>4, <2>2, <2>3
<1>12. CASE AskOwn BY <1>3, <1>12 DEF AskOwn, AskWithOwn
<1>13. CASE OwnReplyComes BY <1>6, <1>13, ProberIsNoWorker DEF OwnReplyComes
<1>14. ASSUME NEW w \in Workers, WorkerAsks(w) \/ WorkerEnds(w) PROVE Changes(b)
  BY <1>3, <1>6, <1>14, ProberIsNoWorker DEF WorkerAsks, WorkerEnds, AskWithOwn
<1>15. CASE UNCHANGED vars BY <1>2, <1>15 DEF vars
<1> QED
  BY <1>5, <1>7, <1>8, <1>9, <1>10, <1>11, <1>12, <1>13, <1>14, <1>15
     DEF Next, Probe, Gets

(* The steps on which the prober stays where it is. *)
Quiet ==
  \/ AskHanded \/ AskOwn
  \/ \E w \in Workers : WorkerAsks(w) \/ WorkerEnds(w)
  \/ \E t \in Threads : Gets(t)
  \/ UNCHANGED vars

LEMMA QuietCall ==
  ASSUME IInv, Quiet
  PROVE  /\ UNCHANGED <<padded, proberVars>>
         /\ \/ call'[Prober] = call[Prober]
            \/ /\ ~Busy(Prober) /\ at \in HandedPoints \union OwnPoints
               /\ call'[Prober].at = "waiting"
            \/ /\ call[Prober].at = "waiting" /\ Ends(Prober)'
               /\ call'[Prober].cmd = call[Prober].cmd
               /\ call'[Prober].buf = call[Prober].buf
<1> DEFINE Goal == \/ call'[Prober] = call[Prober]
                   \/ /\ ~Busy(Prober) /\ at \in HandedPoints \union OwnPoints
                      /\ call'[Prober].at = "waiting"
                   \/ /\ call[Prober].at = "waiting" /\ Ends(Prober)'
                      /\ call'[Prober].cmd = call[Prober].cmd
                      /\ call'[Prober].buf = call[Prober].buf
<1>1. Called BY HeapParts DEF IInv
<1>2. CASE AskHanded \/ AskOwn
  <2>1. /\ UNCHANGED <<padded, proberVars>>
        /\ at \in HandedPoints \union OwnPoints
        /\ \E c, b : Waits(Prober, c, b)
    BY <1>2 DEF AskHanded, AskOwn, AskWithOwn
  <2> QED BY <1>1, <2>1, ProberIsNoWorker DEF Called, Waits, Busy
<1>3. ASSUME NEW w \in Workers, WorkerAsks(w) \/ WorkerEnds(w)
      PROVE  UNCHANGED <<padded, proberVars>> /\ Goal
  <2>1. /\ UNCHANGED <<padded, proberVars>>
        /\ \E e : call' = [call EXCEPT ![w] = e]
    BY <1>3 DEF WorkerAsks, WorkerEnds, AskWithOwn, Waits, OwnEnds
  <2> QED BY <1>1, <2>1, ProberIsNoWorker DEF Called
<1>4. ASSUME NEW t \in Threads, Gets(t)
      PROVE  UNCHANGED <<padded, proberVars>> /\ Goal
  <2>1. /\ UNCHANGED <<padded, proberVars>> /\ call[t].at = "waiting"
        /\ \E point \in {"answered", "failed"} :
             call' = [call EXCEPT ![t].at = point]
    BY <1>4 DEF Gets, HandleReply, CallFails
  <2> QED BY <1>1, <2>1, ProberIsNoWorker DEF Called, Ends
<1>5. CASE UNCHANGED vars BY <1>5 DEF vars, proberVars
<1> QED BY <1>2, <1>3, <1>4, <1>5 DEF Quiet

LEMMA QuietMemory ==
  ASSUME IInv, Quiet, [Next]_vars
  PROVE  /\ at \notin {"start", "done", "failed"} =>
              \/ mem'[listBuf] = mem[listBuf]
              \/ at = "list" /\ Gets(Prober) /\ call[Prober].buf = listBuf
         /\ at \in DevicePoints =>
              \/ mem'[devBuf] = mem[devBuf]
              \/ at \in HandedPoints /\ Gets(Prober)
                   /\ call[Prober].buf = devBuf
<1>1. UNCHANGED <<at, listBuf, devBuf>> BY QuietCall DEF proberVars
<1>2. NothingElseLost' BY AccountsStep DEF Accounts
<1>3. \A t \in Threads : Gets(t) => Busy(t)
  BY DEF Gets, HandleReply, CallFails, Busy
<1>4. ASSUME at \notin {"start", "done", "failed"},
             mem'[listBuf] # mem[listBuf]
      PROVE  at = "list" /\ Gets(Prober) /\ call[Prober].buf = listBuf
  <2>1. listBuf \in Buffers BY <1>4, Buffered
  <2>2. listBuf' \in allocated'
    BY <1>1, <1>2, <2>1, BuffersAssumption DEF NothingElseLost, ProberHolds
  <2>3. PICK t \in Threads : Gets(t) /\ call[t].buf = listBuf
    BY <1>1, <1>4, <2>1, <2>2, MemoryChange DEF Changes
  <2> QED BY <1>3, <1>4, <2>3, BuffersApart
<1>5. ASSUME at \in DevicePoints, mem'[devBuf] # mem[devBuf]
      PROVE  at \in HandedPoints /\ Gets(Prober) /\ call[Prober].buf = devBuf
  <2>1. devBuf \in Buffers BY <1>5, Buffered
  <2>2. devBuf' \in allocated'
    BY <1>1, <1>2, <2>1, BuffersAssumption DEF NothingElseLost, ProberHolds
  <2>3. PICK t \in Threads : Gets(t) /\ call[t].buf = devBuf
    BY <1>1, <1>5, <2>1, <2>2, MemoryChange DEF Changes
  <2> QED BY <1>3, <1>5, <2>3, BuffersApart
<1> QED BY <1>4, <1>5

(* The others. *)
Moves ==
  \/ AskForList \/ ListComes \/ NextDevice \/ AllDevices
  \/ HandedReplyComes \/ OwnReplyComes \/ CreatePcm \/ ListDevice

LEMMA QuietOrMoves == [Next]_vars <=> Quiet \/ Moves
BY DEF Next, Probe, Quiet, Moves, Gets

-----------------------------------------------------------------------------
(* What is in a buffer that is waited for. *)

LEMMA FreeIsBlank ==
  ASSUME IInv, [Next]_vars, NEW b \in Buffers \ allocated'
  PROVE  mem'[b] = Blank
<1>1. \A t \in Threads : Gets(t) =>
        UNCHANGED allocated /\ call[t].buf \in allocated
  BY Calling DEF Gets, HandleReply, CallFails, Busy
<1>2. b \notin allocated => mem[b] = Blank BY DEF IInv, BlankInv
<1> QED BY <1>1, <1>2, MemoryChange DEF Changes

(* A call that is waited for was, or is new. *)
LEMMA WaitingCall ==
  ASSUME IInv, [Next]_vars, NEW t \in Threads, call'[t].at = "waiting"
  PROVE  \/ call'[t] = call[t] /\ ~Gets(t) /\ (t = Prober => at' = at)
         \/ Alloc(call'[t].buf) /\ call'[t].buf \in Buffers /\ UNCHANGED mem
         \/ t = Prober /\ at' \in HandedPoints
<1> DEFINE Goal == \/ call'[t] = call[t] /\ ~Gets(t) /\ (t = Prober => at' = at)
                   \/ Alloc(call'[t].buf) /\ call'[t].buf \in Buffers
                        /\ UNCHANGED mem
                   \/ t = Prober /\ at' \in HandedPoints
<1>1. Called BY HeapParts DEF IInv
<1>2. Gets(t) => call'[t].at \in {"answered", "failed"}
  BY <1>1 DEF Gets, HandleReply, CallFails, Called
<1>3. ~Gets(t) BY <1>2
<1>4. ASSUME NEW u \in Threads, call' = [call EXCEPT ![u] = Idle],
             u = Prober \/ at' = at
      PROVE  Goal
  BY <1>1, <1>3, <1>4 DEF Called, Idle
<1>5. ASSUME NEW u \in Threads, NEW c, NEW b \in Buffers, Alloc(b),
             Waits(u, c, b), UNCHANGED mem, u = Prober \/ at' = at
      PROVE  Goal
  BY <1>1, <1>3, <1>5 DEF Called, Waits
<1>6. at \in {"next", "pcm", "link"} => ~Busy(Prober)
  BY Calling DEF HandedPoints, OwnPoints
<1>7. CASE AskForList
  BY <1>5, <1>7, ProberIsNoWorker DEF AskForList
<1>8. CASE ListComes \/ HandedReplyComes
  BY <1>4, <1>8, ProberIsNoWorker DEF ListComes, HandedReplyComes, HandedEnds
<1>9. CASE NextDevice \/ AllDevices \/ CreatePcm \/ ListDevice
  <2>1. call' = call /\ at \in {"next", "pcm", "link"}
    BY <1>9 DEF NextDevice, AllDevices, CreatePcm, ListDevice, Goes
  <2> QED BY <1>3, <1>6, <2>1 DEF Busy
<1>10. CASE AskHanded
  <2>1. at' = at /\ at \in HandedPoints /\ Waits(Prober, Asked, devBuf)
    BY <1>10 DEF AskHanded, proberVars
  <2> QED BY <1>1, <1>3, <2>1 DEF Called, Waits
<1>11. CASE AskOwn
  BY <1>5, <1>11, ProberIsNoWorker DEF AskOwn, AskWithOwn
<1>12. CASE OwnReplyComes
  BY <1>4, <1>12, ProberIsNoWorker DEF OwnReplyComes, OwnEnds
<1>13. ASSUME NEW w \in Workers, WorkerAsks(w) PROVE Goal
  <2>1. at' = at BY <1>13 DEF WorkerAsks, proberVars
  <2> QED BY <1>5, <1>13, <2>1, ProberIsNoWorker DEF WorkerAsks, AskWithOwn
<1>14. ASSUME NEW w \in Workers, WorkerEnds(w) PROVE Goal
  <2>1. at' = at BY <1>14 DEF WorkerEnds, proberVars
  <2> QED BY <1>4, <1>14, <2>1, ProberIsNoWorker DEF WorkerEnds, OwnEnds
<1>15. ASSUME NEW u \in Threads, Gets(u) PROVE Goal
  <2>1. at' = at /\ \E point \in {"answered", "failed"} :
                      call' = [call EXCEPT ![u].at = point]
    BY <1>15 DEF Gets, HandleReply, CallFails, proberVars
  <2> QED BY <1>1, <1>3, <1>15, <2>1 DEF Called
<1>16. CASE UNCHANGED vars BY <1>3, <1>16 DEF vars, proberVars
<1> QED BY <1>7, <1>8, <1>9, <1>10, <1>11, <1>12, <1>13, <1>14, <1>15, <1>16,
           QuietOrMoves DEF Moves, Quiet

LEMMA WaitedForBlank ==
  ASSUME IInv, [Next]_vars, NEW t \in Threads, call'[t].at = "waiting",
         t \in OwnCalls' \/ (t = Prober /\ at' = "list")
  PROVE  mem'[call'[t].buf] = Blank
<1> DEFINE b == call'[t].buf
<1>1. Accounts' /\ ProberAsked' BY AccountsStep, ProberAskedStep
<1>2. b \in Buffers /\ b \in allocated'
  <2>1. CASE t \in OwnCalls'
    BY <1>1, <2>1 DEF Accounts, NothingElseLost, OwnBufs
  <2>2. CASE t = Prober /\ at' = "list"
    <3>1. b = listBuf' BY <1>1, <2>2 DEF ProberAsked
    <3>2. Placed' BY PlacedStep
    <3>3. listBuf' # None BY <2>2, <3>2 DEF Placed
    <3> QED BY <1>1, <3>1, <3>3 DEF Accounts, NothingElseLost, ProberHolds
  <2> QED BY <2>1, <2>2
<1>3. CASE Alloc(b) /\ UNCHANGED mem
  BY <1>2, <1>3 DEF Alloc, IInv, BlankInv
<1>4. CASE t = Prober /\ at' \in HandedPoints
  BY <1>4, ProberIsNoWorker DEF OwnCalls, HandedPoints, OwnPoints
<1>5. CASE call'[t] = call[t] /\ ~Gets(t) /\ (t = Prober => at' = at)
  <2>1. t \in OwnCalls \/ (t = Prober /\ at = "list")
    BY <1>5 DEF OwnCalls
  <2>2. at = "list" /\ t = Prober => call[t].buf = listBuf
    BY <2>1 DEF IInv, AskedInv
  <2>3. mem[call[t].buf] = Blank BY <1>5, <2>1, <2>2 DEF IInv, BlankInv
  <2>4. \A u \in Threads : Gets(u) => call[u].buf # call[t].buf
    BY <1>5, BuffersApart DEF Gets, HandleReply, CallFails, Busy
  <2> QED BY <1>2, <1>5, <2>3, <2>4, MemoryChange DEF Changes
<1> QED BY <1>3, <1>4, <1>5, WaitingCall

(* What the prober holds while it goes on. *)
LEMMA HeldStays ==
  ASSUME IInv, Moves, at \in {"next"} \union DevicePoints,
         at' \in {"next"} \union DevicePoints
  PROVE  /\ listBuf' = listBuf /\ mem'[listBuf] = mem[listBuf]
         /\ (at # "next" /\ at' # "next")
              => devBuf' = devBuf /\ mem'[devBuf] = mem[devBuf]
<1>1. Memory BY HeapParts DEF IInv
<1>2. at \notin {"start", "list", "done"} /\ at' # "done"
  BY PointsDiffer DEF DevicePoints, HandedPoints, OwnPoints
<1>3. listBuf \in Buffers
        BY <1>2, Buffered DEF DevicePoints, HandedPoints, OwnPoints
<1>4. at # "next" => devBuf \in Buffers /\ devBuf # listBuf BY Buffered
<1>5. CASE NextDevice BY <1>5 DEF NextDevice, Goes
<1>6. CASE HandedReplyComes
  <2>1. listBuf' = listBuf /\ at # "next"
    BY <1>6 DEF HandedReplyComes, HandedPoints
  <2>2. CASE UNCHANGED <<heapVars, devBuf>> BY <2>1, <2>2 DEF heapVars
  <2>3. CASE DropDevice
    BY <1>1, <1>3, <1>4, <2>1, <2>3, FreeStep DEF DropDevice
  <2> QED BY <1>6, <2>2, <2>3 DEF HandedReplyComes
<1>7. CASE OwnReplyComes
  <2>1. /\ at \in OwnPoints /\ OwnEnds(Prober) /\ UNCHANGED <<listBuf, devBuf>>
    BY <1>7 DEF OwnReplyComes
  <2>2. Prober \in OwnCalls
    BY <2>1, OwnCallers, ProberIsNoWorker DEF OwnEnds, Ends, Busy
  <2>3. call[Prober].buf \in Buffers
          /\ call[Prober].buf \notin {listBuf, devBuf}
    BY <2>2, Buffered
  <2>4. UNCHANGED heapVars \/ Free(call[Prober].buf) BY <2>1 DEF OwnEnds
  <2>5. CASE UNCHANGED heapVars BY <2>1, <2>5 DEF heapVars
  <2>6. CASE Free(call[Prober].buf)
    <3>1. \A other \in Buffers \ {call[Prober].buf} : mem'[other] = mem[other]
      BY <1>1, <2>3, <2>6, FreeStep
    <3>2. mem'[listBuf] = mem[listBuf] BY <1>3, <2>3, <3>1
    <3>3. at # "next" => mem'[devBuf] = mem[devBuf] BY <1>4, <2>3, <3>1
    <3> QED BY <2>1, <3>2, <3>3
  <2> QED BY <2>4, <2>5, <2>6
<1>8. CASE CreatePcm BY <1>8 DEF CreatePcm, heapVars
<1>9. CASE ListDevice
  <2>1. /\ at = "link" /\ at' = "next" /\ Free(devBuf) /\ listBuf' = listBuf
    BY <1>9 DEF ListDevice, Goes
  <2> QED BY <1>1, <1>3, <1>4, <2>1, FreeStep
<1>10. CASE AskForList \/ ListComes \/ AllDevices
  BY <1>2, <1>10 DEF AskForList, ListComes, AllDevices, Goes
<1> QED BY <1>5, <1>6, <1>7, <1>8, <1>9, <1>10 DEF Moves

(* What a reply says that is understood. *)
LEMMA NotRefused ==
  ASSUME NEW b, NEW p, Shows(b, p), Data(b)[1] # "REFUSED"
  PROVE  p # <<"REFUSED">>
<1> SUFFICES ASSUME p = <<"REFUSED">> PROVE FALSE OBVIOUS
<1>1. p[1] = "REFUSED" OBVIOUS
<1> QED BY <1>1 DEF Shows

LEMMA ListReply ==
  ASSUME IInv, at = "list", Succeeds(Prober)
  PROVE  /\ CountIn(listBuf) = Len(Said)
         /\ \A i \in 1 .. Len(Said) : IdIn(listBuf, i) = Said[i].id
<1> DEFINE ids == [i \in DOMAIN Said |-> Said[i].id]
<1>1. /\ call[Prober].at = "answered" /\ call[Prober].cmd = GetDeviceList
      /\ call[Prober].buf = listBuf /\ Understood(GetDeviceList, listBuf)
  BY DEF IInv, AskedInv, Succeeds
<1>2. PICK p \in Plain(GetDeviceList) :
        /\ Shows(listBuf, p)
        /\ Len(p) <= Words => ~mem[listBuf].cut
  BY <1>1 DEF IInv, AnsweredInv
<1>3. Data(listBuf)[1] = "GET_DEVICE_LIST"
  BY <1>1 DEF Understood, GetDeviceList, Command
<1>4. p # <<"REFUSED">> BY <1>2, <1>3, NotRefused
<1>5. p = Counted(GetDeviceList, ids)
  BY <1>2, <1>4 DEF Plain, Response, GetDeviceList, Command
<1>6. ids \in Seq(Names) /\ Len(ids) = Len(Said) BY SaidTyped
<1> HIDE DEF ids
<1>7. /\ Len(p) = 2 + Len(Said) /\ p[2] = Len(Said)
      /\ \A i \in 1 .. Len(Said) : p[i + 2] = ids[i]
  BY <1>5, <1>6, CountedSays
<1>8. Len(Said) \in Nat BY SaidTyped
<1>9. ~mem[listBuf].cut BY <1>2, <1>7, WordsAssumption
<1>10. CountIn(listBuf) = Len(Said)
  <2>1. Len(p) >= 2 BY <1>7, <1>8
  <2> QED BY <1>2, <1>7, <2>1 DEF Shows, CountIn
<1>11. \A i \in 1 .. Len(Said) : IdIn(listBuf, i) = ids[i]
  <2> TAKE i \in 1 .. Len(Said)
  <2>1. i + 2 \in 1 .. Len(p) BY <1>7, <1>8
  <2>2. Data(listBuf)[i + 2] = p[i + 2] BY <1>2, <1>9, <2>1 DEF Shows
  <2> QED BY <1>7, <2>2 DEF IdIn
<1>12. \A i \in 1 .. Len(Said) : ids[i] = Said[i].id BY SaidTyped DEF ids
<1> QED BY <1>10, <1>11, <1>12

LEMMA StreamsReply ==
  ASSUME IInv, at \in {"ins", "outs"}, Succeeds(Prober), NEW list, NEW S,
    list \in Seq(S),
         Response(call[Prober].cmd) = {Counted(call[Prober].cmd, list)},
         call[Prober].cmd.msg # "REFUSED"
  PROVE  /\ mem[devBuf].size >= 2
         /\ CountIn(devBuf) = Len(list)
         /\ ~mem[devBuf].cut =>
              \A i \in 1 .. Len(list) : IdIn(devBuf, i) = list[i]
<1> DEFINE c == call[Prober].cmd
<1>1. /\ call[Prober].at = "answered" /\ call[Prober].buf = devBuf
      /\ Understood(c, devBuf)
  BY DEF IInv, AskedInv, Succeeds, HandedPoints
<1>2. PICK p \in Plain(c) : Shows(devBuf, p)
  BY <1>1 DEF IInv, AnsweredInv
<1>3. Data(devBuf)[1] = c.msg BY <1>1 DEF Understood
<1>4. p # <<"REFUSED">> BY <1>2, <1>3, NotRefused
<1>5. p = Counted(c, list) BY <1>2, <1>4 DEF Plain
<1>6. /\ Len(p) = 2 + Len(list) /\ p[2] = Len(list)
      /\ \A i \in 1 .. Len(list) : p[i + 2] = list[i]
  BY <1>5, CountedSays
<1>7. Len(list) \in Nat BY LenProperties
<1>8. Len(p) >= 2 BY <1>6, <1>7
<1>9. mem[devBuf].size >= 2 /\ CountIn(devBuf) = Len(list)
  BY <1>2, <1>6, <1>8 DEF Shows, CountIn
<1>10. ASSUME ~mem[devBuf].cut, NEW i \in 1 .. Len(list)
       PROVE  IdIn(devBuf, i) = list[i]
  <2>1. i + 2 \in 1 .. Len(p) BY <1>6, <1>7
  <2>2. Data(devBuf)[i + 2] = p[i + 2] BY <1>2, <1>10, <2>1 DEF Shows
  <2> QED BY <1>6, <2>2 DEF IdIn
<1> QED BY <1>9, <1>10

(* Where the prober is with a device. *)
LEMMA WithDevice ==
  ASSUME IInv, at \in DevicePoints
  PROVE  devI + 1 \in DOMAIN Said /\ sdev.id = Said[devI + 1].id
BY SaidTyped DEF IInv, ListInv, SdevInv

LEMMA InsReply ==
  ASSUME IInv, at = "ins", Succeeds(Prober)
  PROVE  /\ mem[devBuf].size >= 2
         /\ CountIn(devBuf) = Len(Said[devI + 1].ins)
         /\ ~mem[devBuf].cut =>
              \A i \in 1 .. Len(Said[devI + 1].ins) :
                IdIn(devBuf, i) = Said[devI + 1].ins[i]
<1>1. devI + 1 \in DOMAIN Said /\ sdev.id = Said[devI + 1].id
  BY WithDevice DEF DevicePoints, HandedPoints
<1>2. call[Prober].cmd = GetInputStreamList(sdev.id)
  BY DEF Succeeds, IInv, AskedInv, HandedPoints, Asked
<1>3. Response(call[Prober].cmd) =
        {Counted(call[Prober].cmd, Said[devI + 1].ins)}
  BY <1>1, <1>2, DeviceSaid DEF Response, GetInputStreamList, Command
<1>4. Said[devI + 1].ins \in Seq(Names) BY <1>1, SaidTyped
<1>5. call[Prober].cmd.msg # "REFUSED"
  BY <1>2 DEF GetInputStreamList, Command
<1> QED BY <1>3, <1>4, <1>5, StreamsReply

LEMMA OutsReply ==
  ASSUME IInv, at = "outs", Succeeds(Prober)
  PROVE  /\ mem[devBuf].size >= 2
         /\ CountIn(devBuf) = Len(Said[devI + 1].outs)
         /\ ~mem[devBuf].cut =>
              \A i \in 1 .. Len(Said[devI + 1].outs) :
                IdIn(devBuf, i) = Said[devI + 1].outs[i]
<1>1. devI + 1 \in DOMAIN Said /\ sdev.id = Said[devI + 1].id
  BY WithDevice DEF DevicePoints, HandedPoints
<1>2. call[Prober].cmd = GetOutputStreamList(sdev.id)
  BY DEF Succeeds, IInv, AskedInv, HandedPoints, Asked
<1>3. Response(call[Prober].cmd) =
        {Counted(call[Prober].cmd, Said[devI + 1].outs)}
  BY <1>1, <1>2, DeviceSaid DEF Response, GetOutputStreamList, Command
<1>4. Said[devI + 1].outs \in Seq(Names) BY <1>1, SaidTyped
<1>5. call[Prober].cmd.msg # "REFUSED"
  BY <1>2 DEF GetOutputStreamList, Command
<1> QED BY <1>3, <1>4, <1>5, StreamsReply

(* The property of a reply that is understood, and is all there. *)
LEMMA PropertyReply ==
  ASSUME NEW b, NEW c, c.msg = "GET_PROPERTY", NEW p \in Plain(c), Shows(b, p),
         Len(p) <= Words => ~mem[b].cut, Data(b)[1] = c.msg
  PROVE  mem[b].size >= 2 /\ PropertyIn(b).value = ValueOf(c)
<1>1. p # <<"REFUSED">> BY NotRefused
<1>2. PICK n : p = <<c.msg, c.obj, c.prop, n, ValueOf(c)>>
  BY <1>1 DEF Plain, Response
<1>3. Len(p) = 5 /\ p[5] = ValueOf(c) /\ 5 \in 1 .. Len(p) BY <1>2
<1>4. ~mem[b].cut BY <1>3, WordsAssumption
<1>5. Data(b)[5] = p[5] BY <1>3, <1>4 DEF Shows
<1>6. Len(p) >= 2 BY <1>3
<1> QED BY <1>3, <1>5, <1>6 DEF Shows, PropertyIn

LEMMA UidReply ==
  ASSUME IInv, at = "uid", Succeeds(Prober)
  PROVE  mem[devBuf].size >= 2 /\ PropertyIn(devBuf).value = Said[devI + 1].uid
<1>1. devI + 1 \in DOMAIN Said /\ sdev.id = Said[devI + 1].id
  BY WithDevice DEF DevicePoints, HandedPoints
<1> DEFINE c == GetProperty(sdev.id, sdev.id, "uid")
<1>2. /\ call[Prober].at = "answered" /\ call[Prober].cmd = c
      /\ call[Prober].buf = devBuf /\ Data(devBuf)[1] = c.msg
  BY DEF Succeeds, Understood, IInv, AskedInv, HandedPoints, Asked
<1>3. PICK p \in Plain(c) : Shows(devBuf, p)
        /\ (Len(p) <= Words => ~mem[devBuf].cut)
  BY <1>2 DEF IInv, AnsweredInv
<1>4. c.msg = "GET_PROPERTY" /\ c.prop = "uid" /\ c.dev = sdev.id
  BY DEF GetProperty, Command
<1> HIDE DEF c
<1>5. ValueOf(c) = Said[devI + 1].uid
  BY <1>1, <1>4, DeviceSaid DEF ValueOf
<1> QED BY <1>2, <1>3, <1>4, <1>5, PropertyReply

LEMMA HandedReply ==
  ASSUME IInv, at \in HandedPoints, Succeeds(Prober)
  PROVE  mem[devBuf].size >= 2
BY UidReply, InsReply, OutsReply DEF HandedPoints

(* Where a step of the prober leads. *)
LEMMA MovesTo ==
  ASSUME IInv, Moves, at' \in DevicePoints
  PROVE  \/ NextDevice /\ at = "next" /\ at' = "uid"
         \/ /\ HandedReplyComes /\ at \in HandedPoints /\ Succeeds(Prober)
            /\ ~TooLong /\ sdev' = WithReply(sdev) /\ at' \in After(at, sdev')
            /\ UNCHANGED devI
         \/ OwnReplyComes /\ at \in OwnPoints /\ at' \in After(at, sdev')
         \/ CreatePcm /\ at = "pcm" /\ at' \in After(at, sdev)
<1>1. at' \notin {"start", "list", "next", "done", "failed"}
  BY DEF DevicePoints, HandedPoints, OwnPoints
<1>2. CASE HandedReplyComes
  <2>1. ~DropDevice BY <1>1 DEF DropDevice
  <2> QED BY <1>2, <2>1 DEF HandedReplyComes
<1> QED BY <1>1, <1>2 DEF Moves, AskForList, ListComes, NextDevice, AllDevices,
                          OwnReplyComes, CreatePcm, ListDevice, Goes

LEMMA MovesOn ==
  ASSUME IInv, Moves, at' \in DevicePoints, at' # "uid"
  PROVE  /\ at \in DevicePoints /\ ~NextDevice
         /\ devBuf' = devBuf /\ mem'[devBuf] = mem[devBuf]
         /\ listBuf' = listBuf /\ mem'[listBuf] = mem[listBuf]
<1>1. at \in DevicePoints /\ ~NextDevice
  BY MovesTo DEF NextDevice, Goes, DevicePoints
<1>2. at # "next" /\ at' # "next"
        BY <1>1 DEF DevicePoints, HandedPoints, OwnPoints
<1> QED BY <1>1, <1>2, HeldStays

LEMMA BlankStep == IInv /\ [Next]_vars => BlankInv'
<1> SUFFICES ASSUME IInv, [Next]_vars PROVE BlankInv' OBVIOUS
<1>1. \A b \in (Buffers \ allocated)' : mem'[b] = Blank
  BY FreeIsBlank
<1>2. \A t \in OwnCalls' : call'[t].at = "waiting" => mem'[call'[t].buf] = Blank
  BY WaitedForBlank DEF OwnCalls
<1>3. (at = "list" /\ call[Prober].at = "waiting")' => mem'[listBuf'] = Blank
  BY WaitedForBlank, ProberAskedStep, ProberIsNoWorker DEF ProberAsked
<1>4. Blank.size >= 2 BY BlankMemory, WordsAssumption
<1>5. NextDevice => mem'[devBuf'] = Blank
  BY DEF NextDevice, Alloc, IInv, BlankInv
<1>6. Quiet => /\ UNCHANGED <<at, devBuf>>
               /\ Gets(Prober) => Ends(Prober)'
  <2>1. Called BY HeapParts DEF IInv
  <2>2. Gets(Prober) => Ends(Prober)'
    BY <2>1, ProberIsNoWorker DEF Gets, HandleReply, CallFails, Called, Ends
  <2> QED BY <2>2, QuietCall DEF proberVars
<1>7. ASSUME at' = "uid", call'[Prober].at \in {"idle", "waiting"}
      PROVE  mem'[devBuf'] = Blank
  <2>1. CASE Moves
    <3>1. at' \in DevicePoints BY <1>7 DEF DevicePoints, HandedPoints
    <3>2. at \in DevicePoints \ {"link"} => \A s : "uid" \notin After(at, s)
      BY AfterPoints
    <3>3. NextDevice
      BY <1>7, <2>1, <3>1, <3>2, MovesTo
        DEF DevicePoints, HandedPoints, OwnPoints
    <3> QED BY <1>5, <3>3
  <2>2. CASE Quiet
    <3>1. ~Ends(Prober)' BY <1>7 DEF Ends
    <3>2. call[Prober].at \in {"idle", "waiting"}
      BY <1>7, <2>2, <3>1, QuietCall DEF Busy
    <3>3. mem[devBuf] = Blank
      BY <1>6, <1>7, <2>2, <3>2 DEF IInv, BlankInv
    <3>4. at \in DevicePoints
      BY <1>6, <1>7, <2>2 DEF DevicePoints, HandedPoints
    <3> QED BY <1>6, <2>2, <3>1, <3>3, <3>4, QuietMemory
  <2> QED BY <2>1, <2>2, QuietOrMoves
<1>8. ASSUME at' \in DevicePoints, ~(at' \in HandedPoints /\ Ends(Prober)')
      PROVE  mem'[devBuf'].size >= 2
  <2>1. CASE Moves
    <3>1. CASE NextDevice BY <1>4, <1>5, <3>1
    <3>2. CASE at' # "uid"
      <4>1. at \in DevicePoints /\ mem'[devBuf'] = mem[devBuf]
        BY <1>8, <2>1, <3>2, MovesOn
      <4>2. mem[devBuf].size >= 2
        <5>1. CASE at \in HandedPoints
          <6>1. Succeeds(Prober)
            BY <1>8, <2>1, <3>2, <5>1, MovesTo, PointsDiffer
               DEF HandedPoints, NextDevice, Goes
          <6> QED BY <5>1, <6>1, HandedReply
        <5>2. CASE at \notin HandedPoints
          BY <4>1, <5>2 DEF IInv, BlankInv
        <5> QED BY <5>1, <5>2
      <4> QED BY <4>1, <4>2
    <3>3. at' = "uid" => NextDevice
      <4>1. at \in DevicePoints \ {"link"} => \A s : "uid" \notin After(at, s)
        BY AfterPoints
      <4> QED BY <1>8, <2>1, <4>1, MovesTo
            DEF DevicePoints, HandedPoints, OwnPoints
    <3> QED BY <3>1, <3>2, <3>3
  <2>2. CASE Quiet
    <3>1. at' = at /\ devBuf' = devBuf BY <1>6, <2>2
    <3>2. ~(at \in HandedPoints /\ Ends(Prober))
      <4> SUFFICES ASSUME at \in HandedPoints, Ends(Prober) PROVE FALSE OBVIOUS
      <4>1. call'[Prober] = call[Prober]
        BY <2>2, QuietCall DEF Ends, Busy
      <4>2. Ends(Prober)' BY <4>1 DEF Ends
      <4> QED BY <1>8, <3>1, <4>2
    <3>3. mem[devBuf].size >= 2 BY <1>8, <3>1, <3>2 DEF IInv, BlankInv
    <3>4. mem'[devBuf] = mem[devBuf]
      BY <1>6, <1>8, <2>2, <3>1, QuietMemory
    <3> QED BY <3>1, <3>3, <3>4
  <2> QED BY <2>1, <2>2, QuietOrMoves
<1> QED BY <1>1, <1>2, <1>3, <1>7, <1>8 DEF BlankInv

-----------------------------------------------------------------------------
(* What a reply has left in the buffer. *)

LEMMA ShowsMemory ==
  ASSUME NEW b, NEW reply
  PROVE  Shows(b, reply) <=> MemShows(mem[b], reply)
BY DEF Shows, MemShows, Data

LEMMA AnsweredStep == IInv /\ [Next]_vars => AnsweredInv'
<1> SUFFICES ASSUME IInv, [Next]_vars, call'[Prober].at = "answered"
             PROVE  \E reply \in Plain(call'[Prober].cmd) :
                      /\ MemShows(mem'[call'[Prober].buf], reply)
                      /\ (at' \notin {"ins", "outs"} /\ Len(reply) <= Words)
                           => ~mem'[call'[Prober].buf].cut
  BY DEF AnsweredInv, Shows, MemShows, Data
<1> DEFINE b == call[Prober].buf
<1>1. Called BY HeapParts DEF IInv
<1>2. Quiet
  <2>1. at \in {"start", "next", "pcm", "link"} => ~Busy(Prober)
    BY Calling DEF HandedPoints, OwnPoints
  <2>2. CASE Moves
    <3>1. \/ \E b1 : Waits(Prober, GetDeviceList, b1)
          \/ call' = [call EXCEPT ![Prober] = Idle]
          \/ call' = call /\ at \in {"next", "pcm", "link"}
      BY <2>2
         DEF Moves, AskForList, ListComes, HandedReplyComes, HandedEnds,
             NextDevice, AllDevices, CreatePcm, ListDevice, OwnReplyComes,
             OwnEnds, Goes
    <3>2. \A b1 : Waits(Prober, GetDeviceList, b1) =>
                    call'[Prober].at = "waiting"
      BY <1>1, ProberIsNoWorker DEF Waits, Called
    <3>3. call' = [call EXCEPT ![Prober] = Idle] => call'[Prober].at = "idle"
      BY <1>1, ProberIsNoWorker DEF Idle, Called
    <3> QED BY <2>1, <3>1, <3>2, <3>3 DEF Busy
  <2> QED BY <2>2, QuietOrMoves
<1>3. UNCHANGED <<at, listBuf, devBuf>> BY <1>2, QuietCall DEF proberVars
<1>4. call'[Prober].cmd = call[Prober].cmd /\ call'[Prober].buf = b
  BY <1>2, QuietCall
<1>5. CASE call'[Prober] = call[Prober]
  <2>1. Busy(Prober) /\ ~Gets(Prober)
    BY <1>5 DEF Busy, Gets, HandleReply, CallFails
  <2>2. b \in Buffers BY <2>1, Calling, ProberIsNoWorker
  <2>3. b \in allocated'
    <3>1. NothingElseLost' BY AccountsStep DEF Accounts
    <3>2. CASE at \in OwnPoints
      <4>1. Prober \in OwnCalls'
        BY <1>3, <1>5, <2>1, <3>2, ProberIsNoWorker DEF OwnCalls, Busy
      <4> QED BY <1>4, <3>1, <4>1 DEF NothingElseLost, OwnBufs
    <3>3. CASE at \notin OwnPoints
      <4>1. b \in {listBuf, devBuf} /\ b # None
        BY <2>1, <2>2, <3>3, Calling, BuffersAssumption
      <4> QED BY <1>3, <3>1, <4>1 DEF NothingElseLost, ProberHolds
    <3> QED BY <3>2, <3>3
  <2>4. \A u \in Threads : Gets(u) => call[u].buf # b
    BY <2>1, BuffersApart, ProberIsNoWorker
      DEF Gets, HandleReply, CallFails, Busy
  <2>5. mem'[b] = mem[b] BY <2>2, <2>3, <2>4, MemoryChange DEF Changes
  <2>6. PICK reply \in Plain(call[Prober].cmd) :
          /\ Shows(b, reply)
          /\ (at \notin {"ins", "outs"} /\ Len(reply) <= Words) => ~mem[b].cut
    BY <1>5 DEF IInv, AnsweredInv
  <2> QED BY <1>3, <1>4, <2>5, <2>6, ShowsMemory
<1>6. CASE call'[Prober] # call[Prober]
  <2>1. call[Prober].at = "waiting" BY <1>2, <1>6, QuietCall
  <2>2. HandleReply(Prober)
    <3>1. \A w \in Workers : \A e :
            call' = [call EXCEPT ![w] = e] => call'[Prober] = call[Prober]
      BY <1>1, ProberIsNoWorker DEF Called
    <3>2. \A t \in Threads : Gets(t) => t = Prober
      BY <1>1, <1>6, ProberIsNoWorker DEF Gets, HandleReply, CallFails, Called
    <3>3. ~CallFails(Prober)
      BY <1>1, ProberIsNoWorker DEF CallFails, Called
    <3>4. ~(AskHanded \/ AskOwn)
      BY <2>1 DEF AskHanded, AskOwn, AskWithOwn, Waits
    <3>5. \A w \in Workers : ~(WorkerAsks(w) \/ WorkerEnds(w))
      BY <1>6, <3>1 DEF WorkerAsks, WorkerEnds, AskWithOwn, Waits, OwnEnds
    <3>6. ~UNCHANGED vars BY <1>6 DEF vars
    <3> QED BY <1>2, <3>2, <3>3, <3>4, <3>5, <3>6 DEF Quiet, Gets
  <2>3. PICK r \in Replies(call[Prober].cmd) :
          mem' = [mem EXCEPT ![call[Prober].buf] = Copied(@, r)]
    BY <2>2 DEF HandleReply
  <2>4. Busy(Prober) BY <2>1 DEF Busy
  <2>5. mem[b] = Blank \/ (at \in {"ins", "outs"} /\ mem[b].size >= 2)
    <3>1. CASE at = "list"
      BY <2>1, <2>4, <3>1, Calling, PointsDiffer DEF IInv, BlankInv
    <3>2. CASE at \in HandedPoints
      <4>1. b = devBuf BY <2>4, <3>2 DEF IInv, AskedInv, Busy
      <4>2. CASE at = "uid" BY <2>1, <4>1, <4>2 DEF IInv, BlankInv
      <4>3. CASE at \in {"ins", "outs"}
        <5>1. ~Ends(Prober) BY <2>1 DEF Ends
        <5>2. at \in DevicePoints BY <3>2 DEF DevicePoints
        <5> QED BY <4>1, <4>3, <5>1, <5>2 DEF IInv, BlankInv
      <4> QED BY <3>2, <4>2, <4>3 DEF HandedPoints
    <3>3. CASE Prober \in OwnCalls BY <2>1, <3>3 DEF IInv, BlankInv
    <3> QED BY <2>4, <3>1, <3>2, <3>3, Calling
  <2>6. mem[b].size >= 2 BY <2>5, BlankMemory, WordsAssumption
  <2>7. \E p \in Plain(call[Prober].cmd) :
          /\ IsReply(p)
          /\ MemShows(mem'[b], p)
          /\ (mem[b] = Blank /\ Len(p) <= Words) => ~mem'[b].cut
    BY <2>3, <2>4, <2>6, CopyStep, ProberIsNoWorker
  <2> QED BY <1>3, <1>4, <2>5, <2>7
<1> QED BY <1>5, <1>6

-----------------------------------------------------------------------------
(* How far the prober has got with the list. *)

ListThere ==
  /\ devCnt = Len(Said)
  /\ \A i \in 1 .. Len(Said) : IdIn(listBuf, i) = Said[i].id

LEMMA ListThereStays ==
  ASSUME ListThere, devCnt' = devCnt, listBuf' = listBuf,
         mem'[listBuf] = mem[listBuf]
  PROVE  ListThere'
BY DEF ListThere, IdIn, Data

LEMMA ListStep == IInv /\ [Next]_vars => ListInv'
<1> SUFFICES ASSUME IInv, [Next]_vars PROVE ListInv' OBVIOUS
<1>1. /\ at \in {"start", "list", "failed"}
           => devI = 0 /\ devCnt = 0 /\ listed = <<>>
      /\ at \in {"next"} \union DevicePoints => ListThere
      /\ at = "done" => devI = devCnt
      /\ devCnt \in {0, Len(Said)} /\ devI \in 0 .. devCnt
      /\ at \in DevicePoints => devI < devCnt
  BY DEF IInv, ListInv, ListThere
<1>2. Len(Said) \in Nat BY SaidTyped
<1>3. ASSUME at' \in {"next"} \union DevicePoints, ListThere',
             devI' \in 0 .. devCnt', at' \in DevicePoints => devI' < devCnt'
      PROVE  ListInv'
  <2>1. at' \notin {"start", "list", "failed", "done"}
    BY <1>3 DEF DevicePoints, HandedPoints, OwnPoints
  <2> QED BY <1>3, <2>1 DEF ListInv, ListThere
<1>4. CASE AskForList
  BY <1>1, <1>2, <1>4 DEF AskForList, Goes, ListInv, DevicePoints,
                          HandedPoints, OwnPoints
<1>5. CASE ListComes
  <2>1. at = "list" /\ UNCHANGED <<devI, listed>>
    BY <1>5 DEF ListComes, Goes
  <2>2. CASE Succeeds(Prober)
    <3>1. /\ at' = "next" /\ devCnt' = CountIn(listBuf)
          /\ mem' = mem /\ listBuf' = listBuf
      BY <1>5, <2>2 DEF ListComes, Goes, heapVars
    <3>2. ListThere'
      BY <2>1, <2>2, <3>1, ListReply DEF ListThere, IdIn, Data
    <3>3. devI' \in 0 .. devCnt' BY <1>1, <1>2, <2>1, <3>2 DEF ListThere
    <3> QED BY <1>3, <3>1, <3>2, <3>3, PointsDiffer
            DEF DevicePoints, HandedPoints, OwnPoints
  <2>3. CASE ~Succeeds(Prober)
    <3>1. at' = "failed" /\ UNCHANGED devCnt
      BY <1>5, <2>3 DEF ListComes, Goes
    <3> QED BY <1>1, <2>1, <3>1
          DEF ListInv, DevicePoints, HandedPoints, OwnPoints
  <2> QED BY <2>2, <2>3
<1>6. CASE AllDevices
  <2>1. /\ at = "next" /\ at' = "done" /\ devI = devCnt
        /\ UNCHANGED <<devI, devCnt, listed>>
    BY <1>6 DEF AllDevices, Goes
  <2> QED BY <1>1, <2>1 DEF ListInv, DevicePoints, HandedPoints, OwnPoints
<1>7. ASSUME Moves, at \in {"next"} \union DevicePoints, devCnt' = devCnt,
             at' \in {"next"} \union DevicePoints
      PROVE  ListThere'
  BY <1>1, <1>7, HeldStays, ListThereStays
<1>8. CASE NextDevice
  <2>1. /\ at = "next" /\ at' = "uid" /\ devI < devCnt
        /\ UNCHANGED <<devI, devCnt>>
    BY <1>8 DEF NextDevice, Goes
  <2>2. at' \in DevicePoints BY <2>1 DEF DevicePoints, HandedPoints
  <2> QED BY <1>1, <1>3, <1>7, <1>8, <2>1, <2>2 DEF Moves
<1>9. CASE HandedReplyComes \/ ListDevice
  <2>1. at \in DevicePoints /\ at \in DevicePoints /\ devCnt' = devCnt
    BY <1>9 DEF HandedReplyComes, ListDevice, Goes, DevicePoints
  <2>2. CASE at' = "next" /\ devI' = devI + 1
    <3>1. devI' \in 0 .. devCnt' BY <1>1, <1>2, <2>1, <2>2
    <3>2. at' \notin DevicePoints
      BY <2>2 DEF DevicePoints, HandedPoints, OwnPoints
    <3> QED BY <1>3, <1>7, <1>9, <2>1, <2>2, <3>1, <3>2 DEF Moves
  <2>3. CASE at' \in DevicePoints /\ devI' = devI
    BY <1>1, <1>3, <1>7, <1>9, <2>1, <2>3 DEF Moves
  <2>4. HandedReplyComes /\ ~DropDevice => at' \in DevicePoints /\ devI' = devI
    <3>1. at \in HandedPoints => at \in DevicePoints \ {"link"}
      BY DEF DevicePoints, HandedPoints
    <3>2. HandedReplyComes /\ ~DropDevice =>
            /\ at \in HandedPoints /\ devI' = devI
            /\ \E s : at' \in After(at, s)
      BY DEF HandedReplyComes
    <3> QED BY <3>1, <3>2, AfterPoints
  <2> QED BY <1>9, <2>2, <2>3, <2>4 DEF ListDevice, Goes, DropDevice
<1>10. CASE OwnReplyComes \/ CreatePcm
  <2>1. /\ at \in DevicePoints \ {"link"} /\ UNCHANGED <<devI, devCnt>>
        /\ \E s : at' \in After(at, s)
    BY <1>10 DEF OwnReplyComes, CreatePcm, DevicePoints, OwnPoints
  <2>2. at' \in DevicePoints BY <2>1, AfterPoints
  <2> QED BY <1>1, <1>3, <1>7, <1>10, <2>1, <2>2 DEF Moves
<1>11. CASE Quiet
  <2>1. UNCHANGED <<at, devI, devCnt, listBuf, listed>>
    BY <1>11, QuietCall DEF proberVars
  <2>2. ASSUME at \in {"next"} \union DevicePoints PROVE ListThere'
    <3>1. at \notin {"start", "done", "failed", "list"}
      BY <2>2 DEF DevicePoints, HandedPoints, OwnPoints
    <3>2. mem'[listBuf] = mem[listBuf] BY <1>11, <3>1, QuietMemory
    <3> QED BY <1>1, <2>1, <2>2, <3>2, ListThereStays
  <2> QED BY <1>1, <2>1, <2>2 DEF ListInv, ListThere
<1> QED BY <1>4, <1>5, <1>6, <1>8, <1>9, <1>10, <1>11, QuietOrMoves DEF Moves

-----------------------------------------------------------------------------
(* What the prober knows of the device it is with. *)

Known(s, point, d) ==
  /\ s.id = d.id
  /\ point # "uid" => s.uid = d.uid
  /\ IF point \in InsUnknown THEN s.ins = <<>> /\ ~s.cut ELSE InsAsSaid(s, d)
  /\ IF point \in OutsUnknown THEN s.outs = <<>> ELSE OutsAsSaid(s, d)
  /\ point \in {"inFormat", "inStreamLatency"} => s.ins # <<>>
  /\ point \in {"outFormat", "outStreamLatency"} => s.outs # <<>>
  /\ LinearAsSaid(s, d)

NotMade(s, point) ==
  point \in OutsUnknown \union {"outFormat", "outStreamLatency", "pcm"}
    => ~s.pcm

LEMMA SdevParts ==
  SdevInv <=> /\ IsSubdevice(sdev)
              /\ at \in DevicePoints => Known(sdev, at, Said[devI + 1])
              /\ NotMade(sdev, at)
BY DEF SdevInv, Known, NotMade

LEMMA NewIsSubdevice ==
  ASSUME NEW id
  PROVE  /\ IsSubdevice(NewSdev(id)) /\ NewSdev(id).id = id
         /\ NewSdev(id).ins = <<>> /\ NewSdev(id).outs = <<>>
         /\ ~NewSdev(id).isPcm /\ ~NewSdev(id).pcm /\ ~NewSdev(id).cut
<1>1. 0 \in 0 .. MaxStreams BY DEF MaxStreams
<1>2. <<>> = [i \in 1 .. 0 |-> <<>>[i]] OBVIOUS
<1> QED BY <1>1, <1>2 DEF NewSdev, IsSubdevice

LEMMA StreamsShape ==
  ASSUME NEW b, CountIn(b) \in Nat
  PROVE  \E n \in 0 .. MaxStreams :
           StreamsIn(b) = [i \in 1 .. n |-> StreamsIn(b)[i]]
<1> DEFINE cnt == IF CountIn(b) < MaxStreams THEN CountIn(b) ELSE MaxStreams
<1>1. cnt \in 0 .. MaxStreams BY DEF MaxStreams
<1>2. StreamsIn(b) = [i \in 1 .. cnt |-> IdIn(b, i)] BY DEF StreamsIn
<1> HIDE DEF cnt
<1>3. StreamsIn(b) = [i \in 1 .. cnt |-> StreamsIn(b)[i]] BY <1>2
<1> QED BY <1>1, <1>3

LEMMA StreamsSaid ==
  ASSUME NEW b, NEW S, NEW list \in Seq(S), CountIn(b) = Len(list),
         \A i \in 1 .. Len(list) : IdIn(b, i) = list[i]
  PROVE  StreamsIn(b) = FirstOf(list)
<1> DEFINE cnt == IF Len(list) < MaxStreams THEN Len(list) ELSE MaxStreams
<1>1. Len(list) \in Nat BY LenProperties
<1>2. cnt \in Nat /\ cnt <= Len(list) BY <1>1 DEF MaxStreams
<1>3. StreamsIn(b) = [i \in 1 .. cnt |-> IdIn(b, i)] BY DEF StreamsIn
<1>4. FirstOf(list) = SubSeq(list, 1, cnt) BY DEF FirstOf
<1> HIDE DEF cnt
<1>5. \A i \in 1 .. cnt : list[i] \in S BY <1>1, <1>2, ElementOfSeq
<1>6. /\ SubSeq(list, 1, cnt) \in Seq(S)
      /\ Len(SubSeq(list, 1, cnt)) = cnt
      /\ \A i \in 1 .. cnt : SubSeq(list, 1, cnt)[i] = list[i]
  BY <1>2, <1>5, SubSeqProperties
<1>7. SubSeq(list, 1, cnt) = [i \in 1 .. cnt |-> list[i]]
  BY <1>2, <1>6, LenProperties
<1>8. \A i \in 1 .. cnt : IdIn(b, i) = list[i] BY <1>1, <1>2
<1> QED BY <1>3, <1>4, <1>7, <1>8

(* The format of a stream, as the prober asks for it. *)
LEMMA FormatReply ==
  ASSUME IInv, at \in {"inFormat", "outFormat"}, Succeeds(Prober),
         PropertyIn(call[Prober].buf).value = "lpcm"
  PROVE  LET strms == IF at = "inFormat" THEN sdev.ins ELSE sdev.outs IN
           strms # <<>> /\ strms[1] \in Said[devI + 1].linear
<1> DEFINE strms == IF at = "inFormat" THEN sdev.ins ELSE sdev.outs
           c == GetProperty(sdev.id, strms[1], "format")
           b == call[Prober].buf
<1>1. at \in OwnPoints /\ at \in DevicePoints BY DEF OwnPoints, DevicePoints
<1>2. devI + 1 \in DOMAIN Said /\ sdev.id = Said[devI + 1].id
  BY <1>1, WithDevice
<1>3. strms # <<>> BY <1>1, SdevParts DEF IInv, Known
<1>4. call[Prober].at = "answered" /\ call[Prober].cmd = Asked
  BY <1>1 DEF Succeeds, IInv, AskedInv
<1>5. Asked = c BY DEF Asked
<1>6. c.msg = "GET_PROPERTY" /\ c.prop = "format" /\ c.dev = sdev.id
      /\ c.obj = strms[1]
  BY DEF GetProperty, Command
<1> HIDE DEF c, strms
<1>7. PICK p \in Plain(c) :
        /\ Shows(b, p)
        /\ Len(p) <= Words => ~mem[b].cut
  BY <1>4, <1>5 DEF IInv, AnsweredInv
<1>8. Data(b)[1] = c.msg BY <1>4, <1>5 DEF Succeeds, Understood
<1>9. PropertyIn(b).value = ValueOf(c) BY <1>6, <1>7, <1>8, PropertyReply
<1>10. c.obj \in Device(c.dev).linear BY <1>6, <1>9 DEF ValueOf, None
<1>11. strms[1] \in Said[devI + 1].linear BY <1>2, <1>6, <1>10, DeviceSaid
<1> QED BY <1>3, <1>11 DEF strms

(* A field of a subdevice changes. *)
LEMMA UidComes ==
  ASSUME IInv, HandedReplyComes, Succeeds(Prober), ~TooLong, at = "uid"
  PROVE  /\ IsSubdevice(sdev') /\ Known(sdev', at', Said[devI + 1])
         /\ NotMade(sdev', at')
<1>1. /\ IsSubdevice(sdev) /\ Known(sdev, at, Said[devI + 1])
      /\ NotMade(sdev, at)
  BY SdevParts DEF IInv, DevicePoints, HandedPoints
<1>2. sdev' = [sdev EXCEPT !.uid = Said[devI + 1].uid] /\ at' = "inLatency"
  BY UidReply DEF HandedReplyComes, WithReply, After
<1>3. /\ DOMAIN sdev' = DOMAIN sdev /\ sdev'.uid = Said[devI + 1].uid
      /\ \A f \in DOMAIN sdev \ {"uid"} : sdev'[f] = sdev[f]
  BY <1>1, <1>2 DEF IsSubdevice
<1>4. /\ sdev'.id = sdev.id /\ sdev'.ins = sdev.ins /\ sdev'.outs = sdev.outs
      /\ sdev'.isPcm = sdev.isPcm /\ sdev'.pcm = sdev.pcm
           /\ sdev'.cut = sdev.cut
  BY <1>1, <1>3 DEF IsSubdevice
<1>5. IsSubdevice(sdev') BY <1>1, <1>3, <1>4 DEF IsSubdevice
<1>6. Known(sdev', at', Said[devI + 1]) /\ NotMade(sdev', at')
  BY <1>1, <1>2, <1>3, <1>4 DEF Known, NotMade, InsUnknown, OutsUnknown,
                                 LinearAsSaid
<1> QED BY <1>5, <1>6

LEMMA InsCome ==
  ASSUME IInv, HandedReplyComes, Succeeds(Prober), ~TooLong, at = "ins"
  PROVE  /\ IsSubdevice(sdev') /\ Known(sdev', at', Said[devI + 1])
         /\ NotMade(sdev', at')
<1> DEFINE d == Said[devI + 1]
           cut == sdev.cut \/ mem[devBuf].cut
<1>1. IsSubdevice(sdev) /\ Known(sdev, at, d) /\ NotMade(sdev, at)
  BY SdevParts DEF IInv, DevicePoints, HandedPoints
<1>2. /\ sdev' = [sdev EXCEPT !.ins = StreamsIn(devBuf), !.cut = cut]
      /\ at' \in After(at, sdev')
  BY DEF HandedReplyComes, WithReply
<1>3. /\ CountIn(devBuf) = Len(d.ins)
      /\ ~mem[devBuf].cut
           => \A i \in 1 .. Len(d.ins) : IdIn(devBuf, i) = d.ins[i]
  BY InsReply
<1>4. devI + 1 \in DOMAIN Said BY WithDevice DEF DevicePoints, HandedPoints
<1>5. d.ins \in Seq(Names) BY <1>4, SaidTyped
<1>6. Len(d.ins) \in Nat BY <1>5, LenProperties
<1> HIDE DEF d, cut
<1>7. /\ DOMAIN sdev' = DOMAIN sdev
      /\ sdev'.ins = StreamsIn(devBuf) /\ sdev'.cut = cut
      /\ \A f \in DOMAIN sdev \ {"ins", "cut"} : sdev'[f] = sdev[f]
  BY <1>1, <1>2 DEF IsSubdevice
<1>8. /\ sdev'.id = sdev.id /\ sdev'.uid = sdev.uid /\ sdev'.outs = sdev.outs
      /\ sdev'.isPcm = sdev.isPcm /\ sdev'.pcm = sdev.pcm
  BY <1>1, <1>7 DEF IsSubdevice
<1>9. \E n \in 0 .. MaxStreams : sdev'.ins = [i \in 1 .. n |-> sdev'.ins[i]]
  BY <1>3, <1>6, <1>7, StreamsShape
<1>10. IsSubdevice(sdev')
  <2>1. cut \in BOOLEAN BY DEF cut
  <2> QED BY <1>1, <1>7, <1>8, <1>9, <2>1 DEF IsSubdevice
<1>11. InsAsSaid(sdev', d)
  <2> SUFFICES ASSUME ~sdev'.cut PROVE sdev'.ins = FirstOf(d.ins)
    BY DEF InsAsSaid
  <2>1. ~mem[devBuf].cut BY <1>7 DEF cut
  <2> QED BY <1>3, <1>5, <1>7, <2>1, StreamsSaid
<1>12. ~sdev.isPcm BY <1>1 DEF Known, LinearAsSaid, InsUnknown, OutsUnknown
<1>13. LinearAsSaid(sdev', d) BY <1>8, <1>12 DEF LinearAsSaid
<1>14. at' = IF sdev'.ins = <<>> THEN "outs" ELSE "inFormat"
  BY <1>2 DEF After
<1>15. Known(sdev', at', d) /\ NotMade(sdev', at')
  BY <1>1, <1>8, <1>11, <1>13, <1>14
     DEF Known, NotMade, InsUnknown, OutsUnknown
<1> QED BY <1>10, <1>15 DEF d

LEMMA OutsCome ==
  ASSUME IInv, HandedReplyComes, Succeeds(Prober), ~TooLong, at = "outs"
  PROVE  /\ IsSubdevice(sdev') /\ Known(sdev', at', Said[devI + 1])
         /\ NotMade(sdev', at')
<1> DEFINE d == Said[devI + 1]
           cut == sdev.cut \/ mem[devBuf].cut
<1>1. IsSubdevice(sdev) /\ Known(sdev, at, d) /\ NotMade(sdev, at)
  BY SdevParts DEF IInv, DevicePoints, HandedPoints
<1>2. /\ sdev' = [sdev EXCEPT !.outs = StreamsIn(devBuf), !.cut = cut]
      /\ at' \in After(at, sdev')
  BY DEF HandedReplyComes, WithReply
<1>3. /\ CountIn(devBuf) = Len(d.outs)
      /\ ~mem[devBuf].cut
           => \A i \in 1 .. Len(d.outs) : IdIn(devBuf, i) = d.outs[i]
  BY OutsReply
<1>4. devI + 1 \in DOMAIN Said BY WithDevice DEF DevicePoints, HandedPoints
<1>5. d.outs \in Seq(Names) BY <1>4, SaidTyped
<1>6. Len(d.outs) \in Nat BY <1>5, LenProperties
<1> HIDE DEF d, cut
<1>7. /\ DOMAIN sdev' = DOMAIN sdev
      /\ sdev'.outs = StreamsIn(devBuf) /\ sdev'.cut = cut
      /\ \A f \in DOMAIN sdev \ {"outs", "cut"} : sdev'[f] = sdev[f]
  BY <1>1, <1>2 DEF IsSubdevice
<1>8. /\ sdev'.id = sdev.id /\ sdev'.uid = sdev.uid /\ sdev'.ins = sdev.ins
      /\ sdev'.isPcm = sdev.isPcm /\ sdev'.pcm = sdev.pcm
  BY <1>1, <1>7 DEF IsSubdevice
<1>9. \E n \in 0 .. MaxStreams : sdev'.outs = [i \in 1 .. n |-> sdev'.outs[i]]
  BY <1>3, <1>6, <1>7, StreamsShape
<1>10. IsSubdevice(sdev')
  <2>1. cut \in BOOLEAN BY DEF cut
  <2> QED BY <1>1, <1>7, <1>8, <1>9, <2>1 DEF IsSubdevice
<1>11. OutsAsSaid(sdev', d)
  <2> SUFFICES ASSUME ~sdev'.cut PROVE sdev'.outs = FirstOf(d.outs)
    BY DEF OutsAsSaid
  <2>1. ~mem[devBuf].cut BY <1>7 DEF cut
  <2> QED BY <1>3, <1>5, <1>7, <2>1, StreamsSaid
<1>12. InsAsSaid(sdev', d)
  <2>1. InsAsSaid(sdev, d) BY <1>1 DEF Known, InsUnknown
  <2> QED BY <1>7, <1>8, <2>1 DEF InsAsSaid, cut
<1>13. LinearAsSaid(sdev', d)
  <2>1. sdev.outs = <<>> BY <1>1 DEF Known, OutsUnknown
  <2> QED BY <1>1, <1>8, <2>1 DEF Known, LinearAsSaid
<1>14. at' = IF sdev'.outs = <<>> THEN "pcm" ELSE "outFormat"
  BY <1>2 DEF After
<1>15. Known(sdev', at', d) /\ NotMade(sdev', at')
  BY <1>1, <1>8, <1>11, <1>12, <1>13, <1>14
     DEF Known, NotMade, InsUnknown, OutsUnknown
<1> QED BY <1>10, <1>15 DEF d

LEMMA OwnComes ==
  ASSUME IInv, OwnReplyComes
  PROVE  /\ IsSubdevice(sdev') /\ Known(sdev', at', Said[devI + 1])
         /\ NotMade(sdev', at')
<1> DEFINE d == Said[devI + 1]
           linear == /\ at \in {"inFormat", "outFormat"} /\ Succeeds(Prober)
                     /\ PropertyIn(call[Prober].buf).value = "lpcm"
<1>1. at \in OwnPoints /\ at' \in After(at, sdev') BY DEF OwnReplyComes
<1>2. IsSubdevice(sdev) /\ Known(sdev, at, d) /\ NotMade(sdev, at)
  BY <1>1, SdevParts DEF IInv, DevicePoints
<1>3. sdev' = [sdev EXCEPT !.isPcm = @ \/ linear] BY DEF OwnReplyComes
<1>4. linear => LET strms == IF at = "inFormat" THEN sdev.ins ELSE sdev.outs IN
                  strms # <<>> /\ strms[1] \in d.linear
  BY FormatReply
<1>5. linear \in BOOLEAN OBVIOUS
<1>6. linear => at \in {"inFormat", "outFormat"} OBVIOUS
<1> HIDE DEF linear, d
<1>7. /\ DOMAIN sdev' = DOMAIN sdev /\ sdev'.isPcm = (sdev.isPcm \/ linear)
      /\ \A f \in DOMAIN sdev \ {"isPcm"} : sdev'[f] = sdev[f]
  BY <1>2, <1>3 DEF IsSubdevice
<1>8. /\ sdev'.id = sdev.id /\ sdev'.uid = sdev.uid /\ sdev'.ins = sdev.ins
      /\ sdev'.outs = sdev.outs /\ sdev'.pcm = sdev.pcm /\ sdev'.cut = sdev.cut
  BY <1>2, <1>7 DEF IsSubdevice
<1>9. IsSubdevice(sdev') BY <1>2, <1>5, <1>7, <1>8 DEF IsSubdevice
<1>10. LinearAsSaid(sdev', d)
  <2>1. LinearAsSaid(sdev, d) BY <1>2 DEF Known
  <2> QED BY <1>4, <1>6, <1>7, <1>8, <2>1 DEF LinearAsSaid
<1>11. /\ InsAsSaid(sdev, d) <=> InsAsSaid(sdev', d)
       /\ OutsAsSaid(sdev, d) <=> OutsAsSaid(sdev', d)
  BY <1>8 DEF InsAsSaid, OutsAsSaid
<1>12. /\ Known(sdev', at, d) /\ NotMade(sdev', at)
  BY <1>2, <1>8, <1>10, <1>11 DEF Known, NotMade
<1>13. <<at, at'>> \in
         {<<"inLatency", "outLatency">>, <<"outLatency", "ins">>,
          <<"inFormat", "inStreamLatency">>, <<"inStreamLatency", "outs">>,
          <<"outFormat", "outStreamLatency">>, <<"outStreamLatency", "pcm">>,
          <<"listener", "jack">>, <<"listener", "link">>, <<"jack", "link">>}
  BY <1>1 DEF OwnPoints, After
<1>14. Known(sdev', at', d) /\ NotMade(sdev', at')
  BY <1>12, <1>13 DEF Known, NotMade, InsUnknown, OutsUnknown
<1> QED BY <1>9, <1>14 DEF d

LEMMA PcmComes ==
  ASSUME IInv, CreatePcm
  PROVE  /\ IsSubdevice(sdev') /\ Known(sdev', at', Said[devI + 1])
         /\ NotMade(sdev', at')
         /\ sdev'.uid = sdev.uid
<1> DEFINE d == Said[devI + 1]
<1>1. at = "pcm" /\ at' \in {"listener", "link"} BY DEF CreatePcm, After
<1>2. IsSubdevice(sdev) /\ Known(sdev, at, d) /\ NotMade(sdev, at)
  BY <1>1, SdevParts DEF IInv, DevicePoints
<1>3. \/ sdev' = sdev
      \/ \E made \in BOOLEAN :
           sdev' = [sdev EXCEPT !.alsaId = AlsaId(sdev.uid).id, !.pcm = made]
  BY DEF CreatePcm
<1> HIDE DEF d
<1>4. /\ DOMAIN sdev' = DOMAIN sdev
      /\ \A f \in DOMAIN sdev \ {"alsaId", "pcm"} : sdev'[f] = sdev[f]
      /\ sdev'.pcm \in BOOLEAN
  BY <1>2, <1>3 DEF IsSubdevice
<1>5. /\ sdev'.id = sdev.id /\ sdev'.uid = sdev.uid /\ sdev'.ins = sdev.ins
      /\ sdev'.outs = sdev.outs /\ sdev'.isPcm = sdev.isPcm
      /\ sdev'.cut = sdev.cut
  BY <1>2, <1>4 DEF IsSubdevice
<1>6. IsSubdevice(sdev') BY <1>2, <1>4, <1>5 DEF IsSubdevice
<1>7. Known(sdev', at', d) /\ NotMade(sdev', at')
  BY <1>1, <1>2, <1>5 DEF Known, NotMade, InsUnknown, OutsUnknown, InsAsSaid,
                          OutsAsSaid, LinearAsSaid
<1> QED BY <1>5, <1>6, <1>7 DEF d

LEMMA SdevStep == IInv /\ [Next]_vars => SdevInv'
<1> SUFFICES ASSUME IInv, [Next]_vars
             PROVE  /\ IsSubdevice(sdev')
                    /\ at' \in DevicePoints
                         => Known(sdev', at', Said[devI' + 1])
                    /\ NotMade(sdev', at')
  BY DEF SdevInv, Known, NotMade
<1>1. /\ IsSubdevice(sdev)
      /\ at \in DevicePoints => Known(sdev, at, Said[devI + 1])
      /\ NotMade(sdev, at)
  BY SdevParts DEF IInv
<1>2. \A point \in {"start", "list", "next", "done", "failed"} :
        point \notin DevicePoints /\ \A s : NotMade(s, point)
  BY DEF DevicePoints, HandedPoints, OwnPoints, NotMade, OutsUnknown, InsUnknown
<1>3. CASE AskForList \/ ListComes \/ AllDevices
  BY <1>1, <1>2, <1>3 DEF AskForList, ListComes, AllDevices, Goes
<1>4. CASE NextDevice
  <2>1. /\ at = "next" /\ at' = "uid" /\ devI < devCnt /\ devI' = devI
        /\ sdev' = NewSdev(IdIn(listBuf, devI + 1))
    BY <1>4 DEF NextDevice, Goes
  <2>2. IdIn(listBuf, devI + 1) = Said[devI + 1].id
    BY <2>1, SaidTyped DEF IInv, ListInv
  <2>3. /\ IsSubdevice(sdev') /\ sdev'.id = Said[devI + 1].id
        /\ sdev'.ins = <<>> /\ sdev'.outs = <<>> /\ ~sdev'.isPcm /\ ~sdev'.pcm
        /\ ~sdev'.cut
    BY <2>1, <2>2, NewIsSubdevice
  <2> QED BY <2>1, <2>3
        DEF Known, NotMade, InsUnknown, OutsUnknown, LinearAsSaid
<1>5. sdev' = NewSdev(None) /\ at' = "next" =>
        IsSubdevice(sdev') /\ at' \notin DevicePoints /\ NotMade(sdev', at')
  BY <1>2, NewIsSubdevice
<1>6. CASE HandedReplyComes
  <2>1. CASE DropDevice BY <1>5, <2>1 DEF DropDevice
  <2>2. CASE ~DropDevice
    <3>1. Succeeds(Prober) /\ ~TooLong /\ devI' = devI
            /\ at \in {"uid", "ins", "outs"}
      BY <1>6, <2>2 DEF HandedReplyComes, HandedPoints
    <3> QED BY <1>6, <3>1, UidComes, InsCome, OutsCome
  <2> QED BY <2>1, <2>2
<1>7. CASE OwnReplyComes BY <1>7, OwnComes DEF OwnReplyComes
<1>8. CASE CreatePcm BY <1>8, PcmComes DEF CreatePcm
<1>9. CASE ListDevice BY <1>5, <1>9 DEF ListDevice, Goes
<1>10. CASE Quiet
  <2>1. UNCHANGED <<at, devI, sdev>> BY <1>10, QuietCall DEF proberVars
  <2> QED BY <1>1, <2>1
<1> QED BY <1>3, <1>4, <1>6, <1>7, <1>8, <1>9, <1>10, QuietOrMoves DEF Moves

-----------------------------------------------------------------------------
(* The devices that are listed. *)

AsSaid(s, n) ==
  /\ IsSubdevice(s)
  /\ \E k \in 1 .. n : LET d == Said[k] IN
       /\ s.id = d.id /\ s.uid = d.uid
       /\ InsAsSaid(s, d) /\ OutsAsSaid(s, d) /\ LinearAsSaid(s, d)

LEMMA ListedParts ==
  ListedInv <=>
    /\ Len(listed) \in 0 .. devI
         /\ listed = [i \in 1 .. Len(listed) |-> listed[i]]
    /\ \A i \in DOMAIN listed :
         /\ AsSaid(listed[i], devI)
         /\ \A j \in DOMAIN listed \ {i} : listed[i].id # listed[j].id
BY DEF ListedInv, AsSaid

LEMMA ListedSeq ==
  ASSUME IInv
  PROVE  /\ devI \in Nat /\ Len(listed) \in Nat
         /\ DOMAIN listed = 1 .. Len(listed)
         /\ listed \in Seq(Range(listed))
<1>1. Len(listed) \in 0 .. devI
        /\ listed = [i \in 1 .. Len(listed) |-> listed[i]]
  BY ListedParts DEF IInv
<1>2. devI \in Nat
  <2>1. devCnt \in {0, Len(Said)} /\ devI \in 0 .. devCnt BY DEF IInv, ListInv
  <2>2. Len(Said) \in Nat BY SaidTyped
  <2> QED BY <2>1, <2>2
<1>3. Len(listed) \in Nat /\ Len(listed) <= devI BY <1>1, <1>2
<1>4. DOMAIN listed = 1 .. Len(listed) BY <1>1
<1>5. \A i \in 1 .. Len(listed) : listed[i] \in Range(listed)
  BY <1>4 DEF Range
<1> DEFINE n == Len(listed)
           S == Range(listed)
<1> HIDE DEF n, S
<1>6. listed \in [1 .. n -> S] BY <1>1, <1>5 DEF n, S
<1>7. n \in Nat BY <1>3 DEF n
<1>8. listed \in Seq(S) BY <1>6, <1>7
<1> QED BY <1>2, <1>3, <1>4, <1>8 DEF S

(* A device is put at the end. *)
LEMMA ListDeviceAppends ==
  ASSUME IInv, ListDevice
  PROVE  /\ listed' = Append(listed, sdev)
         /\ Len(listed') = Len(listed) + 1
         /\ DOMAIN listed' = 1 .. Len(listed) + 1
         /\ listed' = [i \in 1 .. Len(listed') |-> listed'[i]]
         /\ \A i \in 1 .. Len(listed) : listed'[i] = listed[i]
         /\ listed'[Len(listed) + 1] = sdev
<1> DEFINE S == Range(listed) \union {sdev}
<1>1. listed' = Append(listed, sdev) BY DEF ListDevice
<1>2. listed \in Seq(S) /\ sdev \in S BY ListedSeq, SeqMonotonic
<1> HIDE DEF S
<1>3. /\ listed' \in Seq(S) /\ Len(listed') = Len(listed) + 1
      /\ \A i \in 1 .. Len(listed) : listed'[i] = listed[i]
      /\ listed'[Len(listed) + 1] = sdev
  BY <1>1, <1>2, AppendProperties
<1>4. listed' \in [1 .. Len(listed') -> S] BY <1>3, LenProperties
<1>5. listed' = [i \in 1 .. Len(listed') |-> listed'[i]] BY <1>4
<1> QED BY <1>1, <1>3, <1>4, <1>5

LEMMA AsSaidStays ==
  ASSUME NEW s, NEW m \in Nat, NEW n \in Nat, m <= n, AsSaid(s, m)
  PROVE  AsSaid(s, n)
BY DEF AsSaid

LEMMA ListedStep == IInv /\ [Next]_vars => ListedInv'
<1> SUFFICES ASSUME IInv, [Next]_vars
             PROVE  /\ Len(listed') \in 0 .. devI'
                    /\ listed' = [i \in 1 .. Len(listed') |-> listed'[i]]
                    /\ \A i \in DOMAIN listed' :
                         /\ AsSaid(listed'[i], devI')
                         /\ \A j \in DOMAIN listed' \ {i} :
                              listed'[i].id # listed'[j].id
  BY DEF ListedInv, AsSaid
<1>1. /\ Len(listed) \in 0 .. devI
           /\ listed = [i \in 1 .. Len(listed) |-> listed[i]]
      /\ \A i \in DOMAIN listed :
           /\ AsSaid(listed[i], devI)
           /\ \A j \in DOMAIN listed \ {i} : listed[i].id # listed[j].id
  BY ListedParts DEF IInv
<1>2. /\ devI \in Nat /\ Len(listed) \in Nat /\ DOMAIN listed = 1 .. Len(listed)
  BY ListedSeq
<1>3. CASE UNCHANGED <<devI, listed>> BY <1>1, <1>3
<1>4. CASE devI' = devI + 1 /\ listed' = listed
  <2>1. Len(listed') \in 0 .. devI' BY <1>1, <1>2, <1>4
  <2>2. \A i \in DOMAIN listed' : AsSaid(listed'[i], devI')
    BY <1>1, <1>2, <1>4, AsSaidStays
  <2> QED BY <1>1, <1>4, <2>1, <2>2
<1>5. CASE ListDevice
  <2>1. at = "link" /\ devI' = devI + 1 BY <1>5 DEF ListDevice, Goes
  <2>2. /\ Len(listed') = Len(listed) + 1
        /\ DOMAIN listed' = 1 .. Len(listed) + 1
        /\ listed' = [i \in 1 .. Len(listed') |-> listed'[i]]
        /\ \A i \in 1 .. Len(listed) : listed'[i] = listed[i]
        /\ listed'[Len(listed) + 1] = sdev
    BY <1>5, ListDeviceAppends
  <2>3. devI + 1 \in DOMAIN Said /\ DOMAIN Said = 1 .. Len(Said)
    BY <2>1, WithDevice, SaidTyped DEF DevicePoints
  <2>4. AsSaid(sdev, devI')
    <3>1. IsSubdevice(sdev) /\ Known(sdev, at, Said[devI + 1])
      BY <2>1, SdevParts DEF IInv, DevicePoints
    <3>2. devI + 1 \in 1 .. devI' BY <1>2, <2>1
    <3>3. at # "uid" /\ at \notin InsUnknown /\ at \notin OutsUnknown
      BY <2>1 DEF InsUnknown, OutsUnknown
    <3> QED BY <3>1, <3>2, <3>3 DEF AsSaid, Known
  <2>5. \A i \in 1 .. Len(listed) : listed[i].id # sdev.id
    <3> TAKE i \in 1 .. Len(listed)
    <3>1. PICK k \in 1 .. devI : listed[i].id = Said[k].id
      BY <1>1, <1>2 DEF AsSaid
    <3>2. k \in DOMAIN Said /\ k # devI + 1 BY <1>2, <2>3, SaidTyped
    <3>3. sdev.id = Said[devI + 1].id
      BY <2>1, WithDevice DEF DevicePoints
    <3> QED BY <2>3, <3>1, <3>2, <3>3, SaidAssumption
  <2>6. \A i \in DOMAIN listed' : i \in 1 .. Len(listed) \/ i = Len(listed) + 1
    BY <1>2, <2>2
  <2>7. \A i \in DOMAIN listed' : AsSaid(listed'[i], devI')
    BY <1>1, <1>2, <2>1, <2>2, <2>4, <2>6, AsSaidStays
  <2>8. \A i \in DOMAIN listed' : \A j \in DOMAIN listed' \ {i} :
          listed'[i].id # listed'[j].id
    BY <1>1, <1>2, <2>2, <2>5, <2>6
  <2>9. Len(listed') \in 0 .. devI' BY <1>1, <1>2, <2>1, <2>2
  <2> QED BY <2>2, <2>7, <2>8, <2>9
<1>6. CASE Quiet BY <1>3, <1>6, QuietCall DEF proberVars
<1>7. CASE Moves
  BY <1>3, <1>4, <1>5, <1>7
     DEF Moves, AskForList, ListComes, NextDevice, AllDevices, HandedReplyComes,
         DropDevice, OwnReplyComes, CreatePcm
<1> QED BY <1>6, <1>7, QuietOrMoves

-----------------------------------------------------------------------------
(* The numbers of the PCMs. *)

IsNumber(s, n) ==
  IF s.uid \in Range(AlsaIds)
  THEN s.alsaId < 100 /\ s.alsaId + 1 \in DOMAIN AlsaIds
         /\ AlsaIds[s.alsaId + 1] = s.uid
  ELSE s.alsaId \in 100 .. n - 1

LEMMA NumbersParts ==
  NumbersInv <=>
    /\ nextAlsaId >= 100
    /\ sdev.pcm => IsNumber(sdev, nextAlsaId)
    /\ \A i \in DOMAIN listed : listed[i].pcm =>
         /\ IsNumber(listed[i], nextAlsaId)
         /\ (sdev.pcm /\ sdev.uid \notin Range(AlsaIds))
               => listed[i].alsaId # sdev.alsaId
         /\ \A j \in DOMAIN listed \ {i} :
              (listed[j].pcm /\ listed[i].uid \notin Range(AlsaIds))
                => listed[j].alsaId # listed[i].alsaId
BY DEF NumbersInv, Numbered, IsNumber

LEMMA FiveInSeq ==
  ASSUME NEW a, NEW b, NEW c, NEW d, NEW e
  PROVE  /\ <<a, b, c, d, e>> \in Seq({a, b, c, d, e})
         /\ Len(<<a, b, c, d, e>>) = 5
OBVIOUS

LEMMA FixedNumber ==
  ASSUME NEW uid \in Range(AlsaIds)
  PROVE  AlsaId(uid).id < 100 /\ AlsaId(uid).id + 1 \in DOMAIN AlsaIds
         /\ AlsaIds[AlsaId(uid).id + 1] = uid
<1> DEFINE i == CHOOSE i \in DOMAIN AlsaIds : AlsaIds[i] = uid
<1>1. \E k \in DOMAIN AlsaIds : AlsaIds[k] = uid BY DEF Range
<1>2. i \in DOMAIN AlsaIds /\ AlsaIds[i] = uid BY <1>1
<1>3. DOMAIN AlsaIds = 1 .. 5
  <2> DEFINE S == {"Speaker", "Digital Mic", "Codec Output", "Codec Input",
                   "Bridge Loopback"}
  <2>1. AlsaIds \in Seq(S) /\ Len(AlsaIds) = 5 BY FiveInSeq DEF AlsaIds
  <2> QED BY <2>1, LenProperties
<1>4. AlsaId(uid).id = i - 1 BY DEF AlsaId
<1> HIDE DEF i
<1>5. i \in Int /\ i <= 5 BY <1>2, <1>3
<1>6. i - 1 < 100 /\ i - 1 + 1 = i BY <1>5
<1> QED BY <1>2, <1>4, <1>6

LEMMA IsNumberStays ==
  ASSUME NEW s, NEW m \in Nat, NEW n \in Nat, m <= n, IsNumber(s, m)
  PROVE  IsNumber(s, n)
BY DEF IsNumber

(* A fixed number is no counted one. *)
LEMMA NumbersDiffer ==
  ASSUME NEW s, NEW u, NEW m \in Nat, IsNumber(s, m), IsNumber(u, m),
         s.uid \in Range(AlsaIds), u.uid \notin Range(AlsaIds)
  PROVE  s.alsaId # u.alsaId
<1>1. s.alsaId < 100 BY DEF IsNumber
<1>2. u.alsaId \in 100 .. m - 1 BY DEF IsNumber
<1> QED BY <1>1, <1>2

LEMMA NumbersStay ==
  ASSUME NumbersInv, UNCHANGED <<listed, nextAlsaId>>,
         \/ ~sdev'.pcm
         \/ /\ sdev'.pcm = sdev.pcm /\ sdev'.uid = sdev.uid
            /\ sdev'.alsaId = sdev.alsaId
  PROVE  NumbersInv'
BY DEF NumbersInv, Numbered

LEMMA NumberedPcm ==
  ASSUME IInv, CreatePcm
  PROVE  NumbersInv'
<1>1. /\ nextAlsaId >= 100
      /\ \A i \in DOMAIN listed : listed[i].pcm =>
           /\ IsNumber(listed[i], nextAlsaId)
           /\ \A j \in DOMAIN listed \ {i} :
                (listed[j].pcm /\ listed[i].uid \notin Range(AlsaIds))
                  => listed[j].alsaId # listed[i].alsaId
  BY NumbersParts DEF IInv
<1>2. nextAlsaId \in Nat BY DEF IInv, HeapInv, TypeOK
<1>3. listed' = listed BY DEF CreatePcm
<1>4. IsSubdevice(sdev) BY DEF IInv, SdevInv
<1>5. CASE sdev' = sdev /\ nextAlsaId' = nextAlsaId
  BY <1>3, <1>5, NumbersStay DEF IInv
<1>6. CASE /\ nextAlsaId' = AlsaId(sdev.uid).next
           /\ \E made \in BOOLEAN :
                sdev' = [sdev EXCEPT !.alsaId = AlsaId(sdev.uid).id,
                  !.pcm = made]
  <2>1. sdev'.uid = sdev.uid /\ sdev'.alsaId = AlsaId(sdev.uid).id
    BY <1>4, <1>6 DEF IsSubdevice
  <2>2. nextAlsaId' \in Nat /\ nextAlsaId <= nextAlsaId'
    BY <1>2, <1>6 DEF AlsaId
  <2>3. nextAlsaId' >= 100 BY <1>1, <1>2, <2>2
  <2>4. IsNumber(sdev', nextAlsaId')
    <3>1. CASE sdev.uid \in Range(AlsaIds)
      BY <2>1, <3>1, FixedNumber DEF IsNumber
    <3>2. CASE sdev.uid \notin Range(AlsaIds)
      <4>1. AlsaId(sdev.uid).id = nextAlsaId /\ nextAlsaId' = nextAlsaId + 1
        BY <1>6, <3>2 DEF AlsaId
      <4>2. nextAlsaId \in 100 .. nextAlsaId' - 1 BY <1>1, <1>2, <4>1
      <4> QED BY <2>1, <3>2, <4>1, <4>2 DEF IsNumber
    <3> QED BY <3>1, <3>2
  <2>5. \A i \in DOMAIN listed :
          (listed[i].pcm /\ sdev.uid \notin Range(AlsaIds)) =>
            listed[i].alsaId # AlsaId(sdev.uid).id
    <3> SUFFICES ASSUME NEW i \in DOMAIN listed, listed[i].pcm,
                        sdev.uid \notin Range(AlsaIds)
                 PROVE  listed[i].alsaId # nextAlsaId
      BY DEF AlsaId
    <3>1. IsNumber(listed[i], nextAlsaId) BY <1>1
    <3>2. CASE listed[i].uid \in Range(AlsaIds)
      <4>1. listed[i].alsaId < 100 BY <3>1, <3>2 DEF IsNumber
      <4> QED BY <1>1, <1>2, <4>1
    <3>3. CASE listed[i].uid \notin Range(AlsaIds)
      <4>1. listed[i].alsaId \in 100 .. nextAlsaId - 1
        BY <3>1, <3>3 DEF IsNumber
      <4> QED BY <1>2, <4>1
    <3> QED BY <3>2, <3>3
  <2>6. \A i \in DOMAIN listed : listed[i].pcm
          => IsNumber(listed[i], nextAlsaId')
    BY <1>1, <1>2, <2>2, IsNumberStays
  <2> QED BY <1>1, <1>3, <2>1, <2>3, <2>4, <2>5, <2>6
          DEF NumbersInv, Numbered, IsNumber
<1> QED BY <1>5, <1>6 DEF CreatePcm

LEMMA NumberedListed ==
  ASSUME IInv, ListDevice
  PROVE  NumbersInv'
<1>1. /\ nextAlsaId >= 100
      /\ sdev.pcm => IsNumber(sdev, nextAlsaId)
      /\ \A i \in DOMAIN listed : listed[i].pcm =>
           /\ IsNumber(listed[i], nextAlsaId)
           /\ (sdev.pcm /\ sdev.uid \notin Range(AlsaIds))
                 => listed[i].alsaId # sdev.alsaId
           /\ \A j \in DOMAIN listed \ {i} :
                (listed[j].pcm /\ listed[i].uid \notin Range(AlsaIds))
                  => listed[j].alsaId # listed[i].alsaId
  BY NumbersParts DEF IInv
<1>2. nextAlsaId \in Nat /\ nextAlsaId' = nextAlsaId
  BY DEF IInv, HeapInv, TypeOK, ListDevice
<1>3. ~sdev'.pcm BY NewIsSubdevice DEF ListDevice
<1> DEFINE n == Len(listed)
<1>4. n \in Nat /\ DOMAIN listed = 1 .. n BY ListedSeq
<1>5. /\ DOMAIN listed' = 1 .. n + 1
      /\ \A i \in 1 .. n : listed'[i] = listed[i]
      /\ listed'[n + 1] = sdev
  BY ListDeviceAppends
<1> HIDE DEF n
<1>6. \A i \in DOMAIN listed' : i \in DOMAIN listed \/ i = n + 1
  BY <1>4, <1>5
<1>7. \A i \in DOMAIN listed : listed'[i] = listed[i] BY <1>4, <1>5
<1>8. \A i \in DOMAIN listed' : listed'[i].pcm
        => IsNumber(listed'[i], nextAlsaId)
  BY <1>1, <1>5, <1>6, <1>7
<1>9. ASSUME NEW i \in DOMAIN listed', NEW j \in DOMAIN listed' \ {i},
             listed'[i].pcm, listed'[j].pcm,
               listed'[i].uid \notin Range(AlsaIds)
      PROVE  listed'[j].alsaId # listed'[i].alsaId
  <2>1. CASE i \in DOMAIN listed /\ j \in DOMAIN listed
    BY <1>1, <1>7, <1>9, <2>1
  <2>2. CASE i = n + 1 /\ j \in DOMAIN listed
    BY <1>1, <1>5, <1>7, <1>9, <2>2
  <2>3. CASE i \in DOMAIN listed /\ j = n + 1
    <3>1. listed'[i] = listed[i] /\ listed'[j] = sdev
      BY <1>5, <1>7, <2>3
    <3>2. CASE sdev.uid \notin Range(AlsaIds)
      BY <1>1, <1>9, <2>3, <3>1, <3>2
    <3>3. CASE sdev.uid \in Range(AlsaIds)
      BY <1>1, <1>2, <1>9, <2>3, <3>1, <3>3, NumbersDiffer
    <3> QED BY <3>2, <3>3
  <2> QED BY <1>6, <1>9, <2>1, <2>2, <2>3
<1> QED BY <1>1, <1>2, <1>3, <1>8, <1>9 DEF NumbersInv, Numbered, IsNumber

LEMMA NumbersStep == IInv /\ [Next]_vars => NumbersInv'
<1> SUFFICES ASSUME IInv, [Next]_vars PROVE NumbersInv' OBVIOUS
<1>1. NumbersInv /\ IsSubdevice(sdev) BY DEF IInv, SdevInv
<1>2. NewSdev(None).pcm = FALSE /\ \A id : ~NewSdev(id).pcm
  BY DEF NewSdev
<1>3. UNCHANGED <<sdev, listed, nextAlsaId>> => NumbersInv'
  BY <1>1, NumbersStay
<1>4. ~sdev'.pcm /\ UNCHANGED <<listed, nextAlsaId>> => NumbersInv'
  BY <1>1, NumbersStay
<1>5. CASE AskForList \/ ListComes \/ AllDevices
  BY <1>3, <1>5 DEF AskForList, ListComes, AllDevices
<1>6. CASE NextDevice BY <1>2, <1>4, <1>6 DEF NextDevice
<1>7. CASE HandedReplyComes
  <2>1. UNCHANGED <<listed, nextAlsaId>> BY <1>7 DEF HandedReplyComes
  <2>2. CASE DropDevice BY <1>2, <1>4, <2>1, <2>2 DEF DropDevice
  <2>3. CASE ~DropDevice
    <3>1. at \in HandedPoints /\ Succeeds(Prober) /\ ~TooLong
      BY <1>7, <2>3 DEF HandedReplyComes
    <3>2. NotMade(sdev', at')
      BY <1>7, <3>1, UidComes, InsCome, OutsCome DEF HandedPoints
    <3>3. at' \in OutsUnknown \union {"outFormat", "outStreamLatency", "pcm"}
      BY <1>7, <2>3, <3>1
         DEF HandedReplyComes, HandedPoints, After, OutsUnknown, InsUnknown
    <3> QED BY <1>4, <2>1, <3>2, <3>3 DEF NotMade
  <2> QED BY <2>2, <2>3
<1>8. CASE OwnReplyComes
  <2>1. /\ UNCHANGED <<listed, nextAlsaId>>
        /\ \E v : sdev' = [sdev EXCEPT !.isPcm = v]
    BY <1>8 DEF OwnReplyComes
  <2>2. sdev'.pcm = sdev.pcm /\ sdev'.uid = sdev.uid
          /\ sdev'.alsaId = sdev.alsaId
    BY <1>1, <2>1 DEF IsSubdevice
  <2> QED BY <1>1, <2>1, <2>2, NumbersStay
<1>9. CASE CreatePcm BY <1>9, NumberedPcm
<1>10. CASE ListDevice BY <1>10, NumberedListed
<1>11. CASE Quiet BY <1>3, <1>11, QuietCall DEF proberVars
<1> QED BY <1>5, <1>6, <1>7, <1>8, <1>9, <1>10, <1>11, QuietOrMoves DEF Moves

-----------------------------------------------------------------------------
(* The inductive invariant. *)

LEMMA InitBase == Init => HeapInv /\ HoldsInv /\ AskedInv
<1> SUFFICES ASSUME Init PROVE HeapInv /\ HoldsInv /\ AskedInv OBVIOUS
<1>1. \A b \in Buffers : mem[b] = Blank BY DEF Init
<1>2. \A t \in Threads : call[t] = Idle BY DEF Init
<1>3. Memory BY <1>1, BlankMemory DEF Init, Memory
<1>4. Called BY <1>2 DEF Init, Called, Idle
<1>5. Placed
  BY DEF Init, Placed, HandedPoints, OwnPoints, DevicePoints
<1>6. OwnCalls = {} /\ OwnBufs = {}
  BY <1>2 DEF OwnCalls, OwnBufs, Idle
<1>7. Accounts
  <2>1. ProberHolds = {} BY DEF Init, ProberHolds
  <2> QED BY <1>6, <2>1
          DEF Init, Accounts, NoBufferShared, NothingElseLost
<1>8. AskedInv
  <2>1. call[Prober].at = "idle" BY <1>2, ProberIsNoWorker DEF Idle
  <2> QED BY <1>6, <2>1 DEF Init, AskedInv
<1> QED BY <1>3, <1>4, <1>5, <1>7, <1>8, HeapParts

LEMMA InitRest ==
  Init => BlankInv /\ AnsweredInv /\ ListInv /\ SdevInv /\ ListedInv
    /\ NumbersInv
<1> SUFFICES ASSUME Init
             PROVE  /\ BlankInv /\ AnsweredInv /\ ListInv /\ SdevInv
                    /\ ListedInv /\ NumbersInv
  OBVIOUS
<1>1. call[Prober].at = "idle" /\ OwnCalls = {}
  BY ProberIsNoWorker DEF Init, OwnCalls, Idle
<1>2. at = "start" /\ at \notin DevicePoints /\ listed = <<>>
  BY DEF Init, DevicePoints, HandedPoints, OwnPoints
<1>3. BlankInv BY <1>1, <1>2 DEF Init, BlankInv
<1>4. AnsweredInv BY <1>1 DEF AnsweredInv
<1>5. ListInv BY <1>2, SaidTyped DEF Init, ListInv
<1>6. SdevInv
  <2>1. IsSubdevice(sdev) BY NewIsSubdevice DEF Init
  <2>2. NotMade(sdev, at) BY NewIsSubdevice DEF Init, NotMade
  <2> QED BY <1>2, <2>1, <2>2, SdevParts
<1>7. Len(listed) = 0 /\ DOMAIN listed = {} BY <1>2
<1>8. listed = [i \in 1 .. Len(listed) |-> listed[i]]
  <2>1. <<>> = [i \in 1 .. 0 |-> listed[i]] OBVIOUS
  <2> QED BY <1>2, <1>7, <2>1
<1>9. ListedInv BY <1>7, <1>8 DEF Init, ListedInv
<1>10. NumbersInv
  <2>1. ~sdev.pcm BY NewIsSubdevice DEF Init
  <2> QED BY <1>7, <2>1 DEF Init, NumbersInv
<1> QED BY <1>3, <1>4, <1>5, <1>6, <1>9, <1>10

LEMMA Inductive == IInv /\ [Next]_vars => IInv'
<1> SUFFICES ASSUME IInv, [Next]_vars PROVE IInv' OBVIOUS
<1>1. (HeapInv /\ HoldsInv)'
  <2>1. Memory' /\ Called' /\ Placed' /\ Accounts'
    BY MemoryStep, CalledStep, PlacedStep, AccountsStep
  <2> QED BY <2>1 DEF HeapInv, TypeOK, HoldsInv, Memory, IsMemory, Called,
                      Placed, Accounts, Data
<1>2. AskedInv' /\ BlankInv' /\ AnsweredInv'
  BY AskedStep, BlankStep, AnsweredStep
<1>3. ListInv' /\ SdevInv' /\ ListedInv' /\ NumbersInv'
  BY ListStep, SdevStep, ListedStep, NumbersStep
<1> QED BY <1>1, <1>2, <1>3 DEF IInv

(* No reply buffer is shared, freed twice or lost but as CMD_SEND_REQUEST  *)
(* loses it, whatever fails and whoever asks meanwhile, and what the       *)
(* prober knows of a device is what the T2 has said (t2audio_init_cmd,     *)
(* t2audio_init_dev, t2audio_handle_reply).                                *)
THEOREM Invariant == Spec => []IInv
<1>1. Init => IInv BY InitBase, InitRest DEF IInv
<1> QED BY <1>1, Inductive, PTL DEF Spec

-----------------------------------------------------------------------------
(* What is listed is as the T2 has said. *)

LEMMA ShapeInSeq ==
  ASSUME NEW s, NEW n \in Nat, s = [i \in 1 .. n |-> s[i]]
  PROVE  s \in Seq(Range(s)) /\ Len(s) = n
<1>1. DOMAIN s = 1 .. n OBVIOUS
<1>2. \A i \in 1 .. n : s[i] \in Range(s) BY <1>1 DEF Range
<1> DEFINE S == Range(s)
<1> HIDE DEF S
<1>3. s \in [1 .. n -> S] BY <1>2 DEF S
<1>4. s \in Seq(S) /\ Len(s) = n BY <1>3
<1> QED BY <1>4 DEF S

LEMMA FirstsIn ==
  ASSUME NEW s, IsSubdevice(s)
  PROVE  /\ s.ins # <<>> => s.ins[1] \in Range(s.ins \o s.outs)
         /\ s.outs # <<>> => s.outs[1] \in Range(s.ins \o s.outs)
<1> DEFINE ins == s.ins
           outs == s.outs
           S == Range(ins) \union Range(outs)
<1>1. \A n \in 0 .. MaxStreams : n \in Nat BY DEF MaxStreams
<1>2. ins \in Seq(Range(ins)) /\ outs \in Seq(Range(outs))
  BY <1>1, ShapeInSeq DEF IsSubdevice
<1> HIDE DEF ins, outs
<1>3. ins \in Seq(S) /\ outs \in Seq(S) BY <1>2, SeqMonotonic
<1> HIDE DEF S
<1>4. Len(ins) \in Nat /\ Len(outs) \in Nat BY <1>3, LenProperties
<1>5. /\ ins \o outs \in Seq(S) /\ Len(ins \o outs) = Len(ins) + Len(outs)
      /\ \A i \in 1 .. Len(ins) + Len(outs) :
           (ins \o outs)[i]
             = IF i <= Len(ins) THEN ins[i] ELSE outs[i - Len(ins)]
  BY <1>3, ConcatProperties
<1>6. DOMAIN (ins \o outs) = 1 .. Len(ins) + Len(outs)
  BY <1>5, LenProperties
<1>7. ASSUME ins # <<>> PROVE ins[1] \in Range(ins \o outs)
  <2>1. Len(ins) >= 1 BY <1>3, <1>4, <1>7, EmptySeq
  <2>2. 1 \in 1 .. Len(ins) + Len(outs) BY <1>4, <2>1
  <2>3. (ins \o outs)[1] = ins[1] BY <1>5, <2>1, <2>2
  <2> QED BY <1>6, <2>2, <2>3 DEF Range
<1>8. ASSUME outs # <<>> PROVE outs[1] \in Range(ins \o outs)
  <2>1. Len(outs) >= 1 BY <1>3, <1>4, <1>8, EmptySeq
  <2>2. Len(ins) + 1 \in 1 .. Len(ins) + Len(outs) BY <1>4, <2>1
  <2>3. ~(Len(ins) + 1 <= Len(ins)) /\ Len(ins) + 1 - Len(ins) = 1 BY <1>4
  <2>4. (ins \o outs)[Len(ins) + 1] = outs[1] BY <1>5, <2>2, <2>3
  <2> QED BY <1>6, <2>2, <2>4 DEF Range
<1> QED BY <1>7, <1>8 DEF ins, outs

LEMMA ListedDevice ==
  ASSUME IInv, NEW i \in DOMAIN listed
  PROVE  \E k \in DOMAIN Said :
           /\ Device(listed[i].id) = Said[k]
           /\ listed[i].id = Said[k].id /\ listed[i].uid = Said[k].uid
           /\ InsAsSaid(listed[i], Said[k]) /\ OutsAsSaid(listed[i], Said[k])
           /\ LinearAsSaid(listed[i], Said[k])
<1>1. PICK k \in 1 .. devI :
        /\ listed[i].id = Said[k].id /\ listed[i].uid = Said[k].uid
        /\ InsAsSaid(listed[i], Said[k]) /\ OutsAsSaid(listed[i], Said[k])
        /\ LinearAsSaid(listed[i], Said[k])
  BY ListedParts DEF IInv, AsSaid
<1>2. k \in DOMAIN Said
  <2>1. devCnt \in {0, Len(Said)} /\ devI \in 0 .. devCnt BY DEF IInv, ListInv
  <2>2. Len(Said) \in Nat /\ DOMAIN Said = 1 .. Len(Said) BY SaidTyped
  <2>3. devI \in Nat /\ devI <= Len(Said)
    <3>1. Len(Said) \in Nat BY <2>2
    <3> QED BY <2>1, <3>1
  <2>4. k \in 1 .. Len(Said) BY <2>2, <2>3
  <2> QED BY <2>2, <2>4
<1> QED BY <1>1, <1>2, DeviceSaid

LEMMA ListedRight == IInv => ListedAsSaid
<1> SUFFICES ASSUME IInv, NEW i \in DOMAIN listed
             PROVE  LET s == listed[i] d == Device(s.id) IN
                      /\ s.uid = d.uid
                      /\ ~s.cut => s.ins = FirstOf(d.ins)
                           /\ s.outs = FirstOf(d.outs)
                      /\ s.isPcm => Range(s.ins \o s.outs) \intersect d.linear # {}
                      /\ s.pcm => \A j \in DOMAIN listed \ {i} :
                                    listed[j].pcm => listed[j].alsaId # s.alsaId
  BY DEF ListedAsSaid
<1> DEFINE s == listed[i]
<1>1. PICK k \in DOMAIN Said :
        /\ Device(s.id) = Said[k]
        /\ s.id = Said[k].id /\ s.uid = Said[k].uid
        /\ InsAsSaid(s, Said[k]) /\ OutsAsSaid(s, Said[k])
        /\ LinearAsSaid(s, Said[k])
  BY ListedDevice
<1>2. IsSubdevice(s) BY ListedParts DEF IInv, AsSaid
<1>3. s.isPcm => Range(s.ins \o s.outs) \intersect Said[k].linear # {}
  BY <1>1, <1>2, FirstsIn DEF LinearAsSaid
<1>4. ASSUME s.pcm, NEW j \in DOMAIN listed \ {i}, listed[j].pcm
      PROVE  listed[j].alsaId # s.alsaId
  <2>1. CASE s.uid \notin Range(AlsaIds)
    BY <1>4, <2>1, NumbersParts DEF IInv
  <2>2. CASE listed[j].uid \notin Range(AlsaIds)
    BY <1>4, <2>2, NumbersParts DEF IInv
  <2>3. CASE s.uid \in Range(AlsaIds) /\ listed[j].uid \in Range(AlsaIds)
    <3>1. /\ AlsaIds[s.alsaId + 1] = s.uid
          /\ AlsaIds[listed[j].alsaId + 1] = listed[j].uid
      BY <1>4, <2>3, NumbersParts DEF IInv, IsNumber
    <3>2. PICK m \in DOMAIN Said :
            listed[j].id = Said[m].id /\ listed[j].uid = Said[m].uid
      BY ListedDevice
    <3>3. listed[j].id # s.id BY ListedParts DEF IInv
    <3>4. listed[j].uid # s.uid BY <1>1, <3>2, <3>3, SaidAssumption
    <3> QED BY <3>1, <3>4
  <2> QED BY <2>1, <2>2, <2>3
<1> QED BY <1>1, <1>3, <1>4 DEF InsAsSaid, OutsAsSaid

(* A listed device is the T2's, with its name, its streams and a number of *)
(* its own, whatever failed meanwhile (t2audio_init_dev).                  *)
THEOREM ListsWhatIsSaid == Spec => []ListedAsSaid
BY Invariant, ListedRight, PTL

-----------------------------------------------------------------------------
(* The devices are gone through in the order of the list. *)

Ids == {Said[i].id : i \in DOMAIN Said}
ListedIds == [i \in DOMAIN listed |-> listed[i].id]

(* What is to be gone through, as the T2 has said it. *)
SaidFrom(i, n) == [k \in 1 .. n - i |-> Said[i + k].id]

LEMMA TodoSaid == IInv => Todo = SaidFrom(devI, devCnt)
<1> SUFFICES ASSUME IInv PROVE Todo = SaidFrom(devI, devCnt) OBVIOUS
<1>1. Placed BY HeapParts DEF IInv
<1>2. devCnt \in {0, Len(Said)} /\ devI \in 0 .. devCnt BY DEF IInv, ListInv
<1>3. Len(Said) \in Nat BY SaidTyped
<1>4. devI \in Nat /\ devCnt \in Nat BY <1>2, <1>3
<1>5. CASE at \in {"next"} \union DevicePoints
  <2>1. /\ devCnt = Len(Said)
        /\ \A i \in 1 .. Len(Said) : IdIn(listBuf, i) = Said[i].id
    BY <1>5 DEF IInv, ListInv
  <2>2. \A k \in 1 .. devCnt - devI : IdIn(listBuf, devI + k)
          = Said[devI + k].id
    BY <1>2, <1>4, <2>1
  <2> QED BY <2>2 DEF Todo, SaidFrom
<1>6. CASE at \notin {"next"} \union DevicePoints
  <2>1. at \in {"start", "list", "failed", "done"}
    BY <1>1, <1>6 DEF Placed, DevicePoints
  <2>2. devI = devCnt BY <2>1 DEF IInv, ListInv
  <2>3. \A k \in 1 .. devCnt - devI : FALSE BY <1>4, <2>2
  <2> QED BY <2>3 DEF Todo, SaidFrom
<1> QED BY <1>5, <1>6

LEMMA SaidFromSeq ==
  ASSUME NEW i \in Nat, NEW n \in Nat, i <= n, n <= Len(Said)
  PROVE  SaidFrom(i, n) \in Seq(Ids) /\ Len(SaidFrom(i, n)) = n - i
<1>1. \A k \in 1 .. n - i : Said[i + k].id \in Ids
  <2> TAKE k \in 1 .. n - i
  <2>1. i + k \in 1 .. Len(Said) BY SaidTyped
  <2> QED BY <2>1, SaidTyped DEF Ids
<1>2. n - i \in Nat OBVIOUS
<1> DEFINE m == n - i
           T == Ids
<1>3. SaidFrom(i, n) \in [1 .. m -> T] BY <1>1 DEF SaidFrom
<1> HIDE DEF m, T
<1>4. SaidFrom(i, n) \in Seq(T) /\ Len(SaidFrom(i, n)) = m
  BY <1>2, <1>3 DEF m
<1> QED BY <1>4 DEF m, T

LEMMA SaidFromTail ==
  ASSUME NEW i \in Nat, NEW n \in Nat, i < n, n <= Len(Said)
  PROVE  /\ SaidFrom(i, n) # <<>>
         /\ Head(SaidFrom(i, n)) = Said[i + 1].id
         /\ Tail(SaidFrom(i, n)) = SaidFrom(i + 1, n)
<1> DEFINE s == SaidFrom(i, n)
           t == SaidFrom(i + 1, n)
<1>1. s \in Seq(Ids) /\ Len(s) = n - i
  <2>1. i <= n OBVIOUS
  <2> QED BY <2>1, SaidFromSeq
<1>2. t \in Seq(Ids) /\ Len(t) = n - i - 1
  <2>1. i + 1 \in Nat /\ i + 1 <= n OBVIOUS
  <2>2. t \in Seq(Ids) /\ Len(t) = n - (i + 1) BY <2>1, SaidFromSeq
  <2> QED BY <2>2
<1>3. \A k \in 1 .. n - i : s[k] = Said[i + k].id BY DEF SaidFrom
<1>4. \A k \in 1 .. n - i - 1 : t[k] = s[k + 1]
  <2> TAKE k \in 1 .. n - i - 1
  <2>1. k \in 1 .. n - (i + 1) /\ k + 1 \in 1 .. n - i OBVIOUS
  <2>2. t[k] = Said[i + 1 + k].id BY <2>1 DEF SaidFrom
  <2>3. i + 1 + k = i + (k + 1) OBVIOUS
  <2> QED BY <1>3, <2>1, <2>2, <2>3
<1> HIDE DEF s, t
<1>5. s # <<>> BY <1>1
<1>6. Head(s) = s[1] BY <1>1, <1>5
<1>7. /\ Tail(s) \in Seq(Ids) /\ Len(Tail(s)) = n - i - 1
      /\ \A k \in 1 .. Len(Tail(s)) : Tail(s)[k] = s[k + 1]
  BY <1>1, <1>5, HeadTailProperties
<1>8. Tail(s) = t
  <2>1. Tail(s) \in [1 .. n - i - 1 -> Ids] BY <1>7, LenProperties
  <2>2. t \in [1 .. n - i - 1 -> Ids] BY <1>2, LenProperties
  <2> QED BY <1>4, <1>7, <2>1, <2>2
<1>9. 1 \in 1 .. n - i OBVIOUS
<1> QED BY <1>3, <1>5, <1>6, <1>8, <1>9 DEF s, t

(* The list names each of the devices once. *)
LEMMA SaidPermutes ==
  SaidFrom(0, Len(Said)) \in Contract!SetToAllKPermutations(Ids)
<1> DEFINE n == Len(Said)
           f == SaidFrom(0, n)
<1>1. n \in Nat /\ DOMAIN Said = 1 .. n BY SaidTyped
<1>2. f = [k \in 1 .. n |-> Said[k].id]
  <2>1. 1 .. n - 0 = 1 .. n BY <1>1
  <2>2. \A k \in 1 .. n : 0 + k = k BY <1>1
  <2> QED BY <2>1, <2>2 DEF SaidFrom
<1> HIDE DEF f
<1>3. f \in [1 .. n -> Ids] BY <1>1, <1>2 DEF Ids
<1>4. \A i, j \in 1 .. n : i # j => f[i] # f[j]
  BY <1>1, <1>2, SaidAssumption
<1>5. \A id \in Ids : \E k \in 1 .. n : f[k] = id BY <1>1, <1>2 DEF Ids
<1> HIDE DEF n
<1>6. f \in Injection(1 .. n, Ids) BY <1>3, <1>4 DEF Injection, IsInjective
<1>7. f \in Surjection(1 .. n, Ids) BY <1>3, <1>5 DEF Surjection
<1>8. ExistsBijection(1 .. n, Ids) BY <1>6, <1>7 DEF ExistsBijection, Bijection
<1>9. Cardinality(Ids) = n BY <1>1, <1>8, FS_CountingElements
<1>10. Contract!Cardinality(Ids) = n
  BY <1>9 DEF Contract!Cardinality, Cardinality
<1>11. f \in Contract!SetToSeqs(Ids)
  BY <1>3, <1>4, <1>10 DEF Contract!SetToSeqs
<1> QED BY <1>11 DEF Contract!SetToAllKPermutations, f, n

(* What is to be gone through is what the T2 has said. *)
TodoIsSaid == Todo = SaidFrom(devI, devCnt)

LEMMA ContractInit == Init => Contract!Init
<1> SUFFICES ASSUME Init PROVE Contract!Init OBVIOUS
<1>1. devI = 0 /\ devCnt = 0 /\ listed = <<>> BY DEF Init
<1>2. Todo = <<>> BY <1>1 DEF Todo
<1>3. ListedIds = <<>> BY <1>1 DEF ListedIds
<1> QED BY <1>2, <1>3 DEF Contract!Init, ListedIds

LEMMA ContractStays ==
  ASSUME TodoIsSaid, TodoIsSaid', UNCHANGED <<devI, devCnt, listed>>
  PROVE  UNCHANGED Contract!listVars
<1>1. Todo' = Todo BY DEF TodoIsSaid, SaidFrom
<1> QED BY <1>1 DEF Contract!listVars

(* The list comes. *)
LEMMA ContractGot ==
  ASSUME IInv, TodoIsSaid, TodoIsSaid', ListComes
  PROVE  [Contract!Next]_Contract!listVars
<1>1. at = "list" /\ UNCHANGED <<devI, listed>> BY DEF ListComes, Goes
<1>2. devI = 0 /\ listed = <<>> BY <1>1 DEF IInv, ListInv
<1>3. CASE ~Succeeds(Prober)
  <2>1. UNCHANGED devCnt BY <1>3 DEF ListComes
  <2> QED BY <1>1, <2>1, ContractStays
<1>4. CASE Succeeds(Prober)
  <2>1. devCnt' = Len(Said) BY <1>1, <1>4, ListReply DEF ListComes
  <2>2. Todo' = SaidFrom(0, Len(Said)) BY <1>1, <1>2, <2>1 DEF TodoIsSaid
  <2>3. Todo' \in Contract!SetToAllKPermutations(Ids) BY <2>2, SaidPermutes
  <2>4. ListedIds = <<>> /\ ListedIds' = ListedIds
    BY <1>1, <1>2 DEF ListedIds
  <2>5. Contract!Got BY <2>3, <2>4 DEF Contract!Got, Ids, ListedIds
  <2> QED BY <2>5 DEF Contract!Next
<1> QED BY <1>3, <1>4

(* A device is left out, or listed. *)
LEMMA ContractTakes ==
  ASSUME IInv, TodoIsSaid, TodoIsSaid', at \in DevicePoints,
         devI' = devI + 1, devCnt' = devCnt
  PROVE  /\ Todo # <<>> /\ Todo' = Tail(Todo)
         /\ Head(Todo) = sdev.id
<1>1. devI \in Nat /\ devCnt \in Nat /\ devI < devCnt /\ devCnt = Len(Said)
  <2>1. devI < devCnt /\ devI \in 0 .. devCnt /\ devCnt = Len(Said)
    BY DEF IInv, ListInv
  <2> QED BY <2>1, SaidTyped
<1>2. /\ Todo = SaidFrom(devI, devCnt) /\ Todo' = SaidFrom(devI + 1, devCnt)
  BY DEF TodoIsSaid
<1>3. sdev.id = Said[devI + 1].id BY WithDevice
<1>4. devCnt <= Len(Said) BY <1>1
<1> QED BY <1>1, <1>2, <1>3, <1>4, SaidFromTail

LEMMA ContractLists ==
  ASSUME IInv, TodoIsSaid, TodoIsSaid', ListDevice
  PROVE  Contract!List
<1>1. /\ at \in DevicePoints /\ devI' = devI + 1 /\ devCnt' = devCnt
  BY DEF ListDevice, Goes, DevicePoints
<1>2. Todo # <<>> /\ Todo' = Tail(Todo) /\ Head(Todo) = sdev.id
  BY <1>1, ContractTakes
<1>3. /\ DOMAIN listed' = 1 .. Len(listed) + 1
      /\ \A i \in 1 .. Len(listed) : listed'[i] = listed[i]
      /\ listed'[Len(listed) + 1] = sdev
  BY ListDeviceAppends
<1>4. Len(listed) \in Nat /\ DOMAIN listed = 1 .. Len(listed) BY ListedSeq
<1> DEFINE n == Len(listed)
           S == {listed[i].id : i \in DOMAIN listed} \union {sdev.id}
           old == [i \in 1 .. n |-> listed[i].id]
           new == [i \in 1 .. n + 1 |-> listed'[i].id]
<1>5. ListedIds = old /\ ListedIds' = new BY <1>3, <1>4 DEF ListedIds
<1>6. \A i \in 1 .. n : listed[i].id \in S BY <1>4
<1>7. sdev.id \in S OBVIOUS
<1> HIDE DEF S
<1>8. old \in Seq(S) /\ Len(old) = n BY <1>4, <1>6
<1>9. new \in [1 .. n + 1 -> S] BY <1>3, <1>4, <1>6, <1>7
<1>10. \A i \in 1 .. n : new[i] = old[i] BY <1>3, <1>4
<1>11. new[n + 1] = sdev.id BY <1>3, <1>4
<1> HIDE DEF old, new
<1>12. Append(old, sdev.id) = new
  <2>1. /\ Append(old, sdev.id) \in Seq(S)
        /\ Len(Append(old, sdev.id)) = n + 1
        /\ \A i \in 1 .. n : Append(old, sdev.id)[i] = old[i]
        /\ Append(old, sdev.id)[n + 1] = sdev.id
    BY <1>7, <1>8, AppendProperties
  <2>2. Append(old, sdev.id) \in [1 .. n + 1 -> S] BY <2>1, LenProperties
  <2>3. \A i \in 1 .. n + 1 : Append(old, sdev.id)[i] = new[i]
    BY <1>4, <1>10, <1>11, <2>1
  <2> QED BY <1>9, <2>2, <2>3
<1> QED BY <1>2, <1>5, <1>12 DEF Contract!List, ListedIds

LEMMA ContractNext ==
  ASSUME IInv, TodoIsSaid, TodoIsSaid', [Next]_vars
  PROVE  [Contract!Next]_Contract!listVars
<1>1. UNCHANGED <<devI, devCnt, listed>> => [Contract!Next]_Contract!listVars
  BY ContractStays
<1>2. CASE ListComes BY <1>2, ContractGot
<1>3. CASE ListDevice BY <1>3, ContractLists DEF Contract!Next
<1>4. CASE HandedReplyComes
  <2>1. at \in DevicePoints /\ UNCHANGED <<devCnt, listed>>
    BY <1>4 DEF HandedReplyComes, DevicePoints
  <2>2. CASE DropDevice
    <3>1. Todo # <<>> /\ Todo' = Tail(Todo)
      BY <2>1, <2>2, ContractTakes DEF DropDevice
    <3>2. Contract!Skip BY <2>1, <3>1 DEF Contract!Skip
    <3> QED BY <3>2 DEF Contract!Next
  <2>3. CASE UNCHANGED devI BY <1>1, <2>1, <2>3
  <2> QED BY <1>4, <2>2, <2>3 DEF HandedReplyComes
<1>5. CASE AskForList \/ NextDevice \/ AllDevices \/ OwnReplyComes \/ CreatePcm
  BY <1>1, <1>5 DEF AskForList, NextDevice, AllDevices, OwnReplyComes, CreatePcm
<1>6. CASE Quiet BY <1>1, <1>6, QuietCall DEF proberVars
<1> QED BY <1>2, <1>3, <1>4, <1>5, <1>6, QuietOrMoves DEF Moves

(* The list of the T2 is gone through once and in its order, although it   *)
(* is read from a reply buffer while others are freed and allocated        *)
(* (t2audio_init_cmd).                                                     *)
THEOREM Refinement == Spec => ListsInOrder
<1>1. IInv => TodoIsSaid BY TodoSaid DEF TodoIsSaid
<1>2. Spec => Contract!Init /\ [][Contract!Next]_Contract!listVars
  BY <1>1, ContractInit, ContractNext, Invariant, PTL DEF Spec
<1> QED BY <1>2 DEF ListsInOrder, Contract!Spec
=============================================================================
