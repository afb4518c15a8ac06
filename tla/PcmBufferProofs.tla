-------------------------- MODULE PcmBufferProofs --------------------------
(***************************************************************************)
(* Proofs about StreamBuffer: the periods the driver gives ALSA lie within *)
(* the buffer and last for 10 to 20 ms, for every size, packet and rate;   *)
(* and the device plays what ALSA has written, for a ring of any length,   *)
(* START_IO or not.  And about the pointer of a stream, which stays inside *)
(* its buffer and in step with the device.                                 *)
(***************************************************************************)
EXTENDS StreamBuffer, TLAPS

(* A stream's pointer, which is a model of its own (PcmPointer). *)
CONSTANTS Length, Rate, Second, Latencies, Lengths, Drift, Errors, MaxDelay,
          MaxGap, MaxTime

VARIABLES latency, error, now, state, waiting, after, remote, frameMin, start,
          length, rings, pending, hwPtr, ahead, called, unsure

Pcm == INSTANCE PcmPointer WITH BufferSize <- Length, ring <- start

PointerAssumptions ==
  /\ Pcm!SizeAssumption
  /\ Pcm!LatencyAssumption
  /\ Pcm!TimeAssumption

-----------------------------------------------------------------------------
(* Products, quotients and remainders. *)

(* A quotient of what is no less than the divisor is positive. *)
LEMMA QuotientPositive ==
  ASSUME NEW x \in Nat, NEW d \in Nat \ {0}, x >= d
  PROVE  x \div d \in Nat \ {0}
BY Z3

(* Multiplication keeps the order. *)
LEMMA ProductMonotone ==
  ASSUME NEW a \in Nat, NEW b \in Nat, NEW c \in Nat, a <= b
  PROVE  a * c <= b * c
BY Z3

(* A quotient is the greatest number of divisors in the dividend. *)
LEMMA QuotientBounds ==
  ASSUME NEW x \in Nat, NEW d \in Nat \ {0}
  PROVE  /\ x \div d \in Nat
         /\ (x \div d) * d <= x
         /\ x < ((x \div d) + 1) * d
BY Z3

(* So many divisors fit. *)
LEMMA QuotientAtLeast ==
  ASSUME NEW x \in Nat, NEW d \in Nat \ {0}, NEW n \in Nat, n * d <= x
  PROVE  n <= x \div d
BY Z3

(* A quotient is bounded by what the dividend is bounded by. *)
LEMMA QuotientBelow ==
  ASSUME NEW x \in Nat, NEW d \in Nat \ {0}, NEW n \in Nat \ {0}, x < n * d
  PROVE  x \div d \in 0 .. n - 1
BY Z3

(* A remainder is what is left of any multiple. *)
LEMMA RemainderUnique ==
  ASSUME NEW d \in Nat \ {0}, NEW k \in Int, NEW m \in 0 .. d - 1,
         NEW n \in Int, n = (d * k) + m
  PROVE  n % d = m
BY Z3

(* The remainder of less than a divisor is itself. *)
LEMMA RemainderSmall ==
  ASSUME NEW d \in Nat \ {0}, NEW n \in 0 .. d - 1
  PROVE  n % d = n
BY Z3

(* Numbers that are closer than a divisor have different remainders. *)
LEMMA RemaindersDiffer ==
  ASSUME NEW d \in Nat \ {0}, NEW a \in Nat, NEW b \in Nat, a < b, b - a < d
  PROVE  a % d # b % d
<1> DEFINE j == a \div d
           k == b \div d
<1>1. /\ j \in Nat /\ a = (d * j) + (a % d) /\ a % d \in 0 .. d - 1
      /\ k \in Nat /\ b = (d * k) + (b % d) /\ b % d \in 0 .. d - 1
  BY Z3
<1> SUFFICES ASSUME a % d = b % d PROVE FALSE OBVIOUS
<1> DEFINE r == a % d
<1> HIDE DEF j, k
<1>2. d * j \in Nat /\ d * k \in Nat BY <1>1
<1>3. b - a = (d * k) - (d * j) BY <1>1, <1>2
<1>4. (k - j) * d = (d * k) - (d * j) /\ (j - k) * d = (d * j) - (d * k)
  BY <1>1
<1>5. CASE k > j
  <2>1. 1 * d <= (k - j) * d BY <1>1, <1>5, ProductMonotone
  <2> QED BY <1>3, <1>4, <2>1
<1>6. CASE ~(k > j)
  <2>1. k * d <= j * d BY <1>1, <1>6, ProductMonotone
  <2>2. k * d = d * k /\ j * d = d * j BY <1>1
  <2> QED BY <1>2, <1>3, <2>1, <2>2
<1> QED BY <1>5, <1>6

(* Multiplication keeps the order, of negative numbers too. *)
LEMMA IntProductMonotone ==
  ASSUME NEW a \in Int, NEW b \in Int, NEW c \in Nat, a <= b
  PROVE  a * c <= b * c
BY Z3

(* ... and shows it. *)
LEMMA IntProductLess ==
  ASSUME NEW a \in Int, NEW b \in Int, NEW c \in Nat, a * c < b * c
  PROVE  a < b
<1> SUFFICES ASSUME b <= a PROVE FALSE OBVIOUS
<1>1. b * c <= a * c BY IntProductMonotone
<1>2. b * c \in Int /\ a * c \in Int OBVIOUS
<1> QED BY <1>1, <1>2

LEMMA Distributes ==
  ASSUME NEW a \in Int, NEW b \in Int, NEW c \in Int
  PROVE  /\ (a + b) * c = (a * c) + (b * c)
         /\ (a - b) * c = (a * c) - (b * c)
         /\ a * c \in Int /\ b * c \in Int
         /\ c * a = a * c
BY Z3

-----------------------------------------------------------------------------
(* The periods. *)

(* There is at least one period. *)
LEMMA RetunedPositive ==
  ASSUME rate \in Nat, NEW total \in Nat
  PROVE  RetunedPeriods(total) \in Nat \ {0}
<1> DEFINE target == IF rate = 0 THEN total ELSE rate \div 100
<1>1. target \in Nat BY QuotientBounds
<1> HIDE DEF target
<1>2. CASE target = 0 \/ target > total
  BY <1>2 DEF RetunedPeriods, target
<1>3. CASE ~(target = 0 \/ target > total)
  <2>1. target \in Nat \ {0} /\ total >= target BY <1>1, <1>3
  <2>2. total \div target \in Nat \ {0} BY <2>1, QuotientPositive
  <2> QED BY <1>3, <2>2 DEF RetunedPeriods, target
<1> QED BY <1>2, <1>3

(* Dividing frames that make up a number of periods of about the target    *)
(* evenly among them leaves periods between the target and its double.     *)
LEMMA EvenPeriods ==
  ASSUME NEW total \in Nat, NEW target \in Nat \ {0}, target <= total,
         NEW n \in Nat \ {0}, n = total \div target
  PROVE  target <= total \div n /\ total \div n < 2 * target
<1>1. n * target <= total /\ total < (n + 1) * target BY QuotientBounds
<1>2. target * n = n * target /\ n * target \in Nat OBVIOUS
<1>3. target <= total \div n BY <1>1, <1>2, QuotientAtLeast
<1>4. total < (2 * target) * n
  <2>1. (n + 1) * target = n * target + target OBVIOUS
  <2>2. 1 * target <= n * target BY ProductMonotone
  <2>3. (2 * target) * n = n * target + n * target OBVIOUS
  <2> QED BY <1>1, <1>2, <2>1, <2>2, <2>3
<1>5. 2 * target \in Nat \ {0} OBVIOUS
<1>6. total \div n \in 0 .. (2 * target) - 1
  BY <1>4, <1>5, QuotientBelow
<1>7. total \div n \in Nat BY QuotientBounds
<1> QED BY <1>3, <1>5, <1>6, <1>7

(* What the description says of a buffer of bytes bytes: number periods of *)
(* frames packets each lie within it and fill it but for less than a frame *)
(* of each, and the rest of a packet.                                      *)
LEMMA PeriodsFill ==
  ASSUME NEW bytes \in Nat, NEW p \in Nat \ {0}, NEW n \in Nat \ {0},
         NEW total \in Nat, total = bytes \div p
  PROVE  /\ ((total \div n) * p) * n <= bytes
         /\ bytes < ((total \div n) * p + p) * n + p
<1> DEFINE f == total \div n
<1>1. f \in Nat /\ f * n <= total /\ total < (f + 1) * n
  BY QuotientBounds
<1>2. total * p <= bytes /\ bytes < (total + 1) * p
  BY QuotientBounds
<1> HIDE DEF f
<1>3. f * n \in Nat /\ (f + 1) * n \in Nat BY <1>1
<1>4. (f * p) * n = (f * n) * p /\ (f * p + p) * n = ((f + 1) * n) * p
  BY <1>1
<1>5. (f * n) * p <= total * p BY <1>1, <1>3, ProductMonotone
<1>6. (total + 1) * p <= ((f + 1) * n) * p
  <2>1. total + 1 <= (f + 1) * n /\ total + 1 \in Nat BY <1>1, <1>3
  <2> QED BY <1>3, <2>1, ProductMonotone
<1>7. /\ (f * n) * p \in Nat /\ ((f + 1) * n) * p \in Nat
      /\ total * p \in Nat /\ (total + 1) * p \in Nat
  BY <1>3
<1>8. (f * p) * n <= bytes BY <1>2, <1>4, <1>5, <1>7
<1>9. bytes < (f * p + p) * n + p BY <1>2, <1>4, <1>6, <1>7
<1> QED BY <1>8, <1>9 DEF f

LEMMA WholePackets ==
  ASSUME NEW p \in Nat \ {0}, NEW n \in Nat
  PROVE  (p * n) \div p = n
<1> DEFINE q == (p * n) \div p
<1>1. p * n \in Nat /\ n * p = p * n OBVIOUS
<1>2. q \in Nat /\ q * p <= p * n /\ n <= q
  BY <1>1, QuotientBounds, QuotientAtLeast
<1> HIDE DEF q
<1>3. CASE n < q
  <2>1. (n + 1) * p <= q * p BY <1>2, <1>3, ProductMonotone
  <2>2. (n + 1) * p = n * p + p /\ q * p \in Nat BY <1>2
  <2> QED BY <1>1, <1>2, <2>1, <2>2
<1> QED BY <1>2, <1>3 DEF q

LEMMA HwInfoTyped ==
  ASSUME packet \in Nat \ {0}, NEW bytes \in Nat
  PROVE  HwInfo(bytes) \in [period : Nat, periods : Nat]
<1>1. bytes \div packet \in Nat BY QuotientBounds
<1> QED BY <1>1 DEF HwInfo

LEMMA RetunedTyped ==
  ASSUME packet \in Nat \ {0}, rate \in Nat, NEW bytes \in Nat
  PROVE  Retuned(bytes) \in [period : Nat, periods : Nat]
<1> DEFINE total == bytes \div packet
           n == RetunedPeriods(total)
<1>1. total \in Nat BY QuotientBounds
<1> HIDE DEF total
<1>2. n \in Nat \ {0} BY <1>1, RetunedPositive
<1> HIDE DEF n
<1>3. total \div n \in Nat BY <1>1, <1>2, QuotientBounds
<1> DEFINE f == total \div n
<1>4. f \in Nat BY <1>3
<1> HIDE DEF f
<1>5. f * packet \in Nat BY <1>4
<1>6. Retuned(bytes) = [period |-> f * packet, periods |-> n]
  BY DEF Retuned, f, n, total
<1> QED BY <1>2, <1>5, <1>6

-----------------------------------------------------------------------------
(* The types and the description. *)

LEMMA Values ==
  TypeOK => /\ packet \in Nat \ {0} /\ rate \in Nat
            /\ HostPackets \in Nat \ {0} /\ Sizes \subseteq Nat
BY SizesAssumption DEF TypeOK

LEMMA Marks == Silence \in Contents /\ Spoiled \in Contents
BY DEF Silence, Spoiled, Contents

(* The parts of TypeOK a step of a configured stream may disturb. *)
RingTyped ==
  /\ \A i \in DOMAIN ring : ring[i] \in Contents
  /\ \A i \in DOMAIN saved : saved[i] \in Contents
  /\ DOMAIN saved \subseteq IF pc = "starting" THEN DOMAIN ring ELSE {}

ConfigTyped ==
  /\ side \in {"device", "host"}
  /\ size \in Nat
  /\ packet \in Packets
  /\ rate \in Rates
  /\ hw \in [period : Nat, periods : Nat]

CountsTyped ==
  /\ pc \in {"probing", "closed", "setup", "prepared", "starting", "running"}
  /\ run \in Nat /\ written \in Nat /\ played \in Nat /\ asked \in Nat
  /\ exposed \in BOOLEAN

LEMMA TypeParts == /\ TypeOK <=> ConfigTyped /\ CountsTyped /\ RingTyped
                   /\ TypeOK' <=> ConfigTyped' /\ CountsTyped' /\ RingTyped'
BY DEF TypeOK, ConfigTyped, CountsTyped, RingTyped

(* A stream whose description stays. *)
LEMMA ConfigKept ==
  ASSUME ConfigInv, UNCHANGED configVars
  PROVE  ConfigTyped' /\ Described'
BY TypeParts DEF ConfigInv, ConfigTyped, Described, configVars, HwInfo, Retuned,
                 RetunedPeriods

(* A stream that gets its description. *)
LEMMA ConfiguredKept ==
  ASSUME ConfigInv, NEW bytes \in Nat, NEW description,
    Configured(bytes, description),
         \/ side = "device" /\ bytes \in Sizes /\ description = HwInfo(bytes)
         \/ /\ side = "host" /\ bytes = packet * HostPackets
            /\ description = Retuned(bytes)
  PROVE  ConfigTyped' /\ Described' /\ CountsTyped'
<1>1. packet \in Nat \ {0} /\ rate \in Nat BY Values DEF ConfigInv
<1>2. description \in [period : Nat, periods : Nat]
  BY <1>1, HwInfoTyped, RetunedTyped
<1>3. NoHw \in [period : Nat, periods : Nat] BY DEF NoHw
<1>4. hw' \in [period : Nat, periods : Nat]
  BY <1>2, <1>3 DEF Configured
<1>5. ConfigTyped'
  BY <1>4, TypeParts DEF Configured, ConfigTyped, ConfigInv
<1>6. CountsTyped'
  BY TypeParts DEF Configured, CountsTyped, ConfigInv
<1>7. /\ hw' \in {description, NoHw} /\ size' = bytes
      /\ UNCHANGED <<side, packet, rate>>
  BY DEF Configured
<1>8. Described'
  BY <1>7 DEF Described, HwInfo, Retuned, RetunedPeriods, NoHw
<1> QED BY <1>5, <1>6, <1>8

LEMMA StepKept == ConfigInv /\ [Next]_vars => ConfigInv'
<1> SUFFICES ASSUME ConfigInv, [Next]_vars PROVE ConfigInv' OBVIOUS
<1>t. ConfigTyped /\ CountsTyped /\ RingTyped /\ Described
  BY TypeParts DEF ConfigInv
<1>v. /\ packet \in Nat \ {0} /\ rate \in Nat
      /\ HostPackets \in Nat \ {0} /\ Sizes \subseteq Nat
  BY Values DEF ConfigInv
<1>q. SUFFICES /\ ConfigTyped' /\ Described'
               /\ CountsTyped'
               /\ RingTyped'
  BY TypeParts DEF ConfigInv
<1>1. ASSUME NEW bytes \in Sizes, InitBsStream(bytes)
      PROVE  ConfigTyped' /\ Described' /\ CountsTyped' /\ RingTyped'
  <2>1. bytes \in Nat BY <1>v
  <2>2. ConfigTyped' /\ Described' /\ CountsTyped'
    BY <1>1, <2>1, ConfiguredKept DEF InitBsStream
  <2>3. RingTyped'
    BY <1>1, <1>t, Marks DEF InitBsStream, Configured, RingTyped
  <2> QED BY <2>2, <2>3
<1>2. CASE InitBsStreamHost
  <2>1. packet * HostPackets \in Nat BY <1>v
  <2>2. ConfigTyped' /\ Described' /\ CountsTyped'
    BY <1>2, <2>1, ConfiguredKept DEF InitBsStreamHost
  <2>3. RingTyped'
    BY <1>2, <1>t DEF InitBsStreamHost, Configured, RingTyped
  <2> QED BY <2>2, <2>3
<1>3. CASE NoBuffer
  <2>1. ConfigTyped' /\ Described' BY <1>3, ConfigKept DEF NoBuffer
  <2>2. CountsTyped' BY <1>3, <1>t DEF NoBuffer, CountsTyped
  <2>3. RingTyped' BY <1>3, <1>t DEF NoBuffer, RingTyped
  <2> QED BY <2>1, <2>2, <2>3
<1>4. CASE Open
  <2>1. ConfigTyped' /\ Described' BY <1>4, ConfigKept DEF Open
  <2>2. CountsTyped' BY <1>4, <1>t DEF Open, CountsTyped
  <2>3. RingTyped' BY <1>4, <1>t DEF Open, RingTyped
  <2> QED BY <2>1, <2>2, <2>3
<1>5. CASE Prepare
  <2>1. ConfigTyped' /\ Described' BY <1>5, ConfigKept DEF Prepare
  <2>2. CountsTyped'
    <3>1. run' \in Nat /\ written' \in Nat /\ played' \in Nat /\ asked' \in Nat
      BY <1>5, <1>t DEF Prepare, CountsTyped
    <3>2. pc' = "prepared" /\ exposed' \in BOOLEAN BY <1>5, Zenon DEF Prepare
    <3> QED BY <3>1, <3>2 DEF CountsTyped
  <2>3. RingTyped' BY <1>5, <1>t, Marks DEF Prepare, RingTyped
  <2> QED BY <2>1, <2>2, <2>3
<1>6. CASE Write
  <2>1. ConfigTyped' /\ Described' BY <1>6, ConfigKept DEF Write
  <2>2. CountsTyped' BY <1>6, <1>t DEF Write, CountsTyped
  <2>3. Written(written) \in Contents
    BY <1>t DEF Written, Contents, CountsTyped
  <2>4. RingTyped' BY <1>6, <1>t, <2>3 DEF Write, RingTyped
  <2> QED BY <2>1, <2>2, <2>4
<1>7. CASE StartBegins
  <2>1. ConfigTyped' /\ Described' BY <1>7, ConfigKept DEF StartBegins
  <2>2. CountsTyped' BY <1>7, <1>t DEF StartBegins, CountsTyped
  <2>3. Within(0, QueuedFrames) \subseteq DOMAIN ring BY DEF Within
  <2>4. RingTyped' BY <1>7, <1>t, <2>3 DEF StartBegins, RingTyped
  <2> QED BY <2>1, <2>2, <2>4
<1>8. CASE DeviceStarts
  <2>1. ConfigTyped' /\ Described' BY <1>8, ConfigKept DEF DeviceStarts
  <2>2. CountsTyped' BY <1>8, <1>t DEF DeviceStarts, CountsTyped
  <2>3. RingTyped' BY <1>8, <1>t, Marks DEF DeviceStarts, RingTyped, RingOf
  <2> QED BY <2>1, <2>2, <2>3
<1>9. ASSUME NEW ok \in BOOLEAN, StartEnds(ok)
      PROVE  ConfigTyped' /\ Described' /\ CountsTyped' /\ RingTyped'
  <2>1. ConfigTyped' /\ Described' BY <1>9, ConfigKept DEF StartEnds
  <2>2. CountsTyped' BY <1>9, <1>t DEF StartEnds, CountsTyped
  <2>3. RingTyped' BY <1>9, <1>t DEF StartEnds, RingTyped
  <2> QED BY <2>1, <2>2, <2>3
<1>10. CASE Play
  <2>1. ConfigTyped' /\ Described' BY <1>10, ConfigKept DEF Play
  <2>2. CountsTyped' BY <1>10, <1>t DEF Play, CountsTyped
  <2>3. RingTyped' BY <1>10, <1>t DEF Play, RingTyped
  <2> QED BY <2>1, <2>2, <2>3
<1>11. CASE Stop
  <2>1. ConfigTyped' /\ Described' BY <1>11, ConfigKept DEF Stop
  <2>2. CountsTyped' BY <1>11, <1>t DEF Stop, CountsTyped
  <2>3. RingTyped' BY <1>11, <1>t DEF Stop, RingTyped
  <2> QED BY <2>1, <2>2, <2>3
<1>12. CASE Close
  <2>1. ConfigTyped' /\ Described' BY <1>12, ConfigKept DEF Close
  <2>2. CountsTyped' BY <1>12, <1>t DEF Close, CountsTyped
  <2>3. RingTyped' BY <1>12, <1>t DEF Close, RingTyped
  <2> QED BY <2>1, <2>2, <2>3
<1>13. CASE UNCHANGED vars
  <2>1. ConfigTyped' /\ Described' BY <1>13, ConfigKept DEF vars
  <2>2. CountsTyped' BY <1>13, <1>t DEF vars, CountsTyped
  <2>3. RingTyped' BY <1>13, <1>t DEF vars, RingTyped
  <2> QED BY <2>1, <2>2, <2>3
<1> QED BY <1>1, <1>2, <1>3, <1>4, <1>5, <1>6, <1>7, <1>8, <1>9, <1>10,
           <1>11, <1>12, <1>13 DEF Next

-----------------------------------------------------------------------------
(* The sound in the ring. *)

InUse == {"setup"} \union Active

(* The buffer of a playback stream is as long as ALSA thinks. *)
LEMMA DeviceFrames ==
  ASSUME ConfigInv, side = "device", hw # NoHw
  PROVE  Frames \in Nat \ {0} /\ BufferSize = Frames
<1>1. size \in Sizes /\ hw = HwInfo(size) BY DEF ConfigInv, Described
<1>2. packet \in Packets BY DEF ConfigInv, TypeOK
<1>3. packet \in Nat \ {0} /\ size \in Nat /\ size >= packet
  BY <1>1, <1>2, SizesAssumption
<1>4. Frames \in Nat \ {0} BY <1>3, QuotientPositive DEF Frames
<1>5. hw.period = packet /\ hw.periods = Frames BY <1>1 DEF HwInfo, Frames
<1>6. BufferSize = (packet * Frames) \div packet BY <1>5 DEF BufferSize
<1> QED BY <1>3, <1>4, <1>6, WholePackets

LEMMA RingInUse ==
  ASSUME ConfigInv, RingInv, pc \in InUse
  PROVE  /\ side = "device" /\ hw # NoHw
         /\ Frames \in Nat \ {0} /\ BufferSize = Frames
         /\ DOMAIN ring = 0 .. Frames - 1
         /\ \A n \in Nat : n % Frames \in 0 .. Frames - 1
<1>1. side = "device" /\ hw # NoHw BY DEF RingInv, InUse
<1>2. Frames \in Nat \ {0} /\ BufferSize = Frames BY <1>1, DeviceFrames
<1>3. DOMAIN ring = 0 .. Frames - 1 BY <1>1 DEF RingInv
<1>4. \A n \in Nat : n % Frames \in 0 .. Frames - 1
  <2> DEFINE f == Frames
  <2> HIDE DEF f
  <2>1. f \in Nat \ {0} BY <1>2 DEF f
  <2>2. \A n \in Nat : n % f \in 0 .. f - 1 BY <2>1, Z3
  <2> QED BY <2>2 DEF f
<1> QED BY <1>1, <1>2, <1>3, <1>4

(* prepare silences all of the ring. *)
LEMMA PrepareSilences ==
  ASSUME ConfigInv, RingInv, pc \in InUse
  PROVE  DOMAIN ring \subseteq ZeroFrames(0, BufferSize)
<1> DEFINE f == Frames
<1>1. f \in Nat \ {0} /\ BufferSize = f /\ DOMAIN ring = 0 .. f - 1
  BY RingInUse
<1> HIDE DEF f
<1>2. 0 % f = 0 BY <1>1, RemainderSmall
<1>3. ZeroFrames(0, BufferSize) = Within(0, f)
  BY <1>1, <1>2 DEF ZeroFrames
<1> QED BY <1>1, <1>3 DEF Within

LEMMA RingStep ==
  ASSUME ConfigInv, SoundInv, [Next]_vars
  PROVE  RingInv'
<1>1. RingInv BY DEF SoundInv
<1>2. ASSUME NEW bytes \in Sizes, InitBsStream(bytes)
      PROVE  RingInv'
  <2>1. /\ pc' = "closed" /\ DOMAIN ring' = 0 .. (bytes \div packet) - 1
        /\ size' = bytes /\ packet' = packet
    BY <1>2 DEF InitBsStream, Configured
  <2> QED BY <2>1 DEF RingInv, Frames, Active
<1>3. CASE InitBsStreamHost
  <2>1. pc' = "closed" /\ side' # "device"
    BY <1>3 DEF InitBsStreamHost, Configured
  <2> QED BY <2>1 DEF RingInv, Active
<1>4. ASSUME UNCHANGED configVars, DOMAIN ring' = DOMAIN ring,
             \/ pc' = "closed"
             \/ pc \in InUse
             \/ pc' = pc
             \/ side = "device" /\ hw # NoHw
      PROVE  RingInv'
  <2>1. UNCHANGED <<side, size, packet, hw>> BY <1>4 DEF configVars
  <2>2. Frames' = Frames BY <2>1 DEF Frames
  <2> QED BY <1>1, <1>4, <2>1, <2>2 DEF RingInv, Active, InUse
<1>5. CASE Prepare \/ Write \/ DeviceStarts
  <2>1. UNCHANGED configVars /\ DOMAIN ring' = DOMAIN ring
    BY <1>5 DEF Prepare, Write, DeviceStarts, RingOf
  <2>2. pc \in InUse \/ pc' = pc
    BY <1>5 DEF Prepare, Write, DeviceStarts, InUse, Active
  <2> QED BY <1>4, <2>1, <2>2
<1>6. ASSUME NEW ok \in BOOLEAN, StartEnds(ok)
      PROVE  RingInv'
  <2>1. UNCHANGED configVars /\ DOMAIN ring' = DOMAIN ring /\ pc \in InUse
    BY <1>6 DEF StartEnds, InUse, Active
  <2> QED BY <1>4, <2>1
<1>7. CASE NoBuffer \/ Open \/ StartBegins \/ Play \/ Stop \/ Close
           \/ UNCHANGED vars
  <2>1. UNCHANGED configVars /\ ring' = ring
    BY <1>7 DEF NoBuffer, Open, StartBegins, Play, Stop, Close, vars
  <2>2. \/ pc' = "closed"
        \/ pc \in InUse
        \/ pc' = pc
        \/ side = "device" /\ hw # NoHw
    BY <1>7 DEF NoBuffer, Open, StartBegins, Play, Stop, Close, vars, InUse,
                Active
  <2> QED BY <1>4, <2>1, <2>2
<1> QED BY <1>2, <1>3, <1>5, <1>6, <1>7 DEF Next

(* Steps after which ALSA has nothing queued that is to be played. *)
LEMMA IdleStep ==
  ASSUME pc' \notin Active
  PROVE  QueueInv' /\ RunInv' /\ QueuedInv'
BY DEF QueueInv, RunInv, QueuedInv, Active

LEMMA PrepareSounds ==
  ASSUME ConfigInv, SoundInv, Prepare
  PROVE  QueueInv' /\ RunInv' /\ QueuedInv'
<1>1. pc \in InUse /\ pc # "starting" BY DEF Prepare, InUse, Active
<1>2. Frames \in Nat \ {0} /\ DOMAIN ring \subseteq ZeroFrames(0, BufferSize)
  BY <1>1, RingInUse, PrepareSilences DEF SoundInv
<1>3. Frames' = Frames BY DEF Prepare, configVars, Frames
<1>4. /\ pc' = "prepared" /\ written' = 0 /\ played' = 0 /\ saved' = saved
      /\ ring' = [i \in DOMAIN ring |-> Silence]
  BY <1>2 DEF Prepare
<1>5. QueueInv' BY <1>2, <1>3, <1>4 DEF QueueInv
<1>6. RunInv'
  <2>1. DOMAIN saved = {} BY <1>1 DEF ConfigInv, TypeOK
  <2> QED BY <1>4, <2>1 DEF RunInv, Silence
<1>7. QueuedInv' BY <1>4 DEF QueuedInv
<1> QED BY <1>5, <1>6, <1>7

LEMMA WriteSounds ==
  ASSUME ConfigInv, SoundInv, Write
  PROVE  QueueInv' /\ RunInv' /\ QueuedInv'
<1>1. pc \in Active /\ pc \in InUse BY DEF Write, InUse, Active
<1>2. /\ Frames \in Nat \ {0} /\ BufferSize = Frames
      /\ DOMAIN ring = 0 .. Frames - 1
      /\ \A n \in Nat : n % Frames \in 0 .. Frames - 1
  BY <1>1, RingInUse DEF SoundInv
<1>3. Frames' = Frames BY DEF Write, configVars, Frames
<1>4. /\ written \in Nat /\ played \in Nat /\ run \in Nat
  BY DEF ConfigInv, TypeOK
<1>5. /\ written - played < Frames
      /\ ring' = [ring EXCEPT ![written % Frames] = Written(written)]
      /\ written' = written + 1
      /\ exposed' = (exposed \/ pc = "starting")
      /\ UNCHANGED <<pc, run, played, saved>>
  BY <1>2 DEF Write
<1>6. QueueInv'
  BY <1>1, <1>2, <1>3, <1>4, <1>5 DEF SoundInv, QueueInv
<1>7. RunInv'
  <2>1. Written(written).run = run BY DEF Written
  <2> QED BY <1>1, <1>5, <2>1 DEF SoundInv, RunInv
<1>8. QueuedInv'
  <2>1. SUFFICES ASSUME ~exposed', pc' \in {"prepared", "running"},
                        NEW n \in played' .. written' - 1
                 PROVE  ring'[n % Frames] = Written(n)'
    BY <1>3, <1>5 DEF QueuedInv
  <2>2. Written(n)' = Written(n) BY <1>5 DEF Written
  <2>3. n \in Nat /\ played <= n /\ n <= written
    BY <1>4, <1>5, <2>1
  <2>4. n % Frames \in DOMAIN ring BY <1>2, <2>3
  <2>5. CASE n = written BY <1>5, <2>2, <2>4, <2>5
  <2>6. CASE n # written
    <3>1. n < written /\ written - n < Frames
      <4> DEFINE f == Frames
      <4> HIDE DEF f
      <4>1. f \in Nat /\ written - played < f BY <1>2, <1>5 DEF f
      <4>2. n < written /\ written - n < f BY <1>4, <2>3, <2>6, <4>1
      <4> QED BY <4>2 DEF f
    <3>2. n % Frames # written % Frames
      BY <1>2, <1>4, <2>3, <3>1, RemaindersDiffer
    <3>3. n \in played .. written - 1 BY <1>4, <2>3, <3>1
    <3>4. ring[n % Frames] = Written(n)
      BY <1>5, <2>1, <3>3 DEF SoundInv, QueuedInv
    <3> QED BY <1>5, <2>2, <2>4, <3>2, <3>4
  <2> QED BY <2>5, <2>6
<1> QED BY <1>6, <1>7, <1>8

LEMMA StartBeginsSounds ==
  ASSUME ConfigInv, SoundInv, StartBegins
  PROVE  QueueInv' /\ RunInv' /\ QueuedInv'
<1>1. pc = "prepared" /\ pc \in Active /\ pc \in InUse
  BY DEF StartBegins, InUse, Active
<1>2. /\ Frames \in Nat \ {0} /\ BufferSize = Frames
      /\ DOMAIN ring = 0 .. Frames - 1
  BY <1>1, RingInUse DEF SoundInv
<1>3. Frames' = Frames BY DEF StartBegins, configVars, Frames
<1>4. written \in Nat /\ played = 0 /\ written <= Frames
  BY <1>1, <1>2 DEF ConfigInv, TypeOK, SoundInv, QueueInv
<1>5. /\ pc' = "starting"
      /\ saved' = [i \in Within(0, QueuedFrames) |-> ring[i]]
      /\ exposed' = (exposed \/ (written > 0 /\ written % Frames = 0))
      /\ QueuedFrames = written % Frames
      /\ UNCHANGED <<run, ring, written, played>>
  BY <1>2 DEF StartBegins, QueuedFrames
<1>6. QueueInv' BY <1>1, <1>3, <1>5 DEF SoundInv, QueueInv
<1>7. RunInv'
  <2>1. Within(0, QueuedFrames) \subseteq DOMAIN ring BY DEF Within
  <2> QED BY <1>1, <1>5, <2>1 DEF SoundInv, RunInv
<1>8. QueuedInv'
  <2>1. SUFFICES ASSUME ~exposed', NEW n \in 0 .. written - 1
                 PROVE  n \in DOMAIN saved' /\ saved'[n] = Written(n)
    BY <1>5 DEF QueuedInv, Written
  <2>2. written # Frames
    <3>1. Frames % Frames = 0
      <4> DEFINE f == Frames
      <4> HIDE DEF f
      <4>1. f \in Nat \ {0} /\ f = f * 1 + 0 BY <1>2 DEF f
      <4>2. f % f = 0 BY <4>1, RemainderUnique
      <4> QED BY <4>2 DEF f
    <3>2. SUFFICES ASSUME written = Frames PROVE FALSE OBVIOUS
    <3>3. written % Frames = 0 BY <3>1, <3>2, Zenon
    <3>4. written > 0 BY <1>2, <3>2
    <3> QED BY <1>5, <2>1, <3>3, <3>4, Zenon
  <2>3. written \in 0 .. Frames - 1 /\ n \in 0 .. Frames - 1
    <3> DEFINE f == Frames
    <3> HIDE DEF f
    <3>1. f \in Nat /\ written <= f /\ written # f BY <1>2, <1>4, <2>2 DEF f
    <3>2. written \in 0 .. f - 1 /\ n \in 0 .. f - 1 BY <1>4, <2>1, <3>1
    <3> QED BY <3>2 DEF f
  <2>4. written % Frames = written /\ n % Frames = n
    BY <1>2, <2>3, RemainderSmall
  <2>5. n \in DOMAIN ring /\ n < written BY <1>2, <1>4, <2>1, <2>3
  <2>6. n \in Within(0, QueuedFrames)
    BY <1>4, <1>5, <2>1, <2>4, <2>5 DEF Within
  <2>7. ring[n] = Written(n)
    <3>1. n \in played .. written - 1 BY <1>4, <2>1
    <3>2. ~exposed BY <1>5, <2>1
    <3> QED BY <1>1, <2>4, <3>1, <3>2 DEF SoundInv, QueuedInv
  <2> QED BY <1>5, <2>6, <2>7
<1> QED BY <1>6, <1>7, <1>8

LEMMA DeviceStartsSounds ==
  ASSUME ConfigInv, SoundInv, DeviceStarts
  PROVE  QueueInv' /\ RunInv' /\ QueuedInv'
<1>1. /\ ring' \in {ring, RingOf(Spoiled)}
      /\ exposed' = (exposed \/ (pc # "starting" /\ written > 0))
      /\ UNCHANGED <<pc, run, written, played, saved>>
      /\ Frames' = Frames
  BY DEF DeviceStarts, configVars, Frames
<1>2. written \in Nat /\ played \in Nat BY DEF ConfigInv, TypeOK
<1>3. QueueInv' BY <1>1 DEF SoundInv, QueueInv
<1>4. RunInv' BY <1>1 DEF SoundInv, RunInv, RingOf, Spoiled
<1>5. QueuedInv'
  <2>1. CASE pc = "starting"
    BY <1>1, <2>1 DEF SoundInv, QueuedInv, Written
  <2>2. CASE pc # "starting" /\ written > 0
    BY <1>1, <2>2 DEF QueuedInv
  <2>3. CASE pc # "starting" /\ ~(written > 0)
    <3>1. written' = 0 /\ played' \in Nat BY <1>1, <1>2, <2>3
    <3>2. played' .. written' - 1 = {} BY <3>1
    <3> QED BY <1>1, <2>3, <3>2 DEF QueuedInv
  <2> QED BY <2>1, <2>2, <2>3
<1> QED BY <1>3, <1>4, <1>5

LEMMA StartEndsSounds ==
  ASSUME ConfigInv, SoundInv, NEW ok \in BOOLEAN, StartEnds(ok)
  PROVE  QueueInv' /\ RunInv' /\ QueuedInv'
<1>1. pc = "starting" /\ pc \in Active /\ pc \in InUse
  BY DEF StartEnds, InUse, Active
<1>2. Frames \in Nat \ {0} /\ DOMAIN ring = 0 .. Frames - 1
  BY <1>1, RingInUse DEF SoundInv
<1>3. Frames' = Frames BY DEF StartEnds, configVars, Frames
<1>4. /\ ring' = [i \in DOMAIN ring |->
                    IF i \in DOMAIN saved THEN saved[i] ELSE ring[i]]
      /\ DOMAIN saved' = {}
      /\ pc' \in {"prepared", "running"}
      /\ UNCHANGED <<run, written, played, exposed>>
  BY DEF StartEnds
<1>5. played = 0 /\ DOMAIN saved \subseteq DOMAIN ring
  BY <1>1 DEF SoundInv, QueueInv, ConfigInv, TypeOK
<1>6. QueueInv' BY <1>1, <1>3, <1>4, <1>5 DEF SoundInv, QueueInv
<1>7. RunInv' BY <1>1, <1>4 DEF SoundInv, RunInv
<1>8. QueuedInv'
  <2>1. SUFFICES ASSUME ~exposed, NEW n \in 0 .. written - 1
                 PROVE  ring'[n % Frames] = Written(n)
    BY <1>3, <1>4, <1>5 DEF QueuedInv, Written
  <2>2. n \in DOMAIN saved /\ saved[n] = Written(n)
    BY <1>1, <2>1 DEF SoundInv, QueuedInv
  <2>3. n \in DOMAIN ring /\ n % Frames = n
    BY <1>2, <1>5, <2>2, RemainderSmall
  <2> QED BY <1>4, <2>2, <2>3
<1> QED BY <1>6, <1>7, <1>8

LEMMA PlaySounds ==
  ASSUME ConfigInv, SoundInv, Play
  PROVE  QueueInv' /\ RunInv' /\ QueuedInv'
<1>1. pc = "running" /\ played < written /\ played' = played + 1
      /\ UNCHANGED <<pc, run, ring, written, saved, exposed>>
      /\ Frames' = Frames
  BY DEF Play, configVars, Frames
<1>2. written \in Nat /\ played \in Nat BY DEF ConfigInv, TypeOK
<1>3. Frames \in Nat
  BY <1>1, RingInUse DEF SoundInv, InUse, Active
<1>4. QueueInv' BY <1>1, <1>2, <1>3 DEF SoundInv, QueueInv, Active
<1>5. RunInv' BY <1>1 DEF SoundInv, RunInv
<1>6. QueuedInv'
  <2>1. \A n \in played' .. written' - 1 : n \in played .. written - 1
    BY <1>1, <1>2
  <2> QED BY <1>1, <2>1 DEF SoundInv, QueuedInv, Written
<1> QED BY <1>4, <1>5, <1>6

LEMMA SoundStep == ConfigInv /\ SoundInv /\ [Next]_vars => SoundInv'
<1> SUFFICES ASSUME ConfigInv, SoundInv, [Next]_vars
             PROVE  QueueInv' /\ RunInv' /\ QueuedInv'
  BY RingStep DEF SoundInv
<1>1. CASE (\E bytes \in Sizes : InitBsStream(bytes)) \/ InitBsStreamHost
           \/ NoBuffer \/ Open \/ Stop \/ Close
  <2>1. pc' \notin Active
    BY <1>1 DEF InitBsStream, InitBsStreamHost, Configured, NoBuffer, Open,
                Stop, Close, Active
  <2> QED BY <2>1, IdleStep
<1>2. CASE UNCHANGED vars
  <2>1. UNCHANGED <<pc, run, ring, written, played, saved, exposed>>
        /\ Frames' = Frames
    BY <1>2 DEF vars, configVars, Frames
  <2>2. \A n : Written(n)' = Written(n) BY <2>1 DEF Written
  <2> QED BY <2>1, <2>2 DEF SoundInv, QueueInv, RunInv, QueuedInv
<1> QED BY <1>1, <1>2, PrepareSounds, WriteSounds, StartBeginsSounds,
           DeviceStartsSounds, StartEndsSounds, PlaySounds DEF Next

-----------------------------------------------------------------------------
(* The ring and the backup stay what they are, a stream has no other       *)
(* description than the one the driver computes from its own buffer, and   *)
(* what is queued is in the ring or in the backup.                         *)
THEOREM Invariant == Spec => []IInv
<1>1. Init => ConfigInv
  <2> SUFFICES ASSUME Init PROVE ConfigInv OBVIOUS
  <2>1. NoHw \in [period : Nat, periods : Nat] BY DEF NoHw
  <2>2. Described BY DEF Init, Described
  <2>3. exposed \in BOOLEAN BY Zenon DEF Init
  <2>4. TypeOK BY <2>1, <2>3 DEF Init, TypeOK
  <2> QED BY <2>2, <2>4 DEF ConfigInv
<1>2. Init => SoundInv
  BY DEF Init, SoundInv, RingInv, QueueInv, RunInv, QueuedInv, Active
<1>3. IInv /\ [Next]_vars => IInv'
  BY StepKept, SoundStep DEF IInv
<1>4. Init => IInv BY <1>1, <1>2 DEF IInv
<1> QED BY <1>3, <1>4, PTL DEF Spec

(* Whatever is prepared, written, started and stopped, in whatever order:  *)
(* the device finds in its ring what ALSA has written, and nothing from    *)
(* before the last prepare.                                                *)
THEOREM PlaysTheSound == Spec => []PlaysWhatWasWritten
<1>1. IInv => PlaysWhatWasWritten
  BY DEF IInv, SoundInv, RunInv, QueuedInv, Active, PlaysWhatWasWritten
<1> QED BY <1>1, Invariant, PTL

(* Whatever the sizes, the packets and the rates: the periods lie within   *)
(* the buffer and fill it but for less than a frame of each, and the       *)
(* host's last between 10 and 20 ms when its buffer lasts for 10.          *)
THEOREM PeriodsAlwaysFit == Spec => []PeriodsFit
<1>1. ConfigInv => PeriodsFit
  <2> SUFFICES ASSUME ConfigInv, hw # NoHw
               PROVE  /\ hw.periods >= 1
                      /\ hw.period * hw.periods <= size
                      /\ size < (hw.period + packet) * hw.periods + packet
                      /\ LET target == rate \div 100 IN
                           /\ side = "host"
                           /\ target >= 1
                           /\ target <= HostPackets
                           => /\ target * packet <= hw.period
                              /\ hw.period < 2 * target * packet
    BY DEF PeriodsFit
  <2>v. /\ packet \in Nat \ {0} /\ rate \in Nat
        /\ HostPackets \in Nat \ {0} /\ Sizes \subseteq Nat
    BY Values DEF ConfigInv
  <2>1. CASE side = "device" /\ size \in Sizes /\ hw = HwInfo(size)
    <3> DEFINE n == size \div packet
    <3>1. size \in Nat /\ packet \in Packets /\ size >= packet
      BY <2>1, <2>v, SizesAssumption DEF ConfigInv, TypeOK
    <3>2. n \in Nat \ {0} BY <2>v, <3>1, QuotientPositive
    <3>3. hw.period = packet /\ hw.periods = n BY <2>1 DEF HwInfo
    <3>4. n * packet <= size /\ size < (n + 1) * packet
      BY <2>v, <3>1, QuotientBounds
    <3> HIDE DEF n
    <3>5. /\ packet * n = n * packet /\ (n + 1) * packet = n * packet + packet
          /\ (packet + packet) * n = n * packet + n * packet
          /\ n * packet \in Nat
      BY <2>v, <3>2
    <3>6. packet * n <= size /\ size < (packet + packet) * n + packet
      BY <2>v, <3>1, <3>4, <3>5
    <3> QED BY <2>1, <3>2, <3>3, <3>6
  <2>2. CASE /\ side = "host" /\ size = packet * HostPackets
             /\ hw = Retuned(size)
    <3> DEFINE total == size \div packet
               n == RetunedPeriods(total)
               f == total \div n
               target == rate \div 100
    <3>1. size \in Nat BY <2>2, <2>v
    <3>2. total = HostPackets BY <2>2, <2>v, WholePackets
    <3>3. hw.period = f * packet /\ hw.periods = n BY <2>2 DEF Retuned
    <3>4. n \in Nat \ {0} BY <2>v, <3>2, RetunedPositive
    <3>5. target \in Nat BY <2>v, QuotientBounds
    <3>6. /\ (f * packet) * n <= size
          /\ size < (f * packet + packet) * n + packet
      <4> HIDE DEF n
      <4> QED BY <2>v, <3>1, <3>2, <3>4, PeriodsFill
    <3>7. ASSUME target >= 1, target <= HostPackets
          PROVE  target * packet <= f * packet
            /\ f * packet < 2 * target * packet
      <4>1. rate # 0 BY <2>v, <3>7
      <4>2. n = total \div target
        BY <3>2, <3>5, <3>7, <4>1, <2>v DEF RetunedPeriods
      <4> HIDE DEF target, n, total
      <4>3. total \in Nat /\ target <= total /\ target \in Nat \ {0}
        BY <2>v, <3>2, <3>5, <3>7
      <4>4. target <= f /\ f < 2 * target
        BY <3>4, <4>2, <4>3, EvenPeriods
      <4>5. f \in Nat BY <3>4, <4>3, QuotientBounds
      <4> HIDE DEF f
      <4>6. target * packet <= f * packet
        BY <2>v, <4>3, <4>4, <4>5, ProductMonotone
      <4>7. (f + 1) * packet <= (2 * target) * packet
        BY <2>v, <4>3, <4>4, <4>5, ProductMonotone
      <4>8. (f + 1) * packet = f * packet + packet /\ f * packet \in Nat
        BY <2>v, <4>5
      <4>9. (2 * target) * packet \in Nat BY <2>v, <4>3
      <4>10. f * packet < (2 * target) * packet
        BY <2>v, <4>7, <4>8, <4>9
      <4> QED BY <4>6, <4>10
    <3>8. n >= 1 BY <3>4
    <3> HIDE DEF f, n, total
    <3> QED BY <3>3, <3>6, <3>7, <3>8
  <2> QED BY <2>1, <2>2 DEF ConfigInv, Described
<1>2. IInv => ConfigInv BY DEF IInv
<1> QED BY <1>1, <1>2, Invariant, PTL

-----------------------------------------------------------------------------
(* The pure part of the pointer. *)

LEMMA BufferTimePositive ==
  ASSUME Pcm!SizeAssumption
  PROVE  Pcm!BufferTime \in Nat \ {0}
<1> USE DEF Pcm!SizeAssumption
<1>1. Second * Length \in Nat OBVIOUS
<1> QED BY <1>1, QuotientPositive DEF Pcm!BufferTime

LEMMA ExtrapolatedInBuffer ==
  ASSUME Pcm!SizeAssumption, NEW time \in Nat
  PROVE  Pcm!Extrapolated(time) \in 0 .. Length - 1
<1> USE DEF Pcm!SizeAssumption
<1> DEFINE m == time % Pcm!BufferTime
<1>1. m \in Nat /\ m < Pcm!BufferTime BY BufferTimePositive
<1> HIDE DEF m
<1>2. m * Length \in Nat BY <1>1
<1>3. m * Length < Length * Pcm!BufferTime
  <2>1. (m + 1) * Length <= Pcm!BufferTime * Length
    BY <1>1, BufferTimePositive, ProductMonotone
  <2>2. (m + 1) * Length = m * Length + Length
    BY <1>1
  <2>3. Pcm!BufferTime * Length = Length * Pcm!BufferTime
    BY BufferTimePositive
  <2>4. Length * Pcm!BufferTime \in Nat
    BY BufferTimePositive
  <2> QED BY <1>2, <2>1, <2>2, <2>3, <2>4
<1>4. (m * Length) \div Pcm!BufferTime \in 0 .. Length - 1
  BY <1>2, <1>3, BufferTimePositive, QuotientBelow
<1> QED BY <1>4 DEF Pcm!Extrapolated, m

LEMMA FlooredInBuffer ==
  ASSUME Pcm!SizeAssumption, NEW time \in Nat, frameMin \in 0 .. Length - 1
  PROVE  Pcm!Floored(time) \in 0 .. Length - 1
BY ExtrapolatedInBuffer DEF Pcm!Floored

LEMMA NextFrameMinInBuffer ==
  ASSUME Pcm!SizeAssumption, NEW time \in Nat, frameMin \in 0 .. Length - 1
  PROVE  Pcm!NextFrameMin(time) \in 0 .. Length - 1
<1> USE DEF Pcm!SizeAssumption
<1>1. 0 \in 0 .. Length - 1 OBVIOUS
<1> QED BY <1>1, ExtrapolatedInBuffer DEF Pcm!NextFrameMin

(* What the code does to a negative position, whatever its size, is to     *)
(* take it round the buffer: the result is the remainder.                  *)
THEOREM LatencyGoesRound ==
  ASSUME Pcm!SizeAssumption, latency \in Nat, NEW frames \in Nat
  PROVE  /\ Pcm!LessLatency(frames) = (frames - latency) % Length
         /\ Pcm!LessLatency(frames) \in 0 .. Length - 1
<1> USE DEF Pcm!SizeAssumption
<1> DEFINE n == frames - latency
<1>1. n \in Int OBVIOUS
<1> HIDE DEF n
<1>2. n % Length \in 0 .. Length - 1 BY <1>1
<1>3. CASE n >= 0
  BY <1>2, <1>3 DEF Pcm!LessLatency, n
<1>4. CASE n < 0
  <2> DEFINE q == (0 - n - 1) \div Length
             r == (0 - n - 1) % Length
             m == n + (q + 1) * Length
             k == 0 - q - 1
  <2>1. 0 - n - 1 \in Nat BY <1>1, <1>4
  <2>2. /\ q \in Nat
        /\ r \in 0 .. Length - 1
        /\ 0 - n - 1 = (Length * q) + r
    BY <2>1, Z3
  <2> HIDE DEF q, r
  <2>3. (q + 1) * Length = (Length * q) + Length
    BY <2>2
  <2>4. Length * q \in Nat BY <2>2
  <2>5. m = Length - 1 - r
    BY <1>1, <2>2, <2>3, <2>4
  <2>6. m \in 0 .. Length - 1 BY <2>2, <2>5
  <2>7. m % Length = m BY <2>6
  <2>8. k \in Int /\ n = (Length * k) + m
    BY <1>1, <2>2, <2>3
  <2> HIDE DEF m, k
  <2>9. n % Length = m
    BY <1>1, <2>2, <2>6, <2>8, RemainderUnique
  <2>10. Pcm!LessLatency(frames) = m % Length
    BY <1>4 DEF Pcm!LessLatency, m, n, q
  <2> QED BY <1>2, <2>7, <2>10, <2>9 DEF n
<1> QED BY <1>1, <1>3, <1>4

-----------------------------------------------------------------------------
(* The types of the pointer's model, in which the latency is less than the *)
(* buffer (LatencyAssumption) and frame_min with it.                       *)

LEMMA LatencyInBuffer ==
  ASSUME PointerAssumptions, Pcm!TypeOK
  PROVE  latency \in 0 .. Length - 1
BY DEF PointerAssumptions, Pcm!LatencyAssumption, Pcm!TypeOK

LEMMA PositionIsInt ==
  ASSUME PointerAssumptions, Pcm!TypeOK
  PROVE  Pcm!Position \in Int
<1> USE DEF PointerAssumptions, Pcm!SizeAssumption, Pcm!LatencyAssumption,
            Pcm!TimeAssumption
<1>1. length \in Nat \ {0} BY DEF Pcm!TypeOK
<1>2. (now - start) * Length \in Int /\ rings * Length \in Int
  BY DEF Pcm!TypeOK
<1>3. ((now - start) * Length) \div length \in Int BY <1>1, <1>2
<1> QED BY <1>2, <1>3 DEF Pcm!Position

LEMMA CountTyped ==
  ASSUME PointerAssumptions, Pcm!TypeOK,
         NEW position \in 0 .. Length - 1, Pcm!Count(position)
  PROVE  hwPtr' \in Nat /\ ahead' \in Int /\ called' \in Nat
<1> USE DEF PointerAssumptions, Pcm!SizeAssumption, Pcm!LatencyAssumption,
            Pcm!TimeAssumption
<1>1. hwPtr \in Nat /\ latency \in Int /\ now \in Nat
  BY LatencyInBuffer DEF Pcm!TypeOK
<1>2. (position - hwPtr) % Length \in Nat BY <1>1
<1>3. hwPtr' = hwPtr + ((position - hwPtr) % Length) BY DEF Pcm!Count
<1> DEFINE r == (position - hwPtr) % Length
<1> HIDE DEF r
<1>4. hwPtr' \in Nat BY <1>1, <1>2, <1>3 DEF r
<1>5. ahead' = hwPtr' + latency - (IF waiting THEN latency ELSE Pcm!Position)
  BY DEF Pcm!Count
<1>6. ahead' \in Int BY <1>1, <1>4, <1>5, PositionIsInt
<1>7. called' \in Nat BY <1>1 DEF Pcm!Count
<1> QED BY <1>4, <1>6, <1>7

LEMMA StepTyped ==
  ASSUME PointerAssumptions, Pcm!TypeOK, [Pcm!Next]_Pcm!vars
  PROVE  Pcm!TypeOK'
<1> USE DEF PointerAssumptions, Pcm!SizeAssumption, Pcm!LatencyAssumption,
            Pcm!TimeAssumption
<1>1. latency \in 0 .. Length - 1 BY LatencyInBuffer
<1>2. CASE Pcm!TimePasses
  <2>1. now' \in Nat /\ rings + 1 \in Nat BY <1>2 DEF Pcm!TimePasses, Pcm!TypeOK
  <2>2. /\ start' \in Nat /\ length' \in Lengths /\ rings' \in Nat
        /\ pending' \in BOOLEAN
    BY <1>2, <2>1 DEF Pcm!TimePasses, Pcm!TypeOK, Pcm!deviceVars
  <2> QED BY <1>2, <2>1, <2>2
        DEF Pcm!TimePasses, Pcm!TypeOK, Pcm!constVars, Pcm!streamVars,
            Pcm!alsaVars
<1>3. CASE Pcm!Prepare
  BY <1>1, <1>3 DEF Pcm!Prepare, Pcm!TypeOK, Pcm!constVars, Pcm!deviceVars
<1>4. ASSUME NEW begin \in {now - 1, now} \intersect Nat, Pcm!Start(begin)
      PROVE  Pcm!TypeOK'
  BY <1>1, <1>4 DEF Pcm!Start, Pcm!TypeOK, Pcm!constVars
<1>5. CASE Pcm!Stop
  BY <1>5 DEF Pcm!Stop, Pcm!TypeOK, Pcm!constVars, Pcm!alsaVars
<1>6. CASE Pcm!HandleTimestamp
  <2>1. Errors \subseteq Nat OBVIOUS
  <2>2. error \in Nat /\ start \in Nat BY <2>1 DEF Pcm!TypeOK
  <2>3. start + error \in Nat BY <2>2
  <2>4. /\ remote' = remote \/ remote' = start + error
        /\ rings' = rings \/ rings' = 0
        /\ waiting' = waiting \/ waiting' = FALSE
    <3>1. CASE start + error < after
      BY <1>6, <3>1, Zenon DEF Pcm!HandleTimestamp
    <3>2. CASE ~(start + error < after)
      <4>1. /\ remote' = start + error
            /\ rings' = IF waiting THEN 0 ELSE rings
            /\ waiting' = FALSE
        BY <1>6, <3>2, Zenon DEF Pcm!HandleTimestamp
      <4> QED BY <4>1, Zenon
    <3> QED BY <3>1, <3>2
  <2>5. unsure' \in BOOLEAN
    BY <1>6 DEF Pcm!HandleTimestamp, Pcm!TypeOK
  <2>6. /\ UNCHANGED <<Pcm!constVars, now, state, after, frameMin, start,
                        length, Pcm!alsaVars>>
        /\ pending' = FALSE
    BY <1>6, Zenon DEF Pcm!HandleTimestamp
  <2>7. remote' \in Nat /\ rings' \in Nat BY <2>3, <2>4 DEF Pcm!TypeOK
  <2>8. waiting' \in BOOLEAN BY <2>4, Zenon DEF Pcm!TypeOK
  <2> QED BY <2>5, <2>6, <2>7, <2>8 DEF Pcm!TypeOK, Pcm!constVars, Pcm!alsaVars
<1>7. CASE Pcm!LoseTimestamp
  BY <1>7 DEF Pcm!LoseTimestamp, Pcm!TypeOK, Pcm!constVars, Pcm!streamVars,
            Pcm!alsaVars
<1>8. CASE Pcm!PointerAtZero
  <2>1. 0 \in 0 .. Length - 1 OBVIOUS
  <2>2. hwPtr' \in Nat /\ ahead' \in Int /\ called' \in Nat
    BY <1>8, <2>1, CountTyped DEF Pcm!PointerAtZero
  <2> QED BY <1>8, <2>2
        DEF Pcm!PointerAtZero, Pcm!TypeOK, Pcm!constVars, Pcm!streamVars,
            Pcm!deviceVars
<1>9. CASE Pcm!Pointer
  <2> DEFINE time == now - remote
  <2>1. time \in Nat /\ frameMin \in 0 .. Length - 1
    BY <1>9 DEF Pcm!Pointer, Pcm!TypeOK
  <2> HIDE DEF time
  <2>2. Pcm!Floored(time) \in Nat BY <2>1, FlooredInBuffer
  <2>3. Pcm!LessLatency(Pcm!Floored(time)) \in 0 .. Length - 1
    BY <1>1, <2>2, LatencyGoesRound
  <2>4. hwPtr' \in Nat /\ ahead' \in Int /\ called' \in Nat
    BY <1>9, <2>3, CountTyped DEF Pcm!Pointer, time
  <2>5. frameMin' \in 0 .. Length - 1
    BY <1>9, <2>1, NextFrameMinInBuffer DEF Pcm!Pointer, time
  <2> QED BY <1>9, <2>4, <2>5
        DEF Pcm!Pointer, Pcm!TypeOK, Pcm!constVars, Pcm!streamVars,
            Pcm!deviceVars
<1>10. CASE UNCHANGED Pcm!vars
  BY <1>10 DEF Pcm!vars, Pcm!TypeOK, Pcm!constVars, Pcm!streamVars,
    Pcm!deviceVars, Pcm!alsaVars
<1> QED BY <1>2, <1>3, <1>4, <1>5, <1>6, <1>7, <1>8, <1>9, <1>10 DEF Pcm!Next

LEMMA PointerInit ==
  ASSUME PointerAssumptions, Pcm!Init
  PROVE  Pcm!TypeOK
<1> USE DEF PointerAssumptions, Pcm!SizeAssumption, Pcm!LatencyAssumption,
            Pcm!TimeAssumption
<1>1. waiting \in BOOLEAN /\ pending \in BOOLEAN /\ unsure \in BOOLEAN
  BY Zenon DEF Pcm!Init
<1>2. frameMin \in 0 .. Length - 1 /\ ahead \in Int /\ now \in Nat
  BY DEF Pcm!Init
<1> QED BY <1>1, <1>2 DEF Pcm!Init, Pcm!TypeOK

-----------------------------------------------------------------------------
(* What the pointer says, whatever the latency is: nothing in the driver   *)
(* keeps the latency the device tells it below the size of the buffer.     *)

(* What t2audio_pcm_pointer returns of a stream that runs. *)
Reported ==
  IF waiting \/ now < remote
  THEN 0
  ELSE Pcm!LessLatency(Pcm!Floored(now - remote))

PointerInBuffer == state = "running" => Reported \in 0 .. Length - 1

AnyLatency ==
  /\ Pcm!SizeAssumption
  /\ Pcm!TimeAssumption
  /\ Latencies \subseteq Nat

(* frame_min is a position, or the latency it was set to.                  *)
FloorInv ==
  /\ {latency, error, now, remote, start, frameMin} \subseteq Nat
  /\ frameMin \in 0 .. Length - 1 \/ frameMin = latency

LEMMA FloorInit ==
  ASSUME AnyLatency, Pcm!Init
  PROVE  FloorInv
<1> USE DEF AnyLatency, Pcm!SizeAssumption, Pcm!TimeAssumption
<1>1. latency \in Nat /\ error \in Nat BY DEF Pcm!Init
<1>2. now = 0 /\ remote = 0 /\ start = 0 /\ frameMin = 0 BY DEF Pcm!Init
<1>3. 0 \in 0 .. Length - 1 OBVIOUS
<1> QED BY <1>1, <1>2, <1>3 DEF FloorInv

LEMMA FloorStep ==
  ASSUME AnyLatency, FloorInv, [Pcm!Next]_Pcm!vars
  PROVE  FloorInv'
<1> USE DEF AnyLatency, FloorInv
<1>1. CASE Pcm!TimePasses
  <2>1. now' \in Nat BY <1>1 DEF Pcm!TimePasses
  <2>2. start' = now' \/ start' = start
    BY <1>1 DEF Pcm!TimePasses, Pcm!deviceVars
  <2> QED BY <1>1, <2>1, <2>2
        DEF Pcm!TimePasses, Pcm!constVars, Pcm!streamVars
<1>2. CASE Pcm!Prepare
  BY <1>2 DEF Pcm!Prepare, Pcm!constVars, Pcm!deviceVars
<1>3. ASSUME NEW begin \in {now - 1, now} \intersect Nat, Pcm!Start(begin)
      PROVE  FloorInv'
  BY <1>3 DEF Pcm!Start, Pcm!constVars
<1>4. CASE Pcm!Stop
  BY <1>4 DEF Pcm!Stop, Pcm!constVars
<1>5. CASE Pcm!HandleTimestamp
  <2>1. start + error \in Nat OBVIOUS
  <2>2. remote' = remote \/ remote' = start + error
    BY <1>5, Zenon DEF Pcm!HandleTimestamp
  <2>3. UNCHANGED <<latency, error, now, start, frameMin>>
    BY <1>5, Zenon DEF Pcm!HandleTimestamp, Pcm!constVars
  <2> QED BY <2>1, <2>2, <2>3
<1>6. CASE Pcm!LoseTimestamp
  BY <1>6 DEF Pcm!LoseTimestamp, Pcm!constVars, Pcm!streamVars
<1>7. CASE Pcm!PointerAtZero
  BY <1>7 DEF Pcm!PointerAtZero, Pcm!constVars, Pcm!streamVars,
              Pcm!deviceVars
<1>8. CASE Pcm!Pointer
  <2> DEFINE time == now - remote
  <2>1. time \in Nat BY <1>8 DEF Pcm!Pointer
  <2>2. frameMin' = Pcm!NextFrameMin(time) BY <1>8 DEF Pcm!Pointer
  <2> HIDE DEF time
  <2>3. frameMin' = frameMin \/ frameMin' = 0
        \/ frameMin' = Pcm!Extrapolated(time)
    BY <2>2 DEF Pcm!NextFrameMin
  <2>4. 0 \in 0 .. Length - 1 BY DEF Pcm!SizeAssumption
  <2>5. Pcm!Extrapolated(time) \in 0 .. Length - 1
    BY <2>1, ExtrapolatedInBuffer
  <2>6. UNCHANGED <<latency, error, now, remote, start>>
    BY <1>8 DEF Pcm!Pointer, Pcm!constVars, Pcm!streamVars, Pcm!deviceVars
  <2> QED BY <2>3, <2>4, <2>5, <2>6
<1>9. CASE UNCHANGED Pcm!vars
  BY <1>9 DEF Pcm!vars, Pcm!constVars, Pcm!streamVars, Pcm!deviceVars
<1> QED BY <1>1, <1>2, <1>3, <1>4, <1>5, <1>6, <1>7, <1>8, <1>9
        DEF Pcm!Next

LEMMA FloorGives ==
  ASSUME AnyLatency, FloorInv
  PROVE  PointerInBuffer
<1> USE DEF AnyLatency, FloorInv
<1>1. CASE waiting \/ now < remote
  BY <1>1 DEF PointerInBuffer, Reported, Pcm!SizeAssumption
<1>2. CASE ~waiting /\ ~(now < remote)
  <2> DEFINE time == now - remote
  <2>1. time \in Nat BY <1>2
  <2> HIDE DEF time
  <2>2. Pcm!Extrapolated(time) \in Nat BY <2>1, ExtrapolatedInBuffer
  <2>3. Pcm!Floored(time) \in Nat BY <2>2 DEF Pcm!Floored
  <2>4. Pcm!LessLatency(Pcm!Floored(time)) \in 0 .. Length - 1
    BY <2>3, LatencyGoesRound
  <2>5. Reported = Pcm!LessLatency(Pcm!Floored(time))
    BY <1>2 DEF Reported, time
  <2> QED BY <2>4, <2>5 DEF PointerInBuffer
<1> QED BY <1>1, <1>2

(* The position ALSA is given lies in the buffer whenever it asks, for     *)
(* every buffer and rate and every latency the device may have told, one   *)
(* of a whole buffer and more included (t2audio_pcm_pointer: frame_min is  *)
(* set to that latency as it is, and the position is taken round the       *)
(* buffer after it).                                                       *)
THEOREM PointerStaysInBuffer ==
  ASSUME AnyLatency
  PROVE  Pcm!Spec => []PointerInBuffer
<1>1. Pcm!Init => FloorInv BY FloorInit
<1>2. FloorInv /\ [Pcm!Next]_Pcm!vars => FloorInv' BY FloorStep
<1>3. FloorInv => PointerInBuffer BY FloorGives
<1> QED BY <1>1, <1>2, <1>3, PTL DEF Pcm!Spec

-----------------------------------------------------------------------------
(* Two clocks that go round a buffer, the driver's and the device's. *)

(* A clock that runs by the rate is no more than q frames ahead of a       *)
(* device whose ring takes d more than that.                               *)
LEMMA AheadOfDevice ==
  ASSUME NEW a \in Int, NEW p \in Nat, NEW u \in Nat, NEW len \in Nat,
         NEW d \in Nat, NEW b \in Nat \ {0}, NEW n \in Nat, NEW q \in Nat,
         p + 1 <= n, a * b <= (u + d) * n, u * n < (p + 1) * len,
         len <= b + d, (2 * d) * n <= q * b
  PROVE  a - p <= q
<1>1. (u + d) * n = (u * n) + (d * n) /\ u * n \in Int /\ d * n \in Int
  BY Distributes
<1>2. (p + 1) * len <= (p + 1) * (b + d)
  <2>1. len * (p + 1) <= (b + d) * (p + 1)
    BY IntProductMonotone
  <2> QED BY <2>1, Distributes
<1>3. (p + 1) * (b + d) = ((p + 1) * b) + ((p + 1) * d)
      /\ (p + 1) * b \in Int /\ (p + 1) * d \in Int
  BY Distributes
<1>4. (p + 1) * d <= n * d BY IntProductMonotone
<1>5. n * d = d * n /\ (2 * d) * n = (d * n) + (d * n)
  BY Distributes
<1>6. (p + 1) * b + q * b = (p + 1 + q) * b /\ q * b \in Int
  BY Distributes
<1>7. a * b \in Int /\ (p + 1) * len \in Int /\ (p + 1 + q) * b \in Int
  BY Distributes
<1>8. a * b < (p + 1 + q) * b
  BY <1>1, <1>2, <1>3, <1>4, <1>5, <1>6, <1>7
<1>9. a < p + 1 + q BY <1>8, IntProductLess
<1> QED BY <1>9

(* ... and no more than q frames behind one whose ring takes d less.       *)
LEMMA BehindDevice ==
  ASSUME NEW a \in Int, NEW p \in Nat, NEW u \in Nat, NEW len \in Nat,
         NEW d \in Nat, NEW e \in Nat, NEW b \in Nat \ {0}, NEW n \in Nat,
         NEW q \in Nat,
         p <= n, (u - e - d) * n < a * b + b, p * len <= u * n,
         b - d <= len, (2 * d + e) * n <= q * b
  PROVE  0 - q <= a - p
<1>1. (u - e - d) * n = (u * n) - (e * n) - (d * n)
      /\ u * n \in Int /\ d * n \in Int /\ e * n \in Int
  BY Distributes
<1>2. p * (b - d) <= p * len
  <2>1. (b - d) * p <= len * p
    BY IntProductMonotone
  <2> QED BY <2>1, Distributes
<1>3. p * (b - d) = (p * b) - (p * d) /\ p * b \in Int /\ p * d \in Int
  BY Distributes
<1>4. p * d <= n * d BY IntProductMonotone
<1>5. n * d = d * n /\ (2 * d + e) * n = (d * n) + (d * n) + (e * n)
  BY Distributes
<1>6. (p - q) * b = p * b - q * b /\ q * b \in Int /\ (a + 1) * b = a * b + b
      /\ p * len \in Int /\ a * b \in Int
  BY Distributes
<1>7. (p - q) * b < (a + 1) * b
  BY <1>1, <1>2, <1>3, <1>4, <1>5, <1>6
<1>8. p - q < a + 1 BY <1>7, IntProductLess
<1> QED BY <1>8

-----------------------------------------------------------------------------
(* What the assumptions on the device and on ALSA come to. *)

StepAssumptions == PointerAssumptions /\ Pcm!StepAssumption

LEMMA Constants ==
  ASSUME StepAssumptions
  PROVE  /\ Length \in Nat \ {0} /\ Length >= 4
         /\ Pcm!BufferTime \in Nat \ {0}
         /\ Pcm!Quarter \in Nat /\ 4 * Pcm!Quarter <= Length
         /\ Drift \in Nat /\ MaxDelay \in Nat /\ MaxGap \in Nat
         /\ 4 * (1 + MaxGap + MaxDelay + 2 * Drift) <= 3 * Pcm!BufferTime
<1> USE DEF StepAssumptions, PointerAssumptions, Pcm!StepAssumption,
            Pcm!SizeAssumption, Pcm!TimeAssumption
<1>1. Pcm!BufferTime \in Nat \ {0} BY BufferTimePositive
<1>2. Pcm!Quarter \in Nat /\ Pcm!Quarter * 4 <= Length
  <2>1. Length \in Nat /\ 4 \in Nat \ {0} OBVIOUS
  <2>2. Length \div 4 \in Nat /\ (Length \div 4) * 4 <= Length
    BY <2>1, QuotientBounds
  <2> QED BY <2>2 DEF Pcm!Quarter
<1>3. MaxDelay \in Nat /\ MaxGap \in Nat OBVIOUS
<1>4. 4 * Pcm!Quarter = Pcm!Quarter * 4 BY <1>2
<1> QED BY <1>1, <1>2, <1>3, <1>4

(* A ring takes about what the buffer takes, and longer than what a        *)
(* timestamp and a call may take together; two rings do not pass by then.  *)
LEMMA RingTimes ==
  ASSUME StepAssumptions, NEW len \in Lengths
  PROVE  /\ len \in Nat /\ len >= 2 /\ MaxDelay < len
         /\ len <= Pcm!BufferTime + Drift /\ Pcm!BufferTime <= len + Drift
         /\ len - MaxGap > MaxDelay + 1 + Drift
         /\ Pcm!BufferTime <= 4 * (len - MaxGap)
         /\ len + MaxDelay + 1 < 2 * Pcm!BufferTime
         /\ MaxDelay + 1 < Pcm!BufferTime
<1>1. /\ Drift \in Nat /\ MaxDelay \in Nat /\ MaxGap \in Nat
      /\ Pcm!BufferTime \in Nat
      /\ 4 * (1 + MaxGap + MaxDelay + 2 * Drift) <= 3 * Pcm!BufferTime
  BY Constants
<1>2. /\ len \in Nat /\ MaxDelay < len
      /\ len \in Pcm!BufferTime - Drift .. Pcm!BufferTime + Drift
  BY DEF StepAssumptions, PointerAssumptions, Pcm!StepAssumption,
         Pcm!TimeAssumption
<1> QED BY <1>1, <1>2

LEMMA Mapping ==
  ASSUME StepAssumptions, Pcm!TypeOK
  PROVE  /\ error \in Nat
         /\ (2 * Drift + error) * Length <= Pcm!Quarter * Pcm!BufferTime
         /\ (2 * Drift) * Length <= Pcm!Quarter * Pcm!BufferTime
         /\ latency \in Nat /\ latency <= Pcm!Quarter /\ latency < Length
<1>1. /\ error \in Errors /\ Errors \subseteq Nat
      /\ latency \in Latencies /\ Latencies \subseteq 0 .. Length - 1
      /\ (2 * Drift + error) * Length <= Pcm!Quarter * Pcm!BufferTime
      /\ latency <= Pcm!Quarter
  BY DEF StepAssumptions, PointerAssumptions, Pcm!StepAssumption,
         Pcm!TimeAssumption, Pcm!LatencyAssumption, Pcm!TypeOK
<1>2. /\ Length \in Nat /\ Drift \in Nat /\ Pcm!Quarter \in Nat
      /\ Pcm!BufferTime \in Nat
  BY Constants
<1>3. error \in Nat /\ latency \in Nat /\ latency < Length BY <1>1, <1>2
<1>4. (2 * Drift) * Length <= (2 * Drift + error) * Length
  BY <1>2, <1>3, IntProductMonotone
<1>5. /\ (2 * Drift) * Length \in Int /\ (2 * Drift + error) * Length \in Int
      /\ Pcm!Quarter * Pcm!BufferTime \in Int
  BY <1>2, <1>3, Distributes
<1> QED BY <1>1, <1>3, <1>4, <1>5

(* What may pass between the clock of the driver and a call is less than   *)
(* the time of the buffer, by more than a frame's.                         *)
LEMMA WithinBuffer ==
  ASSUME StepAssumptions
  PROVE  (MaxGap + MaxDelay + 1 + Drift) * Length + Pcm!BufferTime
           <= Length * Pcm!BufferTime
<1> DEFINE x == MaxGap + MaxDelay + 1 + Drift
           b == Pcm!BufferTime
<1>1. /\ Length \in Nat /\ Length >= 4 /\ b \in Nat /\ x \in Nat
      /\ 4 * x <= 3 * b
  BY Constants
<1> HIDE DEF x, b
<1>2. (4 * x) * Length <= (3 * b) * Length
  BY <1>1, IntProductMonotone
<1>3. 4 * b <= Length * b BY <1>1, IntProductMonotone
<1>4. (4 * x) * Length = 4 * (x * Length) /\ (3 * b) * Length = 3 * (b * Length)
      /\ b * Length = Length * b /\ x * Length \in Int /\ b * Length \in Int
  BY <1>1, Z3
<1>5. x * Length + b <= Length * b BY <1>1, <1>2, <1>3, <1>4
<1> QED BY <1>5 DEF x, b

-----------------------------------------------------------------------------
(* What the driver tells, not taken round the buffer. *)

LEMMA UnwrappedBounds ==
  ASSUME StepAssumptions, NEW time \in Nat
  PROVE  /\ Pcm!Unwrapped(time) \in Nat
         /\ Pcm!Unwrapped(time) * Pcm!BufferTime <= time * Length
         /\ time * Length
              < Pcm!Unwrapped(time) * Pcm!BufferTime + Pcm!BufferTime
<1> DEFINE x == time * Length
           b == Pcm!BufferTime
           v == x \div b
<1>1. x \in Nat /\ b \in Nat \ {0} BY Constants
<1> HIDE DEF x, b
<1>2. v \in Nat /\ v * b <= x /\ x < (v + 1) * b BY <1>1, QuotientBounds
<1> HIDE DEF v
<1>3. (v + 1) * b = v * b + b BY <1>1, <1>2, Distributes
<1> QED BY <1>2, <1>3 DEF Pcm!Unwrapped, x, b, v

LEMMA UnwrappedAtLeast ==
  ASSUME StepAssumptions, NEW time \in Nat, NEW frames \in Nat,
         frames * Pcm!BufferTime <= time * Length
  PROVE  frames <= Pcm!Unwrapped(time)
<1>1. time * Length \in Nat /\ Pcm!BufferTime \in Nat \ {0} BY Constants
<1> QED BY <1>1, QuotientAtLeast DEF Pcm!Unwrapped

LEMMA UnwrappedMonotone ==
  ASSUME StepAssumptions, NEW s \in Nat, NEW t \in Nat, s <= t
  PROVE  Pcm!Unwrapped(s) <= Pcm!Unwrapped(t)
<1> DEFINE v == Pcm!Unwrapped(s)
<1>1. Length \in Nat /\ Pcm!BufferTime \in Nat BY Constants
<1>2. v \in Nat /\ v * Pcm!BufferTime <= s * Length
  BY UnwrappedBounds
<1> HIDE DEF v
<1>3. s * Length <= t * Length BY <1>1, IntProductMonotone
<1>4. v * Pcm!BufferTime <= t * Length
  BY <1>1, <1>2, <1>3
<1>5. v <= Pcm!Unwrapped(t) BY <1>2, <1>4, UnwrappedAtLeast
<1> QED BY <1>5 DEF v

(* In the first time round the buffer it is what is extrapolated ...       *)
LEMMA UnwrappedFirst ==
  ASSUME StepAssumptions, NEW time \in Nat, time < Pcm!BufferTime
  PROVE  /\ Pcm!Extrapolated(time) = Pcm!Unwrapped(time)
         /\ Pcm!Unwrapped(time) \in 0 .. Length - 1
<1>1. Pcm!BufferTime \in Nat \ {0} BY Constants
<1>2. time % Pcm!BufferTime = time BY <1>1, RemainderSmall
<1>3. Pcm!Extrapolated(time) = Pcm!Unwrapped(time)
  BY <1>2 DEF Pcm!Extrapolated, Pcm!Unwrapped
<1>4. Pcm!SizeAssumption BY DEF StepAssumptions, PointerAssumptions
<1> QED BY <1>3, <1>4, ExtrapolatedInBuffer

(* ... and in the second a buffer more.                                    *)
LEMMA UnwrappedSecond ==
  ASSUME StepAssumptions, NEW time \in Nat, Pcm!BufferTime <= time,
         time < 2 * Pcm!BufferTime
  PROVE  /\ Pcm!Unwrapped(time) = Length + Pcm!Extrapolated(time)
         /\ Pcm!Extrapolated(time) \in 0 .. Length - 1
         /\ Pcm!Extrapolated(time) * Pcm!BufferTime
              <= (time - Pcm!BufferTime) * Length
<1> DEFINE b == Pcm!BufferTime
           r == time - b
           v == Pcm!Unwrapped(r)
           w == Pcm!Unwrapped(time)
<1>1. b \in Nat \ {0} /\ Length \in Nat BY Constants
<1>2. time = (b * 1) + r /\ r \in 0 .. b - 1 BY <1>1
<1>3. time % b = r BY <1>1, <1>2, RemainderUnique
<1>4. Pcm!Extrapolated(time) = v
  BY <1>3 DEF Pcm!Extrapolated, Pcm!Unwrapped
<1>5. v \in 0 .. Length - 1 BY <1>1, <1>2, UnwrappedFirst
<1>6. v * b <= r * Length /\ r * Length < v * b + b
  BY <1>1, <1>2, UnwrappedBounds
<1>7. w \in Nat /\ w * b <= time * Length /\ time * Length < w * b + b
  BY UnwrappedBounds
<1> HIDE DEF b, v, w, r
<1>8. time * Length = b * Length + r * Length /\ b * Length = Length * b
      /\ b * Length \in Int /\ r * Length \in Int
  BY <1>1, <1>2, Distributes
<1>9. (Length + v) * b = Length * b + v * b
      /\ (Length + v + 1) * b = Length * b + v * b + b
      /\ (w + 1) * b = w * b + b /\ v * b \in Int /\ w * b \in Int
  BY <1>1, <1>5, <1>7, Distributes
<1>10. w < Length + v + 1
  <2>1. w * b < (Length + v + 1) * b BY <1>1, <1>6, <1>7, <1>8, <1>9
  <2> QED BY <1>1, <1>5, <1>7, <2>1, IntProductLess
<1>11. Length + v < w + 1
  <2>1. (Length + v) * b < (w + 1) * b BY <1>1, <1>6, <1>7, <1>8, <1>9
  <2> QED BY <1>1, <1>5, <1>7, <2>1, IntProductLess
<1>12. w = Length + v BY <1>1, <1>5, <1>7, <1>10, <1>11
<1> QED BY <1>4, <1>5, <1>6, <1>12 DEF b, r, v, w

(* What is told next never goes back as time passes. *)
LEMMA TellingMonotone ==
  ASSUME StepAssumptions, frameMin \in 0 .. Length - 1,
         NEW s \in Nat, NEW t \in Nat, s <= t
  PROVE  Pcm!Telling(s) <= Pcm!Telling(t)
<1>1. Pcm!Unwrapped(s) \in Nat /\ Pcm!Unwrapped(t) \in Nat
  BY UnwrappedBounds
<1>2. Pcm!Unwrapped(s) <= Pcm!Unwrapped(t) BY UnwrappedMonotone
<1>3. Length \in Nat /\ Pcm!BufferTime \in Nat BY Constants
<1>4. t >= Pcm!BufferTime => Length <= Pcm!Unwrapped(t)
  <2> SUFFICES ASSUME t >= Pcm!BufferTime PROVE Length <= Pcm!Unwrapped(t)
    OBVIOUS
  <2>1. Pcm!BufferTime * Length <= t * Length
    BY <1>3, IntProductMonotone
  <2>2. Pcm!BufferTime * Length = Length * Pcm!BufferTime
    BY <1>3, Distributes
  <2> QED BY <1>3, <2>1, <2>2, UnwrappedAtLeast
<1> QED BY <1>1, <1>2, <1>3, <1>4 DEF Pcm!Telling

LEMMA TellingAbove ==
  ASSUME StepAssumptions, frameMin \in 0 .. Length - 1, NEW time \in Nat
  PROVE  /\ Pcm!Telling(time) \in Nat
         /\ Pcm!Unwrapped(time) <= Pcm!Telling(time)
         /\ time < Pcm!BufferTime => frameMin <= Pcm!Telling(time)
<1>1. Pcm!Unwrapped(time) \in Nat BY UnwrappedBounds
<1>2. Pcm!BufferTime \in Nat /\ Length \in Nat BY Constants
<1> QED BY <1>1, <1>2 DEF Pcm!Telling

-----------------------------------------------------------------------------
(* The pointer keeps in step. *)

AnchoredInv ==
  Pcm!AnchorInv /\ Pcm!NeverBack /\ Pcm!NotBehind /\ Pcm!FrameMinInv
  /\ Pcm!InStep

LEMMA Parts == Pcm!IInv <=> /\ Pcm!TypeOK /\ Pcm!FreshInv /\ Pcm!DeviceInv
                            /\ AnchoredInv
BY Zenon DEF Pcm!IInv, AnchoredInv

LEMMA PartsNext == Pcm!IInv' <=> /\ Pcm!TypeOK' /\ Pcm!FreshInv'
                                 /\ Pcm!DeviceInv' /\ AnchoredInv'
BY Zenon DEF Pcm!IInv, AnchoredInv

(* Without a clock that can be relied upon, nothing is claimed. *)
LEMMA NotAnchored ==
  ASSUME ~Pcm!Anchored'
  PROVE  AnchoredInv'
BY Zenon DEF AnchoredInv, Pcm!AnchorInv, Pcm!NeverBack, Pcm!NotBehind,
      Pcm!FrameMinInv, Pcm!InStep, Pcm!Anchored

(* The device is in its ring, its timestamp and the next call are due; a   *)
(* stream that has just been started has told nothing.                     *)
LEMMA DeviceStep ==
  ASSUME StepAssumptions, Pcm!TypeOK, Pcm!FreshInv, Pcm!DeviceInv,
         [Pcm!Next]_Pcm!vars
  PROVE  Pcm!FreshInv' /\ Pcm!DeviceInv'
<1> USE DEF Pcm!FreshInv, Pcm!DeviceInv
<1>1. /\ MaxDelay \in Nat /\ MaxGap \in Nat
      /\ Length \in Nat \ {0}
  BY Constants
<1>2. now \in Nat /\ start \in Nat /\ called \in Nat /\ length \in Lengths
  BY DEF Pcm!TypeOK
<1>3. \A len \in Lengths : len \in Nat /\ len >= 2 /\ MaxDelay < len
  BY RingTimes
<1>4. CASE Pcm!TimePasses
  <2>1. Pcm!FreshInv'
    BY <1>4 DEF Pcm!TimePasses, Pcm!constVars, Pcm!streamVars, Pcm!alsaVars
  <2>2. SUFFICES ASSUME state' = "running" PROVE Pcm!DeviceInv' BY <2>1
  <2>3. /\ state = "running" /\ now' = now + 1 /\ called' = called
        /\ now - called < MaxGap
        /\ pending => now - start < MaxDelay
    BY <1>4, <2>2 DEF Pcm!TimePasses, Pcm!streamVars, Pcm!alsaVars
  <2>4. CASE now' = start + length
    <3>1. start' = now' /\ length' \in Lengths /\ pending' = TRUE
      BY <1>4, <2>3, <2>4 DEF Pcm!TimePasses
    <3> QED BY <1>1, <1>2, <1>3, <2>3, <3>1
  <2>5. CASE now' # start + length
    <3>1. UNCHANGED <<start, length, pending>>
      BY <1>4, <2>5 DEF Pcm!TimePasses, Pcm!deviceVars
    <3> QED BY <1>1, <1>2, <1>3, <2>3, <2>5, <3>1
  <2> QED BY <2>4, <2>5
<1>5. CASE Pcm!Prepare
  BY <1>5 DEF Pcm!Prepare, Pcm!constVars
<1>6. ASSUME NEW begin \in {now - 1, now} \intersect Nat, Pcm!Start(begin)
      PROVE  Pcm!FreshInv' /\ Pcm!DeviceInv'
  <2>1. Pcm!FreshInv' BY <1>6 DEF Pcm!Start, Pcm!constVars
  <2>2. /\ start' = begin /\ length' \in Lengths /\ called' = now /\ now' = now
    BY <1>6 DEF Pcm!Start
  <2>3. start' \in Nat /\ start' <= now /\ now <= start' + 1
    BY <1>2, <2>2
  <2> QED BY <1>1, <1>2, <1>3, <2>1, <2>2, <2>3
<1>7. CASE Pcm!Stop
  BY <1>7 DEF Pcm!Stop
<1>8. CASE Pcm!HandleTimestamp
  <2>1. /\ UNCHANGED <<now, state, start, length, called, latency, hwPtr, ahead,
                       frameMin>>
        /\ pending' = FALSE
    BY <1>8, Zenon
       DEF Pcm!HandleTimestamp, Pcm!constVars, Pcm!alsaVars
  <2>2. waiting' => waiting
    BY <1>8, Zenon DEF Pcm!HandleTimestamp
  <2> QED BY <2>1, <2>2
<1>9. CASE Pcm!LoseTimestamp
  BY <1>9 DEF Pcm!LoseTimestamp, Pcm!constVars, Pcm!streamVars, Pcm!alsaVars
<1>10. CASE Pcm!PointerAtZero
  <2>1. /\ UNCHANGED <<now, state, start, length, pending, waiting, latency,
                       frameMin>>
        /\ called' = now /\ state = "running"
        /\ hwPtr' = hwPtr + ((0 - hwPtr) % Length)
        /\ ahead' = hwPtr' + latency
                      - (IF waiting THEN latency ELSE Pcm!Position)
    BY <1>10, Zenon
       DEF Pcm!PointerAtZero, Pcm!Count, Pcm!constVars, Pcm!streamVars,
           Pcm!deviceVars
  <2>2. Pcm!DeviceInv' BY <1>1, <1>2, <2>1
  <2>3. waiting => hwPtr' = 0 /\ ahead' = 0
    <3> SUFFICES ASSUME waiting PROVE hwPtr' = 0 /\ ahead' = 0 OBVIOUS
    <3>1. hwPtr = 0 BY <2>1
    <3>2. 0 % Length = 0 BY <1>1, RemainderSmall
    <3>3. latency \in Nat BY Mapping
    <3> QED BY <2>1, <3>1, <3>2, <3>3
  <2> QED BY <2>1, <2>2, <2>3
<1>11. CASE Pcm!Pointer
  <2>1. /\ UNCHANGED <<now, state, start, length, pending, waiting>>
        /\ called' = now /\ state = "running" /\ ~waiting
    BY <1>11, Zenon
       DEF Pcm!Pointer, Pcm!Count, Pcm!streamVars, Pcm!deviceVars
  <2> QED BY <1>1, <1>2, <2>1
<1>12. CASE UNCHANGED Pcm!vars
  BY <1>12 DEF Pcm!vars, Pcm!constVars, Pcm!streamVars, Pcm!deviceVars,
               Pcm!alsaVars
<1> QED BY <1>4, <1>5, <1>6, <1>7, <1>8, <1>9, <1>10, <1>11, <1>12
       DEF Pcm!Next

(* The numbers of a stream with a clock. *)
LEMMA AnchoredNumbers ==
  ASSUME StepAssumptions, Pcm!TypeOK, Pcm!DeviceInv, Pcm!AnchorInv,
         Pcm!Anchored
  PROVE  /\ now \in Nat /\ remote \in Nat /\ called \in Nat /\ start \in Nat
         /\ rings \in Nat /\ hwPtr \in Nat
         /\ frameMin \in 0 .. Length - 1 /\ frameMin \in Nat
         /\ frameMin < Length
         /\ length \in Lengths
         /\ now - remote \in Nat /\ now - start \in Nat
         /\ now - start < length
         /\ called <= now /\ now - called <= MaxGap
         /\ now - remote < 2 * Pcm!BufferTime
         /\ Pcm!Told \in Int
<1>1. Length \in Nat \ {0} /\ Drift \in Nat /\ MaxDelay \in Nat
      /\ MaxGap \in Nat /\ Pcm!BufferTime \in Nat
  BY Constants
<1>2. /\ now \in Nat /\ remote \in Nat /\ called \in Nat /\ start \in Nat
      /\ rings \in Nat /\ hwPtr \in Nat /\ frameMin \in 0 .. Length - 1
      /\ length \in Lengths
  BY DEF Pcm!TypeOK
<1>3. /\ state = "running" /\ remote <= now
      /\ IF pending THEN start + error - remote \in Lengths
                    ELSE start + error = remote
  BY DEF Pcm!AnchorInv, Pcm!Anchored
<1>4. /\ start <= now /\ now < start + length /\ called <= now
      /\ now - called <= MaxGap
      /\ pending => now - start <= MaxDelay + 1
  BY <1>3 DEF Pcm!DeviceInv
<1>5. error \in Nat /\ latency \in Nat BY Mapping
<1>6. now - remote < 2 * Pcm!BufferTime
  <2>1. CASE pending
    <3> DEFINE len == start + error - remote
    <3>1. len \in Lengths BY <1>3, <2>1
    <3>2. len \in Nat /\ len + MaxDelay + 1 < 2 * Pcm!BufferTime
      BY <3>1, RingTimes
    <3>3. now - start <= MaxDelay + 1 BY <1>4, <2>1
    <3> QED BY <1>1, <1>2, <1>5, <3>2, <3>3
  <2>2. CASE ~pending
    <3>1. length \in Nat /\ length + MaxDelay + 1 < 2 * Pcm!BufferTime
      BY <1>2, RingTimes
    <3> QED BY <1>1, <1>2, <1>3, <1>4, <1>5, <2>2, <3>1
  <2> QED BY <2>1, <2>2
<1>7. Pcm!Told \in Int
  <2> DEFINE k == IF pending THEN rings - 1 ELSE rings
  <2>1. k \in Int BY <1>2
  <2> HIDE DEF k
  <2>2. k * Length \in Int BY <1>1, <2>1, Distributes
  <2> QED BY <1>2, <1>5, <2>2 DEF Pcm!Told, k
<1>8. /\ length \in Nat /\ frameMin \in Nat /\ frameMin < Length
  BY <1>1, <1>2, RingTimes
<1> QED BY <1>2, <1>3, <1>4, <1>6, <1>7, <1>8

(* Time passes: the ring ends or goes on, what is told next does not go    *)
(* back, and what frame_min is compared with grows.                        *)
LEMMA TimeInStep ==
  ASSUME StepAssumptions, Pcm!IInv, Pcm!TimePasses, Pcm!Anchored'
  PROVE  AnchoredInv'
<1>1. /\ Pcm!TypeOK /\ Pcm!DeviceInv /\ Pcm!AnchorInv /\ Pcm!NeverBack
      /\ Pcm!NotBehind /\ Pcm!FrameMinInv /\ Pcm!InStep
  BY Zenon DEF Pcm!IInv
<1>2. /\ UNCHANGED <<state, waiting, after, remote, latency, error, frameMin,
                     hwPtr, ahead, called, unsure>>
      /\ now' = now + 1
      /\ pending => now - start < MaxDelay
  BY DEF Pcm!TimePasses, Pcm!constVars, Pcm!streamVars, Pcm!alsaVars
<1>3. Pcm!Anchored BY <1>2 DEF Pcm!Anchored
<1>4. /\ now \in Nat /\ remote \in Nat /\ called \in Nat /\ start \in Nat
      /\ rings \in Nat /\ frameMin \in 0 .. Length - 1 /\ length \in Lengths
      /\ now - remote \in Nat /\ Pcm!Told \in Int
  BY <1>1, <1>3, AnchoredNumbers
<1>5. /\ Length \in Nat \ {0} /\ Drift \in Nat /\ MaxDelay \in Nat
      /\ Pcm!BufferTime \in Nat
  BY Constants
<1>6. error \in Nat /\ latency \in Nat BY <1>1, Mapping
<1>7. /\ after <= remote /\ remote <= now
      /\ IF pending THEN rings > 0 /\ start + error - remote \in Lengths
                    ELSE start + error = remote
  BY <1>1, <1>3 DEF Pcm!AnchorInv
<1>8. length \in Nat /\ MaxDelay < length BY <1>4, RingTimes
<1>9. state = "running" BY <1>3 DEF Pcm!Anchored
<1>10. Pcm!AnchorInv' /\ Pcm!Told' = Pcm!Told
  <2>1. CASE now' = start + length
    <3>1. ~pending BY <1>2, <1>4, <1>5, <1>8, <2>1
    <3>2. start' = now' /\ rings' = rings + 1 /\ pending' = TRUE
      BY <1>9, <2>1 DEF Pcm!TimePasses
    <3>3. start' + error' - remote' = length
      BY <1>2, <1>4, <1>6, <1>7, <1>8, <2>1, <3>1, <3>2
    <3>4. Pcm!AnchorInv'
      BY <1>2, <1>4, <1>7, <3>2, <3>3 DEF Pcm!AnchorInv
    <3>5. rings' - 1 = rings BY <1>4, <3>2
    <3> QED BY <1>2, <3>1, <3>2, <3>4, <3>5 DEF Pcm!Told
  <2>2. CASE now' # start + length
    <3>1. UNCHANGED <<start, length, rings, pending>>
      BY <2>2 DEF Pcm!TimePasses, Pcm!deviceVars
    <3>2. Pcm!AnchorInv'
      BY <1>2, <1>4, <1>7, <3>1 DEF Pcm!AnchorInv
    <3> QED BY <1>2, <3>1, <3>2 DEF Pcm!Told
  <2> QED BY <2>1, <2>2
<1>11. Pcm!CalledSince' <=> Pcm!CalledSince BY <1>2 DEF Pcm!CalledSince
<1>12. \A t : /\ Pcm!Unwrapped(t)' = Pcm!Unwrapped(t)
              /\ Pcm!Telling(t)' = Pcm!Telling(t)
  BY <1>2 DEF Pcm!Unwrapped, Pcm!Telling
<1> DEFINE time == now - remote
<1>13. time \in Nat /\ (now - remote)' = time + 1 /\ time + 1 \in Nat
  BY <1>2, <1>4
<1>14. Pcm!NeverBack'
  <2>1. Pcm!Telling(time) <= Pcm!Telling(time + 1)
    BY <1>4, <1>13, TellingMonotone
  <2>2. Pcm!Telling(time) \in Nat /\ Pcm!Telling(time + 1) \in Nat
    BY <1>4, <1>13, TellingAbove
  <2>3. Pcm!Told <= Pcm!Telling(time) BY <1>1, <1>3 DEF Pcm!NeverBack
  <2>4. Pcm!Told' <= Pcm!Telling(now - remote)'
    BY <1>4, <1>10, <1>12, <1>13, <2>1, <2>2, <2>3
  <2>5. Pcm!Unwrapped(called - remote)' = Pcm!Unwrapped(called - remote)
    BY <1>2 DEF Pcm!Unwrapped
  <2> QED BY <1>1, <1>2, <1>3, <1>10, <1>11, <2>4, <2>5, Zenon
          DEF Pcm!NeverBack
<1>15. Pcm!NotBehind'
  BY <1>1, <1>2, <1>3, <1>10, <1>11 DEF Pcm!NotBehind
<1>16. Pcm!FrameMinInv'
  <2>1. (time - Pcm!BufferTime) * Length
          <= (time + 1 - Pcm!BufferTime) * Length
    BY <1>5, <1>13, IntProductMonotone
  <2>2. (time + Drift) * Length <= (time + 1 + Drift) * Length
    BY <1>5, <1>13, IntProductMonotone
  <2>3. /\ (time - Pcm!BufferTime) * Length \in Int
        /\ (time + 1 - Pcm!BufferTime) * Length \in Int
        /\ (time + Drift) * Length \in Int
        /\ (time + 1 + Drift) * Length \in Int
        /\ frameMin * Pcm!BufferTime \in Int
    BY <1>4, <1>5, <1>13, Distributes
  <2>4. Pcm!Told >= Length =>
          frameMin * Pcm!BufferTime <= (time + 1 - Pcm!BufferTime) * Length
    BY <1>1, <1>3, <2>1, <2>3 DEF Pcm!FrameMinInv
  <2>5. \/ frameMin <= latency
        \/ /\ frameMin * Pcm!BufferTime <= (time + 1 + Drift) * Length
           /\ \/ Pcm!Told >= Length
              \/ frameMin * Pcm!BufferTime
                   <= (MaxDelay + 1 + Drift) * Length
    BY <1>1, <1>3, <2>2, <2>3 DEF Pcm!FrameMinInv
  <2>6. /\ now' - remote' - Pcm!BufferTime = time + 1 - Pcm!BufferTime
        /\ now' - remote' + Drift = time + 1 + Drift
    BY <1>4, <1>5, <1>13
  <2>7. UNCHANGED <<latency, frameMin, Pcm!Told>> BY <1>2, <1>10
  <2> HIDE DEF time
  <2> QED BY <2>4, <2>5, <2>6, <2>7, Zenon DEF Pcm!FrameMinInv
<1>17. Pcm!InStep'
  BY <1>1, <1>2 DEF Pcm!InStep
<1> QED BY <1>10, <1>14, <1>15, <1>16, <1>17, Zenon DEF AnchoredInv

(* What a timestamp does that is not ignored, and not mapped to a time to  *)
(* come.                                                                   *)
LEMMA TimestampTaken ==
  ASSUME Pcm!HandleTimestamp, Pcm!Anchored', start + error >= after,
         start \in Nat, error \in Nat, now \in Nat, after \in Nat
  PROVE  /\ remote' = start + error /\ remote' <= now /\ ~unsure
         /\ rings' = IF waiting THEN 0 ELSE rings
         /\ pending' = FALSE /\ pending
         /\ UNCHANGED <<latency, error, now, after, start, frameMin, hwPtr,
                        ahead, called, state>>
<1>1. /\ pending /\ pending' = FALSE
      /\ UNCHANGED <<latency, error, now, after, start, frameMin, hwPtr, ahead,
                     called, state>>
  BY Zenon DEF Pcm!HandleTimestamp, Pcm!constVars, Pcm!alsaVars
<1>2. /\ remote' = start + error
      /\ rings' = IF waiting THEN 0 ELSE rings
      /\ unsure' = (unsure \/ start + error > now)
  <2>1. ~(start + error < after) OBVIOUS
  <2> QED BY <2>1, Zenon DEF Pcm!HandleTimestamp
<1>3. ~unsure' BY DEF Pcm!Anchored
<1>4. ~unsure /\ ~(start + error > now) BY <1>2, <1>3, Zenon
<1> QED BY <1>1, <1>2, <1>4

(* The first timestamp: nothing was told, and frame_min is the latency.    *)
LEMMA FirstTimestampInStep ==
  ASSUME StepAssumptions, Pcm!IInv, Pcm!HandleTimestamp, Pcm!Anchored',
         waiting
  PROVE  AnchoredInv'
<1> DEFINE b == Pcm!BufferTime
<1>1. Pcm!TypeOK /\ Pcm!FreshInv /\ Pcm!DeviceInv BY Zenon DEF Pcm!IInv
<1>2. /\ now \in Nat /\ start \in Nat /\ called \in Nat /\ after \in Nat
      /\ frameMin \in 0 .. Length - 1 /\ rings \in Nat
  BY <1>1 DEF Pcm!TypeOK
<1>3. error \in Nat /\ latency \in Nat /\ latency < Length
  BY <1>1, Mapping
<1>4. ~(start + error < after)
  BY Zenon DEF Pcm!HandleTimestamp, Pcm!Anchored
<1>5. start + error >= after BY <1>2, <1>3, <1>4
<1>6. /\ remote' = start + error /\ remote' <= now /\ rings' = 0
      /\ pending' = FALSE /\ pending
      /\ UNCHANGED <<latency, error, now, after, start, frameMin, hwPtr, ahead,
                     called, state>>
  BY <1>2, <1>3, <1>5, TimestampTaken
<1>7. state = "running" BY <1>6 DEF Pcm!Anchored
<1>8. /\ hwPtr = 0 /\ ahead = 0 /\ frameMin = latency
      /\ start <= now /\ now - start <= MaxDelay + 1 /\ called <= now
  BY <1>1, <1>6, <1>7 DEF Pcm!FreshInv, Pcm!DeviceInv
<1>9. /\ Length \in Nat \ {0} /\ Drift \in Nat /\ MaxDelay \in Nat
      /\ b \in Nat \ {0} /\ Pcm!Quarter \in Nat
  BY Constants
<1>10. MaxDelay + 1 < b
  <2>1. length \in Lengths BY <1>1 DEF Pcm!TypeOK
  <2> QED BY <2>1, RingTimes
<1>11. Pcm!Told' = latency
  <2>1. rings' * Length = 0 BY <1>6, <1>9
  <2> QED BY <1>3, <1>6, <1>8, <2>1 DEF Pcm!Told
<1>12. ~Pcm!CalledSince'
  BY <1>2, <1>3, <1>6, <1>8, <1>9 DEF Pcm!CalledSince
<1>13. Pcm!AnchorInv'
  BY <1>2, <1>3, <1>5, <1>6 DEF Pcm!AnchorInv
<1>14. Pcm!NeverBack'
  <2> DEFINE time == now - remote'
  <2>1. time \in Nat /\ time < b BY <1>2, <1>3, <1>6, <1>8, <1>9, <1>10
  <2>2. frameMin <= Pcm!Telling(time) BY <1>2, <2>1, TellingAbove
  <2>3. Pcm!Telling(now - remote)' = Pcm!Telling(time)
    BY <1>6 DEF Pcm!Telling, Pcm!Unwrapped
  <2> HIDE DEF time
  <2>4. Pcm!Told' <= Pcm!Telling(now - remote)' BY <1>8, <1>11, <2>2, <2>3
  <2>5. Pcm!Told' <= Length + frameMin' /\ ~(Pcm!Told' < 0)
    BY <1>3, <1>6, <1>8, <1>9, <1>11
  <2> QED BY <1>12, <2>4, <2>5, Zenon DEF Pcm!NeverBack
<1>15. Pcm!NotBehind'
  <2> DEFINE x == called - remote' - (MaxDelay + 1 + Drift)
  <2>1. x \in Int /\ x <= 0 BY <1>2, <1>3, <1>6, <1>8, <1>9
  <2>2. x = called' - remote' - (MaxDelay + 1 + Drift) BY <1>6
  <2> HIDE DEF x
  <2>3. x * Length <= 0 * Length /\ 0 * Length = 0
    BY <1>9, <2>1, IntProductMonotone
  <2>4. 0 * b <= latency * b /\ 0 * b = 0
    BY <1>3, <1>9, IntProductMonotone
  <2>5. latency * b \in Int /\ x * Length \in Int
    BY <1>3, <1>9, <2>1, Distributes
  <2>6. latency * b + b > x * Length BY <1>9, <2>3, <2>4, <2>5
  <2> QED BY <1>11, <1>12, <2>2, <2>6 DEF Pcm!NotBehind
<1>16. Pcm!FrameMinInv'
  BY <1>3, <1>6, <1>8, <1>9, <1>11 DEF Pcm!FrameMinInv
<1>17. Pcm!InStep'
  BY <1>6, <1>8, <1>9 DEF Pcm!InStep
<1> QED BY <1>13, <1>14, <1>15, <1>16, <1>17, Zenon DEF AnchoredInv

(* frame_min was passed, with a call since the clock was set, by the time  *)
(* the next timestamp comes - when it was not told anew for that one.      *)
LEMMA FrameMinPassed ==
  ASSUME StepAssumptions, Pcm!TypeOK, NEW time \in Nat, NEW len \in Lengths,
         len - MaxGap <= time,
         \/ frameMin <= latency
         \/ frameMin * Pcm!BufferTime <= (MaxDelay + 1 + Drift) * Length
  PROVE  frameMin <= Pcm!Unwrapped(time)
<1> DEFINE b == Pcm!BufferTime
           x == len - MaxGap
           q == Pcm!Quarter
<1>1. /\ Length \in Nat \ {0} /\ Drift \in Nat /\ MaxDelay \in Nat
      /\ b \in Nat \ {0} /\ q \in Nat /\ 4 * q <= Length
  BY Constants
<1>2. x \in Int /\ x >= MaxDelay + 1 + Drift /\ b <= 4 * x
  BY Constants, RingTimes
<1>3. latency \in Nat /\ latency <= q BY Mapping
<1>4. frameMin \in Nat BY <1>1 DEF Pcm!TypeOK
<1> HIDE DEF b, x, q
<1>5. x * Length <= time * Length /\ x \in Nat
  <2>1. x \in Nat /\ x <= time BY <1>1, <1>2 DEF x
  <2> QED BY <1>1, <2>1, IntProductMonotone
<1>6. /\ x * Length \in Int /\ time * Length \in Int /\ frameMin * b \in Int
      /\ q * b \in Int
  BY <1>1, <1>3, <1>4, <1>5, Distributes
<1>7. CASE frameMin <= latency
  <2>1. frameMin * b <= q * b
    BY <1>1, <1>3, <1>4, <1>7, IntProductMonotone
  <2>2. (4 * q) * b <= Length * b BY <1>1, IntProductMonotone
  <2>3. b * Length <= (4 * x) * Length BY <1>1, <1>2, <1>5, IntProductMonotone
  <2>4. /\ (4 * q) * b = 4 * (q * b) /\ (4 * x) * Length = 4 * (x * Length)
        /\ Length * b = b * Length /\ b * Length \in Int
    BY <1>1, <1>5, Z3
  <2>5. q * b <= x * Length BY <1>6, <2>2, <2>3, <2>4
  <2>6. frameMin * b <= time * Length BY <1>5, <1>6, <2>1, <2>5
  <2> QED BY <1>4, <2>6, UnwrappedAtLeast DEF b
<1>8. CASE frameMin * Pcm!BufferTime <= (MaxDelay + 1 + Drift) * Length
  <2> DEFINE y == MaxDelay + 1 + Drift
  <2>1. y \in Nat /\ y <= x BY <1>1, <1>2
  <2> HIDE DEF y
  <2>2. y * Length <= x * Length /\ y * Length \in Int
    BY <1>1, <1>5, <2>1, IntProductMonotone
  <2>3. frameMin * b <= y * Length BY <1>8 DEF b, y
  <2>4. frameMin * b <= time * Length BY <1>5, <1>6, <2>2, <2>3
  <2> QED BY <1>4, <2>4, UnwrappedAtLeast DEF b
<1> QED BY <1>7, <1>8

(* A further timestamp sets the clock back or on by no more than the drift *)
(* and the error; what is told goes on from where it was.                  *)
LEMMA NextTimestampInStep ==
  ASSUME StepAssumptions, Pcm!IInv, Pcm!HandleTimestamp, Pcm!Anchored',
         ~waiting
  PROVE  AnchoredInv'
<1> DEFINE b == Pcm!BufferTime
           len == start + error - remote
           told == Pcm!Told
<1>1. /\ Pcm!TypeOK /\ Pcm!DeviceInv /\ Pcm!AnchorInv /\ Pcm!NeverBack
      /\ Pcm!NotBehind /\ Pcm!FrameMinInv /\ Pcm!InStep
  BY Zenon DEF Pcm!IInv
<1>2. /\ now \in Nat /\ start \in Nat /\ called \in Nat /\ after \in Nat
      /\ remote \in Nat /\ hwPtr \in Nat
      /\ frameMin \in 0 .. Length - 1 /\ rings \in Nat
  BY <1>1 DEF Pcm!TypeOK
<1>3. error \in Nat /\ latency \in Nat /\ latency < Length
  BY <1>1, Mapping
<1>4. Pcm!Anchored /\ pending
  <2>1. pending /\ state = state' BY Zenon DEF Pcm!HandleTimestamp
  <2>2. unsure => unsure'
    <3>1. CASE start + error < after
      BY <3>1, Zenon DEF Pcm!HandleTimestamp
    <3>2. CASE ~(start + error < after)
      BY <3>2, Zenon DEF Pcm!HandleTimestamp
    <3> QED BY <3>1, <3>2
  <2> QED BY <2>1, <2>2, Zenon DEF Pcm!Anchored
<1>5. len \in Lengths /\ rings > 0 /\ after <= remote
  BY <1>1, <1>4 DEF Pcm!AnchorInv
<1>6. /\ len \in Nat /\ len <= b + Drift /\ b <= len + Drift
      /\ len - MaxGap > MaxDelay + 1 + Drift /\ MaxDelay + 1 < b
  BY <1>5, RingTimes
<1>7. start + error >= after BY <1>2, <1>3, <1>5, <1>6
<1>8. /\ remote' = start + error /\ remote' <= now /\ rings' = rings
      /\ pending' = FALSE
      /\ UNCHANGED <<latency, error, now, after, start, frameMin, hwPtr,
                     ahead, called, state>>
  BY <1>2, <1>3, <1>7, TimestampTaken
<1>9. /\ start <= now /\ now - start <= MaxDelay + 1
      /\ called <= now /\ now - called <= MaxGap
  BY <1>1, <1>4 DEF Pcm!DeviceInv, Pcm!Anchored
<1>10. /\ Length \in Nat \ {0} /\ Drift \in Nat /\ MaxDelay \in Nat
       /\ MaxGap \in Nat /\ b \in Nat \ {0}
  BY Constants
<1>11. told \in Int /\ told' = told - Length
  <2>1. (rings - 1) * Length = rings * Length - Length
        /\ rings * Length \in Int
    BY <1>2, <1>10, Distributes
  <2>2. told = hwPtr + latency - (rings - 1) * Length
    BY <1>4 DEF Pcm!Told
  <2>3. told' = hwPtr + latency - rings * Length
    BY <1>8 DEF Pcm!Told
  <2> QED BY <1>2, <1>3, <1>10, <2>1, <2>2, <2>3
<1>12. called - remote \in Nat /\ len - MaxGap <= called - remote
       /\ Pcm!CalledSince
  BY <1>2, <1>3, <1>6, <1>8, <1>9, <1>10 DEF Pcm!CalledSince
<1>13. ~Pcm!CalledSince'
  BY <1>2, <1>3, <1>8, <1>9, <1>10 DEF Pcm!CalledSince
<1>14. /\ told <= Length + frameMin
       /\ told < Length => frameMin = 0
                           \/ Pcm!Unwrapped(called - remote) < frameMin
  BY <1>1, <1>4, <1>12 DEF Pcm!NeverBack
<1>15. told < Length => frameMin = 0
  <2> SUFFICES ASSUME told < Length PROVE frameMin = 0 OBVIOUS
  <2>1. \/ frameMin <= latency
        \/ frameMin * b <= (MaxDelay + 1 + Drift) * Length
    BY <1>1, <1>4, <1>10, <1>11 DEF Pcm!FrameMinInv
  <2>2. frameMin <= Pcm!Unwrapped(called - remote)
    BY <1>1, <1>5, <1>12, <2>1, FrameMinPassed
  <2>3. Pcm!Unwrapped(called - remote) \in Nat
    BY <1>12, UnwrappedBounds
  <2> QED BY <1>2, <1>10, <1>14, <2>2, <2>3
<1> DEFINE time == now - remote'
<1>16. time \in Nat /\ time < b /\ now - remote = time + len
  BY <1>2, <1>3, <1>6, <1>8, <1>9, <1>10
<1>17. Pcm!AnchorInv'
  BY <1>2, <1>3, <1>7, <1>8 DEF Pcm!AnchorInv
<1>18. Pcm!NeverBack'
  <2>1. frameMin <= Pcm!Telling(time) /\ Pcm!Telling(time) \in Nat
    BY <1>2, <1>16, TellingAbove
  <2>2. Pcm!Telling(now - remote)' = Pcm!Telling(time)
    BY <1>8 DEF Pcm!Telling, Pcm!Unwrapped
  <2> HIDE DEF time
  <2>3. told' <= Pcm!Telling(now - remote)'
    BY <1>2, <1>10, <1>11, <1>14, <2>1, <2>2
  <2>4. told' <= Length + frameMin' /\ (told' < 0 => frameMin' = 0)
    BY <1>2, <1>8, <1>10, <1>11, <1>14, <1>15
  <2> QED BY <1>13, <2>3, <2>4, Zenon DEF Pcm!NeverBack
<1>19. Pcm!NotBehind'
  <2> DEFINE c == called - remote
             x == called - remote' - (MaxDelay + 1 + Drift)
  <2>1. told * b + b > c * Length
    <3>1. c = called - remote - 0 BY <1>12
    <3>2. told * b + b > (called - remote - 0) * Length
      BY <1>1, <1>4, <1>12 DEF Pcm!NotBehind
    <3> QED BY <3>1, <3>2
  <2>2. x = called' - remote' - (MaxDelay + 1 + Drift) BY <1>8
  <2>3. x \in Int /\ x <= c - b /\ c \in Int
    BY <1>2, <1>3, <1>6, <1>8, <1>10
  <2> HIDE DEF x, c
  <2>4. x * Length <= (c - b) * Length
    BY <1>10, <2>3, IntProductMonotone
  <2>5. (c - b) * Length = c * Length - b * Length
        /\ c * Length \in Int /\ x * Length \in Int
    BY <1>10, <2>3, Distributes
  <2>6. (told - Length) * b = told * b - b * Length
        /\ told * b \in Int /\ b * Length \in Int
    BY <1>10, <1>11, Distributes
  <2>7. (told - Length) * b + b > x * Length
    BY <1>10, <2>1, <2>4, <2>5, <2>6
  <2> QED BY <1>11, <1>13, <2>2, <2>7 DEF Pcm!NotBehind
<1>20. Pcm!FrameMinInv'
  <2>1. ~(told' >= Length) BY <1>2, <1>10, <1>11, <1>14
  <2>2. \/ frameMin <= latency
        \/ /\ frameMin * b <= (time + Drift) * Length
           /\ frameMin * b <= (MaxDelay + 1 + Drift) * Length
    <3>1. CASE told >= Length
      <4>1. frameMin * b <= (now - remote - b) * Length
        BY <1>1, <1>4, <3>1 DEF Pcm!FrameMinInv
      <4>2. /\ now - remote - b <= time + Drift
            /\ now - remote - b \in Int
            /\ time + Drift <= MaxDelay + 1 + Drift
            /\ time + Drift \in Int /\ MaxDelay + 1 + Drift \in Int
        BY <1>2, <1>3, <1>6, <1>8, <1>9, <1>10, <1>16
      <4>3. (now - remote - b) * Length <= (time + Drift) * Length
        BY <1>10, <4>2, IntProductMonotone
      <4>4. (time + Drift) * Length <= (MaxDelay + 1 + Drift) * Length
        BY <1>10, <4>2, IntProductMonotone
      <4>5. /\ (now - remote - b) * Length \in Int
            /\ (time + Drift) * Length \in Int
            /\ (MaxDelay + 1 + Drift) * Length \in Int
            /\ frameMin * b \in Int
        BY <1>2, <1>10, <4>2, Distributes
      <4> QED BY <4>1, <4>3, <4>4, <4>5
    <3>2. CASE told < Length
      BY <1>3, <1>15, <3>2
    <3> QED BY <1>10, <1>11, <3>1, <3>2
  <2>3. UNCHANGED <<latency, frameMin>> /\ now' - remote' = time BY <1>8
  <2> HIDE DEF time
  <2> QED BY <2>1, <2>2, <2>3, Zenon DEF Pcm!FrameMinInv
<1>21. Pcm!InStep'
  BY <1>1, <1>4, <1>8, Zenon DEF Pcm!InStep, Pcm!Anchored
<1> QED BY <1>17, <1>18, <1>19, <1>20, <1>21, Zenon DEF AnchoredInv

(* To take a position round the buffer does not change how far it is, round *)
(* the buffer, from another.                                               *)
LEMMA RoundTheBuffer ==
  ASSUME NEW n \in Nat \ {0}, NEW x \in Int, NEW h \in Int
  PROVE  ((x % n) - h) % n = (x - h) % n
<1> DEFINE c == x \div n
           r == x % n
           y == x - h
           k == y \div n
           m == y % n
           i == k - c
           z == r - h
<1>1. c \in Int /\ r \in 0 .. n - 1 /\ x = n * c + r
  BY Z3
<1>2. y \in Int OBVIOUS
<1>3. k \in Int /\ m \in 0 .. n - 1 /\ y = n * k + m
  BY <1>2, Z3
<1> HIDE DEF c, r, k, m
<1>4. i \in Int BY <1>1, <1>3
<1>5. n * i = n * k - n * c /\ n * k \in Int /\ n * c \in Int
  BY <1>1, <1>3, Z3
<1> HIDE DEF i
<1>6. z = (n * i) + m /\ z \in Int BY <1>1, <1>3, <1>5
<1> HIDE DEF z
<1>7. z % n = m BY <1>3, <1>4, <1>6, RemainderUnique
<1> QED BY <1>7 DEF r, z, m

(* What is told is what the code computes, or a buffer more. *)
LEMMA TellingFloored ==
  ASSUME StepAssumptions, frameMin \in 0 .. Length - 1, NEW time \in Nat,
         time < 2 * Pcm!BufferTime
  PROVE  /\ Pcm!Floored(time) \in Nat
         /\ \E j \in Int : Pcm!Telling(time) = Pcm!Floored(time) + Length * j
<1>1. Length \in Nat \ {0} /\ Pcm!BufferTime \in Nat BY Constants
<1>2. Pcm!SizeAssumption BY DEF StepAssumptions, PointerAssumptions
<1>3. Pcm!Floored(time) \in Nat BY <1>1, <1>2, FlooredInBuffer
<1>4. CASE time < Pcm!BufferTime
  <2>1. Pcm!Extrapolated(time) = Pcm!Unwrapped(time)
    BY <1>4, UnwrappedFirst
  <2>2. Pcm!Telling(time) = Pcm!Floored(time)
    BY <2>1, <1>4 DEF Pcm!Telling, Pcm!Floored
  <2>3. Pcm!Floored(time) = Pcm!Floored(time) + Length * 0
    BY <1>1, <1>3
  <2> QED BY <1>3, <2>2, <2>3
<1>5. CASE ~(time < Pcm!BufferTime)
  <2>1. /\ Pcm!Unwrapped(time) = Length + Pcm!Extrapolated(time)
        /\ Pcm!Extrapolated(time) \in 0 .. Length - 1
    BY <1>1, <1>5, UnwrappedSecond
  <2>2. Pcm!Telling(time) = Pcm!Unwrapped(time) BY <1>5 DEF Pcm!Telling
  <2>3. Pcm!Floored(time) = Pcm!Extrapolated(time) BY <1>5 DEF Pcm!Floored
  <2>4. Length * 1 = Length BY <1>1
  <2>5. Pcm!Telling(time) = Pcm!Floored(time) + Length * 1
    BY <1>1, <1>3, <2>1, <2>2, <2>3, <2>4
  <2> QED BY <1>3, <2>5
<1> QED BY <1>4, <1>5

(* Less than a buffer is told more by one call. *)
LEMMA LessThanBuffer ==
  ASSUME StepAssumptions, Pcm!IInv, Pcm!Anchored
  PROVE  /\ Pcm!Told <= Pcm!Telling(now - remote)
         /\ Pcm!Telling(now - remote) - Pcm!Told < Length
<1> DEFINE time == now - remote
           v == Pcm!Telling(time)
           w == Pcm!Unwrapped(time)
           b == Pcm!BufferTime
           told == Pcm!Told
           x == MaxGap + MaxDelay + 1 + Drift
           y == called - remote
                  - (IF Pcm!CalledSince THEN 0 ELSE MaxDelay + 1 + Drift)
<1>1. /\ Pcm!TypeOK /\ Pcm!DeviceInv /\ Pcm!AnchorInv /\ Pcm!NeverBack
      /\ Pcm!NotBehind
  BY Zenon DEF Pcm!IInv
<1>2. /\ now \in Nat /\ remote \in Nat /\ called \in Nat
      /\ frameMin \in 0 .. Length - 1 /\ frameMin \in Nat
      /\ frameMin < Length /\ time \in Nat
      /\ called <= now /\ now - called <= MaxGap /\ told \in Int
  BY <1>1, AnchoredNumbers
<1>3. /\ Length \in Nat \ {0} /\ Drift \in Nat /\ MaxDelay \in Nat
      /\ MaxGap \in Nat /\ b \in Nat \ {0}
  BY Constants
<1>4. v \in Nat /\ w \in Nat BY <1>2, TellingAbove, UnwrappedBounds
<1>5. told <= v /\ (told < 0 => frameMin = 0)
  BY <1>1 DEF Pcm!NeverBack
<1>6. w - told < Length
  <2>1. told * b + b > y * Length BY <1>1 DEF Pcm!NotBehind
  <2>2. w * b <= time * Length BY <1>2, UnwrappedBounds
  <2>3. x * Length + b <= Length * b BY WithinBuffer
  <2>4. time <= y + x /\ y \in Int /\ x \in Int BY <1>2, <1>3
  <2> HIDE DEF time, b, w, told, x, y
  <2>5. time * Length <= (y + x) * Length
    BY <1>2, <1>3, <2>4, IntProductMonotone
  <2>6. (y + x) * Length = y * Length + x * Length
        /\ y * Length \in Int /\ x * Length \in Int
    BY <1>3, <2>4, Distributes
  <2>7. /\ (w - told) * b = w * b - told * b
        /\ w * b \in Int /\ told * b \in Int /\ Length * b \in Int
        /\ time * Length \in Int
    BY <1>2, <1>3, <1>4, Distributes
  <2>8. (w - told) * b < Length * b
    BY <1>3, <2>1, <2>2, <2>3, <2>5, <2>6, <2>7
  <2> QED BY <1>2, <1>3, <1>4, <2>8, IntProductLess
<1>7. v = w \/ (v = frameMin /\ frameMin > w)
  BY <1>2, <1>4 DEF Pcm!Telling
<1>8. v - told < Length
  <2> HIDE DEF v, w, told
  <2> QED BY <1>2, <1>3, <1>4, <1>5, <1>6, <1>7
<1> QED BY <1>5, <1>8

(* The pointer tells what it is to tell. *)
LEMMA PointerTells ==
  ASSUME StepAssumptions, Pcm!IInv, Pcm!Pointer, Pcm!Anchored
  PROVE  /\ Pcm!Told' = Pcm!Telling(now - remote)
         /\ called' = now /\ frameMin' = Pcm!NextFrameMin(now - remote)
         /\ ahead' = Pcm!Telling(now - remote)
                       - (IF pending THEN Length ELSE 0)
                       - ((now - start) * Length) \div length
         /\ UNCHANGED <<latency, error, now, state, waiting, after, remote,
                        start, length, rings, pending, unsure>>
<1> DEFINE time == now - remote
           v == Pcm!Telling(time)
           f == Pcm!Floored(time)
           told == Pcm!Told
           k == IF pending THEN rings - 1 ELSE rings
           p == ((now - start) * Length) \div length
<1>1. Pcm!TypeOK /\ Pcm!DeviceInv /\ Pcm!AnchorInv BY Zenon DEF Pcm!IInv
<1>2. /\ hwPtr \in Nat /\ rings \in Nat /\ time \in Nat
      /\ frameMin \in 0 .. Length - 1 /\ time < 2 * Pcm!BufferTime
      /\ told \in Int /\ length \in Lengths /\ now - start \in Nat
  BY <1>1, AnchoredNumbers
<1>3. Length \in Nat \ {0} BY Constants
<1>4. latency \in Nat BY <1>1, Mapping
<1>5. /\ hwPtr' = hwPtr + ((Pcm!LessLatency(f) - hwPtr) % Length)
      /\ ahead' = hwPtr' + latency - Pcm!Position
      /\ called' = now /\ frameMin' = Pcm!NextFrameMin(time)
      /\ UNCHANGED <<latency, error, now, state, waiting, after, remote, start,
                     length, rings, pending, unsure>>
  BY Zenon DEF Pcm!Pointer, Pcm!Count, Pcm!constVars, Pcm!streamVars,
               Pcm!deviceVars
<1>6. told <= v /\ v - told < Length BY LessThanBuffer
<1>7. v \in Nat BY <1>2, TellingAbove
<1>8. f \in Nat /\ \E j \in Int : v = f + Length * j
  BY <1>2, TellingFloored
<1>9. k \in Int /\ told = hwPtr + latency - k * Length
  BY <1>2 DEF Pcm!Told
<1> HIDE DEF time, v, f, told, k
<1>10. PICK j \in Int : v = f + Length * j BY <1>8
<1>11. k * Length = Length * k /\ k * Length \in Int
  BY <1>3, <1>9, Distributes
<1>12. told = hwPtr + latency - Length * k BY <1>9, <1>11
<1>13. Pcm!LessLatency(f) = (f - latency) % Length
  <2>1. Pcm!SizeAssumption BY DEF StepAssumptions, PointerAssumptions
  <2> QED BY <1>4, <1>8, <2>1, LatencyGoesRound
<1>14. (Pcm!LessLatency(f) - hwPtr) % Length = v - told
  <2> DEFINE z == f - latency - hwPtr
             m == v - told
             i == 0 - j - k
  <2>1. z \in Int /\ m \in 0 .. Length - 1 /\ i \in Int
    BY <1>2, <1>3, <1>4, <1>6, <1>7, <1>8, <1>9
  <2>2. Length * i = 0 - Length * j - Length * k
        /\ Length * j \in Int /\ Length * k \in Int
    BY <1>3, <1>9, Z3
  <2> HIDE DEF i
  <2>3. z = (Length * i) + m
    BY <1>2, <1>4, <1>7, <1>8, <1>10, <1>12, <2>2
  <2> HIDE DEF z, m
  <2>4. z % Length = m
    BY <1>3, <2>1, <2>3, RemainderUnique
  <2>5. f - latency \in Int /\ hwPtr \in Int BY <1>2, <1>4, <1>8
  <2>6. (((f - latency) % Length) - hwPtr) % Length = m
    BY <1>3, <2>4, <2>5, RoundTheBuffer DEF z
  <2> QED BY <1>13, <2>6 DEF m
<1>15. hwPtr' + latency - k * Length = v
  BY <1>2, <1>4, <1>5, <1>7, <1>9, <1>11, <1>14
<1>16. Pcm!Told' = v
  BY <1>5, <1>15 DEF Pcm!Told, k
<1>17. ahead' = v - (IF pending THEN Length ELSE 0) - p
  <2>1. length \in Nat \ {0} BY <1>2, RingTimes
  <2>2. (now - start) * Length \in Nat BY <1>2, <1>3
  <2>3. p \in Nat BY <2>1, <2>2, QuotientBounds
  <2>4. Pcm!Position = rings * Length + p BY DEF Pcm!Position
  <2> HIDE DEF p
  <2>5. hwPtr' + latency = v + k * Length /\ rings * Length \in Int
    <3>1. hwPtr' \in Int BY <1>2, <1>5, <1>7, <1>14
    <3> QED BY <1>2, <1>3, <1>4, <1>7, <1>11, <1>15, <3>1
  <2>6. ahead' = v + k * Length - (rings * Length + p)
    <3>1. ahead' = hwPtr' + latency - Pcm!Position BY <1>5, Zenon
    <3>2. hwPtr' \in Int BY <1>2, <1>5, <1>7, <1>14
    <3> QED BY <1>4, <1>7, <1>11, <2>3, <2>4, <2>5, <3>1, <3>2
  <2>7. CASE pending
    <3>1. k * Length = rings * Length - Length
      <4>1. k = rings - 1 BY <2>7 DEF k
      <4>2. (rings - 1) * Length = rings * Length - Length
        BY <1>2, <1>3, Distributes
      <4> QED BY <4>1, <4>2
    <3> QED BY <1>3, <1>7, <2>3, <2>5, <2>6, <2>7, <3>1
  <2>8. CASE ~pending
    <3>1. k = rings BY <2>8 DEF k
    <3> QED BY <1>7, <2>3, <2>5, <2>6, <2>8, <3>1
  <2> QED BY <2>7, <2>8
<1> QED BY <1>5, <1>16, <1>17 DEF v, time, p

(* What the pointer tells and the frame_min it leaves: the floor, which is  *)
(* kept; what is extrapolated in the first time round, and no floor; or    *)
(* what is in the second, and a floor for a timestamp that is late.        *)
LEMMA PointerCases ==
  ASSUME StepAssumptions, frameMin \in 0 .. Length - 1, NEW time \in Nat,
         time < 2 * Pcm!BufferTime
  PROVE  \/ /\ time < Pcm!BufferTime /\ Pcm!Unwrapped(time) < frameMin
            /\ Pcm!Telling(time) = frameMin
            /\ Pcm!NextFrameMin(time) = frameMin
         \/ /\ time < Pcm!BufferTime
            /\ Pcm!Telling(time) = Pcm!Unwrapped(time)
            /\ Pcm!Unwrapped(time) < Length
            /\ Pcm!NextFrameMin(time) = 0
         \/ /\ Pcm!BufferTime <= time
            /\ Pcm!Telling(time) = Pcm!Unwrapped(time)
            /\ Pcm!Unwrapped(time) = Length + Pcm!NextFrameMin(time)
            /\ Pcm!NextFrameMin(time) \in 0 .. Length - 1
            /\ Pcm!NextFrameMin(time) * Pcm!BufferTime
                 <= (time - Pcm!BufferTime) * Length
<1>1. Pcm!BufferTime \in Nat /\ Length \in Nat BY Constants
<1>2. CASE time < Pcm!BufferTime
  <2>1. Pcm!Extrapolated(time) = Pcm!Unwrapped(time)
        /\ Pcm!Unwrapped(time) < Length
    BY <1>1, <1>2, UnwrappedFirst
  <2> QED BY <1>2, <2>1 DEF Pcm!Telling, Pcm!NextFrameMin
<1>3. CASE ~(time < Pcm!BufferTime)
  <2>1. /\ Pcm!Unwrapped(time) = Length + Pcm!Extrapolated(time)
        /\ Pcm!Extrapolated(time) \in 0 .. Length - 1
        /\ Pcm!Extrapolated(time) * Pcm!BufferTime
              <= (time - Pcm!BufferTime) * Length
    BY <1>1, <1>3, UnwrappedSecond
  <2>2. Pcm!NextFrameMin(time) = Pcm!Extrapolated(time)
    BY <1>3 DEF Pcm!NextFrameMin
  <2>3. Pcm!Telling(time) = Pcm!Unwrapped(time) BY <1>3 DEF Pcm!Telling
  <2>4. Pcm!BufferTime <= time BY <1>1, <1>3
  <2> QED BY <2>1, <2>2, <2>3, <2>4
<1> QED BY <1>2, <1>3

(* ALSA's count and the device's, when the pointer is called. *)
LEMMA PointerNear ==
  ASSUME StepAssumptions, Pcm!IInv, Pcm!Pointer, Pcm!Anchored
  PROVE  ahead' \in 0 - Pcm!Quarter .. Pcm!Quarter
<1> DEFINE time == now - remote
           v == Pcm!Telling(time)
           w == Pcm!Unwrapped(time)
           b == Pcm!BufferTime
           q == Pcm!Quarter
           u == now - start
           p == (u * Length) \div length
           late == IF pending THEN Length ELSE 0
           a == v - late
<1>1. /\ Pcm!TypeOK /\ Pcm!DeviceInv /\ Pcm!AnchorInv /\ Pcm!NeverBack
      /\ Pcm!NotBehind /\ Pcm!FrameMinInv
  BY Zenon DEF Pcm!IInv
<1>2. /\ now \in Nat /\ remote \in Nat /\ start \in Nat
      /\ frameMin \in 0 .. Length - 1 /\ frameMin \in Nat
      /\ frameMin < Length /\ time \in Nat /\ time < 2 * b
      /\ u \in Nat /\ u < length /\ length \in Lengths /\ Pcm!Told \in Int
  BY <1>1, AnchoredNumbers
<1>3. /\ Length \in Nat \ {0} /\ Drift \in Nat /\ MaxDelay \in Nat
      /\ b \in Nat \ {0} /\ q \in Nat
  BY Constants
<1>4. /\ error \in Nat
      /\ (2 * Drift + error) * Length <= q * b
      /\ (2 * Drift) * Length <= q * b
      /\ latency \in Nat /\ latency <= q
  BY <1>1, Mapping
<1>5. v \in Nat /\ w \in Nat /\ w <= v
  BY <1>2, TellingAbove, UnwrappedBounds
<1>6. w * b <= time * Length /\ time * Length < w * b + b
  BY <1>2, UnwrappedBounds
<1>7. /\ length \in Nat \ {0} /\ length <= b + Drift /\ b - Drift <= length
  <2>1. /\ length \in Nat /\ length >= 2 /\ length <= b + Drift
        /\ b <= length + Drift
    BY <1>2, RingTimes
  <2> QED BY <1>3, <2>1
<1>8. /\ ahead' = v - late - p
      /\ Pcm!Told <= v
  <2>1. ahead' = v - late - p BY PointerTells
  <2> QED BY <2>1, LessThanBuffer
<1>9. IF pending THEN start + error - remote \in Lengths
                 ELSE start + error = remote
  BY <1>1 DEF Pcm!AnchorInv
<1>10. /\ p \in Nat /\ p + 1 <= Length
       /\ p * length <= u * Length /\ u * Length < (p + 1) * length
  <2>1. u * Length \in Nat BY <1>2, <1>3
  <2>2. p \in Nat /\ p * length <= u * Length /\ u * Length < (p + 1) * length
    BY <1>7, <2>1, QuotientBounds
  <2>3. (u + 1) * Length <= length * Length
    BY <1>2, <1>3, <1>7, IntProductMonotone
  <2>4. (u + 1) * Length = u * Length + Length
        /\ length * Length = Length * length /\ Length * length \in Nat
    BY <1>2, <1>3, <1>7, Distributes
  <2>5. u * Length < Length * length BY <1>3, <2>1, <2>3, <2>4
  <2>6. p \in 0 .. Length - 1 BY <1>3, <1>7, <2>1, <2>5, QuotientBelow
  <2> QED BY <1>3, <2>2, <2>6
<1>11. late \in Nat /\ a \in Int BY <1>3, <1>5
<1>12. (w - late) * b <= (u + Drift) * Length
       /\ (u - error - Drift) * Length < (w - late) * b + b
  <2> DEFINE x == IF pending THEN time - b ELSE time
  <2>1. x \in Int /\ x <= u + Drift /\ u - error - Drift <= x
    <3>1. CASE pending
      <4>1. /\ start + error - remote \in Nat
            /\ start + error - remote <= b + Drift
            /\ b <= start + error - remote + Drift
        BY <1>9, <3>1, RingTimes
      <4> QED BY <1>2, <1>3, <1>4, <3>1, <4>1
    <3>2. CASE ~pending
      BY <1>2, <1>3, <1>4, <1>9, <3>2
    <3> QED BY <3>1, <3>2
  <2>2. x * Length <= (u + Drift) * Length
        /\ (u - error - Drift) * Length <= x * Length
    BY <1>2, <1>3, <1>4, <2>1, IntProductMonotone
  <2>3. (w - late) * b <= x * Length /\ x * Length < (w - late) * b + b
    <3>1. CASE pending
      <4>1. x * Length = time * Length - b * Length
        BY <1>2, <1>3, <3>1, Distributes
      <4>2. (w - Length) * b = w * b - Length * b
            /\ Length * b = b * Length /\ w * b \in Int /\ Length * b \in Int
            /\ time * Length \in Int
        BY <1>2, <1>3, <1>5, Distributes
      <4> HIDE DEF x, w
      <4> QED BY <1>3, <1>6, <3>1, <4>1, <4>2
    <3>2. CASE ~pending
      <4>1. x = time /\ w - late = w BY <1>5, <3>2
      <4> HIDE DEF x, w
      <4> QED BY <1>6, <4>1
    <3> QED BY <3>1, <3>2
  <2>4. /\ x * Length \in Int /\ (u + Drift) * Length \in Int
        /\ (u - error - Drift) * Length \in Int /\ (w - late) * b \in Int
    BY <1>2, <1>3, <1>4, <1>5, <1>11, <2>1, Distributes
  <2> HIDE DEF x, w, u, b, late
  <2> QED BY <1>3, <2>2, <2>3, <2>4
<1>13. a - p <= q
  <2>1. CASE a * b <= (u + Drift) * Length
    <3> HIDE DEF a, b, u, p, q
    <3> QED BY <1>2, <1>3, <1>4, <1>7, <1>10, <1>11, <2>1, AheadOfDevice
  <2>2. CASE v = w
    BY <1>12, <2>1, <2>2
  <2>3. CASE v # w
    <3>1. /\ v = frameMin /\ v < Length /\ time < b
      BY <1>2, <2>3 DEF Pcm!Telling
    <3>2. CASE pending
      BY <1>2, <1>3, <1>5, <1>10, <3>1, <3>2
    <3>3. CASE ~pending
      <4>1. a = frameMin BY <1>2, <3>1, <3>3
      <4>2. CASE frameMin <= latency
        BY <1>2, <1>3, <1>4, <1>10, <4>1, <4>2
      <4>3. CASE frameMin * b <= (time + Drift) * Length
        <5>1. (time + Drift) * Length <= (u + Drift) * Length
          <6>1. time + Drift <= u + Drift /\ time + Drift \in Int
                /\ u + Drift \in Int
            BY <1>2, <1>3, <1>4, <1>9, <3>3
          <6> QED BY <1>3, <6>1, IntProductMonotone
        <5>2. /\ (time + Drift) * Length \in Int
              /\ (u + Drift) * Length \in Int /\ frameMin * b \in Int
          BY <1>2, <1>3, Distributes
        <5>3. a * b <= (u + Drift) * Length BY <4>1, <4>3, <5>1, <5>2
        <5> QED BY <2>1, <5>3
      <4> QED BY <1>1, <4>2, <4>3 DEF Pcm!FrameMinInv
    <3> QED BY <3>2, <3>3
  <2> QED BY <2>2, <2>3
<1>14. 0 - q <= a - p
  <2> DEFINE c == w - late
  <2>1. c \in Int /\ c <= a BY <1>5, <1>11
  <2>2. (u - error - Drift) * Length < c * b + b BY <1>12
  <2>3. p <= Length BY <1>3, <1>10
  <2> HIDE DEF c, b, u, p, q
  <2>4. 0 - q <= c - p
    BY <1>2, <1>3, <1>4, <1>7, <1>10, <2>1, <2>2, <2>3, BehindDevice
  <2> QED BY <1>3, <1>10, <1>11, <2>1, <2>4
<1>15. ahead' = a - p BY <1>8
<1> HIDE DEF a, p, q
<1>16. ahead' \in 0 - q .. q
  BY <1>3, <1>10, <1>11, <1>13, <1>14, <1>15
<1> QED BY <1>16 DEF q

(* The pointer is called: it tells no less than before, and what it leaves *)
(* in frame_min keeps the next call from telling less.                     *)
LEMMA PointerInStep ==
  ASSUME StepAssumptions, Pcm!IInv, Pcm!Pointer, Pcm!Anchored'
  PROVE  AnchoredInv'
<1> DEFINE time == now - remote
           v == Pcm!Telling(time)
           w == Pcm!Unwrapped(time)
           b == Pcm!BufferTime
           told == Pcm!Told
           min == Pcm!NextFrameMin(time)
<1>1. /\ Pcm!TypeOK /\ Pcm!DeviceInv /\ Pcm!AnchorInv /\ Pcm!NeverBack
      /\ Pcm!FrameMinInv
  BY Zenon DEF Pcm!IInv
<1>2. Pcm!Anchored
  <2>1. state' = state /\ waiting' = waiting /\ unsure' = unsure
    BY Zenon DEF Pcm!Pointer, Pcm!streamVars
  <2> QED BY <2>1, Zenon DEF Pcm!Anchored
<1>3. /\ told' = v /\ called' = now /\ frameMin' = min
      /\ UNCHANGED <<latency, error, now, state, waiting, after, remote, start,
                     length, rings, pending, unsure>>
  BY <1>2, PointerTells
<1>4. /\ now \in Nat /\ remote \in Nat /\ time \in Nat
      /\ frameMin \in 0 .. Length - 1 /\ frameMin \in Nat
      /\ frameMin < Length /\ time < 2 * b /\ told \in Int
  BY <1>1, <1>2, AnchoredNumbers
<1>5. /\ Length \in Nat \ {0} /\ Drift \in Nat /\ MaxDelay \in Nat
      /\ b \in Nat \ {0}
  BY Constants
<1>6. latency \in Nat BY <1>1, Mapping
<1>7. /\ v \in Nat /\ w \in Nat /\ w <= v
      /\ w * b <= time * Length /\ time * Length < w * b + b
  BY <1>4, TellingAbove, UnwrappedBounds
<1>8. told <= v BY <1>2, LessThanBuffer
<1>9. \/ /\ time < b /\ w < frameMin /\ v = frameMin /\ min = frameMin
      \/ /\ time < b /\ v = w /\ w < Length /\ min = 0
      \/ /\ b <= time /\ v = w /\ w = Length + min /\ min \in 0 .. Length - 1
         /\ min * b <= (time - b) * Length
  BY <1>4, PointerCases
<1>10. Pcm!Telling(now - remote)' = IF time < b /\ w < min THEN min ELSE w
  BY <1>3 DEF Pcm!Telling, Pcm!Unwrapped
<1>11. Pcm!Unwrapped(called - remote)' = w
  BY <1>3 DEF Pcm!Unwrapped
<1>12. called' - remote' = time /\ now' - remote' = time /\ latency' = latency
  BY <1>3
<1> HIDE DEF time, v, w, b, told, min
<1>13. min \in Nat BY <1>4, <1>5, <1>9
<1>14. Pcm!AnchorInv'
  BY <1>1, <1>2, <1>3, Zenon DEF Pcm!AnchorInv, Pcm!Anchored
<1>15. Pcm!NeverBack'
  <2>1. told' <= Pcm!Telling(now - remote)'
    BY <1>3, <1>4, <1>5, <1>7, <1>9, <1>10, <1>13
  <2>2. told' <= Length + frameMin' /\ ~(told' < 0)
    BY <1>3, <1>4, <1>5, <1>7, <1>9, <1>13
  <2>3. told' < Length => frameMin' = 0 \/ w < frameMin'
    BY <1>3, <1>4, <1>5, <1>7, <1>9, <1>13
  <2> QED BY <1>11, <2>1, <2>2, <2>3, Zenon DEF Pcm!NeverBack, told
<1>16. Pcm!NotBehind'
  <2> DEFINE x == IF Pcm!CalledSince' THEN 0 ELSE MaxDelay + 1 + Drift
  <2>1. x \in Nat BY <1>5
  <2> HIDE DEF x
  <2>2. (time - x) * Length <= time * Length
    BY <1>4, <1>5, <2>1, IntProductMonotone
  <2>3. w * b <= v * b BY <1>5, <1>7, IntProductMonotone
  <2>4. /\ (time - x) * Length \in Int /\ time * Length \in Int
        /\ w * b \in Int /\ v * b \in Int
    BY <1>4, <1>5, <1>7, <2>1, Distributes
  <2>5. v * b + b > (time - x) * Length
    BY <1>5, <1>7, <2>2, <2>3, <2>4
  <2>6. told' * b + b > (called' - remote' - x) * Length
    BY <1>3, <1>12, <2>5
  <2> QED BY <2>6 DEF Pcm!NotBehind, told, b, x
<1>17. Pcm!FrameMinInv'
  <2>1. v >= Length => min * b <= (time - b) * Length
    BY <1>4, <1>5, <1>7, <1>9
  <2>2. \/ min <= latency
        \/ /\ min * b <= (time + Drift) * Length
           /\ v >= Length \/ min * b <= (MaxDelay + 1 + Drift) * Length
    <3>1. CASE time < b /\ w < frameMin /\ v = frameMin /\ min = frameMin
      <4>1. ~(told >= Length) BY <1>4, <1>5, <1>8, <3>1
      <4> QED BY <1>1, <1>2, <3>1, <4>1 DEF Pcm!FrameMinInv, told, time, b
    <3>2. CASE min = 0
      BY <1>6, <3>2
    <3>3. CASE /\ b <= time /\ v = w /\ w = Length + min
               /\ min * b <= (time - b) * Length
      <4>1. (time - b) * Length <= (time + Drift) * Length
        BY <1>4, <1>5, IntProductMonotone
      <4>2. /\ (time - b) * Length \in Int /\ (time + Drift) * Length \in Int
            /\ min * b \in Int
        BY <1>4, <1>5, <1>13, Distributes
      <4> QED BY <1>5, <1>13, <3>3, <4>1, <4>2
    <3> QED BY <1>9, <3>1, <3>2, <3>3
  <2> QED BY <1>3, <1>12, <2>1, <2>2, Zenon DEF Pcm!FrameMinInv, told, b
<1>18. Pcm!InStep'
  <2>1. ahead' \in 0 - Pcm!Quarter .. Pcm!Quarter BY <1>2, PointerNear
  <2> QED BY <2>1, Zenon DEF Pcm!InStep
<1> QED BY <1>14, <1>15, <1>16, <1>17, <1>18, Zenon DEF AnchoredInv

LEMMA PointerStep ==
  ASSUME StepAssumptions, Pcm!IInv, [Pcm!Next]_Pcm!vars
  PROVE  Pcm!IInv'
<1>1. Pcm!TypeOK /\ Pcm!FreshInv /\ Pcm!DeviceInv /\ AnchoredInv
  BY Parts
<1>2. Pcm!TypeOK'
  BY <1>1, StepTyped DEF StepAssumptions
<1>3. Pcm!FreshInv' /\ Pcm!DeviceInv'
  BY <1>1, DeviceStep
<1>4. SUFFICES ASSUME Pcm!Anchored' PROVE AnchoredInv'
  BY <1>2, <1>3, NotAnchored, PartsNext
<1>5. CASE Pcm!TimePasses
  BY <1>4, <1>5, TimeInStep
<1>6. CASE Pcm!Prepare
  BY <1>4, <1>6 DEF Pcm!Prepare, Pcm!Anchored
<1>7. ASSUME NEW begin \in {now - 1, now} \intersect Nat, Pcm!Start(begin)
      PROVE  AnchoredInv'
  BY <1>4, <1>7 DEF Pcm!Start, Pcm!Anchored
<1>8. CASE Pcm!Stop
  BY <1>4, <1>8 DEF Pcm!Stop, Pcm!Anchored
<1>9. CASE Pcm!HandleTimestamp
  BY <1>4, <1>9, FirstTimestampInStep, NextTimestampInStep
<1>10. CASE Pcm!LoseTimestamp
  BY <1>4, <1>10 DEF Pcm!LoseTimestamp, Pcm!Anchored
<1>11. CASE Pcm!PointerAtZero
  <2>1. /\ UNCHANGED <<state, waiting, unsure>>
        /\ waiting \/ now < remote
    BY <1>11, Zenon DEF Pcm!PointerAtZero, Pcm!streamVars
  <2>2. Pcm!Anchored BY <1>4, <2>1, Zenon DEF Pcm!Anchored
  <2>3. remote <= now /\ remote \in Nat /\ now \in Nat
    BY <1>1, <2>2 DEF AnchoredInv, Pcm!AnchorInv, Pcm!TypeOK
  <2> QED BY <2>1, <2>2, <2>3 DEF Pcm!Anchored
<1>12. CASE Pcm!Pointer
  BY <1>4, <1>12, PointerInStep
<1>13. CASE UNCHANGED Pcm!vars
  <2>1. UNCHANGED <<latency, error, now, state, waiting, after, remote,
                    frameMin, start, length, rings, pending, hwPtr, ahead,
                    called, unsure>>
    BY <1>13, Zenon
       DEF Pcm!vars, Pcm!constVars, Pcm!streamVars, Pcm!deviceVars,
           Pcm!alsaVars
  <2>2. /\ Pcm!AnchorInv' <=> Pcm!AnchorInv
        /\ Pcm!InStep' <=> Pcm!InStep
        /\ Pcm!Told' = Pcm!Told
        /\ Pcm!CalledSince' <=> Pcm!CalledSince
        /\ Pcm!Anchored' <=> Pcm!Anchored
    BY <2>1 DEF Pcm!AnchorInv, Pcm!InStep, Pcm!Told, Pcm!CalledSince,
                Pcm!Anchored
  <2>3. Pcm!NotBehind' <=> Pcm!NotBehind
    BY <2>1, <2>2 DEF Pcm!NotBehind
  <2>4. Pcm!FrameMinInv' <=> Pcm!FrameMinInv
    BY <2>1, <2>2 DEF Pcm!FrameMinInv
  <2>5. Pcm!NeverBack' <=> Pcm!NeverBack
    BY <2>1, <2>2 DEF Pcm!NeverBack, Pcm!Telling, Pcm!Unwrapped
  <2> QED BY <1>1, <2>2, <2>3, <2>4, <2>5, Zenon DEF AnchoredInv
<1> QED BY <1>5, <1>6, <1>7, <1>8, <1>9, <1>10, <1>11, <1>12, <1>13
        DEF Pcm!Next

(* Whatever the buffer, the rate and the latency, and whenever timestamps  *)
(* and calls of the pointer come within their bounds: what ALSA is told    *)
(* next is never less than what it was told, nor a buffer more.            *)
THEOREM PointerInvariant ==
  ASSUME StepAssumptions
  PROVE  Pcm!Spec => []Pcm!IInv
<1>1. Pcm!Init => Pcm!IInv
  <2> SUFFICES ASSUME Pcm!Init PROVE Pcm!IInv OBVIOUS
  <2>1. Pcm!TypeOK BY PointerInit DEF StepAssumptions
  <2>2. state = "setup" BY DEF Pcm!Init
  <2>3. Pcm!FreshInv /\ Pcm!DeviceInv
    BY <2>2 DEF Pcm!FreshInv, Pcm!DeviceInv
  <2>4. ~Pcm!Anchored BY <2>2 DEF Pcm!Anchored
  <2>5. AnchoredInv
    BY <2>4, Zenon
       DEF AnchoredInv, Pcm!AnchorInv, Pcm!NeverBack, Pcm!NotBehind,
           Pcm!FrameMinInv, Pcm!InStep, Pcm!Anchored
  <2> QED BY <2>1, <2>3, <2>5, Parts
<1> QED BY <1>1, PointerStep, PTL DEF Pcm!Spec

(* ALSA's count and the device's never come a quarter of the buffer apart: *)
(* not for a device that is slower or faster than its rate says, nor with  *)
(* the timestamps that set the clock back or on.                           *)
THEOREM StaysInStep ==
  ASSUME StepAssumptions
  PROVE  Pcm!Spec => []Pcm!InStep
<1>1. Pcm!IInv => Pcm!InStep BY Zenon DEF Pcm!IInv
<1> QED BY <1>1, PointerInvariant, PTL

(* The position is all ALSA sees, and it counts what that has moved on,    *)
(* round the buffer: each call adds just what there is to tell, nothing    *)
(* less than was told and less than a buffer more.                         *)
CountsInFull ==
  Pcm!Pointer /\ Pcm!Anchored =>
    /\ hwPtr' - hwPtr = Pcm!Telling(now - remote) - Pcm!Told
    /\ hwPtr' - hwPtr \in 0 .. Length - 1

THEOREM CountsWhatIsTold ==
  ASSUME StepAssumptions
  PROVE  Pcm!Spec => [][CountsInFull]_(Pcm!vars)
<1>1. Pcm!IInv /\ [Pcm!Next]_Pcm!vars => [CountsInFull]_(Pcm!vars)
  <2> SUFFICES ASSUME Pcm!IInv, Pcm!Pointer, Pcm!Anchored
               PROVE  /\ hwPtr' - hwPtr = Pcm!Telling(now - remote) - Pcm!Told
                      /\ hwPtr' - hwPtr \in 0 .. Length - 1
    BY Zenon DEF CountsInFull
  <2> DEFINE v == Pcm!Telling(now - remote)
             told == Pcm!Told
             k == IF pending THEN rings - 1 ELSE rings
  <2>1. Pcm!TypeOK /\ Pcm!DeviceInv /\ Pcm!AnchorInv BY Zenon DEF Pcm!IInv
  <2>2. /\ hwPtr \in Nat /\ rings \in Nat /\ now - remote \in Nat
        /\ told \in Int /\ frameMin \in 0 .. Length - 1
    BY <2>1, AnchoredNumbers
  <2>3. Length \in Nat \ {0} /\ latency \in Nat BY <2>1, Constants, Mapping
  <2>4. v \in Nat BY <2>2, TellingAbove
  <2>5. told <= v /\ v - told < Length BY LessThanBuffer
  <2>6. /\ told' = v
        /\ UNCHANGED <<latency, rings, pending>>
    BY PointerTells
  <2>7. told = hwPtr + latency - k * Length BY DEF Pcm!Told
  <2>8. told' = hwPtr' + latency - k * Length BY <2>6 DEF Pcm!Told
  <2>9. k * Length \in Int BY <2>2, <2>3, Distributes
  <2>10. hwPtr' \in Int
    <3>1. hwPtr' = hwPtr + ((Pcm!LessLatency(Pcm!Floored(now - remote))
                              - hwPtr) % Length)
      BY Zenon DEF Pcm!Pointer, Pcm!Count
    <3>2. now - remote < 2 * Pcm!BufferTime BY <2>1, AnchoredNumbers
    <3>3. Pcm!Floored(now - remote) \in Nat BY <2>2, <3>2, TellingFloored
    <3>4. Pcm!LessLatency(Pcm!Floored(now - remote)) \in Nat
      <4>1. Pcm!SizeAssumption BY DEF StepAssumptions, PointerAssumptions
      <4> QED BY <2>3, <3>3, <4>1, LatencyGoesRound
    <3> DEFINE x == Pcm!LessLatency(Pcm!Floored(now - remote))
    <3>5. x \in Nat BY <3>4
    <3> HIDE DEF x
    <3>6. (x - hwPtr) % Length \in Int BY <2>2, <2>3, <3>5
    <3>7. hwPtr' = hwPtr + ((x - hwPtr) % Length) BY <3>1 DEF x
    <3> QED BY <2>2, <3>6, <3>7
  <2> HIDE DEF v, told, k
  <2>11. hwPtr' - hwPtr = v - told
    BY <2>2, <2>3, <2>4, <2>6, <2>7, <2>8, <2>9, <2>10
  <2>12. v - told \in 0 .. Length - 1 BY <2>2, <2>3, <2>4, <2>5
  <2> QED BY <2>11, <2>12 DEF v, told
<1> QED BY <1>1, PointerInvariant, PTL DEF Pcm!Spec
=============================================================================
