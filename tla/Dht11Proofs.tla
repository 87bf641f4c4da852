----------------------------- MODULE Dht11Proofs -----------------------------
(***************************************************************************)
(* A reading of the DHT11 for any frames, any length of a byte up to eight *)
(* bits, and any times a sensor and interrupts may take within the bounds  *)
(* of the data sheet: what is accepted is what was sent, and a sensor that *)
(* does not stop is accepted.  The invariant has three parts: where the    *)
(* driver stands (ShapeInv), how far it is behind the pulses of a sensor   *)
(* that goes on (TimeInv), and what it has received (DataInv).             *)
(***************************************************************************)
EXTENDS Dht11, SequenceTheorems, TLAPS

\* Bit r of byte k is the bit with this number.
Place(k, r) == Bits * k + r

\* How many bits were received.
Got == Place(Len(databuf), nbit)

\* What waits for the response has no data yet, what receives a byte has room
\* for it, and what was received last is in databuf.
ShapeInv ==
  /\ step \in {"reply", "low", "high"} => databuf = <<>> /\ byte = {} /\ nbit = 0
  /\ step \in {"rise", "sample"} => Len(databuf) < Bytes /\ nbit < Bits
  /\ step = "fall" => Len(databuf) < Bytes /\ nbit > 0
  /\ step = "check" => Len(databuf) = Bytes
  /\ step = "reply" => ~err
  /\ step \in {"reply", "rise", "fall"} => cnt > 0
  /\ step # "sample" => wait <= 1 \/ wait <= late
  /\ stuck # "no" => pulse = Released
  /\ pulse # Released => left > 0

\* The pulse the line is at is the one the driver waits for, or the next one
\* has begun and the driver is late by no more than interrupts made it.
ReplyInTime ==
  \/ pulse = 0 /\ left <= cnt - 1 + wait
  \/ pulse = 1 /\ left >= 40 - late + wait
LowInTime ==
  \/ pulse = 1 /\ left <= cnt - 5 + wait
  \/ pulse = 2 /\ left >= 40 - late + wait
HighInTime ==
  \/ pulse = 2 /\ left <= cnt - 5 + wait
  \/ pulse = 3 /\ left >= 25 - late + wait /\ left <= 25
RiseInTime ==
  \/ pulse = 3 + 2 * Got /\ left <= cnt - 5 + wait
  \/ /\ pulse = 4 + 2 * Got
     /\ left >= (IF IsOne(frame, Got) THEN 35 ELSE MaxLate + 1) - late + wait
     /\ left <= (IF IsOne(frame, Got) THEN 35 ELSE 15)
SampleInTime ==
  IF IsOne(frame, Got)
  THEN pulse = 4 + 2 * Got /\ left >= 19 - late + wait /\ left <= 19 + wait
  ELSE \/ pulse = 4 + 2 * Got /\ left >= MaxLate - 15 - late + wait /\ left < wait
       \/ pulse = 5 + 2 * Got /\ left >= MaxLate + 10 - late + wait /\ left <= 25
FallInTime ==
  \/ pulse = 2 + 2 * Got /\ left <= cnt - 11 + wait
  \/ pulse = 3 + 2 * Got /\ left >= MaxLate + 10 - late + wait /\ left <= 25

TimeInv ==
  stuck = "no" =>
    /\ step = "reply" => ReplyInTime
    /\ step = "low" => LowInTime /\ ~err
    /\ step = "high" => HighInTime /\ ~err
    /\ step = "rise" => RiseInTime
    /\ step = "sample" => SampleInTime
    /\ step = "fall" => FallInTime

\* The bytes received are the first of the frame.
Prefix == \A i \in 1..Len(databuf) : databuf[i] = frame[i]

\* The n highest bits of the byte that is being received.
Received(n) == {i \in frame[Len(databuf) + 1] : i >= Bits - n}

\* Where the sensor stopped: the byte there may have lost its last bit, those
\* after it were given up.
DamagedAfter(j) ==
  \A i \in 1..Len(databuf) : /\ i < j => databuf[i] = frame[i]
                             /\ i = j => databuf[i] \in {frame[i], frame[i] \ {0}}
                             /\ i > j => databuf[i] = Lost
Damaged == \E j \in 0..Len(databuf) : DamagedAfter(j)

DataInv ==
  /\ step # "done" => IF stuck = "no" THEN Prefix ELSE Damaged
  /\ step \in {"rise", "sample", "fall"} /\ stuck = "no" => byte = Received(nbit)
  /\ step = "sample" /\ stuck = "low" => Prefix /\ byte = Received(nbit)
  /\ step = "fall" /\ stuck = "low" =>
       Prefix /\ byte \in {Received(nbit), Received(nbit) \ {Bits - nbit}}
  /\ AcceptedIsSent /\ HealthyIsAccepted

Dht11Safe == Dht11TypeOK /\ ShapeInv /\ TimeInv /\ DataInv

-----------------------------------------------------------------------------
(* Bits and bytes.                                                          *)

LEMMA PlaceFacts ==
  ASSUME NEW k \in Nat, NEW r \in 0..Bits
  PROVE  /\ Place(k, r) \in Nat
         /\ Place(k, r) + 1 = Place(k, r + 1)
         /\ Place(k, Bits) = Place(k + 1, 0)
         /\ k < Bytes /\ r < Bits => 4 + 2 * Place(k, r) < Released
         /\ Released = 4 + 2 * Place(Bytes, 0)
         /\ Released \in Nat
  BY SizeAssumption DEF Place, Bytes, Released

LEMMA PlaceIsBit ==
  ASSUME NEW f, NEW k \in Nat, NEW r \in 0..(Bits - 1)
  PROVE  IsOne(f, Place(k, r)) <=> Bits - 1 - r \in f[1 + k]
<1>1. Place(k, r) \div Bits = k /\ Place(k, r) % Bits = r
  BY SizeAssumption DEF Place
<1> QED
  BY <1>1 DEF IsOne

LEMMA ValueFacts ==
  ASSUME NEW b \in Byte
  PROVE  /\ Value(b) \in Nat /\ Value(b) <= Value(Ones)
         /\ 0 \in b => Value(b \ {0}) = Value(b) - 1
         /\ b \ {0} \in Byte
<1>1. Value(b) \in Nat
  BY DEF Value
<1>2. Value(b) <= Value(Ones)
  BY SizeAssumption DEF Value, Byte, Ones, Places
<1>3. 0 \in b => Value(b \ {0}) = Value(b) - 1
  BY DEF Value
<1>4. b \ {0} \in Byte
  BY DEF Byte
<1> QED
  BY <1>1, <1>2, <1>3, <1>4

LEMMA OnesFacts == Ones \in Byte /\ Value(Ones) \in Nat \ {0}
  BY SizeAssumption DEF Value, Byte, Ones, Places

-----------------------------------------------------------------------------
(* Frames and the checksum.                                                 *)

LEMMA FrameFacts ==
  ASSUME frame \in Frames
  PROVE  /\ frame \in [1..5 -> Byte]
         /\ \A i \in 1..5 : frame[i] \in Byte
         /\ Value(frame[5]) = SumOf(frame) /\ SumOf(frame) < Value(Ones)
         /\ Value(frame[1]) > 0
  BY SensorAssumption DEF FramesAssumption, Bytes

LEMMA SameBytes ==
  ASSUME frame \in Frames, databuf \in Seq(Byte), Len(databuf) = Bytes, Prefix
  PROVE  databuf = frame
<1>1. databuf \in [1..5 -> Byte]
  BY LenProperties DEF Bytes
<1>2. \A i \in 1..5 : databuf[i] = frame[i]
  BY DEF Prefix, Bytes
<1> QED
  BY <1>1, <1>2, FrameFacts

\* The checksum finds whatever a sensor that stops does to a frame: a sum of
\* less than 255 becomes 255, or more than the given up last byte, which is 255.
LEMMA DamageIsFound ==
  ASSUME frame \in Frames, databuf \in Seq(Byte), Len(databuf) = Bytes,
         Damaged, SumOf(databuf) = Value(databuf[Bytes])
  PROVE  databuf = frame
<1> DEFINE f == frame
           d == databuf
           v(i) == Value(f[i])
           u(i) == Value(d[i])
<1>1. PICK j \in 0..5 : DamagedAfter(j)
  BY DEF Damaged, Bytes
<1>2. \A i \in 1..5 : f[i] \in Byte /\ d[i] \in Byte /\ v(i) \in Nat /\ u(i) \in Nat
  <2>1. \A i \in 1..5 : f[i] \in Byte /\ d[i] \in Byte
    BY FrameFacts, ElementOfSeq DEF Bytes
  <2> QED
    BY <2>1, ValueFacts
<1>3. /\ v(1) > 0 /\ v(5) = v(1) + v(2) + v(3) + v(4)
      /\ v(1) + v(2) + v(3) + v(4) < Value(Ones)
  BY FrameFacts DEF SumOf
<1>4. u(5) = u(1) + u(2) + u(3) + u(4)
  BY DEF SumOf, Bytes
<1>5. \A i \in 1..5 : /\ i < j => d[i] = f[i]
                      /\ i = j => d[i] = f[i] \/ (0 \in f[i] /\ d[i] = f[i] \ {0})
                      /\ i > j => d[i] = Ones
  BY <1>1 DEF DamagedAfter, Bytes, Lost
<1>6. \A i \in 1..5 : /\ i < j => u(i) = v(i)
                      /\ i = j => d[i] = f[i] \/ u(i) = v(i) - 1
                      /\ i > j => u(i) = Value(Ones)
  BY <1>2, <1>5, ValueFacts
<1>7. Value(Ones) \in Nat \ {0}
  BY OnesFacts
<1> HIDE DEF v, u
<1>8. j = 5 /\ d[5] = f[5]
  <2>1. CASE j = 0
    BY <2>1, <1>4, <1>6, <1>7
  <2>2. CASE j = 1
    BY <2>2, <1>2, <1>4, <1>6, <1>7
  <2>3. CASE j = 2
    <3>1. u(3) = Value(Ones) /\ u(4) = Value(Ones) /\ u(5) = Value(Ones)
      BY <2>3, <1>6
    <3>2. u(1) \in Nat /\ u(2) \in Nat
      BY <1>2
    <3> QED
      BY <3>1, <3>2, <1>4, <1>7
  <2>4. CASE j = 3
    <3>1. u(1) = v(1) /\ u(4) = Value(Ones) /\ u(5) = Value(Ones)
      BY <2>4, <1>6
    <3>2. v(1) \in Nat \ {0} /\ u(2) \in Nat /\ u(3) \in Nat
      BY <1>2, <1>3
    <3> QED
      BY <3>1, <3>2, <1>4, <1>7
  <2>5. CASE j = 4
    <3>1. /\ u(1) = v(1) /\ u(2) = v(2) /\ u(3) = v(3) /\ u(5) = Value(Ones)
          /\ d[4] = f[4] \/ u(4) = v(4) - 1
      BY <2>5, <1>6
    <3>2. u(4) <= v(4)
      BY <3>1, <1>2 DEF u, v
    <3> QED
      BY <3>1, <3>2, <1>2, <1>3, <1>4, <1>7
  <2>6. CASE j = 5
    <3>1. /\ u(1) = v(1) /\ u(2) = v(2) /\ u(3) = v(3) /\ u(4) = v(4)
          /\ d[5] = f[5] \/ u(5) = v(5) - 1
      BY <2>6, <1>6
    <3> QED
      BY <3>1, <2>6, <1>2, <1>3, <1>4
  <2> QED
    BY <2>1, <2>2, <2>3, <2>4, <2>5, <2>6
<1>9. Prefix
  BY <1>5, <1>8 DEF Prefix, Bytes
<1> QED
  BY <1>9, SameBytes

-----------------------------------------------------------------------------
(* The sensor's pulses.                                                     *)

LEMMA TimeFacts ==
  /\ MaxLate \in 0..12
  /\ \A d \in Delays : d \in 1..MaxLate
  /\ \A d \in ReplyTime : d \in 1..14
  /\ \A d \in ZeroTime : d \in 1..15 /\ d >= MaxLate + 1
  BY TimeAssumption

LEMMA ResponseLength ==
  ASSUME NEW f
  PROVE  Length(f, 1) = {40} /\ Length(f, 2) = {40} /\ Length(f, Released) = {0}
<1>1. Released \in Nat /\ Released > 4 /\ Released % 2 = 0
  BY SizeAssumption DEF Released, Bytes
<1> QED
  BY <1>1 DEF Length

LEMMA LengthFacts ==
  ASSUME NEW f, NEW n \in Nat
  PROVE  /\ Length(f, 3 + 2 * n) = {25}
         /\ 4 + 2 * n < Released =>
              Length(f, 4 + 2 * n) = (IF IsOne(f, n) THEN {35} ELSE ZeroTime)
<1>1. Released \in Nat /\ Released > 4 /\ Released % 2 = 0
  BY SizeAssumption DEF Released, Bytes
<1>2. Length(f, 3 + 2 * n) = {25}
  <2>1. (3 + 2 * n) % 2 = 1 /\ 3 + 2 * n > 2
    OBVIOUS
  <2> QED
    BY <2>1, <1>1 DEF Length
<1>3. ASSUME 4 + 2 * n < Released
      PROVE  Length(f, 4 + 2 * n) = (IF IsOne(f, n) THEN {35} ELSE ZeroTime)
  <2>1. (4 + 2 * n) % 2 = 0 /\ ((4 + 2 * n) - 4) \div 2 = n
    OBVIOUS
  <2> QED
    BY <2>1, <1>1, <1>3 DEF Length
<1> QED
  BY <1>2, <1>3

\* Pulses last 1 to 40 units, and after the last one nothing moves.
LEMMA LengthBounds ==
  ASSUME NEW f, NEW p \in 1..Released, NEW l \in Length(f, p)
  PROVE  l \in 0..40 /\ (p # Released => l > 0)
<1>1. CASE p % 2 = 1 \/ p \in {1, 2} \/ p = Released
  BY <1>1, SizeAssumption DEF Length, Released, Bytes
<1>2. CASE p % 2 # 1 /\ p \notin {1, 2} /\ p # Released
  <2>1. Length(f, p) \in {{35}, ZeroTime}
    BY <1>2 DEF Length
  <2> QED
    BY <2>1, TimeFacts
<1> QED
  BY <1>1, <1>2

LEMMA LenFacts ==
  ASSUME Dht11Safe
  PROVE  Len(databuf) \in 0..5 /\ nbit \in 0..Bits /\ Bits \in 1..8
<1> DEFINE k == Len(databuf)
<1>1. k <= 5 /\ nbit \in 0..Bits
  BY DEF Dht11Safe, Dht11TypeOK, Bytes
<1>2. databuf \in Seq(Byte)
  BY DEF Dht11Safe, Dht11TypeOK
<1>3. k \in Nat
  BY <1>2, LenProperties
<1> HIDE DEF k
<1>4. k \in 0..5 /\ nbit \in 0..Bits /\ Bits \in 1..8
  BY <1>1, <1>3, SizeAssumption
<1> QED
  BY <1>4 DEF k

LEMMA SafeFacts ==
  ASSUME Dht11Safe
  PROVE  /\ Got \in Nat
         /\ pulse \in Nat /\ left \in Nat /\ wait \in Nat /\ cnt \in Nat
         /\ late \in 0..MaxLate /\ MaxLate \in 0..12
         /\ Released \in Nat /\ Released > 4 /\ Released % 2 = 0
         /\ step \in {"rise", "sample"} => 4 + 2 * Got < Released
         /\ step = "fall" => 2 + 2 * Got < Released
<1> DEFINE k == Len(databuf)
<1>1. k \in 0..5 /\ nbit \in 0..Bits /\ Bits \in 1..8
  BY LenFacts
<1>2. /\ pulse \in Nat /\ left \in Nat /\ wait \in Nat /\ cnt \in Nat
      /\ late \in 0..MaxLate /\ MaxLate \in 0..12
  BY TimeFacts DEF Dht11Safe, Dht11TypeOK, Released, SampleDelay, ResponsePolls
<1>3. Released \in Nat /\ Released > 4 /\ Released % 2 = 0
  BY SizeAssumption DEF Released, Bytes
<1>4. Got \in Nat
  BY <1>1, PlaceFacts DEF Got
<1>5. step \in {"rise", "sample"} => 4 + 2 * Got < Released
  BY <1>1, PlaceFacts DEF Got, Dht11Safe, ShapeInv
<1>6. ASSUME step = "fall"
      PROVE  2 + 2 * Got < Released
  <2> DEFINE r == nbit - 1
  <2>1. k < 5 /\ r \in Nat /\ r < Bits /\ nbit = r + 1
    <3>1. k < 5 /\ nbit > 0
      BY <1>6 DEF Dht11Safe, ShapeInv, Bytes
    <3> QED
      BY <3>1, <1>1
  <2>2. Got = Place(k, r + 1)
    BY <2>1 DEF Got
  <2> HIDE DEF k, r
  <2>3. r \in 0..Bits /\ k \in Nat /\ k < Bytes
    BY <1>1, <2>1 DEF Bytes
  <2>4. Place(k, r) \in Nat /\ Place(k, r) + 1 = Got /\ 4 + 2 * Place(k, r) < Released
    BY <2>1, <2>2, <2>3, PlaceFacts
  <2> QED
    BY <1>3, <2>4
<1> QED
  BY <1>1, <1>2, <1>3, <1>4, <1>5, <1>6

-----------------------------------------------------------------------------
(* Time passes.                                                             *)

\* What does not depend on the line and the driver's delays.
LEMMA DataUnchanged ==
  ASSUME DataInv, UNCHANGED <<frame, stuck, step, byte, nbit, databuf, result>>
  PROVE  DataInv' /\ Got' = Got
  BY DEF DataInv, Prefix, Damaged, DamagedAfter, Received, Got, Lost,
         AcceptedIsSent, Accepted, HealthyIsAccepted

\* While a frame is being received its pulses are not over.
LEMMA PulseInFrame ==
  ASSUME Dht11Safe, stuck = "no", step \notin {"check", "done"}
  PROVE  pulse # Released /\ left > 0
<1>1. pulse # Released
  <2>1. TimeInv /\ step \in Steps
    BY DEF Dht11Safe, Dht11TypeOK
  <2>2. CASE step \in {"reply", "low", "high"}
    BY <2>1, <2>2, SafeFacts DEF TimeInv, ReplyInTime, LowInTime, HighInTime
  <2>3. CASE step = "rise"
    BY <2>1, <2>3, SafeFacts DEF TimeInv, RiseInTime
  <2>4. CASE step = "sample"
    BY <2>1, <2>4, SafeFacts DEF TimeInv, SampleInTime
  <2>5. CASE step = "fall"
    BY <2>1, <2>5, SafeFacts DEF TimeInv, FallInTime
  <2> QED
    BY <2>1, <2>2, <2>3, <2>4, <2>5 DEF Steps
<1> QED
  BY <1>1 DEF Dht11Safe, ShapeInv

\* A unit passes within a pulse.
LEMMA WithinPulse ==
  ASSUME Dht11Safe, Tick, left > 1, pulse # Released, stuck = "no"
  PROVE  TimeInv'
<1>1. /\ pulse' = pulse /\ left' = left - 1 /\ wait' = wait - 1 /\ late' = late /\ wait > 0
      /\ UNCHANGED <<frame, stuck, step, cnt, err, Got>>
  BY DEF Tick, LineMoves, Rises, Got
<1>2. TimeInv
  BY DEF Dht11Safe
<1>3. (IsOne(frame, Got))' <=> IsOne(frame, Got)
  BY <1>1 DEF IsOne
<1>4. CASE step \in {"reply", "low", "high"}
  BY <1>1, <1>2, <1>4, SafeFacts DEF TimeInv, ReplyInTime, LowInTime, HighInTime
<1>5. CASE step = "rise"
  BY <1>1, <1>2, <1>3, <1>5, SafeFacts DEF TimeInv, RiseInTime
<1>6. CASE step = "sample"
  BY <1>1, <1>2, <1>3, <1>6, SafeFacts DEF TimeInv, SampleInTime
<1>7. CASE step = "fall"
  BY <1>1, <1>2, <1>7, SafeFacts DEF TimeInv, FallInTime
<1>8. CASE step \in {"check", "done"}
  BY <1>1, <1>8 DEF TimeInv
<1> QED
  BY <1>4, <1>5, <1>6, <1>7, <1>8 DEF Dht11Safe, Dht11TypeOK, Steps

\* The next pulse begins: it is the one the driver waits for.
LEMMA NextPulse ==
  ASSUME Dht11Safe, Tick, left = 1, pulse # Released, stuck = "no"
  PROVE  /\ TimeInv'
         /\ step = "sample" => ~Rises
<1>1. /\ pulse' = pulse + 1 /\ left' \in Length(frame, pulse + 1)
      /\ wait > 0 /\ wait' = wait - 1 /\ late' = (IF Rises THEN wait' ELSE late)
      /\ UNCHANGED <<frame, stuck, step, cnt, err, Got>>
  BY SafeFacts DEF Tick, LineMoves, Got
<1>2. Rises <=> (pulse + 1) % 2 = 0
  BY <1>1, SafeFacts DEF Rises
<1>3. TimeInv /\ (step # "sample" => wait <= 1 \/ wait <= late)
  BY DEF Dht11Safe, ShapeInv
<1>4. (IsOne(frame, Got))' <=> IsOne(frame, Got)
  BY <1>1 DEF IsOne
<1>5. CASE step = "reply"
  <2>1. pulse = 0
    BY <1>1, <1>3, <1>5, SafeFacts DEF TimeInv, ReplyInTime
  <2>2. left' = 40 /\ late' = late
    BY <2>1, <1>1, <1>2, ResponseLength, SafeFacts
  <2> QED
    BY <2>1, <2>2, <1>1, <1>3, <1>5, SafeFacts DEF TimeInv, ReplyInTime
<1>6. CASE step = "low"
  <2>1. pulse = 1
    BY <1>1, <1>3, <1>6, SafeFacts DEF TimeInv, LowInTime
  <2>2. left' = 40 /\ late' = wait'
    BY <2>1, <1>1, <1>2, ResponseLength, SafeFacts
  <2> QED
    BY <2>1, <2>2, <1>1, <1>3, <1>6, SafeFacts DEF TimeInv, LowInTime
<1>7. CASE step = "high"
  <2>1. pulse = 2
    BY <1>1, <1>3, <1>7, SafeFacts DEF TimeInv, HighInTime
  <2>2. Length(frame, 3 + 2 * 0) = {25}
    BY LengthFacts
  <2>3. left' = 25 /\ late' = late
    BY <2>1, <2>2, <1>1, <1>2, SafeFacts
  <2> QED
    BY <2>1, <2>3, <1>1, <1>3, <1>7, SafeFacts DEF TimeInv, HighInTime
<1>8. CASE step = "rise"
  <2>1. pulse = 3 + 2 * Got
    BY <1>1, <1>3, <1>8, SafeFacts DEF TimeInv, RiseInTime
  <2>2. late' = wait' /\ pulse' = 4 + 2 * Got
    BY <2>1, <1>1, <1>2, SafeFacts
  <2>3. left' \in (IF IsOne(frame, Got) THEN {35} ELSE ZeroTime)
    BY <2>1, <2>2, <1>1, <1>8, LengthFacts, SafeFacts
  <2>4. /\ left' \in Nat
        /\ left' >= (IF IsOne(frame, Got) THEN 35 ELSE MaxLate + 1)
        /\ left' <= (IF IsOne(frame, Got) THEN 35 ELSE 15)
    BY <2>3, TimeFacts
  <2> QED
    BY <2>2, <2>4, <1>1, <1>4, <1>8, SafeFacts DEF TimeInv, RiseInTime
<1>9. CASE step = "sample"
  <2>1. pulse = 4 + 2 * Got /\ ~IsOne(frame, Got)
    BY <1>1, <1>3, <1>9, SafeFacts DEF TimeInv, SampleInTime
  <2>2. Length(frame, 5 + 2 * Got) = {25}
    <3> DEFINE n == Got + 1
    <3>1. n \in Nat /\ 3 + 2 * n = 5 + 2 * Got
      BY SafeFacts
    <3> HIDE DEF n
    <3> QED
      BY <3>1, LengthFacts
  <2>3. left' = 25 /\ late' = late /\ pulse' = 5 + 2 * Got /\ ~Rises
    BY <2>1, <2>2, <1>1, <1>2, SafeFacts
  <2> QED
    BY <2>1, <2>3, <1>1, <1>3, <1>4, <1>9, SafeFacts DEF TimeInv, SampleInTime
<1>10. CASE step = "fall"
  <2>1. pulse = 2 + 2 * Got
    BY <1>1, <1>3, <1>10, SafeFacts DEF TimeInv, FallInTime
  <2>2. Length(frame, 3 + 2 * Got) = {25}
    BY LengthFacts, SafeFacts
  <2>3. left' = 25 /\ late' = late /\ pulse' = 3 + 2 * Got
    BY <2>1, <2>2, <1>1, <1>2, SafeFacts
  <2> QED
    BY <2>3, <1>1, <1>3, <1>10, SafeFacts DEF TimeInv, FallInTime
<1>11. CASE step \in {"check", "done"}
  BY <1>11, <1>1 DEF TimeInv
<1> QED
  BY <1>5, <1>6, <1>7, <1>8, <1>9, <1>10, <1>11 DEF Dht11Safe, Dht11TypeOK, Steps

LEMMA TickKeeps ==
  ASSUME Dht11Safe, Tick
  PROVE  Dht11Safe'
<1>1. /\ wait > 0 /\ wait' = wait - 1 /\ late' = (IF Rises THEN wait' ELSE late)
      /\ UNCHANGED <<frame, stuck, step, cnt, err, byte, nbit, databuf, result>>
  BY DEF Tick, LineMoves
<1>2. DataInv'
  BY <1>1, DataUnchanged DEF Dht11Safe
<1>3. CASE stuck # "no" \/ pulse = Released
  <2>1. pulse' = pulse /\ left' = left /\ ~Rises
    BY <1>3 DEF Tick, LineMoves, Rises
  <2>2. TimeInv'
    BY <1>1, <1>3, PulseInFrame DEF TimeInv
  <2>3. wait' \in 0..SampleDelay
    BY <1>1, SafeFacts DEF Dht11Safe, Dht11TypeOK, SampleDelay
  <2>4. Dht11TypeOK'
    BY <1>1, <2>1, <2>3 DEF Dht11Safe, Dht11TypeOK
  <2>5. step # "sample" => wait' <= 1 \/ wait' <= late'
    BY <1>1, <2>1, SafeFacts DEF Dht11Safe, ShapeInv
  <2>6. ShapeInv'
    BY <1>1, <2>1, <2>5 DEF Dht11Safe, ShapeInv, Released
  <2> QED
    BY <1>2, <2>2, <2>4, <2>6 DEF Dht11Safe
<1>4. CASE stuck = "no" /\ pulse # Released
  <2>1. left > 0 /\ pulse \in 0..Released /\ left \in 0..40
    BY <1>4 DEF Dht11Safe, Dht11TypeOK, ShapeInv
  <2>2. \/ left > 1 /\ pulse' = pulse /\ left' = left - 1 /\ ~Rises
        \/ left = 1 /\ pulse' = pulse + 1 /\ left' \in Length(frame, pulse + 1)
    BY <1>4, <2>1, SafeFacts DEF Tick, LineMoves, Rises
  <2>3. TimeInv' /\ (step = "sample" => ~Rises)
    BY <1>4, <2>2, WithinPulse, NextPulse
  <2>4. pulse' \in 0..Released /\ left' \in 0..40 /\ (pulse' # Released => left' > 0)
    <3>1. CASE left > 1
      BY <3>1, <1>4, <2>1, <2>2, SafeFacts
    <3>2. CASE left = 1
      <4>1. pulse + 1 \in 1..Released
        BY <1>4, <2>1, SafeFacts
      <4> QED
        BY <3>2, <4>1, <2>2, LengthBounds, SafeFacts
    <3> QED
      BY <3>1, <3>2, <2>1, SafeFacts
  <2>5. step # "sample" => wait <= 1 \/ wait <= late
    BY DEF Dht11Safe, ShapeInv
  <2>6. /\ wait' \in 0..SampleDelay /\ late' \in 0..MaxLate
        /\ step # "sample" => wait' <= 1 \/ wait' <= late'
    <3>1. wait \in 0..SampleDelay
      BY DEF Dht11Safe, Dht11TypeOK
    <3> QED
      <4>1. CASE Rises
        BY <3>1, <4>1, <1>1, <2>3, <2>5, SafeFacts DEF SampleDelay
      <4>2. CASE ~Rises
        BY <3>1, <4>2, <1>1, <2>5, SafeFacts DEF SampleDelay
      <4> QED
        BY <4>1, <4>2
  <2>7. Dht11TypeOK'
    BY <1>1, <2>4, <2>6 DEF Dht11Safe, Dht11TypeOK, Released
  <2>8. ShapeInv'
    BY <1>1, <1>4, <2>4, <2>6 DEF Dht11Safe, ShapeInv, Released
  <2> QED
    BY <1>2, <2>3, <2>7, <2>8 DEF Dht11Safe
<1> QED
  BY <1>3, <1>4

LEMMA InterruptKeeps ==
  ASSUME Dht11Safe, NEW d \in Delays, Interrupt(d)
  PROVE  Dht11Safe'
<1>1. /\ wait = 0 /\ wait' = d /\ late' = late + d /\ late + d <= MaxLate
      /\ UNCHANGED <<frame, pulse, left, stuck, step, cnt, err, byte, nbit, databuf, result>>
  BY DEF Interrupt, sensorVars
<1>2. DataInv' /\ Got' = Got
  BY <1>1, DataUnchanged DEF Dht11Safe
<1>3. d \in 1..MaxLate
  BY TimeFacts
<1>4. late' \in 0..MaxLate /\ wait' \in 0..SampleDelay
  BY <1>1, <1>3, SafeFacts DEF SampleDelay
<1>5. Dht11TypeOK'
  BY <1>1, <1>4 DEF Dht11Safe, Dht11TypeOK, Released
<1>6. wait' <= late'
  BY <1>1, <1>3, SafeFacts
<1>7. ShapeInv'
  BY <1>1, <1>6 DEF Dht11Safe, ShapeInv, Released
<1>8. TimeInv'
  <2>1. (IsOne(frame, Got))' <=> IsOne(frame, Got)
    BY <1>1, <1>2 DEF IsOne
  <2>2. TimeInv
    BY DEF Dht11Safe
  <2>3. CASE step \in {"reply", "low", "high", "fall"}
    BY <1>1, <1>2, <1>3, <2>2, <2>3, SafeFacts
       DEF TimeInv, ReplyInTime, LowInTime, HighInTime, FallInTime
  <2>4. CASE step \in {"rise", "sample"}
    BY <1>1, <1>2, <1>3, <2>1, <2>2, <2>4, SafeFacts DEF TimeInv, RiseInTime, SampleInTime
  <2>5. CASE step \in {"check", "done"}
    BY <1>1, <2>5 DEF TimeInv
  <2> QED
    BY <2>3, <2>4, <2>5 DEF Dht11Safe, Dht11TypeOK, Steps
<1> QED
  BY <1>2, <1>5, <1>7, <1>8 DEF Dht11Safe

LEMMA StopKeeps ==
  ASSUME Dht11Safe, NEW l \in {"low", "high"}, Stop(l)
  PROVE  Dht11Safe'
<1>1. /\ stuck = "no" /\ step # "done" /\ stuck' = l /\ pulse' = Released /\ left' = 0
      /\ UNCHANGED <<frame, step, wait, cnt, err, byte, nbit, databuf, result, late>>
  BY DEF Stop
<1>2. Dht11TypeOK'
  BY <1>1, SafeFacts DEF Dht11Safe, Dht11TypeOK, Released
<1>3. ShapeInv'
  BY <1>1 DEF Dht11Safe, ShapeInv, Released
<1>4. TimeInv'
  BY <1>1 DEF TimeInv
<1>5. Prefix
  BY <1>1 DEF Dht11Safe, DataInv
<1>6. Damaged
  <2> DEFINE k == Len(databuf)
  <2>1. k \in Nat
    BY LenFacts
  <2>2. DamagedAfter(k)
    <3> SUFFICES ASSUME NEW i \in 1..k
                 PROVE  databuf[i] = frame[i] /\ ~(i > k)
      BY DEF DamagedAfter
    <3> HIDE DEF k
    <3>1. ~(i > k)
      BY <2>1
    <3> QED
      BY <3>1, <1>5 DEF Prefix, k
  <2> HIDE DEF k
  <2>3. k \in 0..k
    BY <2>1
  <2> QED
    BY <2>2, <2>3 DEF Damaged, k
<1>7. DataInv'
  BY <1>1, <1>5, <1>6
     DEF Dht11Safe, DataInv, Prefix, Damaged, DamagedAfter, Received, Lost,
         AcceptedIsSent, Accepted, HealthyIsAccepted
<1> QED
  BY <1>2, <1>3, <1>4, <1>7 DEF Dht11Safe

-----------------------------------------------------------------------------
(* The driver waits for the response.                                       *)

\* Steps that receive nothing.
LEMMA DataStays ==
  ASSUME DataInv, UNCHANGED <<frame, stuck, databuf>>, step # "done",
         step' \notin {"rise", "sample", "fall", "done"}
  PROVE  DataInv'
  BY DEF DataInv, Prefix, Damaged, DamagedAfter, Lost, AcceptedIsSent, Accepted, HealthyIsAccepted

\* A wait that gives the reading up; TimeInv excludes it while the sensor goes on.
LEMMA RefusalKeeps ==
  ASSUME Dht11Safe, Returns("fault"), step # "sample", stuck # "no",
         UNCHANGED <<sensorVars, wait, cnt, err, byte, nbit, databuf, late>>
  PROVE  Dht11Safe'
<1>1. /\ step' = "done" /\ result' = "fault"
      /\ UNCHANGED <<frame, pulse, left, stuck, wait, cnt, err, byte, nbit, databuf, late>>
  BY DEF Returns, sensorVars
<1>2. Dht11TypeOK'
  BY <1>1 DEF Dht11Safe, Dht11TypeOK, Released, Steps
<1>3. ShapeInv'
  BY <1>1 DEF Dht11Safe, ShapeInv, Released
<1>4. TimeInv'
  BY <1>1 DEF TimeInv
<1>5. DataInv'
  BY <1>1 DEF DataInv, AcceptedIsSent, Accepted, HealthyIsAccepted
<1> QED
  BY <1>2, <1>3, <1>4, <1>5 DEF Dht11Safe

LEMMA AwaitReplyKeeps ==
  ASSUME Dht11Safe, AwaitReply
  PROVE  Dht11Safe'
<1>1. /\ step = "reply" /\ wait = 0
      /\ UNCHANGED <<frame, pulse, left, stuck, err, byte, nbit, databuf, late>>
  BY DEF AwaitReply, sensorVars
<1>2. /\ stuck = "no" => ReplyInTime /\ left > 0 /\ left \in 0..40
      /\ ~err /\ cnt \in 0..ResponsePolls /\ cnt > 0
  BY <1>1, PulseInFrame DEF Dht11Safe, Dht11TypeOK, ShapeInv, TimeInv
<1>3. ASSUME ~High, step' = "low", cnt' = ResponsePolls, UNCHANGED <<wait, result>>
      PROVE  Dht11Safe'
  <2>1. Dht11TypeOK'
    BY <1>1, <1>3 DEF Dht11Safe, Dht11TypeOK, Released, Steps, ResponsePolls
  <2>2. ShapeInv'
    BY <1>1, <1>3 DEF Dht11Safe, ShapeInv, Released
  <2>3. TimeInv'
    BY <1>1, <1>2, <1>3, SafeFacts DEF TimeInv, ReplyInTime, LowInTime, High, ResponsePolls
  <2>4. DataInv'
    BY <1>1, <1>3, DataStays DEF Dht11Safe
  <2> QED
    BY <2>1, <2>2, <2>3, <2>4 DEF Dht11Safe
<1>4. ASSUME High, cnt > 1, PollAgain, UNCHANGED <<step, result>>
      PROVE  Dht11Safe'
  <2>1. cnt' = cnt - 1 /\ wait' = 1 /\ cnt' \in 0..ResponsePolls /\ cnt' > 0
    BY <1>2, <1>4 DEF PollAgain, ResponsePolls
  <2>2. Dht11TypeOK'
    BY <1>1, <1>4, <2>1 DEF Dht11Safe, Dht11TypeOK, Released, SampleDelay
  <2>3. ShapeInv'
    BY <1>1, <1>4, <2>1 DEF Dht11Safe, ShapeInv, Released
  <2>4. TimeInv'
    BY <1>1, <1>2, <1>4, <2>1, SafeFacts DEF TimeInv, ReplyInTime, High
  <2>5. DataInv'
    BY <1>1, <1>4, DataUnchanged DEF Dht11Safe
  <2> QED
    BY <2>2, <2>3, <2>4, <2>5 DEF Dht11Safe
<1>5. ASSUME High, cnt = 1, Returns("fault"), UNCHANGED <<wait, cnt>>
      PROVE  Dht11Safe'
  <2>1. stuck # "no"
    BY <1>1, <1>2, <1>5, SafeFacts DEF ReplyInTime, High
  <2> QED
    BY <1>1, <1>5, <2>1, RefusalKeeps DEF sensorVars
<1> QED
  BY <1>3, <1>4, <1>5 DEF AwaitReply

LEMMA AwaitResponseKeeps ==
  ASSUME Dht11Safe, NEW level \in BOOLEAN, AwaitResponse(level)
  PROVE  Dht11Safe'
<1>1. /\ step = (IF level THEN "low" ELSE "high") /\ wait = 0
      /\ UNCHANGED <<frame, pulse, left, stuck, byte, nbit, databuf, late>>
  BY DEF AwaitResponse, sensorVars
<1>2. /\ stuck = "no" /\ level => LowInTime /\ ~err
      /\ stuck = "no" /\ ~level => HighInTime /\ ~err
      /\ stuck = "no" => left > 0 /\ left \in 0..40
      /\ cnt \in 0..ResponsePolls
  BY <1>1, PulseInFrame DEF Dht11Safe, Dht11TypeOK, TimeInv
<1>3. ASSUME High = level, err, Returns("fault"), UNCHANGED <<wait, cnt, err>>
      PROVE  Dht11Safe'
  <2>1. stuck # "no"
    BY <1>2, <1>3
  <2> QED
    BY <1>1, <1>3, <2>1, RefusalKeeps DEF sensorVars
<1>4. ASSUME High = level, ~err, level, step' = "high", cnt' = ResponsePolls,
             UNCHANGED <<wait, err, result>>
      PROVE  Dht11Safe'
  <2>1. Dht11TypeOK'
    BY <1>1, <1>4 DEF Dht11Safe, Dht11TypeOK, Released, Steps, ResponsePolls
  <2>2. ShapeInv'
    BY <1>1, <1>4 DEF Dht11Safe, ShapeInv, Released
  <2>3. TimeInv'
    <3>1. stuck = "no" => pulse % 2 = 0
      BY <1>4 DEF High
    <3> QED
      BY <1>1, <1>2, <1>4, <3>1, SafeFacts DEF TimeInv, LowInTime, HighInTime, ResponsePolls
  <2>4. DataInv'
    BY <1>1, <1>4, DataStays DEF Dht11Safe
  <2> QED
    BY <2>1, <2>2, <2>3, <2>4 DEF Dht11Safe
<1>5. ASSUME High = level, ~err, ~level, step' = "rise", cnt' = BitPolls,
             UNCHANGED <<wait, err, result>>
      PROVE  Dht11Safe'
  <2>1. Dht11TypeOK'
    BY <1>1, <1>5 DEF Dht11Safe, Dht11TypeOK, Released, Steps, ResponsePolls, BitPolls
  <2>2. databuf = <<>> /\ byte = {} /\ nbit = 0
    BY <1>1, <1>5 DEF Dht11Safe, ShapeInv
  <2>3. Len(databuf) = 0
    BY <2>2
  <2>4. ShapeInv'
    BY <1>1, <1>5, <2>2, <2>3, SizeAssumption DEF Dht11Safe, ShapeInv, Released, BitPolls, Bytes
  <2>5. Got' = 0
    BY <1>1, <2>2, <2>3, SizeAssumption DEF Got, Place
  <2>6. TimeInv'
    BY <1>1, <1>2, <1>5, <2>5, SafeFacts DEF TimeInv, HighInTime, RiseInTime, High, BitPolls
  <2>7. Received(0) = {}
    <3>1. frame[1] \in Byte /\ Len(databuf) + 1 = 1
      BY <2>3, FrameFacts DEF Dht11Safe, Dht11TypeOK
    <3> QED
      BY <3>1, SizeAssumption DEF Received, Byte, Places
  <2>8. DataInv'
    BY <1>1, <1>5, <2>2, <2>7
       DEF Dht11Safe, DataInv, Prefix, Damaged, DamagedAfter, Received, Lost,
           AcceptedIsSent, Accepted, HealthyIsAccepted
  <2> QED
    BY <2>1, <2>4, <2>6, <2>8 DEF Dht11Safe
<1>6. ASSUME High # level, cnt' = (IF cnt > 0 THEN cnt - 1 ELSE 0), wait' = 1,
             err' = (err \/ cnt = 1), UNCHANGED <<step, result>>
      PROVE  Dht11Safe'
  <2>1. cnt' \in 0..ResponsePolls /\ (cnt > 0 => cnt' = cnt - 1)
    BY <1>2, <1>6 DEF ResponsePolls
  <2>2. err' \in BOOLEAN
    BY <1>6
  <2>3. Dht11TypeOK'
    BY <1>1, <1>6, <2>1, <2>2 DEF Dht11Safe, Dht11TypeOK, Released, SampleDelay
  <2>4. ShapeInv'
    BY <1>1, <1>6 DEF Dht11Safe, ShapeInv, Released
  <2>5. TimeInv'
    <3>1. CASE stuck = "no" /\ level
      <4>1. pulse % 2 # 0
        BY <1>6, <3>1 DEF High
      <4>2. cnt > 1 /\ ~err /\ pulse = 1 /\ left <= cnt - 5
        BY <1>1, <1>2, <3>1, <4>1, SafeFacts DEF LowInTime
      <4>3. ~err' /\ step' = "low"
        <5>1. cnt # 1
          BY <4>2, SafeFacts
        <5>2. step = "low"
          BY <1>1, <3>1
        <5> QED
          BY <1>6, <4>2, <5>1, <5>2, Zenon
      <4>4. cnt' = cnt - 1 /\ left' = left /\ wait' = 1 /\ pulse' = 1
        BY <1>1, <1>6, <2>1, <4>2, SafeFacts
      <4> QED
        BY <4>2, <4>3, <4>4, SafeFacts DEF TimeInv, LowInTime
    <3>2. CASE stuck = "no" /\ ~level
      BY <1>1, <1>2, <1>6, <2>1, <3>2, SafeFacts DEF TimeInv, HighInTime, High
    <3> QED
      BY <1>1, <3>1, <3>2 DEF TimeInv
  <2>6. DataInv'
    BY <1>1, <1>6, DataUnchanged DEF Dht11Safe
  <2> QED
    BY <2>3, <2>4, <2>5, <2>6 DEF Dht11Safe
<1> QED
  BY <1>1, <1>3, <1>4, <1>5, <1>6 DEF AwaitResponse

-----------------------------------------------------------------------------
(* The driver receives a byte.                                              *)

LEMMA StoreFacts ==
  ASSUME Dht11Safe, NEW v \in Byte, Store(v), step \in {"rise", "fall"},
         UNCHANGED <<sensorVars, err, result, late>>
  PROVE  /\ Dht11TypeOK' /\ ShapeInv'
         /\ Len(databuf') = Len(databuf) + 1
         /\ \A i \in 1..Len(databuf) : databuf'[i] = databuf[i]
         /\ databuf'[Len(databuf) + 1] = v
<1> DEFINE k == Len(databuf)
           k2 == Len(databuf')
<1>1. databuf \in Seq(Byte) /\ databuf' = Append(databuf, v)
  BY DEF Dht11Safe, Dht11TypeOK, Store
<1>2. /\ databuf' \in Seq(Byte) /\ k2 = k + 1
      /\ \A i \in 1..k : databuf'[i] = databuf[i]
      /\ databuf'[k + 1] = v
  BY <1>1, AppendProperties
<1>3. k < 5 /\ k \in Nat
  BY LenFacts DEF Dht11Safe, ShapeInv, Bytes
<1>4. k2 <= 5 /\ (step' = "rise" => k2 < 5) /\ (step' = "check" => k2 = 5)
  <2>1. step' = (IF k + 1 = 5 THEN "check" ELSE "rise")
    BY DEF Store, Bytes
  <2> HIDE DEF k, k2
  <2> QED
    BY <1>2, <1>3, <2>1
<1>5. /\ byte' = {} /\ nbit' = 0 /\ cnt' = BitPolls /\ wait' = 0 /\ step' \in {"rise", "check"}
      /\ UNCHANGED <<frame, pulse, left, stuck, err, result, late>>
  BY DEF Store, sensorVars
<1>6. Dht11TypeOK'
  <2>1. {} \in Byte /\ 0 \in 0..Bits
    BY SizeAssumption DEF Byte
  <2>2. Len(databuf') <= Bytes
    BY <1>4 DEF Bytes
  <2> HIDE DEF k, k2
  <2> QED
    BY <1>2, <1>5, <2>1, <2>2
       DEF Dht11Safe, Dht11TypeOK, Released, Steps, BitPolls, ResponsePolls, SampleDelay
<1>7. ShapeInv'
  <2>1. /\ step' = "rise" => Len(databuf') < Bytes
        /\ step' = "check" => Len(databuf') = Bytes
    BY <1>4 DEF Bytes
  <2>2. 0 < Bits
    BY SizeAssumption
  <2> HIDE DEF k, k2
  <2> QED
    BY <1>5, <2>1, <2>2 DEF Dht11Safe, ShapeInv, Released, BitPolls
<1> QED
  BY <1>2, <1>6, <1>7

\* A byte that is given up is lost after the place where the sensor stopped.
LEMMA LosingKeeps ==
  ASSUME Dht11Safe, Store(Lost), step \in {"rise", "fall"}, stuck # "no",
         UNCHANGED <<sensorVars, err, result, late>>
  PROVE  Dht11Safe'
<1> DEFINE k == Len(databuf)
           k2 == Len(databuf')
<1>1. Lost \in Byte
  BY OnesFacts DEF Lost
<1>2. UNCHANGED <<frame, stuck, result>> /\ step' \in {"rise", "check"}
  BY DEF Store, sensorVars
<1>3. /\ Dht11TypeOK' /\ ShapeInv' /\ k2 = k + 1
      /\ \A i \in 1..k : databuf'[i] = databuf[i]
      /\ databuf'[k + 1] = Lost
  BY <1>1, StoreFacts
<1>4. k \in Nat
  BY LenFacts
<1>5. Damaged'
  <2>1. PICK j \in 0..k : DamagedAfter(j)
    BY DEF Dht11Safe, DataInv, Damaged
  <2>2. \A i \in 1..k : /\ i < j => databuf[i] = frame[i]
                        /\ i = j => databuf[i] \in {frame[i], frame[i] \ {0}}
                        /\ i > j => databuf[i] = Lost
    BY <2>1 DEF DamagedAfter
  <2>3. j \in 0..k2
    <3> HIDE DEF k, k2
    <3> QED
      BY <1>3, <1>4
  <2>4. \A i \in 1..k2 : /\ i < j => databuf'[i] = frame[i]
                         /\ i = j => databuf'[i] \in {frame[i], frame[i] \ {0}}
                         /\ i > j => databuf'[i] = Lost
    <3> HIDE DEF k, k2
    <3> QED
      BY <1>3, <1>4, <2>2
  <2>5. \E x \in 0..k2 :
          \A i \in 1..k2 : /\ i < x => databuf'[i] = frame'[i]
                           /\ i = x => databuf'[i] \in {frame'[i], frame'[i] \ {0}}
                           /\ i > x => databuf'[i] = Lost
    <3> HIDE DEF k, k2
    <3> QED
      BY <1>2, <2>3, <2>4
  <2> QED
    BY <2>5 DEF Damaged, DamagedAfter, Lost
<1>6. DataInv'
  <2>1. \/ step' = "rise"
        \/ step' = "check"
    BY <1>2
  <2> QED
    BY <1>2, <1>5, <2>1 DEF DataInv, AcceptedIsSent, Accepted, HealthyIsAccepted
<1>7. TimeInv'
  BY <1>2 DEF TimeInv
<1> QED
  BY <1>3, <1>6, <1>7 DEF Dht11Safe

LEMMA AwaitRiseKeeps ==
  ASSUME Dht11Safe, AwaitRise
  PROVE  Dht11Safe'
<1>1. /\ step = "rise" /\ wait = 0
      /\ UNCHANGED <<frame, pulse, left, stuck, err, result, late>>
      /\ UNCHANGED <<sensorVars, err, result, late>>
  BY DEF AwaitRise, sensorVars
<1>2. /\ stuck = "no" => RiseInTime /\ left > 0
      /\ cnt > 0 /\ cnt \in 0..ResponsePolls
  BY <1>1, PulseInFrame DEF Dht11Safe, Dht11TypeOK, ShapeInv, TimeInv
<1>3. ASSUME High, step' = "sample", wait' = SampleDelay, UNCHANGED <<cnt, byte, nbit, databuf>>
      PROVE  Dht11Safe'
  <2>1. Dht11TypeOK'
    BY <1>1, <1>3 DEF Dht11Safe, Dht11TypeOK, Released, Steps, SampleDelay
  <2>2. ShapeInv'
    BY <1>1, <1>3 DEF Dht11Safe, ShapeInv, Released
  <2>3. Got' = Got /\ ((IsOne(frame, Got))' <=> IsOne(frame, Got))
    BY <1>1, <1>3 DEF Got, IsOne
  <2>4. TimeInv'
    BY <1>1, <1>2, <1>3, <2>3, SafeFacts DEF TimeInv, RiseInTime, SampleInTime, High, SampleDelay
  <2>5. stuck # "low"
    BY <1>3 DEF High
  <2>6. DataInv'
    BY <1>1, <1>3, <2>5
       DEF Dht11Safe, DataInv, Prefix, Damaged, DamagedAfter, Received, Lost,
           AcceptedIsSent, Accepted, HealthyIsAccepted
  <2> QED
    BY <2>1, <2>2, <2>4, <2>6 DEF Dht11Safe
<1>4. ASSUME ~High, cnt > 1, PollAgain, UNCHANGED <<step, byte, nbit, databuf>>
      PROVE  Dht11Safe'
  <2>1. cnt' = cnt - 1 /\ wait' = 1 /\ cnt' \in 0..ResponsePolls /\ cnt' > 0
    BY <1>2, <1>4 DEF PollAgain, ResponsePolls
  <2>2. Dht11TypeOK'
    BY <1>1, <1>4, <2>1 DEF Dht11Safe, Dht11TypeOK, Released, SampleDelay
  <2>3. ShapeInv'
    BY <1>1, <1>4, <2>1 DEF Dht11Safe, ShapeInv, Released
  <2>4. DataInv' /\ Got' = Got
    BY <1>1, <1>4, DataUnchanged DEF Dht11Safe
  <2>5. TimeInv'
    BY <1>1, <1>2, <1>4, <2>1, <2>4, SafeFacts DEF TimeInv, RiseInTime, High
  <2> QED
    BY <2>2, <2>3, <2>4, <2>5 DEF Dht11Safe
<1>5. ASSUME ~High, cnt = 1, Store(Lost)
      PROVE  Dht11Safe'
  <2>1. stuck # "no"
    BY <1>1, <1>2, <1>5, SafeFacts DEF RiseInTime, High
  <2> QED
    BY <1>1, <1>5, <2>1, LosingKeeps
<1> QED
  BY <1>3, <1>4, <1>5 DEF AwaitRise

\* One bit more: it is there if the byte that is sent has it.
LEMMA OneBitMore ==
  ASSUME Dht11Safe, step = "sample"
  PROVE  /\ IsOne(frame, Got) <=> Bits - 1 - nbit \in frame[Len(databuf) + 1]
         /\ Received(nbit + 1) = IF IsOne(frame, Got)
                                 THEN Received(nbit) \cup {Bits - 1 - nbit}
                                 ELSE Received(nbit)
         /\ Received(nbit) = Received(nbit + 1) \ {Bits - (nbit + 1)}
         /\ Place(Len(databuf), nbit + 1) = Got + 1
         /\ nbit + 1 \in 0..Bits /\ Bits - 1 - nbit \in Places
<1> DEFINE k == Len(databuf)
           b == frame[k + 1]
<1>1. k \in 0..5 /\ k < 5 /\ nbit \in 0..Bits /\ nbit < Bits /\ Bits \in 1..8
  BY LenFacts DEF Dht11Safe, ShapeInv, Bytes
<1>2. b \in Byte
  <2>1. \A i \in 1..5 : frame[i] \in Byte
    BY FrameFacts DEF Dht11Safe, Dht11TypeOK
  <2>2. k + 1 \in 1..5
    <3> HIDE DEF k
    <3> QED
      BY <1>1
  <2> QED
    BY <2>1, <2>2
<1> HIDE DEF k
<1>3. nbit \in 0..(Bits - 1) /\ k \in Nat
  BY <1>1
<1>4. IsOne(frame, Got) <=> Bits - 1 - nbit \in frame[1 + k]
  BY <1>3, PlaceIsBit DEF Got, k
<1>5. 1 + k = k + 1
  BY <1>3
<1>6. Place(k, nbit + 1) = Got + 1
  BY <1>1, <1>3, PlaceFacts DEF Got, k
<1>7. \A i \in b : i \in 0..(Bits - 1)
  BY <1>2 DEF Byte, Places
<1>8. Received(nbit) = {i \in b : i >= Bits - nbit}
      /\ Received(nbit + 1) = {i \in b : i >= Bits - (nbit + 1)}
  BY DEF Received, b, k
<1>9. IsOne(frame, Got) <=> Bits - 1 - nbit \in b
  BY <1>4, <1>5 DEF b
<1> HIDE DEF b
<1>10. Received(nbit) = Received(nbit + 1) \ {Bits - (nbit + 1)}
  BY <1>1, <1>7, <1>8
<1>11. Received(nbit + 1) = IF IsOne(frame, Got)
                            THEN Received(nbit) \cup {Bits - 1 - nbit}
                            ELSE Received(nbit)
  <2>1. \A i \in b : i >= Bits - (nbit + 1) <=> i >= Bits - nbit \/ i = Bits - 1 - nbit
    BY <1>1, <1>7
  <2> QED
    BY <1>8, <1>9, <2>1
<1>12. nbit + 1 \in 0..Bits /\ Bits - 1 - nbit \in Places
  BY <1>1 DEF Places
<1> QED
  BY <1>6, <1>9, <1>10, <1>11, <1>12 DEF b, k

LEMMA SampleKeeps ==
  ASSUME Dht11Safe, Sample
  PROVE  Dht11Safe'
<1>1. /\ step = "sample" /\ wait = 0 /\ step' = "fall" /\ cnt' = BitPolls /\ nbit' = nbit + 1
      /\ byte' = (IF High THEN byte \cup {Bits - 1 - nbit} ELSE byte)
      /\ UNCHANGED <<frame, pulse, left, stuck, wait, err, databuf, result, late>>
  BY DEF Sample, sensorVars
<1>2. nbit + 1 \in 0..Bits /\ Bits - 1 - nbit \in Places
  BY <1>1, OneBitMore
<1>3. Dht11TypeOK'
  <2>1. byte' \in Byte
    BY <1>1, <1>2 DEF Dht11Safe, Dht11TypeOK, Byte
  <2> QED
    BY <1>1, <1>2, <2>1 DEF Dht11Safe, Dht11TypeOK, Released, Steps, BitPolls, ResponsePolls
<1>4. ShapeInv'
  <2>1. Len(databuf) < Bytes /\ nbit + 1 > 0
    BY <1>1, LenFacts DEF Dht11Safe, ShapeInv
  <2>2. wait' <= 1
    BY <1>1
  <2> QED
    BY <1>1, <2>1, <2>2 DEF Dht11Safe, ShapeInv, Released, BitPolls
<1>5. Got' = Got + 1
  BY <1>1, OneBitMore DEF Got
<1>6. ASSUME stuck = "no"
      PROVE  /\ FallInTime'
             /\ High <=> IsOne(frame, Got)
  <2>1. SampleInTime /\ left > 0 /\ left \in Nat
    BY <1>1, <1>6, PulseInFrame, SafeFacts DEF Dht11Safe, TimeInv
  <2>2. CASE IsOne(frame, Got)
    BY <1>1, <1>5, <1>6, <2>1, <2>2, SafeFacts DEF SampleInTime, FallInTime, High, BitPolls
  <2>3. CASE ~IsOne(frame, Got)
    BY <1>1, <1>5, <1>6, <2>1, <2>3, SafeFacts DEF SampleInTime, FallInTime, High, BitPolls
  <2> QED
    BY <2>2, <2>3
<1>7. TimeInv'
  BY <1>1, <1>6 DEF TimeInv
<1>8. ASSUME stuck \in {"no", "low"}
      PROVE  byte = Received(nbit)
  BY <1>1, <1>8 DEF Dht11Safe, DataInv
<1>9. stuck = "no" => byte' = Received(nbit + 1)
  <2> SUFFICES ASSUME stuck = "no"
               PROVE  byte' = Received(nbit + 1)
    OBVIOUS
  <2>1. CASE High
    BY <1>1, <1>6, <1>8, <2>1, OneBitMore
  <2>2. CASE ~High
    BY <1>1, <1>6, <1>8, <2>2, OneBitMore
  <2> QED
    BY <2>1, <2>2
<1>10. stuck = "low" => byte' = Received(nbit + 1) \ {Bits - (nbit + 1)}
  <2> SUFFICES ASSUME stuck = "low"
               PROVE  byte' = Received(nbit + 1) \ {Bits - (nbit + 1)}
    OBVIOUS
  <2>1. ~High
    BY DEF High
  <2> QED
    BY <1>1, <1>8, <2>1, OneBitMore
<1>11. (Received(nbit))' = Received(nbit + 1)
  BY <1>1 DEF Received
<1>12. DataInv'
  BY <1>1, <1>9, <1>10, <1>11
     DEF Dht11Safe, DataInv, Prefix, Damaged, DamagedAfter, Lost,
         AcceptedIsSent, Accepted, HealthyIsAccepted
<1> QED
  BY <1>3, <1>4, <1>7, <1>12 DEF Dht11Safe

\* A whole byte is stored: the one that was sent, unless the sensor stopped
\* before its last bit.
LEMMA StoringKeeps ==
  ASSUME Dht11Safe, Store(byte), step = "fall", ~High, nbit = Bits, wait = 0,
         UNCHANGED <<sensorVars, err, result, late>>
  PROVE  Dht11Safe'
<1> DEFINE k == Len(databuf)
           k2 == Len(databuf')
           b == frame[k + 1]
<1>1. byte \in Byte
  BY DEF Dht11Safe, Dht11TypeOK
<1>2. /\ UNCHANGED <<frame, pulse, left, stuck, result, late>>
      /\ byte' = {} /\ nbit' = 0 /\ cnt' = BitPolls /\ wait' = 0
      /\ step' \in {"rise", "check"}
  BY DEF Store, sensorVars
<1>3. /\ Dht11TypeOK' /\ ShapeInv' /\ k2 = k + 1
      /\ \A i \in 1..k : databuf'[i] = databuf[i]
      /\ databuf'[k + 1] = byte
  BY <1>1, StoreFacts
<1>4. k \in Nat /\ k < 5
  BY LenFacts DEF Dht11Safe, ShapeInv, Bytes
<1>5. /\ b \in Byte
      /\ step' = "rise" => frame[k2 + 1] \in Byte
  <2>1. \A i \in 1..5 : frame[i] \in Byte
    BY FrameFacts DEF Dht11Safe, Dht11TypeOK
  <2>2. step' = "rise" => k2 < 5
    BY <1>3 DEF ShapeInv, Bytes
  <2> HIDE DEF k, k2
  <2> QED
    BY <1>3, <1>4, <2>1, <2>2 DEF b
<1>6. Received(nbit) = b
  <2>1. Received(nbit) = {i \in b : i >= 0}
    BY SizeAssumption DEF Received
  <2>2. \A i \in b : i >= 0
    BY <1>5, SizeAssumption DEF Byte, Places
  <2> HIDE DEF b
  <2> QED
    BY <2>1, <2>2
<1>7. Received(nbit) \ {Bits - nbit} = b \ {0}
  BY <1>6, SizeAssumption
<1>8. ASSUME Prefix, byte = b
      PROVE  Prefix'
  <2>1. \A i \in 1..k : databuf[i] = frame[i]
    BY <1>8 DEF Prefix
  <2>2. \A i \in 1..k2 : databuf'[i] = frame[i]
    <3>1. databuf'[k + 1] = frame[k + 1]
      BY <1>3, <1>8
    <3> HIDE DEF k, k2
    <3> QED
      BY <1>3, <1>4, <2>1, <3>1
  <2> QED
    BY <1>2, <2>2 DEF Prefix
<1>9. ASSUME Prefix, byte \in {b, b \ {0}}
      PROVE  Damaged'
  <2>1. \A i \in 1..k : databuf[i] = frame[i]
    BY <1>9 DEF Prefix
  <2>2. databuf'[k + 1] \in {frame[k + 1], frame[k + 1] \ {0}}
    BY <1>3, <1>9
  <2>3. \A i \in 1..k2 : /\ i < k2 => databuf'[i] = frame'[i]
                         /\ i = k2 => databuf'[i] \in {frame'[i], frame'[i] \ {0}}
                         /\ i > k2 => databuf'[i] = Lost
    <3> HIDE DEF k, k2
    <3> QED
      BY <1>2, <1>3, <1>4, <2>1, <2>2
  <2>4. k2 \in 0..k2
    <3> HIDE DEF k, k2
    <3> QED
      BY <1>3, <1>4
  <2> QED
    BY <2>3, <2>4 DEF Damaged, DamagedAfter, Lost
<1>10. CASE stuck = "no"
  <2>1. Prefix /\ byte = b /\ FallInTime
    BY <1>6, <1>10 DEF Dht11Safe, DataInv, TimeInv
  <2>2. Got' = Got
    BY <1>2, <1>3, <1>4, PlaceFacts, SizeAssumption DEF Got
  <2>3. pulse = 3 + 2 * Got /\ left <= 25
    BY <1>10, <2>1, SafeFacts DEF FallInTime, High
  <2>4. RiseInTime'
    BY <1>2, <2>2, <2>3, SafeFacts DEF RiseInTime, BitPolls
  <2>5. TimeInv'
    BY <1>2, <2>4 DEF TimeInv
  <2>6. step' = "rise" => byte' = (Received(nbit))'
    <3> SUFFICES ASSUME step' = "rise"
                 PROVE  byte' = (Received(nbit))'
      OBVIOUS
    <3>1. \A i \in frame[k2 + 1] : ~(i >= Bits - 0)
      BY <1>5, SizeAssumption DEF Byte, Places
    <3> QED
      BY <1>2, <3>1 DEF Received
  <2>7. DataInv'
    BY <1>2, <1>8, <1>10, <2>1, <2>6 DEF DataInv, AcceptedIsSent, Accepted, HealthyIsAccepted
  <2> QED
    BY <1>3, <2>5, <2>7 DEF Dht11Safe
<1>11. CASE stuck = "low"
  <2>1. Prefix /\ byte \in {b, b \ {0}}
    BY <1>6, <1>7, <1>11 DEF Dht11Safe, DataInv
  <2>2. DataInv'
    BY <1>2, <1>9, <1>11, <2>1 DEF DataInv, AcceptedIsSent, Accepted, HealthyIsAccepted
  <2>3. TimeInv'
    BY <1>2, <1>11 DEF TimeInv
  <2> QED
    BY <1>3, <2>2, <2>3 DEF Dht11Safe
<1> QED
  BY <1>10, <1>11 DEF High, Dht11Safe, Dht11TypeOK

LEMMA AwaitFallKeeps ==
  ASSUME Dht11Safe, AwaitFall
  PROVE  Dht11Safe'
<1>1. /\ step = "fall" /\ wait = 0
      /\ UNCHANGED <<frame, pulse, left, stuck, err, result, late>>
      /\ UNCHANGED <<sensorVars, err, result, late>>
  BY DEF AwaitFall, sensorVars
<1>2. /\ stuck = "no" => FallInTime /\ left > 0
      /\ cnt > 0 /\ cnt \in 0..ResponsePolls
  BY <1>1, PulseInFrame DEF Dht11Safe, Dht11TypeOK, ShapeInv, TimeInv
<1>3. ASSUME ~High, nbit < Bits, step' = "rise", cnt' = BitPolls,
             UNCHANGED <<wait, byte, nbit, databuf>>
      PROVE  Dht11Safe'
  <2>1. Dht11TypeOK'
    BY <1>1, <1>3 DEF Dht11Safe, Dht11TypeOK, Released, Steps, BitPolls, ResponsePolls
  <2>2. ShapeInv'
    BY <1>1, <1>3 DEF Dht11Safe, ShapeInv, Released, BitPolls
  <2>3. Got' = Got
    BY <1>3 DEF Got
  <2>4. TimeInv'
    BY <1>1, <1>2, <1>3, <2>3, SafeFacts DEF TimeInv, FallInTime, RiseInTime, High, BitPolls
  <2>5. DataInv'
    BY <1>1, <1>3
       DEF Dht11Safe, DataInv, Prefix, Damaged, DamagedAfter, Received, Lost,
           AcceptedIsSent, Accepted, HealthyIsAccepted
  <2> QED
    BY <2>1, <2>2, <2>4, <2>5 DEF Dht11Safe
<1>4. ASSUME High, cnt > 1, PollAgain, UNCHANGED <<step, byte, nbit, databuf>>
      PROVE  Dht11Safe'
  <2>1. cnt' = cnt - 1 /\ wait' = 1 /\ cnt' \in 0..ResponsePolls /\ cnt' > 0
    BY <1>2, <1>4 DEF PollAgain, ResponsePolls
  <2>2. Dht11TypeOK'
    BY <1>1, <1>4, <2>1 DEF Dht11Safe, Dht11TypeOK, Released, SampleDelay
  <2>3. ShapeInv'
    BY <1>1, <1>4, <2>1 DEF Dht11Safe, ShapeInv, Released
  <2>4. DataInv' /\ Got' = Got
    BY <1>1, <1>4, DataUnchanged DEF Dht11Safe
  <2>5. TimeInv'
    BY <1>1, <1>2, <1>4, <2>1, <2>4, SafeFacts DEF TimeInv, FallInTime, High
  <2> QED
    BY <2>2, <2>3, <2>4, <2>5 DEF Dht11Safe
<1>5. ASSUME High, cnt = 1, Store(Lost)
      PROVE  Dht11Safe'
  <2>1. stuck # "no"
    BY <1>1, <1>2, <1>5, SafeFacts DEF FallInTime, High
  <2> QED
    BY <1>1, <1>5, <2>1, LosingKeeps
<1> QED
  BY <1>1, <1>3, <1>4, <1>5, StoringKeeps DEF AwaitFall

\* The sum is right if nothing was lost, and only then.
LEMMA CheckKeeps ==
  ASSUME Dht11Safe, Check
  PROVE  Dht11Safe'
<1>1. /\ step = "check" /\ step' = "done"
      /\ result' = (IF SumOf(databuf) = Value(databuf[Bytes]) THEN "ok" ELSE "fault")
      /\ UNCHANGED <<frame, pulse, left, stuck, wait, cnt, err, byte, nbit, databuf, late>>
  BY DEF Check, Returns, sensorVars
<1>2. Dht11TypeOK'
  BY <1>1 DEF Dht11Safe, Dht11TypeOK, Released, Steps
<1>3. ShapeInv'
  BY <1>1 DEF Dht11Safe, ShapeInv, Released
<1>4. TimeInv'
  BY <1>1 DEF TimeInv
<1>5. frame \in Frames /\ databuf \in Seq(Byte) /\ Len(databuf) = Bytes
  BY <1>1 DEF Dht11Safe, Dht11TypeOK, ShapeInv
<1>6. stuck = "no" => databuf = frame
  BY <1>1, <1>5, SameBytes DEF Dht11Safe, DataInv
<1>7. databuf = frame => SumOf(databuf) = Value(databuf[Bytes])
  BY <1>5, FrameFacts DEF Bytes
<1>8. stuck # "no" /\ SumOf(databuf) = Value(databuf[Bytes]) => databuf = frame
  BY <1>1, <1>5, DamageIsFound DEF Dht11Safe, DataInv
<1>9. DataInv'
  BY <1>1, <1>6, <1>7, <1>8 DEF DataInv, AcceptedIsSent, Accepted, HealthyIsAccepted
<1> QED
  BY <1>2, <1>3, <1>4, <1>9 DEF Dht11Safe

-----------------------------------------------------------------------------
(* A reading begins.                                                        *)

LEMMA Beginning ==
  ASSUME NEW f \in Frames, NEW t \in ReplyTime
  PROVE  /\ t \in 1..14 /\ {} \in Byte /\ <<>> \in Seq(Byte) /\ Len(<<>>) = 0
         /\ 0 \in 0..MaxLate /\ 0 \in 0..Bits /\ 0 \in 0..Released
         /\ \A i \in 1..Len(<<>>) : <<>>[i] = f[i]
<1>1. {} \in Byte /\ <<>> \in Seq(Byte)
  BY DEF Byte
<1>2. 0 \in 0..MaxLate /\ 0 \in 0..Bits /\ 0 \in 0..Released
  BY TimeAssumption, SizeAssumption DEF Released, Bytes
<1>3. Len(<<>>) = 0
  OBVIOUS
<1>4. \A i \in 1..Len(<<>>) : <<>>[i] = f[i]
  BY <1>3
<1> QED
  BY <1>1, <1>2, <1>3, <1>4, TimeFacts

LEMMA SafeInit == DhtInit => Dht11Safe
<1> SUFFICES ASSUME DhtInit
             PROVE  Dht11Safe
  OBVIOUS
<1>1. Dht11TypeOK
  <2>1. left \in 0..40 /\ databuf \in Seq(Byte) /\ Len(databuf) <= Bytes /\ byte \in Byte
    BY Beginning, TimeFacts DEF DhtInit, Bytes
  <2>2. pulse \in 0..Released /\ nbit \in 0..Bits /\ late \in 0..MaxLate
    BY Beginning DEF DhtInit
  <2>3. wait \in 0..SampleDelay /\ cnt \in 0..ResponsePolls
    BY DEF DhtInit, ReplyPolls, ResponsePolls, SampleDelay
  <2> QED
    BY <2>1, <2>2, <2>3 DEF DhtInit, Dht11TypeOK, Steps
<1>2. ShapeInv
  BY Beginning DEF DhtInit, ShapeInv, ReplyPolls
<1>3. TimeInv
  BY Beginning DEF DhtInit, TimeInv, ReplyInTime, ReplyPolls
<1>4. DataInv
  BY Beginning DEF DhtInit, DataInv, Prefix, AcceptedIsSent, Accepted, HealthyIsAccepted
<1> QED
  BY <1>1, <1>2, <1>3, <1>4 DEF Dht11Safe

LEMMA ReadAgainKeeps == ReadAgain => Dht11Safe'
<1> SUFFICES ASSUME ReadAgain
             PROVE  Dht11Safe'
  OBVIOUS
<1>1. Dht11TypeOK'
  <2>1. /\ left' \in 0..40 /\ databuf' \in Seq(Byte) /\ Len(databuf') <= Bytes
        /\ byte' \in Byte
    BY Beginning, TimeFacts DEF ReadAgain, Bytes
  <2>2. pulse' \in 0..Released /\ nbit' \in 0..Bits /\ late' \in 0..MaxLate
    BY Beginning DEF ReadAgain
  <2>3. wait' \in 0..SampleDelay /\ cnt' \in 0..ResponsePolls
    BY DEF ReadAgain, ReplyPolls, ResponsePolls, SampleDelay
  <2> QED
    BY <2>1, <2>2, <2>3 DEF ReadAgain, Dht11TypeOK, Steps, Released
<1>2. ShapeInv'
  BY Beginning DEF ReadAgain, ShapeInv, Released, ReplyPolls
<1>3. TimeInv'
  BY Beginning DEF ReadAgain, TimeInv, ReplyInTime, ReplyPolls
<1>4. DataInv'
  BY Beginning DEF ReadAgain, DataInv, Prefix, AcceptedIsSent, Accepted, HealthyIsAccepted
<1> QED
  BY <1>1, <1>2, <1>3, <1>4 DEF Dht11Safe

LEMMA SafeStep == Dht11Safe /\ [DhtNext]_dhtVars => Dht11Safe'
<1> SUFFICES ASSUME Dht11Safe, [DhtNext]_dhtVars
             PROVE  Dht11Safe'
  OBVIOUS
<1>1. CASE Tick
  BY <1>1, TickKeeps
<1>2. CASE Drive
  BY <1>2, AwaitReplyKeeps, AwaitResponseKeeps, AwaitRiseKeeps, SampleKeeps, AwaitFallKeeps,
     CheckKeeps DEF Drive
<1>3. CASE ReadAgain
  BY <1>3, ReadAgainKeeps
<1>4. CASE \E d \in Delays : Interrupt(d)
  BY <1>4, InterruptKeeps
<1>5. CASE \E l \in {"low", "high"} : Stop(l)
  BY <1>5, StopKeeps
<1>6. CASE UNCHANGED dhtVars
  <2>1. UNCHANGED <<frame, pulse, left, stuck, step, wait, cnt, err, byte, nbit, databuf,
                    result, late>>
    BY <1>6 DEF dhtVars
  <2>2. Dht11TypeOK'
    BY <2>1 DEF Dht11Safe, Dht11TypeOK, Released
  <2>3. ShapeInv'
    BY <2>1 DEF Dht11Safe, ShapeInv, Released
  <2>4. TimeInv'
    BY <2>1 DEF Dht11Safe, TimeInv, ReplyInTime, LowInTime, HighInTime, RiseInTime,
                SampleInTime, FallInTime, Got, Place, IsOne
  <2>5. DataInv'
    BY <2>1, DataUnchanged DEF Dht11Safe
  <2> QED
    BY <2>2, <2>3, <2>4, <2>5 DEF Dht11Safe
<1> QED
  BY <1>1, <1>2, <1>3, <1>4, <1>5, <1>6 DEF DhtNext

-----------------------------------------------------------------------------
(* The driver and the sensor stay in step over the whole frame, however late *)
(* interrupts make the driver within their bounds.                           *)
THEOREM ReadingInStep == DhtSpec => []Dht11Safe
<1>1. Dht11Safe /\ UNCHANGED dhtVars => Dht11Safe'
  BY SafeStep
<1> QED
  BY SafeInit, SafeStep, <1>1, PTL DEF DhtSpec

(* No loop turns more often than its limit, and what is received are bytes,  *)
(* no more than databuf[] has room for.                                      *)
THEOREM ReadingTyped == DhtSpec => []Dht11TypeOK
<1>1. Dht11Safe => Dht11TypeOK
  BY DEF Dht11Safe
<1> QED
  BY ReadingInStep, <1>1, PTL

(* An accepted reading is the one that was sent: a sensor that stops anywhere *)
(* in its answer, leaving the line at either level, never gets a wrong one    *)
(* past the checksum.                                                         *)
THEOREM AcceptedReadingIsSent == DhtSpec => []AcceptedIsSent
<1>1. Dht11Safe => AcceptedIsSent
  BY DEF Dht11Safe, DataInv
<1> QED
  BY ReadingInStep, <1>1, PTL

(* A sensor that does not stop is never refused.                              *)
THEOREM HealthySensorAccepted == DhtSpec => []HealthyIsAccepted
<1>1. Dht11Safe => HealthyIsAccepted
  BY DEF Dht11Safe, DataInv
<1> QED
  BY ReadingInStep, <1>1, PTL
=============================================================================
