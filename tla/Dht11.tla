-------------------------------- MODULE Dht11 --------------------------------
(***************************************************************************)
(* One reading of the DHT11 humidity and temperature sensor: the driver    *)
(* mds2450_dht11.c, which polls the single data line, against the sensor,  *)
(* which answers with pulses on it.  A bit is a low and a high pulse, and   *)
(* its value is the length of the high one, so everything depends on time. *)
(* The unit of time is 2 us, the udelay() of the driver's polling loops.   *)
(*                                                                         *)
(* The sensor may stop at any moment and leave the line at either level;   *)
(* interrupts may delay the driver before any of its accesses, by at most  *)
(* MaxLate units in all between two rising edges of the line.              *)
(*                                                                         *)
(* A byte is the set of the places of its bits that are 1, place 0 being    *)
(* the lowest.                                                             *)
(***************************************************************************)
EXTENDS Integers, Sequences

CONSTANTS
  Bits,      \* bits of a byte (8 in the code)
  Frames,    \* frames the sensor may send
  ReplyTime, \* units it may take from the end of the start signal to its reply
  ZeroTime,  \* units the high pulse of a 0 may last
  Delays,    \* units an interrupt may take
  MaxLate    \* units the driver may be delayed between two rising edges

Bytes == 5              \* databuf[5], the last of them the checksum
Places == 0..(Bits - 1)
Byte == SUBSET Places
Ones == Places          \* (unsigned char) -1

Value(b) ==
  LET Worth(i, w) == IF i \in b THEN w ELSE 0
  IN  Worth(0, 1) + Worth(1, 2) + Worth(2, 4) + Worth(3, 8)
      + Worth(4, 16) + Worth(5, 32) + Worth(6, 64) + Worth(7, 128)

SumOf(buf) == Value(buf[1]) + Value(buf[2]) + Value(buf[3]) + Value(buf[4])

\* What the datasheet says of frames: the checksum is the sum of the data, and
\* readings in the sensor's range neither sum up to 255 nor start with 0.
FramesAssumption ==
  \A f \in Frames : /\ f \in [1..Bytes -> Byte]
                    /\ Value(f[Bytes]) = SumOf(f) /\ SumOf(f) < Value(Ones)
                    /\ Value(f[1]) > 0

ASSUME SizeAssumption == Bits \in 1..8
ASSUME SensorAssumption == FramesAssumption
\* The reply comes within 28 us, and no interrupt hides the pulse of a 0.
ASSUME TimeAssumption == /\ MaxLate \in 0..12 /\ Delays \subseteq 1..MaxLate
                         /\ ReplyTime \subseteq 1..14
                         /\ ZeroTime \subseteq (MaxLate + 1)..15

VARIABLES
  frame,    \* the frame the sensor sends
  pulse,    \* number of the pulse the line is at: even ones are high
  left,     \* units left of it
  stuck,    \* "no", or the level at which the sensor has left the line
  step,     \* where the driver stands
  wait,     \* units left of its udelay() or of an interrupt
  cnt,      \* delay_cnt
  err,      \* err: a wait for the response has timed out
  byte,     \* DHT11_byte
  nbit,     \* how many bits of it were received: 7 - i
  databuf,  \* bytes received
  result,   \* what read() returned: "none" yet, "ok" or "fault" (-EFAULT)
  late      \* units the driver was delayed since the last rising edge

sensorVars == <<frame, pulse, left, stuck>>
dhtVars == <<frame, pulse, left, stuck, step, wait, cnt, err, byte, nbit, databuf, result, late>>

-----------------------------------------------------------------------------
(* The sensor.  Pulse 0 is the released line, 1 and 2 the response, then low *)
(* and high for each bit, a last low, and the released line again.          *)

Released == 4 + 2 * Bits * Bytes

\* The n-th bit of a frame, highest bit of each byte first, is a 1.
IsOne(f, n) == Bits - 1 - (n % Bits) \in f[1 + n \div Bits]

Length(f, p) == CASE p = 0               -> ReplyTime
                  [] p \in {1, 2}        -> {40}
                  [] p > 2 /\ p % 2 = 1 -> {25}
                  [] p = Released        -> {0}
                  [] OTHER               -> IF IsOne(f, (p - 4) \div 2) THEN {35} ELSE ZeroTime

High == IF stuck = "no" THEN pulse % 2 = 0 ELSE stuck = "high"

\* The line, one unit later.
LineMoves ==
  /\ IF stuck # "no" \/ pulse = Released
     THEN UNCHANGED <<pulse, left>>
     ELSE IF left > 1
     THEN pulse' = pulse /\ left' = left - 1
     ELSE pulse' = pulse + 1 /\ left' \in Length(frame, pulse + 1)
  /\ UNCHANGED <<frame, stuck>>

Rises == pulse' # pulse /\ pulse' % 2 = 0

\* The sensor stops and leaves the line at level l; the rest of the frame is
\* never sent.
Stop(l) ==
  /\ stuck = "no" /\ step # "done"
  /\ stuck' = l /\ pulse' = Released /\ left' = 0
  /\ UNCHANGED <<frame, step, wait, cnt, err, byte, nbit, databuf, result, late>>

-----------------------------------------------------------------------------
(* Time.                                                                    *)

\* A unit of a udelay() or an interrupt; what is left of it at a rising edge
\* delays the driver after that edge.
Tick ==
  /\ wait > 0
  /\ wait' = wait - 1
  /\ LineMoves
  /\ late' = IF Rises THEN wait' ELSE late
  /\ UNCHANGED <<step, cnt, err, byte, nbit, databuf, result>>

\* An interrupt of d units before the driver's next access.  (It makes no
\* difference once the line does not move any more.)
Interrupt(d) ==
  /\ wait = 0 /\ step # "done" /\ stuck = "no"
  /\ late + d <= MaxLate
  /\ wait' = d /\ late' = late + d
  /\ UNCHANGED <<sensorVars, step, cnt, err, byte, nbit, databuf, result>>

-----------------------------------------------------------------------------
(* The driver.                                                              *)

ReplyPolls == 15
ResponsePolls == 45
BitPolls == 30
SampleLate == 24        \* mutant
SampleDelay == 16       \* udelay(32)
LostAsInt == 0..31      \* mutant: an int's -1, not a byte's
Lost == Ones            \* what DHT11_read_byte() returns when a wait times out

\* DHT11_read() up to the end of its start signal.
DhtInit ==
  /\ frame \in Frames /\ pulse = 0 /\ left \in ReplyTime /\ stuck = "no"
  /\ step = "reply" /\ wait = 0 /\ cnt = ReplyPolls /\ err = FALSE
  /\ byte = {} /\ nbit = 0 /\ databuf = <<>> /\ result = "none" /\ late = 0

Returns(r) == step' = "done" /\ result' = r

\* One more turn of a polling loop.
PollAgain == cnt' = cnt - 1 /\ wait' = 1

\* STEP2: the loop that returns -EFAULT when its turns are over.
AwaitReply ==
  /\ step = "reply" /\ wait = 0
  /\ \/ /\ ~High
        /\ step' = "low" /\ cnt' = ResponsePolls
        /\ UNCHANGED <<wait, result>>
     \/ /\ High /\ cnt > 1
        /\ PollAgain
        /\ UNCHANGED <<step, result>>
     \/ /\ High /\ cnt = 1
        /\ Returns("fault")
        /\ UNCHANGED <<wait, cnt>>
  /\ UNCHANGED <<sensorVars, err, byte, nbit, databuf, late>>

\* STEP3 and STEP4: the loops that note the end of their turns and go on.  The
\* count is kept at 0 from then on: only its passing 0 is looked at.
AwaitResponse(level) ==
  /\ step = (IF level THEN "low" ELSE "high") /\ wait = 0
  /\ \/ /\ High = level /\ err
        /\ Returns("fault")
        /\ UNCHANGED <<wait, cnt, err>>
     \/ /\ High = level /\ ~err
        /\ step' = (IF level THEN "high" ELSE "rise")
        /\ cnt' = (IF level THEN ResponsePolls ELSE BitPolls)
        /\ UNCHANGED <<wait, err, result>>
     \/ /\ High # level
        /\ cnt' = (IF cnt > 0 THEN cnt - 1 ELSE 0) /\ wait' = 1
        /\ err' = (err \/ cnt = 1)
        /\ UNCHANGED <<step, result>>
  /\ UNCHANGED <<sensorVars, byte, nbit, databuf, late>>

\* databuf[i] = DHT11_read_byte(), which returns v.
Store(v) ==
  /\ databuf' = Append(databuf, v)
  /\ byte' = {} /\ nbit' = 0
  /\ step' = IF Len(databuf) + 1 = Bytes THEN "check" ELSE "rise"
  /\ cnt' = BitPolls /\ wait' = 0

\* STEP5: until the line rises, or the byte is given up.
AwaitRise ==
  /\ step = "rise" /\ wait = 0
  /\ \/ /\ High
        /\ step' = "sample" /\ wait' = SampleDelay
        /\ UNCHANGED <<cnt, byte, nbit, databuf>>
     \/ /\ ~High /\ cnt > 1
        /\ PollAgain
        /\ UNCHANGED <<step, byte, nbit, databuf>>
     \/ /\ ~High /\ cnt = 1
        /\ Store(Lost)
  /\ UNCHANGED <<sensorVars, err, result, late>>

\* STEP6: the bit is 1 if the line is still high.
Sample ==
  /\ step = "sample" /\ wait = 0
  /\ byte' = IF High THEN byte \cup {Bits - 1 - nbit} ELSE byte
  /\ nbit' = nbit + 1
  /\ step' = "fall" /\ cnt' = BitPolls
  /\ UNCHANGED <<sensorVars, wait, err, databuf, result, late>>

\* Mutant: the turns of the loop are not counted.
AwaitFallEndlessly ==
  /\ step = "fall" /\ wait = 0
  /\ \/ /\ ~High /\ nbit < Bits
        /\ step' = "rise" /\ cnt' = BitPolls
        /\ UNCHANGED <<wait, byte, nbit, databuf>>
     \/ /\ ~High /\ nbit = Bits
        /\ Store(byte)
     \/ /\ High
        /\ wait' = 1
        /\ UNCHANGED <<step, cnt, byte, nbit, databuf>>
  /\ UNCHANGED <<sensorVars, err, result, late>>

\* Until the line falls, or the byte is given up.
AwaitFall ==
  /\ step = "fall" /\ wait = 0
  /\ \/ /\ ~High /\ nbit < Bits
        /\ step' = "rise" /\ cnt' = BitPolls
        /\ UNCHANGED <<wait, byte, nbit, databuf>>
     \/ /\ ~High /\ nbit = Bits
        /\ Store(byte)
     \/ /\ High /\ cnt > 1
        /\ PollAgain
        /\ UNCHANGED <<step, byte, nbit, databuf>>
     \/ /\ High /\ cnt = 1
        /\ Store(Lost)
  /\ UNCHANGED <<sensorVars, err, result, late>>

\* Mutant: the checksum is not looked at.
CheckNothing ==
  /\ step = "check"
  /\ Returns("ok")
  /\ UNCHANGED <<sensorVars, wait, cnt, err, byte, nbit, databuf, late>>

\* The checksum, an int, is compared with the last byte received.
Check ==
  /\ step = "check"
  /\ Returns(IF SumOf(databuf) = Value(databuf[Bytes]) THEN "ok" ELSE "fault")
  /\ UNCHANGED <<sensorVars, wait, cnt, err, byte, nbit, databuf, late>>

Drive == \/ AwaitReply \/ \E level \in BOOLEAN : AwaitResponse(level)
         \/ AwaitRise \/ Sample \/ AwaitFall \/ Check

\* humitemp_handler() sleeps and reads again; the sensor answers anew.
ReadAgain ==
  /\ step = "done"
  /\ frame' \in Frames /\ pulse' = 0 /\ left' \in ReplyTime /\ stuck' = "no"
  /\ step' = "reply" /\ wait' = 0 /\ cnt' = ReplyPolls /\ err' = FALSE
  /\ byte' = {} /\ nbit' = 0 /\ databuf' = <<>> /\ result' = "none" /\ late' = 0

DhtNext == \/ Tick \/ Drive \/ ReadAgain
           \/ \E d \in Delays : Interrupt(d)
           \/ \E l \in {"low", "high"} : Stop(l)

DhtSpec == DhtInit /\ [][DhtNext]_dhtVars

\* Time passes and the driver runs; interrupts and the sensor's stopping are
\* not to be counted on.
DhtFairSpec == DhtSpec /\ WF_dhtVars(Tick) /\ WF_dhtVars(Drive)

-----------------------------------------------------------------------------
Steps == {"reply", "low", "high", "rise", "sample", "fall", "check", "done"}

(* Type invariant.  What is received are bytes, and no loop turns more       *)
(* often than its limit.                                                     *)
Dht11TypeOK ==
  /\ frame \in Frames
  /\ pulse \in 0..Released /\ left \in 0..40
  /\ stuck \in {"no", "low", "high"}
  /\ step \in Steps
  /\ wait \in 0..SampleDelay /\ cnt \in 0..ResponsePolls
  /\ err \in BOOLEAN
  /\ nbit \in 0..Bits /\ byte \in Byte
  /\ databuf \in Seq(Byte) /\ Len(databuf) <= Bytes
  /\ result \in {"none", "ok", "fault"}
  /\ late \in 0..MaxLate

\* humitemp_read() takes a reading that read() returned: its own tests compare
\* an unsigned char with -1 and never fail.
Accepted == step = "done" /\ result = "ok"

(* Safety.  An accepted reading is the one the sensor sent: neither a sensor *)
(* that stops anywhere in its answer, with the line at either level, nor     *)
(* interrupts get a wrong reading past the checksum, which is all that       *)
(* stands against bytes given up as 255.                                     *)
AcceptedIsSent == Accepted => databuf = frame

(* Safety.  A sensor that does not stop is never refused: the driver's       *)
(* sample falls between the ends of a 0 and of a 1, its loops wait long      *)
(* enough, and it stays in step with the pulses over the whole frame.        *)
HealthyIsAccepted == step = "done" /\ stuck = "no" => result = "ok"

\* The one case in which DHT11_read() does not return.
Hangs == stuck # "no" /\ step \in {"low", "high"}

(* Liveness.  A reading ends, unless the sensor stops while the driver is in *)
(* the two loops that wait for its response: afterwards every wait is        *)
(* limited, so a sensor that stops in the middle of a frame blocks nobody.   *)
ReadEnds == step = "reply" ~> (step = "done" \/ Hangs)

(* "STEP3: block 80us until pin gets high" (mds2450_dht11.c:120), with a      *)
(* counter that is to end the wait: whatever the sensor does the driver      *)
(* leaves the two loops that wait for the response.                          *)
ResponseWaitEnds == step \in {"low", "high"} ~> step \notin {"low", "high"}
=============================================================================
