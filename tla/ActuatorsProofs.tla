--------------------------- MODULE ActuatorsProofs ---------------------------
(***************************************************************************)
(* Type correctness of Actuators, and that a device whose last command no  *)
(* other call overlapped is in the condition recorded for it: for every    *)
(* set of threads and every set of commands they pass.                     *)
(***************************************************************************)
EXTENDS Actuators, TLAPS

\* What the tables of commands say, once for all proofs below.
LEMMA CommandTable ==
  ASSUME NEW c \in Command
  PROVE  /\ c # NoCommand
         /\ DeviceOf(c) \in Device
         /\ Width(c) \in {0, 6, 10, 45}
         /\ Connects(c) \in BOOLEAN
         /\ c \in RelayCommand => Channel(DeviceOf(c)) \in 1..4
         /\ c \in PwmCommand => DeviceOf(c) \in Motor
         /\ Entry(c) \in Access \ {"idle"}
         /\ AfterRelay(c) \in Access \ {"idle"}
  BY DEF Command, NoCommand, DeviceOf, Device, Width, Connects, RelayCommand, Channel,
         PwmCommand, Motor, Entry, AfterRelay, Access

\* A call enters where its command's first access is.
LEMMA EntryFits ==
  ASSUME NEW c \in Command
  PROVE  /\ Entry(c) = "relay" => c \in RelayCommand
         /\ Entry(c) = "pulse" => c \in PwmCommand /\ c \notin RelayCommand
         /\ Entry(c) = "press" => DeviceOf(c) = "humidifier"
         /\ Entry(c) \in {"relay", "pulse", "press"}
  BY DEF Command, DeviceOf, RelayCommand, PwmCommand, Entry

\* Two devices never share a relay channel.
LEMMA ChannelsDiffer ==
  ASSUME NEW b \in RelayCommand, NEW c \in RelayCommand,
         Channel(DeviceOf(b)) = Channel(DeviceOf(c))
  PROVE  DeviceOf(b) = DeviceOf(c)
  BY DEF RelayCommand, Command, DeviceOf, Channel

\* Each hardware access, and the record, keeps every variable in its range.
LEMMA StepTyped ==
  ASSUME HwTypeOK, NEW t \in Threads, CallFits(t), HwStep(t)
  PROVE  HwTypeOK' /\ settled' = settled
<1>c. pc[t] # "idle"
  BY DEF HwStep, SwitchRelay, SetPulse, LatchPulse, PressButton, Record
<1> DEFINE c == cmd[t]
<1>t. c \in Command
  BY <1>c DEF HwTypeOK
<1>f. /\ c # NoCommand
      /\ DeviceOf(c) \in Device
      /\ Width(c) \in {0, 6, 10, 45}
      /\ Connects(c) \in BOOLEAN
      /\ c \in RelayCommand => Channel(DeviceOf(c)) \in 1..4
      /\ c \in PwmCommand => DeviceOf(c) \in Motor
      /\ AfterRelay(c) \in Access \ {"idle"}
  BY <1>t, CommandTable
<1> HIDE DEF c
<1>1. CASE SwitchRelay(t)
  BY <1>1, <1>t, <1>f DEF c, SwitchRelay, HwTypeOK
<1>2. CASE SetPulse(t)
  BY <1>2, <1>t, <1>f DEF c, SetPulse, HwTypeOK, Access
<1>3. CASE LatchPulse(t)
  <2>1. DeviceOf(c) \in Motor
    BY <1>3, <1>f DEF c, LatchPulse, CallFits
  <2> QED
    BY <1>3, <2>1, <1>t DEF c, LatchPulse, HwTypeOK, Access
<1>4. CASE PressButton(t)
  BY <1>4, <1>t DEF c, PressButton, HwTypeOK, Access
<1>5. CASE Record(t)
  BY <1>5, <1>t, <1>f DEF c, Record, HwTypeOK, Access
<1> QED
  BY <1>1, <1>2, <1>3, <1>4, <1>5 DEF HwStep

\* So does the start of a call.
LEMMA BeginTyped ==
  ASSUME HwTypeOK, NEW t \in Threads, NEW c \in Command, Begin(t, c)
  PROVE  HwTypeOK'
<1>1. DeviceOf(c) \in Device /\ Entry(c) \in Access
  BY CommandTable
<1> QED
  BY <1>1 DEF Begin, HwTypeOK

\* A call keeps to the accesses of its command.
LEMMA StepFits ==
  ASSUME HwTypeOK, NEW t \in Threads, HwStep(t) \/ \E c \in Command : Begin(t, c),
         \A u \in Threads : CallFits(u)
  PROVE  \A u \in Threads : CallFits(u)'
<1> SUFFICES ASSUME NEW u \in Threads PROVE CallFits(u)'
  OBVIOUS
<1>1. CASE u # t
  BY <1>1 DEF HwTypeOK, CallFits, HwStep, Begin, SwitchRelay, SetPulse, LatchPulse,
              PressButton, Record
<1>2. CASE u = t /\ HwStep(t)
  BY <1>2 DEF HwTypeOK, CallFits, HwStep, SwitchRelay, SetPulse, LatchPulse,
              PressButton, Record, AfterRelay
<1>3. ASSUME u = t, NEW c \in Command, Begin(t, c)
      PROVE  CallFits(u)'
  BY <1>3, EntryFits DEF HwTypeOK, CallFits, Begin
<1> QED
  BY <1>1, <1>2, <1>3

\* The part of the invariant that type correctness needs.
ShapeInv == HwTypeOK /\ \A t \in Threads : CallFits(t)

LEMMA InitialRecords ==
  /\ StatesInit \in [Device -> Command]
  /\ \A d \in Device : DeviceOf(StatesInit[d]) = d
<1>1. DOMAIN StatesInit = Device
  BY DEF StatesInit, Device
<1>2. \A d \in Device : StatesInit[d] \in Command /\ DeviceOf(StatesInit[d]) = d
  BY DEF StatesInit, Device, Command, DeviceOf
<1>3. StatesInit = [d \in Device |-> StatesInit[d]]
  BY <1>1 DEF StatesInit, Device
<1> QED
  BY <1>2, <1>3

LEMMA ShapeInit == HwInit => ShapeInv
<1> SUFFICES ASSUME HwInit PROVE ShapeInv
  OBVIOUS
<1>1. gstate \in [Device -> Command]
  BY InitialRecords DEF HwInit
<1> QED
  BY <1>1 DEF HwInit, ShapeInv, HwTypeOK, CallFits, NoCommand, Access, Motor

LEMMA ShapeStep == ShapeInv /\ [HwNext]_hwVars => ShapeInv'
<1> SUFFICES ASSUME ShapeInv, [HwNext]_hwVars PROVE ShapeInv'
  OBVIOUS
<1>1. CASE UNCHANGED hwVars
  BY <1>1 DEF ShapeInv, HwTypeOK, CallFits, hwVars
<1>2. ASSUME NEW t \in Threads, HwStep(t)
      PROVE  ShapeInv'
  BY <1>2, StepTyped, StepFits DEF ShapeInv
<1>3. ASSUME NEW t \in Threads, NEW c \in Issued, Begin(t, c)
      PROVE  ShapeInv'
  <2>1. c \in Command
    BY IssuedAssumption
  <2> QED
    BY <1>3, <2>1, BeginTyped, StepFits DEF ShapeInv
<1> QED
  BY <1>1, <1>2, <1>3 DEF HwNext

(* Type correctness: every variable keeps to its range whatever calls of     *)
(* message_queue_handler() overlap.                                          *)
THEOREM HwTypeCorrect == HwSpec => []HwTypeOK
<1>1. HwInit => ShapeInv
  BY ShapeInit
<1>2. ShapeInv /\ [HwNext]_hwVars => ShapeInv'
  BY ShapeStep
<1>3. ShapeInv => HwTypeOK
  BY DEF ShapeInv
<1> QED
  BY <1>1, <1>2, <1>3, PTL DEF HwSpec

-----------------------------------------------------------------------------
\* An access for one device leaves the condition of the others alone.
LEMMA OtherDevice ==
  ASSUME HwTypeOK, NEW t \in Threads, CallFits(t), HwStep(t),
         NEW c \in Command, DeviceOf(c) # DeviceOf(cmd[t])
  PROVE  /\ InEffect(c)' <=> InEffect(c)
         /\ c \in RelayCommand => relay'[Channel(DeviceOf(c))] = relay[Channel(DeviceOf(c))]
         /\ c \in PwmCommand => pulse'[DeviceOf(c)] = pulse[DeviceOf(c)]
<1>1. c \in RelayCommand => relay'[Channel(DeviceOf(c))] = relay[Channel(DeviceOf(c))]
  <2>1. CASE SwitchRelay(t)
    <3> SUFFICES ASSUME c \in RelayCommand
                 PROVE  relay'[Channel(DeviceOf(c))] = relay[Channel(DeviceOf(c))]
      OBVIOUS
    <3>1. cmd[t] \in RelayCommand
      BY <2>1 DEF SwitchRelay, CallFits
    <3>2. Channel(DeviceOf(c)) # Channel(DeviceOf(cmd[t]))
      BY <3>1, ChannelsDiffer
    <3>3. Channel(DeviceOf(c)) \in 1..4
      BY CommandTable
    <3> QED
      BY <2>1, <3>2, <3>3 DEF SwitchRelay, HwTypeOK
  <2>2. CASE ~SwitchRelay(t)
    BY <2>2 DEF HwStep, SetPulse, LatchPulse, PressButton, Record
  <2> QED
    BY <2>1, <2>2
<1>2. c \in PwmCommand => pulse'[DeviceOf(c)] = pulse[DeviceOf(c)]
                          /\ pwm'[DeviceOf(c)] = pwm[DeviceOf(c)]
  <2>1. c \in PwmCommand => DeviceOf(c) \in Motor
    BY CommandTable
  <2> QED
    BY <2>1 DEF HwStep, SwitchRelay, SetPulse, LatchPulse, PressButton, Record, HwTypeOK
<1>3. DeviceOf(c) = "humidifier" => spraying' = spraying
  BY DEF HwStep, SwitchRelay, SetPulse, LatchPulse, PressButton, Record, CallFits
<1> QED
  BY <1>1, <1>2, <1>3 DEF InEffect

\* The start of a call touches no hardware.
LEMMA BeginEffect ==
  ASSUME NEW t \in Threads, NEW b \in Command, Begin(t, b), NEW c \in Command
  PROVE  InEffect(c)' <=> InEffect(c)
  BY DEF Begin, InEffect

\* An access leaves it alone, too, which records can be relied on.
LEMMA ReliableKept ==
  ASSUME NEW t \in Threads, HwStep(t), NEW d
  PROVE  Reliable(d)' <=> Reliable(d)
  BY DEF HwStep, SwitchRelay, SetPulse, LatchPulse, PressButton, Record, Reliable

\* A call that has done its part so far does the next part too.
LEMMA ProgressStep ==
  ASSUME HwTypeOK, NEW t \in Threads, CallFits(t), Progress(t), HwStep(t)
  PROVE  Progress(t)'
<1> DEFINE c == cmd[t]
<1>t. c \in Command /\ pc[t] # "idle"
  BY DEF HwTypeOK, HwStep, SwitchRelay, SetPulse, LatchPulse, PressButton, Record
<1>f. /\ c \in RelayCommand => Channel(DeviceOf(c)) \in 1..4
      /\ c \in PwmCommand => DeviceOf(c) \in Motor
      /\ Connects(c) \in BOOLEAN
  BY <1>t, CommandTable
<1>k. c \in RelayCommand \/ c \in PwmCommand => DeviceOf(c) # "humidifier"
  BY <1>t DEF RelayCommand, PwmCommand, DeviceOf
<1>h. DeviceOf(c) = "humidifier" => /\ c \notin RelayCommand /\ c \notin PwmCommand
  BY <1>k
<1> HIDE DEF c
<1>1. CASE SwitchRelay(t)
  <2>1. /\ c \in RelayCommand
        /\ relay'[Channel(DeviceOf(c))] = Connects(c)
        /\ cmd' = cmd
        /\ pc'[t] = AfterRelay(c)
    BY <1>1, <1>f DEF c, SwitchRelay, CallFits, HwTypeOK
  <2> QED
    BY <2>1, <1>k DEF c, Progress, InEffect, AfterRelay
<1>2. CASE SetPulse(t)
  <2>1. /\ c \in PwmCommand
        /\ pulse'[DeviceOf(c)] = Width(c)
        /\ cmd' = cmd /\ relay' = relay
        /\ pc[t] = "pulse" /\ pc'[t] = "ioctl"
    BY <1>2, <1>f DEF c, SetPulse, CallFits, HwTypeOK
  <2> QED
    BY <2>1 DEF c, Progress
<1>3. CASE LatchPulse(t)
  <2>1. /\ c \in PwmCommand
        /\ pwm'[DeviceOf(c)] = pulse[DeviceOf(c)]
        /\ cmd' = cmd /\ relay' = relay
        /\ pc[t] = "ioctl" /\ pc'[t] = "record"
    BY <1>3, <1>f DEF c, LatchPulse, CallFits, HwTypeOK
  <2>2. c \in RelayCommand => relay[Channel(DeviceOf(c))] = Connects(c)
    BY <2>1 DEF c, Progress
  <2>3. pulse[DeviceOf(c)] = Width(c)
    BY <2>1 DEF c, Progress
  <2> QED
    BY <2>1, <2>2, <2>3, <1>k DEF c, Progress, InEffect
<1>4. CASE PressButton(t)
  <2>1. /\ DeviceOf(c) = "humidifier"
        /\ Reliable("humidifier") => spraying' = (c = "HUMIDIFIER_ON")
        /\ cmd' = cmd
        /\ pc'[t] = "record"
    BY <1>4 DEF c, PressButton, CallFits, HwTypeOK, Reliable
  <2>2. Reliable("humidifier")' <=> Reliable("humidifier")
    BY ReliableKept
  <2> QED
    BY <2>1, <2>2, <1>h DEF c, Progress, InEffect, Reliable
<1>5. CASE Record(t)
  BY <1>5 DEF Progress, Record, HwTypeOK
<1> QED
  BY <1>1, <1>2, <1>3, <1>4, <1>5 DEF HwStep

\* A call in progress on one device does not disturb calls on the others.
LEMMA ProgressKept ==
  ASSUME HwTypeOK, NEW t \in Threads, CallFits(t), HwStep(t),
         NEW u \in Threads, u # t, pc[u] # "idle", CallFits(u),
         DeviceOf(cmd[u]) # DeviceOf(cmd[t]), Progress(u)
  PROVE  Progress(u)'
<1>1. pc'[u] = pc[u] /\ cmd'[u] = cmd[u]
  BY DEF HwStep, SwitchRelay, SetPulse, LatchPulse, PressButton, Record, HwTypeOK
<1>2. cmd[u] \in Command
  BY DEF HwTypeOK
<1>3. /\ InEffect(cmd[u])' <=> InEffect(cmd[u])
      /\ cmd[u] \in RelayCommand
           => relay'[Channel(DeviceOf(cmd[u]))] = relay[Channel(DeviceOf(cmd[u]))]
      /\ cmd[u] \in PwmCommand => pulse'[DeviceOf(cmd[u])] = pulse[DeviceOf(cmd[u])]
  <2> DEFINE b == cmd[u]
  <2>1. b \in Command /\ DeviceOf(b) # DeviceOf(cmd[t])
    BY <1>2
  <2> QED
    BY <1>1, <2>1, OtherDevice DEF InEffect
<1>4. Reliable(DeviceOf(cmd[u]))' <=> Reliable(DeviceOf(cmd[u]))
  BY <1>1, ReliableKept DEF Reliable
<1> QED
  BY <1>1, <1>3, <1>4 DEF Progress, CallFits, InEffect

-----------------------------------------------------------------------------
\* The busy threads of a device: t joins those of its device when its call
\* begins, leaves them when it records, and nothing else changes.
LEMMA BusyAfterBegin ==
  ASSUME HwTypeOK, NEW t \in Threads, NEW c \in Command, Begin(t, c), NEW d \in Device
  PROVE  Busy(d)' = IF d = DeviceOf(c) THEN Busy(d) \cup {t} ELSE Busy(d)
<1>1. Entry(c) # "idle"
  BY CommandTable
<1>2. ASSUME NEW u \in Threads
      PROVE  /\ u # t => pc'[u] = pc[u] /\ cmd'[u] = cmd[u]
             /\ u = t => pc[u] = "idle" /\ pc'[u] = Entry(c) /\ cmd'[u] = c
  BY <1>2 DEF Begin, HwTypeOK
<1> QED
  BY <1>1, <1>2 DEF Busy

LEMMA BusyAfterStep ==
  ASSUME HwTypeOK, NEW t \in Threads, HwStep(t), NEW d \in Device
  PROVE  /\ Record(t) => Busy(d)' = Busy(d) \ {t}
         /\ ~Record(t) => Busy(d)' = Busy(d)
         /\ t \in Busy(DeviceOf(cmd[t]))
         /\ pc[t] # "idle"
<1>1. pc[t] # "idle"
  BY DEF HwStep, SwitchRelay, SetPulse, LatchPulse, PressButton, Record
<1>2. ASSUME NEW u \in Threads, u # t
      PROVE  pc'[u] = pc[u] /\ cmd'[u] = cmd[u]
  BY <1>2 DEF HwStep, SwitchRelay, SetPulse, LatchPulse, PressButton, Record, HwTypeOK
<1>3. Record(t) => pc'[t] = "idle"
  BY DEF Record, HwTypeOK
<1>4. ~Record(t) => pc'[t] # "idle" /\ cmd'[t] = cmd[t]
  BY DEF HwStep, SwitchRelay, SetPulse, LatchPulse, PressButton, HwTypeOK, AfterRelay
<1> QED
  BY <1>1, <1>2, <1>3, <1>4 DEF Busy

LEMMA HwInvInit == HwInit => HwInv
<1> SUFFICES ASSUME HwInit PROVE HwInv
  OBVIOUS
<1>1. HwTypeOK /\ \A t \in Threads : CallFits(t)
  BY ShapeInit DEF ShapeInv
<1>2. RecordsFit
  BY InitialRecords DEF HwInit, RecordsFit
<1>3. \A d \in Device : Busy(d) = {}
  BY DEF HwInit, Busy
<1>4. \A d \in settled : d \in Device
  BY DEF HwInit
<1>5. ASSUME NEW d \in settled PROVE InEffect(gstate[d])
  <2>1. d \in {"led", "fan", "solenoid", "humidifier", "dryer"}
    BY <1>5 DEF HwInit, Device
  <2>2. gstate[d] \in {"LED_OFF", "FAN_OFF", "SOLENOID_CLOSE", "HUMIDIFIER_OFF", "DRYER_OFF"}
    BY <2>1 DEF HwInit, StatesInit
  <2>3. \A c \in {"LED_OFF", "FAN_OFF", "SOLENOID_CLOSE", "HUMIDIFIER_OFF", "DRYER_OFF"} :
          /\ c \notin PwmCommand /\ c # "HUMIDIFIER_ON" /\ ~Connects(c)
          /\ c \in RelayCommand => Channel(DeviceOf(c)) \in 1..4
    BY DEF PwmCommand, Connects, RelayCommand, Command, DeviceOf, Channel
  <2>4. relay = [ch \in 1..4 |-> FALSE] /\ spraying = FALSE
    BY DEF HwInit
  <2>5. \A c \in {"LED_OFF", "FAN_OFF", "SOLENOID_CLOSE", "HUMIDIFIER_OFF", "DRYER_OFF"} :
          Connects(c) = FALSE
    BY DEF Connects
  <2> QED
    BY <2>2, <2>3, <2>4, <2>5 DEF InEffect
<1> QED
  BY <1>1, <1>2, <1>3, <1>4, <1>5 DEF HwInv, Alone, RecordMatchesHardware, Reliable

\* The invariant survives the start of a call: it is alone on its device, or
\* its device is not settled any more.
LEMMA HwInvBegin ==
  ASSUME HwInv, NEW t \in Threads, NEW c \in Command, Begin(t, c)
  PROVE  HwInv'
<1> USE DEF HwInv
<1>e. DeviceOf(c) \in Device
  BY CommandTable
<1>1. HwTypeOK'
  BY BeginTyped
<1>2. RecordsFit'
  BY DEF Begin, RecordsFit
<1>3. \A u \in Threads : CallFits(u)'
  BY StepFits
<1>4. ASSUME NEW d \in settled', d # DeviceOf(c)
      PROVE  d \in settled /\ d \in Device /\ Busy(d)' = Busy(d)
  <2>1. d \in settled /\ d \in Device
    BY <1>4 DEF Begin, HwTypeOK
  <2> QED
    BY <2>1, <1>4, BusyAfterBegin
<1>5. DeviceOf(c) \in settled' => Busy(DeviceOf(c))' = {t}
  <2>1. DeviceOf(c) \in settled' => Busy(DeviceOf(c)) = {}
    BY DEF Begin
  <2> QED
    BY <2>1, <1>e, BusyAfterBegin
<1>6. Alone'
  BY <1>4, <1>5 DEF Alone
<1>7. ASSUME NEW d \in settled', NEW u \in Busy(d)'
      PROVE  Progress(u)'
  <2>1. CASE d = DeviceOf(c)
    <3>1. u = t
      BY <2>1, <1>5, <1>7
    <3>2. pc'[t] = Entry(c) /\ cmd'[t] = c
      BY DEF Begin, HwTypeOK
    <3> QED
      BY <3>1, <3>2, EntryFits DEF Progress
  <2>2. CASE d # DeviceOf(c)
    <3>1. d \in settled /\ u \in Busy(d) /\ Progress(u)
      BY <2>2, <1>4, <1>7
    <3>2. u \in Threads /\ pc[u] # "idle" /\ cmd[u] \in Command
      BY <3>1 DEF Busy, HwTypeOK
    <3>3. u # t /\ pc'[u] = pc[u] /\ cmd'[u] = cmd[u] /\ relay' = relay /\ pulse' = pulse
      BY <3>2 DEF Begin, HwTypeOK
    <3>4. InEffect(cmd[u])' <=> InEffect(cmd[u])
      BY <3>3 DEF Begin, InEffect
    <3>5. Reliable(DeviceOf(cmd[u]))' => Reliable(DeviceOf(cmd[u]))
      BY <3>1, <3>3 DEF Begin, Busy, Reliable
    <3> QED
      BY <3>1, <3>3, <3>4, <3>5 DEF Progress, InEffect
  <2> QED
    BY <2>1, <2>2
<1>8. RecordMatchesHardware'
  <2> SUFFICES ASSUME NEW d \in Device, Reliable(d)', Busy(d)' = {}
               PROVE  InEffect(gstate[d])'
    BY DEF RecordMatchesHardware
  <2>0. d \in settled'
    BY DEF Reliable
  <2>1. d # DeviceOf(c)
    BY <2>0, <1>5
  <2>2. Reliable(d) /\ Busy(d) = {}
    BY <2>0, <2>1, <1>4 DEF Begin, Reliable
  <2>3. InEffect(gstate[d])
    BY <2>2 DEF RecordMatchesHardware
  <2> QED
    BY <2>3 DEF Begin, InEffect
<1> QED
  BY <1>1, <1>2, <1>3, <1>6, <1>7, <1>8

\* The invariant survives a step of a call: the call moves on, and a record is
\* only written once the hardware is in its condition.
LEMMA HwInvStep ==
  ASSUME HwInv, NEW t \in Threads, HwStep(t)
  PROVE  HwInv'
<1> USE DEF HwInv
<1> DEFINE b == DeviceOf(cmd[t])
<1>i. t \in Busy(b) /\ pc[t] # "idle"
  BY BusyAfterStep DEF Device
<1>c. cmd[t] \in Command /\ b \in Device
  BY <1>i, CommandTable DEF HwTypeOK
<1>1. HwTypeOK' /\ settled' = settled
  BY StepTyped
<1>d. \A d \in settled : d \in Device
  BY DEF HwTypeOK
<1>2. RecordsFit'
  <2>1. CASE Record(t)
    BY <2>1, <1>c DEF Record, RecordsFit, HwTypeOK
  <2>2. CASE ~Record(t)
    BY <2>2 DEF HwStep, SwitchRelay, SetPulse, LatchPulse, PressButton, RecordsFit
  <2> QED
    BY <2>1, <2>2
<1>3. \A u \in Threads : CallFits(u)'
  BY StepFits
<1>4. \A d \in settled : Busy(d)' \subseteq Busy(d)
  BY <1>d, BusyAfterStep
<1>5. Alone'
  BY <1>1, <1>4 DEF Alone
<1>6. b \in settled => Progress(t)
  BY <1>i
<1>7. ASSUME NEW d \in settled', NEW u \in Busy(d)'
      PROVE  Progress(u)'
  <2>1. d \in settled /\ u \in Busy(d) /\ Progress(u)
    BY <1>1, <1>4
  <2>2. u \in Threads /\ pc[u] # "idle" /\ DeviceOf(cmd[u]) = d
    BY <2>1 DEF Busy
  <2>3. CASE u = t
    BY <2>3, <2>1, ProgressStep
  <2>4. CASE u # t
    <3>1. d # b
      BY <2>4, <2>1, <1>i DEF Alone
    <3> QED
      BY <2>1, <2>2, <2>4, <3>1, ProgressKept
  <2> QED
    BY <2>3, <2>4
<1>8. RecordMatchesHardware'
  <2> SUFFICES ASSUME NEW d \in Device, Reliable(d)', Busy(d)' = {}
               PROVE  InEffect(gstate[d])'
    BY DEF RecordMatchesHardware
  <2>0. Reliable(d) /\ d \in settled
    BY ReliableKept DEF Reliable
  <2>1. CASE d = b
    <3>1. Record(t)
      BY <2>1, <1>i, <1>c, BusyAfterStep
    <3>2. InEffect(cmd[t])
      BY <3>1, <2>0, <2>1, <1>6 DEF Record, Progress
    <3>3. gstate'[d] = cmd[t] /\ UNCHANGED <<relay, pwm, spraying>>
      BY <3>1, <2>1, <1>c DEF Record, HwTypeOK
    <3> QED
      BY <3>2, <3>3 DEF InEffect
  <2>2. CASE d # b
    <3>1. Busy(d) = {}
      <4>1. t \notin Busy(d)
        BY <2>2 DEF Busy
      <4> QED
        BY <4>1, <1>d, BusyAfterStep
    <3>2. InEffect(gstate[d])
      BY <3>1, <2>0 DEF RecordMatchesHardware
    <3>3. gstate'[d] = gstate[d]
      BY <2>2, <1>d DEF HwStep, SwitchRelay, SetPulse, LatchPulse, PressButton, Record, HwTypeOK
    <3>4. gstate[d] \in Command /\ DeviceOf(gstate[d]) = d
      BY <1>d DEF HwTypeOK, RecordsFit
    <3> DEFINE g == gstate[d]
    <3>5. InEffect(g)' <=> InEffect(g)
      BY <3>3, <3>4, <2>2, OtherDevice DEF InEffect
    <3> QED
      BY <3>2, <3>5
  <2> QED
    BY <2>1, <2>2
<1> QED
  BY <1>1, <1>2, <1>3, <1>5, <1>7, <1>8

(* The inductive step of HwInv for every step of the specification.          *)
LEMMA HwInvNext == HwInv /\ [HwNext]_hwVars => HwInv'
<1> SUFFICES ASSUME HwInv, [HwNext]_hwVars PROVE HwInv'
  OBVIOUS
<1>1. CASE UNCHANGED hwVars
  BY <1>1 DEF HwInv, HwTypeOK, RecordsFit, CallFits, Alone, Busy, Progress, InEffect,
              Reliable, RecordMatchesHardware, hwVars
<1>2. ASSUME NEW t \in Threads, HwStep(t) PROVE HwInv'
  BY <1>2, HwInvStep
<1>3. ASSUME NEW t \in Threads, NEW c \in Issued, Begin(t, c) PROVE HwInv'
  BY <1>3, IssuedAssumption, HwInvBegin
<1> QED
  BY <1>1, <1>2, <1>3 DEF HwNext

(* For any number of concurrent callers of message_queue_handler(): when a   *)
(* device is idle and no other call overlapped its last command, its         *)
(* hardware is in the condition g_state_<device> records.                    *)
THEOREM RecordsCorrect == HwSpec => []RecordMatchesHardware
<1>1. HwInv => RecordMatchesHardware
  BY DEF HwInv
<1> QED
  BY <1>1, HwInvInit, HwInvNext, PTL DEF HwSpec
=============================================================================
