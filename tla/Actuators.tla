------------------------------ MODULE Actuators ------------------------------
(***************************************************************************)
(* The devices of the planter and the one function that drives them,       *)
(* message_queue_handler() of src/main.c.  The function is called by the   *)
(* main thread for every message of the queue and by socket threads for    *)
(* manual commands; nothing serialises the calls.  Each call is a short    *)
(* sequence of hardware accesses followed by the store that records the    *)
(* new state in g_state_<device>; one step here is one such access.        *)
(*                                                                         *)
(* STATE_X is defined as MQ_CMD_X in main.c, so the recorded state of a    *)
(* device is the name of the last command recorded for it.                 *)
(***************************************************************************)
EXTENDS Integers

CONSTANTS
  Threads,   \* the threads that may call message_queue_handler
  Issued     \* the commands they pass (a subset of Command; bounds TLC runs)

Device == {"led", "fan", "solenoid", "drain", "humidifier", "dryer"}

Command == {"LED_ON", "LED_OFF", "FAN_ON", "FAN_OFF", "FAN_VERY_FAST",
            "DRAIN_OPEN", "DRAIN_CLOSE", "SOLENOID_OPEN", "SOLENOID_CLOSE",
            "HUMIDIFIER_ON", "HUMIDIFIER_OFF", "DRYER_ON", "DRYER_OFF"}

ASSUME IssuedAssumption == Issued \subseteq Command

NoCommand == "NONE"

DeviceOf(c) ==
  CASE c \in {"LED_ON", "LED_OFF"}                  -> "led"
    [] c \in {"FAN_ON", "FAN_OFF", "FAN_VERY_FAST"} -> "fan"
    [] c \in {"SOLENOID_OPEN", "SOLENOID_CLOSE"}    -> "solenoid"
    [] c \in {"DRAIN_OPEN", "DRAIN_CLOSE"}          -> "drain"
    [] c \in {"HUMIDIFIER_ON", "HUMIDIFIER_OFF"}    -> "humidifier"
    [] c \in {"DRYER_ON", "DRYER_OFF"}              -> "dryer"
    [] OTHER                                        -> "none"

\* The commands whose code switches a relay, and the channel it switches.
RelayCommand == {c \in Command : DeviceOf(c) \in {"led", "fan", "solenoid", "dryer"}}

Channel(d) == CASE d = "led" -> 1 [] d = "solenoid" -> 2
                [] d = "fan" -> 3 [] d = "dryer"    -> 4 [] OTHER -> 0

\* relay_connect rather than relay_disconnect.
Connects(c) == c \in {"LED_ON", "SOLENOID_OPEN", "FAN_ON", "FAN_VERY_FAST", "DRYER_ON"}

\* The commands whose code sets a PWM duty rate: fan_rotate and servo_rotate.
Motor == {"fan", "drain"}
PwmCommand == {"FAN_ON", "FAN_VERY_FAST", "DRAIN_OPEN", "DRAIN_CLOSE"}

\* Mutant: the duty rate in thousandths of the period.
WidthFine(c) == CASE c = "FAN_ON" -> 60 [] c = "FAN_VERY_FAST" -> 100
                  [] c = "DRAIN_OPEN" -> 450 [] OTHER -> 0

\* Fan speed (FAN_SPEED_FAST, FAN_SPEED_VERY_FAST) or servo angle in degrees.
Width(c) == CASE c = "FAN_ON" -> 6 [] c = "FAN_VERY_FAST" -> 10
              [] c = "DRAIN_OPEN" -> 45 [] OTHER -> 0

VARIABLES
  relay,     \* channel -> whether the relay is connected
  pulse,     \* motor -> pulse width in the driver library's global 'duty'
  pwm,       \* motor -> pulse width the PWM timer runs with
  spraying,  \* whether the humidifier sprays
  insync,    \* whether the driver's press count agrees with the humidifier
  gstate,    \* device -> g_state_<device>
  pc,        \* thread -> next access of its message_queue_handler call
  cmd,       \* thread -> argument of that call
  settled    \* history: devices whose last command no other call overlapped

hwVars == <<relay, pulse, pwm, spraying, insync, gstate, pc, cmd, settled>>

Access == {"idle", "relay", "pulse", "ioctl", "press", "record"}

(* Type invariant.  Records hold commands, and a thread inside               *)
(* message_queue_handler() has a command to work on.                         *)
HwTypeOK ==
  /\ relay \in [1..4 -> BOOLEAN]
  /\ pulse \in [Motor -> {0, 6, 10, 45}]
  /\ pwm \in [Motor -> {0, 6, 10, 45}]
  /\ spraying \in BOOLEAN
  /\ insync \in BOOLEAN
  /\ gstate \in [Device -> Command]
  /\ pc \in [Threads -> Access]
  /\ cmd \in [Threads -> Command \cup {NoCommand}]
  /\ \A t \in Threads : pc[t] # "idle" => cmd[t] \in Command
  /\ settled \subseteq Device

-----------------------------------------------------------------------------
(* After devices_init() and states_init(): every relay is open, the servo   *)
(* is turned to 0 degrees by servo_init(), and no call is in progress.      *)
(* g_state_drain starts as OPEN although 0 degrees is the closed position,  *)
(* which is why "drain" is not settled until its first command.             *)

\* Mutant: the humidifier starts like the drain, with the wrong record.
StatesInitOn == [led        |-> "LED_OFF",        fan   |-> "FAN_OFF",
                 solenoid   |-> "SOLENOID_CLOSE", drain |-> "DRAIN_OPEN",
                 humidifier |-> "HUMIDIFIER_ON",  dryer |-> "DRYER_OFF"]

StatesInit == [led        |-> "LED_OFF",        fan   |-> "FAN_OFF",
               solenoid   |-> "SOLENOID_CLOSE", drain |-> "DRAIN_OPEN",
               humidifier |-> "HUMIDIFIER_OFF", dryer |-> "DRYER_OFF"]

HwInit ==
  /\ relay = [ch \in 1..4 |-> FALSE]
  /\ pulse = [m \in Motor |-> 0]
  /\ pwm = [m \in Motor |-> 0]
  /\ spraying = FALSE
  /\ insync = TRUE
  /\ gstate = StatesInit
  /\ pc = [t \in Threads |-> "idle"]
  /\ cmd = [t \in Threads |-> NoCommand]
  /\ settled = Device \ {"drain"}

-----------------------------------------------------------------------------
Busy(d) == {t \in Threads : pc[t] # "idle" /\ DeviceOf(cmd[t]) = d}

\* The first access the switch of message_queue_handler leads to.
Entry(c) == CASE DeviceOf(c) = "drain"      -> "pulse"
              [] DeviceOf(c) = "humidifier" -> "press"
              [] OTHER                      -> "relay"

\* Thread t calls message_queue_handler(c).
Begin(t, c) ==
  /\ pc[t] = "idle"
  /\ pc' = [pc EXCEPT ![t] = Entry(c)]
  /\ cmd' = [cmd EXCEPT ![t] = c]
  /\ settled' = IF Busy(DeviceOf(c)) = {} THEN settled \cup {DeviceOf(c)}
                                          ELSE settled \ {DeviceOf(c)}
  /\ UNCHANGED <<relay, pulse, pwm, spraying, insync, gstate>>

\* Mutant: fan_rotate() returns without setting the duty rate.
AfterRelayKeepsSpeed(c) == "record"

\* fan_rotate() goes on to the duty rate once the relay is connected.
AfterRelay(c) == IF c \in PwmCommand THEN "pulse" ELSE "record"

\* Mutant: relay_disconnect() connects.
SwitchRelayConnects(t) ==
  /\ pc[t] = "relay"
  /\ relay' = [relay EXCEPT ![Channel(DeviceOf(cmd[t]))] = TRUE]
  /\ pc' = [pc EXCEPT ![t] = AfterRelay(cmd[t])]
  /\ UNCHANGED <<pulse, pwm, spraying, insync, gstate, cmd, settled>>

\* relay_connect() or relay_disconnect(): one ioctl on the relay board.
SwitchRelay(t) ==
  /\ pc[t] = "relay"
  /\ relay' = [relay EXCEPT ![Channel(DeviceOf(cmd[t]))] = Connects(cmd[t])]
  /\ pc' = [pc EXCEPT ![t] = AfterRelay(cmd[t])]
  /\ UNCHANGED <<pulse, pwm, spraying, insync, gstate, cmd, settled>>

\* duty.pulse_width = ...: a store to a global all callers share.
SetPulse(t) ==
  /\ pc[t] = "pulse"
  /\ pulse' = [pulse EXCEPT ![DeviceOf(cmd[t])] = Width(cmd[t])]
  /\ pc' = [pc EXCEPT ![t] = "ioctl"]
  /\ UNCHANGED <<relay, pwm, spraying, insync, gstate, cmd, settled>>

\* ioctl(fd, ..._DUTYRATE, &duty): the driver copies whatever duty holds now.
LatchPulse(t) ==
  /\ pc[t] = "ioctl"
  /\ pwm' = [pwm EXCEPT ![DeviceOf(cmd[t])] = pulse[DeviceOf(cmd[t])]]
  /\ pc' = [pc EXCEPT ![t] = "record"]
  /\ UNCHANGED <<relay, pulse, spraying, insync, gstate, cmd, settled>>

\* humidifier_on() or humidifier_off(), which press the one button of the
\* humidifier as often as the driver's count of presses asks for (module
\* Humidifier).  Calls that overlap may end in any state and may leave the count
\* wrong; with a wrong count the presses lead anywhere, and it stays wrong.
PressButton(t) ==
  /\ pc[t] = "press"
  /\ IF "humidifier" \in settled
     THEN insync' = insync
     ELSE insync' \in BOOLEAN
  /\ IF "humidifier" \in settled /\ insync
     THEN spraying' = (cmd[t] = "HUMIDIFIER_ON")
     ELSE spraying' \in BOOLEAN
  /\ pc' = [pc EXCEPT ![t] = "record"]
  /\ UNCHANGED <<relay, pulse, pwm, gstate, cmd, settled>>

\* g_state_<device> = STATE_...; break;
Record(t) ==
  /\ pc[t] = "record"
  /\ gstate' = [gstate EXCEPT ![DeviceOf(cmd[t])] = cmd[t]]
  /\ pc' = [pc EXCEPT ![t] = "idle"]
  /\ cmd' = [cmd EXCEPT ![t] = NoCommand]
  /\ UNCHANGED <<relay, pulse, pwm, spraying, insync, settled>>

HwStep(t) == \/ SwitchRelay(t) \/ SetPulse(t) \/ LatchPulse(t)
             \/ PressButton(t) \/ Record(t)

HwNext == \E t \in Threads : HwStep(t) \/ \E c \in Issued : Begin(t, c)

HwSpec == HwInit /\ [][HwNext]_hwVars

-----------------------------------------------------------------------------
\* The hardware is in the condition command c asks for.
InEffect(c) ==
  /\ c \in RelayCommand => relay[Channel(DeviceOf(c))] = Connects(c)
  /\ c \in PwmCommand => pwm[DeviceOf(c)] = Width(c)
  /\ DeviceOf(c) = "humidifier" => spraying = (c = "HUMIDIFIER_ON")

\* The record of d can be relied on: no other call overlapped its last command,
\* and for the humidifier none ever upset the press count.
Reliable(d) == d \in settled /\ (d = "humidifier" => insync)

(* Safety.  When no call on a device is in progress and its record can be   *)
(* relied on, the device is in the condition recorded: a wrong record can   *)
(* only come from overlapping calls (or the drain's initial record), and    *)
(* for every device but the humidifier the next command that runs alone     *)
(* repairs it.                                                              *)
RecordMatchesHardware ==
  \A d \in Device : Reliable(d) /\ Busy(d) = {} => InEffect(gstate[d])

(* Every record is right whenever its device is idle, overlap or not: what  *)
(* the comment above the g_state_ variables (main.c:118) takes for granted. *)
RecordsAreTrue ==
  \A d \in Device \ {"drain"} : Busy(d) = {} => InEffect(gstate[d])

-----------------------------------------------------------------------------
(* The inductive invariant behind RecordMatchesHardware.                    *)

\* A record is always a command of its own device.
RecordsFit == \A d \in Device : DeviceOf(gstate[d]) = d

\* A call only stands before accesses its command makes.
CallFits(t) ==
  /\ pc[t] = "relay" => cmd[t] \in RelayCommand
  /\ pc[t] \in {"pulse", "ioctl"} => cmd[t] \in PwmCommand
  /\ pc[t] = "press" => DeviceOf(cmd[t]) = "humidifier"

\* What a call that runs alone has done of its work so far.
Progress(t) ==
  /\ pc[t] \in {"pulse", "ioctl"} /\ cmd[t] \in RelayCommand
       => relay[Channel(DeviceOf(cmd[t]))] = Connects(cmd[t])
  /\ pc[t] = "ioctl" => pulse[DeviceOf(cmd[t])] = Width(cmd[t])
  /\ pc[t] = "record" /\ Reliable(DeviceOf(cmd[t])) => InEffect(cmd[t])

Alone == \A d \in settled : \A t, u \in Busy(d) : t = u

(* The invariant: at most one call works on a settled device, it has done    *)
(* its part of the work, and when there is none the record is right.         *)
HwInv ==
  /\ HwTypeOK
  /\ RecordsFit
  /\ \A t \in Threads : CallFits(t)
  /\ Alone
  /\ \A d \in settled : \A t \in Busy(d) : Progress(t)
  /\ RecordMatchesHardware
=============================================================================
