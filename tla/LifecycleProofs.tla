---------------------------- MODULE LifecycleProofs ----------------------------
(***************************************************************************)
(* Theorems about the lives of the process, for any number of connections, *)
(* any polling threads and any queue: type correctness, that records are   *)
(* right in every life, that neither a restart nor an old queue lets water *)
(* in, and that shutdown turns off what nobody else is using.              *)
(***************************************************************************)
EXTENDS Lifecycle, PlanterProofs

\* What a process finds that does not run yet.
DownInv ==
  life = "down" => /\ gstate = StatesInit
                   /\ insync = ~spraying
                   /\ \A t \in Threads : pc[t] = "idle"

LifeInv == LifeTypeOK /\ HwInv /\ ValveInv /\ DownInv

\* Steps of Planter, taken by a process that runs.
PlanterStep ==
  /\ Next /\ Running
  /\ UNCHANGED <<life, todo>>
  /\ conn' \in {conn, FALSE}
  /\ touched' = touched \/ Touch

\* Steps of threads that find something closed and leave the devices alone.
ClosedStep ==
  \/ \E p \in Pollers : SenseClosed(p)
  \/ \E c \in Clients : QueryFails(c)

\* Accesses of other threads that the handler spoils.
SpoiledStep == \E t \in Threads : LostAccess(t) \/ PressOverlap(t)

\* A step of resources_deinit() before the last, as far as the devices go.
NotLast ==
  /\ life = "stopping" /\ life' = "stopping"
  /\ todo # 11 /\ todo' = todo + 1 /\ settled' = {} /\ touched' = touched
  /\ UNCHANGED <<gstate, pc, cmd, planterVars>>

LEMMA StepCount == Len(DeinitSteps) = 11
  BY DEF DeinitSteps

\* Where the handler stands, as a number.
LEMMA StepNumbers ==
  ASSUME todo \in 1..Len(DeinitSteps)
  PROVE  /\ At("relays") => todo = 1
         /\ At("relay file") => todo = 2
         /\ At("servo") => todo = 3
         /\ At("servo duty") => todo = 4
         /\ At("servo file") => todo = 5
         /\ At("sensors") => todo = 6
         /\ At("fan file") => todo = 7
         /\ At("humidifier") => todo = 8
         /\ At("humidifier file") => todo = 9
         /\ At("database") => todo = 10
         /\ At("exit") => todo = 11
<1>1. todo \in 1..11
  BY StepCount
<1>2. /\ DeinitSteps[1] = "relays" /\ DeinitSteps[2] = "relay file"
      /\ DeinitSteps[3] = "servo" /\ DeinitSteps[4] = "servo duty"
      /\ DeinitSteps[5] = "servo file" /\ DeinitSteps[6] = "sensors"
      /\ DeinitSteps[7] = "fan file" /\ DeinitSteps[8] = "humidifier"
      /\ DeinitSteps[9] = "humidifier file" /\ DeinitSteps[10] = "database"
      /\ DeinitSteps[11] = "exit"
  BY DEF DeinitSteps
<1>3. todo = 1 \/ todo = 2 \/ todo = 3 \/ todo = 4 \/ todo = 5 \/ todo = 6
      \/ todo = 7 \/ todo = 8 \/ todo = 9 \/ todo = 10 \/ todo = 11
  BY <1>1
<1> QED
  BY <1>2, <1>3 DEF At

\* Every step is of one of these kinds.
LEMMA LifeSplit ==
  ASSUME LifeNext
  PROVE  PlanterStep \/ ClosedStep \/ SpoiledStep \/ SigInt \/ Handler \/ Crash \/ Start
<1>m. Main \in Threads
  BY ThreadsAssumption
<1>1. CASE MainStep
  <2>1. Next
    BY <1>1, <1>m DEF MainStep, Next, Await
  <2> QED
    BY <1>1, <2>1 DEF MainStep, PlanterStep, Running, lifeVars
<1>2. ASSUME NEW t \in Threads, DeviceStep(t) PROVE PlanterStep
  BY <1>2 DEF DeviceStep, PlanterStep, Next, lifeVars
<1>3. ASSUME NEW p \in Pollers, PollStep(p) PROVE PlanterStep \/ ClosedStep
  BY <1>3 DEF PollStep, Insert, ClosedStep, PlanterStep, Next, Poll, lifeVars
<1>4. ASSUME NEW c \in Clients, ServeStep(c) PROVE PlanterStep \/ ClosedStep
  BY <1>4 DEF ServeStep, ClosedStep, PlanterStep, Next, Serve
<1>5. ASSUME NEW c \in Clients, AwaitStep(c) PROVE PlanterStep
  BY <1>5 DEF AwaitStep, PlanterStep, Next, Await
<1> QED
  BY <1>1, <1>2, <1>3, <1>4, <1>5 DEF LifeNext, SpoiledStep

-----------------------------------------------------------------------------
\* Where no device is settled there is little to keep.
LEMMA Unsettled ==
  ASSUME HwTypeOK', RecordsFit', \A t \in Threads : CallFits(t)', settled' = {}
  PROVE  HwInv'
  BY DEF HwInv, Alone, RecordMatchesHardware, Reliable

LEMMA LifeInvInit == LifeInit => LifeInv
<1> SUFFICES ASSUME LifeInit PROVE LifeInv
  OBVIOUS
<1>1. TypeOK /\ ValveInv
  BY PlanterInvInit, ValveInvInit DEF LifeInit, PlanterInv
<1>2. HwInv
  BY HwInvInit DEF LifeInit, Init
<1>3. LifeTypeOK
  BY <1>1, StepCount DEF LifeInit, LifeTypeOK
<1> QED
  BY <1>1, <1>2, <1>3 DEF LifeInit, LifeInv, DownInv

\* Planter's own steps, while there is a process.
LEMMA LifeInvPlanter ==
  ASSUME LifeInv, PlanterStep
  PROVE  LifeInv'
<1> USE DEF LifeInv
<1>1. PlanterInv' /\ ValveInv' /\ [HwNext]_hwVars
  BY ValveInvStep, PlanterInvStep DEF PlanterStep, ValveInv
<1>2. HwInv' /\ TypeOK' /\ HwTypeOK'
  BY <1>1, HwInvNext DEF PlanterInv, TypeOK
<1>3. touched' \subseteq Device
  <2>1. \A t \in Threads : pc'[t] # "idle" => DeviceOf(cmd'[t]) \in Device
    BY <1>2, CommandTable DEF HwTypeOK
  <2> QED
    BY <2>1 DEF PlanterStep, Touch, LifeTypeOK
<1>4. LifeTypeOK'
  BY <1>2, <1>3 DEF PlanterStep, LifeTypeOK
<1> QED
  BY <1>1, <1>2, <1>4 DEF PlanterStep, Running, DownInv

\* Closed sensors and a closed database.
LEMMA LifeInvClosed ==
  ASSUME LifeInv, ClosedStep
  PROVE  LifeInv' /\ UNCHANGED <<hwVars, lifeVars>>
<1> USE DEF LifeInv
<1>h. UNCHANGED <<hwVars, lifeVars>>
  BY DEF ClosedStep, SenseClosed, QueryFails
<1>1. TypeOK /\ HwTypeOK
  BY DEF LifeTypeOK, TypeOK
<1>2. HwTypeOK' /\ HwInv' /\ DownInv' /\ \A t \in Threads : CallFits(t)'
  BY <1>h, <1>1, HwInvNext DEF HwTypeOK, CallFits, hwVars, lifeVars, HwInv, DownInv
<1>3. ASSUME NEW p \in Pollers, SenseClosed(p) PROVE TypeOK' /\ ValveInv'
  <2>1. p \in PollerName /\ Last(p) \in Nat \ {0}
    BY RuleCount, PollersAssumption
  <2>2. pend[p] = NoCommand
    BY <1>1, <1>3 DEF SenseClosed, TypeOK
  <2>3. beyond' \in [Chain -> SUBSET Side]
    BY <1>1, <1>3 DEF SenseClosed, TypeOK
  <2>4. TypeOK'
    BY <1>1, <1>2, <1>3, <2>1, <2>2, <2>3 DEF SenseClosed, TypeOK
  <2> QED
    BY <1>2, <1>3, <2>4, <1>h DEF SenseClosed, ValveInv, PlanterInv, hwVars
<1>4. ASSUME NEW c \in Clients, QueryFails(c) PROVE TypeOK' /\ ValveInv'
  <2>1. TypeOK'
    BY <1>1, <1>2, <1>4 DEF QueryFails, Goto, TypeOK, Stage
  <2> QED
    BY <1>2, <1>4, <2>1, <1>h DEF QueryFails, ValveInv, PlanterInv, hwVars
<1>5. TypeOK' /\ ValveInv'
  BY <1>3, <1>4 DEF ClosedStep
<1> QED
  BY <1>2, <1>5, <1>h DEF LifeTypeOK, lifeVars

\* Accesses to closed files, and two at the button.
LEMMA LifeInvSpoiled ==
  ASSUME LifeInv, SpoiledStep
  PROVE  LifeInv'
<1> USE DEF LifeInv
<1>1. TypeOK /\ HwTypeOK /\ PlanterInv
  BY DEF LifeTypeOK, TypeOK, ValveInv
<1>2. PICK t \in Threads : LostAccess(t) \/ PressOverlap(t)
  BY DEF SpoiledStep
<1>p. /\ UNCHANGED <<cmd, gstate, planterVars, lifeVars, relay, pulse, pwm>>
      /\ pc[t] \in {"relay", "ioctl", "press"}
      /\ pc' = [pc EXCEPT ![t] = IF pc[t] = "relay" THEN AfterRelay(cmd[t]) ELSE "record"]
      /\ settled' \subseteq settled \ {DeviceOf(cmd[t])}
  BY <1>2 DEF LostAccess, PressOverlap, FileClosed
<1>c. cmd[t] \in Command
  BY <1>1, <1>p DEF HwTypeOK
<1>3. HwTypeOK'
  <2>1. AfterRelay(cmd[t]) \in Access /\ AfterRelay(cmd[t]) # "idle"
    BY <1>c, CommandTable
  <2>2. pc' \in [Threads -> Access] /\ \A u \in Threads : pc'[u] # "idle" => pc[u] # "idle"
    BY <1>1, <1>p, <2>1 DEF HwTypeOK, Access
  <2>3. spraying' \in BOOLEAN /\ insync' \in BOOLEAN
    BY <1>1, <1>2 DEF LostAccess, PressOverlap, HwTypeOK
  <2> QED
    BY <1>1, <1>p, <2>2, <2>3 DEF HwTypeOK
<1>4. \A u \in Threads : CallFits(u)'
  BY <1>1, <1>p DEF PlanterInv, CallFits, AfterRelay, HwTypeOK
<1>5. HwInv'
  <2>1. CASE PressOverlap(t)
    BY <2>1, <1>3, <1>4, <1>p, Unsettled DEF PressOverlap, HwInv, RecordsFit
  <2>2. CASE LostAccess(t)
    <3>1. UNCHANGED <<relay, pulse, pwm, spraying, insync, gstate, cmd>>
      BY <2>2 DEF LostAccess
    <3>2. \A u \in Threads : u # t => pc'[u] = pc[u]
      BY <1>1, <1>p DEF HwTypeOK
    <3>3. pc'[t] # "idle"
      BY <1>1, <1>p, <1>c, CommandTable DEF HwTypeOK
    <3>4. \A d \in Device : Busy(d)' = Busy(d)
      BY <3>1, <3>2, <3>3, <1>p DEF Busy
    <3>5. \A d \in settled' : d \in settled /\ t \notin Busy(d)
      BY <1>p DEF Busy
    <3>6. \A d \in settled' : \A u \in Busy(d)' : Progress(u)'
      <4> SUFFICES ASSUME NEW d \in settled', NEW u \in Busy(d) PROVE Progress(u)'
        BY <3>4, <1>3 DEF HwTypeOK
      <4>1. u \in Threads /\ u # t /\ DeviceOf(cmd[u]) = d /\ Progress(u)
        BY <3>5 DEF Busy, HwInv
      <4> QED
        BY <4>1, <3>1, <3>2, <3>5 DEF Progress, Reliable, InEffect
    <3>7. RecordMatchesHardware'
      BY <3>1, <3>4, <3>5, <1>p DEF HwInv, RecordMatchesHardware, Reliable, InEffect
    <3>8. Alone'
      BY <3>4, <3>5, <1>3 DEF HwInv, Alone, HwTypeOK
    <3> QED
      BY <3>1, <3>6, <3>7, <3>8, <1>3, <1>4 DEF HwInv, RecordsFit
  <2> QED
    BY <2>1, <2>2, <1>2
<1>6. TypeOK' /\ ValveInv'
  BY <1>1, <1>3, <1>4, <1>p DEF TypeOK, planterVars, ValveInv, PlanterInv
<1>7. DownInv'
  BY <1>p DEF DownInv, lifeVars
<1> QED
  BY <1>5, <1>6, <1>7, <1>p DEF LifeTypeOK, lifeVars

\* SIGINT and the steps of its handler leave no device settled.
LEMMA LifeInvHandler ==
  ASSUME LifeInv, SigInt \/ NotLast,
         pulse' \in [Motor -> {0, 6, 10, 45}], pwm' \in [Motor -> {0, 6, 10, 45}],
         relay' \in [1..4 -> BOOLEAN], spraying' \in BOOLEAN, UNCHANGED insync,
         conn' \in {conn, FALSE}
  PROVE  LifeInv'
<1> USE DEF LifeInv
<1>1. TypeOK /\ HwTypeOK /\ PlanterInv
  BY DEF LifeTypeOK, TypeOK, ValveInv
<1>2. UNCHANGED <<cmd, gstate, pc, planterVars>> /\ settled' = {} /\ life' = "stopping"
  BY DEF SigInt, NotLast
<1>3. HwTypeOK' /\ \A t \in Threads : CallFits(t)'
  BY <1>1, <1>2 DEF HwTypeOK, PlanterInv, CallFits
<1>4. HwInv'
  BY <1>2, <1>3, Unsettled DEF HwInv, RecordsFit
<1>5. TypeOK' /\ ValveInv'
  BY <1>1, <1>2, <1>3 DEF TypeOK, planterVars, ValveInv, PlanterInv
<1>6. todo' \in 1..Len(DeinitSteps) /\ touched' \subseteq Device
  <2>1. CASE SigInt
    <3>1. InUse \subseteq Device
      BY DEF InUse, Device
    <3> QED
      BY <2>1, <3>1 DEF SigInt, LifeTypeOK
  <2>2. CASE NotLast
    BY <2>2, StepCount DEF NotLast, LifeTypeOK
  <2> QED
    BY <2>1, <2>2
<1> QED
  BY <1>2, <1>4, <1>5, <1>6 DEF LifeTypeOK, DownInv

\* The end of a life.
LEMMA LifeInvDie ==
  ASSUME LifeInv, Die
  PROVE  LifeInv'
<1> USE DEF LifeInv
<1>1. TypeOK /\ HwTypeOK /\ PlanterInv
  BY DEF LifeTypeOK, TypeOK, ValveInv
<1>2. \A t \in Threads : pc'[t] = "idle" /\ cmd'[t] = NoCommand
  BY DEF Die
<1>3. HwTypeOK'
  BY <1>1, InitialRecords DEF Die, HwTypeOK, Motor, Access
<1>4. \A t \in Threads : CallFits(t)'
  BY <1>2 DEF CallFits
<1>5. HwInv'
  BY <1>3, <1>4, InitialRecords, Unsettled DEF Die, RecordsFit
<1>6. TypeOK'
  <2>1. \A p \in Pollers : Last(p) \in Nat /\ at'[p] = 0 /\ pend'[p] = NoCommand
    BY RuleCount, PollersAssumption DEF Die
  <2>2. /\ at' \in [Pollers -> Nat]
        /\ pend' \in [Pollers -> Command \cup {NoCommand}]
        /\ stage' \in [Clients -> Stage] /\ seen' \in [Clients -> Mode]
        /\ sent' \in [Clients -> 0..3]
    BY DEF Die, Mode, Stage
  <2>3. /\ mode' \in Mode /\ torn' \in BOOLEAN
        /\ queue' \in Seq(Command) /\ Len(queue') <= MaxMsg
        /\ beyond' \in [Chain -> SUBSET Side]
    BY <1>1 DEF Die, Mode, TypeOK
  <2> QED
    BY <1>3, <2>1, <2>2, <2>3 DEF TypeOK
<1>7. ValveInv'
  BY <1>2, <1>4, <1>6, ThreadsAssumption DEF Die, ValveInv, PlanterInv, NoCommand
<1>8. LifeTypeOK'
  <2>1. life' = "down" /\ todo' = 1 /\ conn' = FALSE /\ touched' = {}
    BY DEF Die
  <2>2. 1 \in 1..Len(DeinitSteps)
    BY StepCount
  <2> QED
    BY <1>6, <2>1, <2>2 DEF LifeTypeOK
<1>9. DownInv'
  BY <1>2 DEF Die, DownInv
<1> QED
  BY <1>5, <1>7, <1>8, <1>9

\* A start finds the devices in any condition and the queue with anything in it.
LEMMA LifeInvStart ==
  ASSUME LifeInv, Start
  PROVE  LifeInv'
<1> USE DEF LifeInv
<1>1. TypeOK /\ HwTypeOK /\ PlanterInv
  BY DEF LifeTypeOK, TypeOK, ValveInv
<1>2. /\ UNCHANGED <<pulse, spraying, insync, gstate, pc, cmd, planterVars, todo, touched>>
      /\ gstate = StatesInit /\ insync = ~spraying /\ \A t \in Threads : pc[t] = "idle"
      /\ relay' = [ch \in 1..4 |-> FALSE] /\ settled' = Device \ {"drain"}
  BY DEF Start, DownInv
<1>3. HwTypeOK' /\ \A t \in Threads : CallFits(t)'
  BY <1>1, <1>2 DEF Start, HwTypeOK, CallFits, Motor
<1>4. \A d \in Device : Busy(d)' = {}
  BY <1>2 DEF Busy
<1>5. ASSUME NEW d \in Device \ {"drain"}, Reliable(d)' PROVE InEffect(gstate[d])'
  <2>1. d \in {"led", "fan", "solenoid", "humidifier", "dryer"}
    BY DEF Device
  <2>2. gstate'[d] \in {"LED_OFF", "FAN_OFF", "SOLENOID_CLOSE", "HUMIDIFIER_OFF", "DRYER_OFF"}
        /\ DeviceOf(gstate'[d]) = d
    BY <1>2, <2>1, InitialRecords DEF StatesInit, Device
  <2>3. \A c \in {"LED_OFF", "FAN_OFF", "SOLENOID_CLOSE", "HUMIDIFIER_OFF", "DRYER_OFF"} :
          /\ c \notin PwmCommand /\ c # "HUMIDIFIER_ON" /\ Connects(c) = FALSE
          /\ c \in RelayCommand => Channel(DeviceOf(c)) \in 1..4
    BY DEF PwmCommand, Connects, RelayCommand, Command, DeviceOf, Channel
  <2>4. d = "humidifier" => spraying' = FALSE
    BY <1>5, <1>1, <1>2 DEF Reliable, HwTypeOK
  <2> QED
    BY <1>2, <2>2, <2>3, <2>4 DEF InEffect
<1>6. HwInv'
  BY <1>2, <1>3, <1>4, <1>5 DEF HwInv, RecordsFit, Alone, RecordMatchesHardware, Reliable
<1>7. TypeOK' /\ ValveInv'
  BY <1>1, <1>2, <1>3 DEF TypeOK, planterVars, ValveInv, PlanterInv
<1> QED
  BY <1>6, <1>7, <1>2 DEF Start, LifeTypeOK, DownInv

\* The steps of the handler but the last keep the devices in their ranges.
LEMMA HandlerTyped ==
  ASSUME HwTypeOK, Handler
  PROVE  \/ Exit
         \/ /\ NotLast
            /\ pulse' \in [Motor -> {0, 6, 10, 45}] /\ pwm' \in [Motor -> {0, 6, 10, 45}]
            /\ relay' \in [1..4 -> BOOLEAN] /\ spraying' \in BOOLEAN
            /\ UNCHANGED insync /\ conn' \in {conn, FALSE}
<1>0. DeinitSteps[11] = "exit"
  BY DEF DeinitSteps
<1>1. CASE DisconnectAll
  BY <1>0, <1>1 DEF DisconnectAll, Deinit, At, NotLast, HwTypeOK
<1>2. CASE ServoPulse
  BY <1>0, <1>2 DEF ServoPulse, Deinit, At, NotLast, HwTypeOK, Motor
<1>3. CASE ServoDuty
  BY <1>0, <1>3 DEF ServoDuty, Deinit, At, NotLast, HwTypeOK, Motor
<1>4. CASE CloseOrBegin
  BY <1>0, <1>4 DEF CloseOrBegin, Deinit, At, NotLast, HwTypeOK
<1>5. CASE HumidifierOff
  BY <1>0, <1>5 DEF HumidifierOff, Deinit, At, NotLast, HwTypeOK
<1>6. CASE CloseDatabase
  BY <1>0, <1>6 DEF CloseDatabase, Deinit, At, NotLast, HwTypeOK
<1> QED
  BY <1>1, <1>2, <1>3, <1>4, <1>5, <1>6 DEF Handler

LEMMA LifeInvStep == LifeInv /\ [LifeNext]_allVars => LifeInv'
<1> SUFFICES ASSUME LifeInv, [LifeNext]_allVars PROVE LifeInv'
  OBVIOUS
<1>t. HwTypeOK
  BY DEF LifeInv, LifeTypeOK, TypeOK
<1>1. CASE UNCHANGED allVars
  <2>1. UNCHANGED <<vars, hwVars, life, todo, conn, touched>>
    BY <1>1 DEF allVars, vars, lifeVars
  <2>2. HwInv' /\ ValveInv'
    BY <2>1, HwInvNext, ValveInvStep DEF LifeInv
  <2> QED
    BY <2>1, <2>2 DEF LifeInv, LifeTypeOK, DownInv, hwVars, ValveInv, PlanterInv
<1>2. CASE PlanterStep \/ ClosedStep \/ SpoiledStep
  BY <1>2, LifeInvPlanter, LifeInvClosed, LifeInvSpoiled
<1>3. CASE SigInt
  BY <1>3, <1>t, LifeInvHandler DEF SigInt, HwTypeOK
<1>4. CASE Handler
  BY <1>4, <1>t, HandlerTyped, LifeInvHandler, LifeInvDie DEF Exit
<1>5. CASE Crash
  BY <1>5, LifeInvDie DEF Crash
<1>6. CASE Start
  BY <1>6, LifeInvStart
<1> QED
  BY <1>1, <1>2, <1>3, <1>4, <1>5, <1>6, LifeSplit

(* Type correctness in every life of the process.                            *)
THEOREM LifeTypeCorrect == LifeSpec => []LifeTypeOK
<1>1. LifeInv => LifeTypeOK
  BY DEF LifeInv
<1> QED
  BY <1>1, LifeInvInit, LifeInvStep, PTL DEF LifeSpec

(* A call that works alone on a device has done its part of the work at each *)
(* of its steps, in every life of the process.                               *)
THEOREM CallsProgressInEveryLife == LifeSpec => []HwInv
<1>1. LifeInv => HwInv
  BY DEF LifeInv
<1> QED
  BY <1>1, LifeInvInit, LifeInvStep, PTL DEF LifeSpec

(* The records of devices that are idle and settled are right in every life  *)
(* of the process, before, while and after others end.                       *)
THEOREM RecordsCorrectInEveryLife == LifeSpec => []RecordMatchesHardware
<1>1. LifeInv => RecordMatchesHardware
  BY DEF LifeInv, HwInv
<1> QED
  BY <1>1, LifeInvInit, LifeInvStep, PTL DEF LifeSpec

-----------------------------------------------------------------------------
(* Water is only let in by a client of the present life of the process,      *)
(* whatever commands the lives before have left in the queue.                *)
THEOREM WaterSafety == LifeSpec => WaterOnlyByHand
<1>1. LifeInv /\ [LifeNext]_allVars
        => [life' = "up" /\ relay'[Channel("solenoid")]
              => \/ relay[Channel("solenoid")] /\ life = "up"
                 \/ \E c \in Clients : cmd[c] = "SOLENOID_OPEN"]_allVars
  <2> SUFFICES ASSUME LifeInv, LifeNext,
                      life' = "up", relay'[Channel("solenoid")],
                      ~(relay[Channel("solenoid")] /\ life = "up")
               PROVE  \E c \in Clients : cmd[c] = "SOLENOID_OPEN"
    OBVIOUS
  <2>v. Channel("solenoid") \in 1..4
    BY DEF Channel
  <2>1. CASE PlanterStep
    <3>1. life = "up" /\ ~relay[Channel("solenoid")]
      BY <2>1 DEF PlanterStep
    <3>2. PlanterInv /\ cmd[Main] # "SOLENOID_OPEN" /\ [HwNext]_hwVars
      BY <2>1, PlanterInvStep DEF LifeInv, ValveInv, PlanterStep
    <3>3. PICK t \in Threads : cmd[t] = "SOLENOID_OPEN"
      BY <3>1, <3>2, ValveRelay
    <3> QED
      BY <3>2, <3>3, ThreadsAssumption
  <2>2. CASE ClosedStep
    BY <2>2 DEF ClosedStep, SenseClosed, QueryFails, hwVars, lifeVars
  <2>3. CASE SpoiledStep
    BY <2>3 DEF SpoiledStep, LostAccess, PressOverlap, lifeVars
  <2>4. CASE SigInt \/ Crash
    BY <2>4 DEF SigInt, Crash, Die
  <2>5. CASE Handler
    <3>1. life' # "up"
      BY <2>5 DEF Handler, DisconnectAll, ServoPulse, ServoDuty, CloseOrBegin,
                  HumidifierOff, CloseDatabase, Exit, Deinit, At, Die
    <3> QED
      BY <3>1
  <2>6. CASE Start
    BY <2>6, <2>v DEF Start
  <2> QED
    BY <2>1, <2>2, <2>3, <2>4, <2>5, <2>6, LifeSplit
<1> QED
  BY <1>1, LifeInvInit, LifeInvStep, PTL DEF LifeSpec, WaterOnlyByHand

-----------------------------------------------------------------------------
RelayDevice == {"led", "fan", "solenoid", "dryer"}

\* What the handler has done to d so far, if no other thread uses d.
OffSoFar(d) ==
  /\ Busy(d) \ {Main} = {}
  /\ d = "humidifier" => insync /\ pc[Main] # "press"
  /\ d \in RelayDevice /\ todo > 1 => ~relay[Channel(d)]
  /\ d = "drain" /\ todo > 3 => pulse["drain"] = 0
  /\ d = "drain" /\ todo > 4 => pwm["drain"] = 0
  /\ d = "humidifier" /\ todo > 9 => ~spraying

ShutdownInv == life = "stopping" => \A d \in Device \ touched : OffSoFar(d)

\* An access of another thread is to a device the history counts as touched.
LEMMA OffAfterAccess ==
  ASSUME HwTypeOK, NEW t \in Threads, t # Main, HwStep(t), CallFits(t), todo' = todo,
         NEW d \in Device, OffSoFar(d)
  PROVE  OffSoFar(d)'
<1>1. Main \in Threads
  BY ThreadsAssumption
<1>2. DeviceOf(cmd[t]) # d /\ cmd[t] \in Command
  BY BusyAfterStep DEF OffSoFar, Busy, HwTypeOK
<1>3. Busy(d)' \ {Main} = {}
  BY BusyAfterStep DEF OffSoFar
<1>4. pc'[Main] = pc[Main]
  BY <1>1 DEF HwStep, SwitchRelay, SetPulse, LatchPulse, PressButton, Record, HwTypeOK
<1>5. d = "humidifier" => insync' = insync /\ spraying' = spraying
  BY <1>2 DEF HwStep, SwitchRelay, SetPulse, LatchPulse, PressButton, Record, CallFits
<1>6. d = "drain" => pulse'["drain"] = pulse["drain"] /\ pwm'["drain"] = pwm["drain"]
  BY <1>2 DEF HwStep, SwitchRelay, SetPulse, LatchPulse, PressButton, Record, HwTypeOK, Motor
<1>7. ASSUME d \in RelayDevice PROVE relay'[Channel(d)] = relay[Channel(d)]
  <2>1. CASE SwitchRelay(t)
    <3>1. cmd[t] \in RelayCommand
      BY <2>1 DEF SwitchRelay, CallFits
    <3>2. \A c \in RelayCommand : DeviceOf(c) # d => Channel(DeviceOf(c)) # Channel(d)
      BY <1>7 DEF RelayDevice, RelayCommand, Command, DeviceOf, Channel
    <3>3. Channel(d) \in 1..4
      BY <1>7 DEF RelayDevice, Channel
    <3> QED
      BY <2>1, <1>2, <3>1, <3>2, <3>3 DEF SwitchRelay, HwTypeOK
  <2>2. CASE ~SwitchRelay(t)
    BY <2>2 DEF HwStep, SetPulse, LatchPulse, PressButton, Record
  <2> QED
    BY <2>1, <2>2
<1> QED
  BY <1>3, <1>4, <1>5, <1>6, <1>7 DEF OffSoFar

\* A client's order goes to a device that is touched from then on.
LEMMA OffAfterOrder ==
  ASSUME HwTypeOK, NEW c \in Clients, ObeyOrder(c), Touch, life = "stopping", todo' = todo,
         NEW d \in Device \ touched', OffSoFar(d)
  PROVE  OffSoFar(d)'
<1>1. Main \in Threads /\ c \in Threads /\ c # Main
  BY ThreadsAssumption
<1>2. PICK x \in Command : Begin(c, x)
  BY OrdersAssumption DEF ObeyOrder
<1>3. pc[c] = "idle" /\ pc'[c] # "idle" /\ cmd'[c] = x /\ pc'[Main] = pc[Main]
  BY <1>1, <1>2, CommandTable DEF Begin, HwTypeOK
<1>4. DeviceOf(x) \in touched'
  BY <1>1, <1>3 DEF Touch
<1>5. Busy(d)' = Busy(d)
  BY <1>1, <1>2, <1>4, BusyAfterBegin
<1> QED
  BY <1>2, <1>3, <1>5 DEF Begin, OffSoFar

\* An access to a closed file, or two presses at once.
LEMMA OffAfterSpoiled ==
  ASSUME HwTypeOK, NEW t \in Threads, LostAccess(t) \/ PressOverlap(t), CallFits(t),
         NEW d \in Device, OffSoFar(d)
  PROVE  OffSoFar(d)'
<1>1. Main \in Threads /\ t # Main
  BY ThreadsAssumption DEF LostAccess, PressOverlap
<1>2. /\ pc[t] # "idle" /\ pc'[Main] = pc[Main]
      /\ \A u \in Threads : pc'[u] # "idle" => pc[u] # "idle"
      /\ UNCHANGED <<relay, pulse, pwm, cmd, lifeVars>>
  <2>1. pc[t] \in {"relay", "ioctl", "press"}
    BY DEF LostAccess, PressOverlap, FileClosed
  <2> QED
    BY <1>1, <2>1 DEF LostAccess, PressOverlap, HwTypeOK
<1>3. DeviceOf(cmd[t]) # d
  BY <1>1, <1>2 DEF OffSoFar, Busy
<1>4. Busy(d)' \ {Main} = {}
  BY <1>2 DEF OffSoFar, Busy
<1>5. d = "humidifier" => UNCHANGED <<spraying, insync>>
  BY <1>3 DEF LostAccess, PressOverlap, CallFits
<1> QED
  BY <1>2, <1>4, <1>5 DEF OffSoFar, lifeVars

\* The handler turns off, step by step, what it finds in order.
LEMMA OffAfterHandler ==
  ASSUME LifeInv, Handler, ~Exit, NEW d \in Device, OffSoFar(d)
  PROVE  OffSoFar(d)'
<1>1. HwTypeOK /\ \A t \in Threads : CallFits(t)
  BY DEF LifeInv, LifeTypeOK, TypeOK, ValveInv, PlanterInv
<1>2. NotLast /\ insync' = insync
  BY <1>1, HandlerTyped
<1>3. Busy(d)' = Busy(d) /\ pc' = pc
  BY <1>2 DEF NotLast, Busy
<1>4. todo \in 1..Len(DeinitSteps) /\ todo \in Nat /\ todo' = todo + 1
  BY <1>2, StepCount DEF LifeInv, LifeTypeOK, NotLast
<1>5. CASE DisconnectAll
  <2>1. todo = 1
    BY <1>4, <1>5, StepNumbers DEF DisconnectAll, Deinit
  <2>2. d \in RelayDevice => Channel(d) \in 1..4
    BY DEF RelayDevice, Channel
  <2> QED
    BY <1>2, <1>3, <1>4, <1>5, <2>1, <2>2 DEF DisconnectAll, OffSoFar
<1>6. CASE ServoPulse
  <2>1. todo = 3
    BY <1>4, <1>6, StepNumbers DEF ServoPulse, Deinit
  <2> QED
    BY <1>1, <1>2, <1>3, <1>4, <1>6, <2>1 DEF ServoPulse, OffSoFar, HwTypeOK, Motor
<1>7. CASE ServoDuty
  <2>1. todo = 4
    BY <1>4, <1>7, StepNumbers DEF ServoDuty, Deinit
  <2>2. /\ d \in RelayDevice => ~relay[Channel(d)]
        /\ d = "drain" => pulse["drain"] = 0
    BY <2>1 DEF OffSoFar
  <2>3. d = "drain" => pulse'["drain"] = 0 /\ pwm'["drain"] = 0
    BY <1>1, <1>7, <2>2 DEF ServoDuty, HwTypeOK, Motor
  <2>4. todo' = 5
    BY <1>4, <2>1
  <2>5. relay' = relay
    BY <1>7 DEF ServoDuty
  <2>6. (d = "humidifier" => insync' /\ pc'[Main] # "press") /\ Busy(d)' \ {Main} = {}
    BY <1>2, <1>3 DEF OffSoFar
  <2> QED
    BY <2>2, <2>3, <2>4, <2>5, <2>6 DEF OffSoFar
<1>8. CASE CloseOrBegin
  <2>1. todo \in {2, 5, 6, 7, 8}
    BY <1>4, <1>8, StepNumbers DEF CloseOrBegin, Deinit
  <2>2. UNCHANGED <<relay, pulse, pwm>>
    BY <1>8 DEF CloseOrBegin
  <2>3. /\ todo > 1 /\ todo' < 10
        /\ todo' > 3 => todo > 4
    BY <1>4, <2>1
  <2> QED
    BY <1>2, <1>3, <1>4, <2>2, <2>3 DEF OffSoFar
<1>9. CASE HumidifierOff
  <2>1. todo = 9
    BY <1>4, <1>9, StepNumbers DEF HumidifierOff, Deinit
  <2>2. d = "humidifier" => ~spraying'
    <3> SUFFICES ASSUME d = "humidifier" PROVE ~spraying'
      OBVIOUS
    <3>1. \A t \in Threads : pc[t] # "press"
      BY <1>1 DEF OffSoFar, Busy, CallFits
    <3> QED
      BY <1>9, <3>1 DEF HumidifierOff, OffSoFar
  <2>3. UNCHANGED <<relay, pulse, pwm>>
    BY <1>9 DEF HumidifierOff
  <2>4. /\ d \in RelayDevice => ~relay[Channel(d)]
        /\ d = "drain" => pulse["drain"] = 0 /\ pwm["drain"] = 0
    BY <2>1 DEF OffSoFar
  <2>5. (d = "humidifier" => insync' /\ pc'[Main] # "press") /\ Busy(d)' \ {Main} = {}
    BY <1>2, <1>3 DEF OffSoFar
  <2> QED
    BY <2>2, <2>3, <2>4, <2>5 DEF OffSoFar
<1>10. CASE CloseDatabase
  <2>1. todo = 10
    BY <1>4, <1>10, StepNumbers DEF CloseDatabase, Deinit
  <2> QED
    BY <1>2, <1>3, <1>4, <1>10, <2>1 DEF CloseDatabase, OffSoFar
<1> QED
  BY <1>5, <1>6, <1>7, <1>8, <1>9, <1>10 DEF Handler

\* What can happen while the handler runs.
LEMMA StoppingSplit ==
  ASSUME LifeInv, LifeNext, life = "stopping"
  PROVE  \/ Handler \/ Crash
         \/ /\ \E t \in Threads \ {Main} : HwStep(t)
            /\ UNCHANGED lifeVars
         \/ /\ \E c \in Clients : ObeyOrder(c)
            /\ Touch /\ UNCHANGED <<life, todo>>
         \/ /\ UNCHANGED <<hwVars, life, todo>>
            /\ touched \subseteq touched'
         \/ \E t \in Threads : LostAccess(t) \/ PressOverlap(t)
<1>1. PlanterInv
  BY DEF LifeInv, ValveInv
<1>2. ASSUME NEW t \in Threads, DeviceStep(t) PROVE t # Main /\ HwStep(t) /\ UNCHANGED lifeVars
  BY <1>2 DEF DeviceStep, Work
<1>3. ASSUME NEW p \in Pollers, PollStep(p)
      PROVE  UNCHANGED <<hwVars, life, todo>> /\ touched' = touched
  <2>1. CASE Poll(p)
    BY <2>1, <1>1, <1>3, PollTyped DEF PollStep, Insert, SenseClosed, lifeVars
  <2>2. CASE ~Poll(p)
    BY <2>2, <1>3 DEF PollStep, Insert, Poll, SenseClosed, lifeVars
  <2> QED
    BY <2>1, <2>2
<1>4. ASSUME NEW c \in Clients, ServeStep(c)
      PROVE  UNCHANGED <<hwVars, life, todo>> /\ touched \subseteq touched'
  BY <1>4 DEF ServeStep, QueryFails, LoadMode, StoreMode, CheckMode, UpdateBoundary, SendOff,
              BeginQuery, Touch, lifeVars
<1>5. ASSUME NEW c \in Clients, AwaitStep(c)
      PROVE  \/ ObeyOrder(c) /\ Touch /\ UNCHANGED <<life, todo>>
             \/ UNCHANGED <<hwVars, life, todo>> /\ touched \subseteq touched'
  BY <1>5 DEF AwaitStep, StreamEnds, IgnoreOrder, ParseBoundary, EndQuery, Touch
<1> QED
  BY <1>2, <1>3, <1>4, <1>5 DEF LifeNext, MainStep, SigInt, Start

LEMMA ShutdownInvStep == LifeInv /\ ShutdownInv /\ [LifeNext]_allVars => ShutdownInv'
<1> SUFFICES ASSUME LifeInv, ShutdownInv, [LifeNext]_allVars, life' = "stopping",
                    NEW d \in Device \ touched'
             PROVE  OffSoFar(d)'
  BY DEF ShutdownInv
<1>1. HwTypeOK /\ \A t \in Threads : CallFits(t)
  BY DEF LifeInv, LifeTypeOK, TypeOK, ValveInv, PlanterInv
<1>2. CASE UNCHANGED <<hwVars, life, todo>> /\ touched \subseteq touched'
  BY <1>2 DEF ShutdownInv, OffSoFar, Busy, hwVars
<1>3. CASE SigInt
  <2>1. todo' = 1 /\ touched' = InUse
    BY <1>3 DEF SigInt, LifeInv, LifeTypeOK
  <2>2. UNCHANGED <<insync, pc, cmd>>
    BY <1>3 DEF SigInt
  <2>3. Busy(d)' \ {Main} = {} /\ (d = "humidifier" => insync' /\ pc'[Main] # "press")
    BY <2>1, <2>2 DEF InUse, Busy
  <2> QED
    BY <2>1, <2>3 DEF OffSoFar
<1>4. CASE LifeNext /\ life = "stopping"
  <2>1. CASE Handler
    <3>1. ~Exit
      BY DEF Exit, Die
    <3>2. touched' = touched
      BY <2>1, <3>1, <1>1, HandlerTyped DEF NotLast
    <3> QED
      BY <2>1, <3>1, <3>2, <1>4, OffAfterHandler DEF ShutdownInv
  <2>2. CASE Crash
    BY <2>2 DEF Crash, Die
  <2>3. CASE (\E t \in Threads \ {Main} : HwStep(t)) /\ UNCHANGED lifeVars
    BY <2>3, <1>1, <1>4, OffAfterAccess DEF ShutdownInv, lifeVars
  <2>4. CASE (\E c \in Clients : ObeyOrder(c)) /\ Touch /\ UNCHANGED <<life, todo>>
    <3>1. touched \subseteq touched'
      BY <2>4 DEF Touch
    <3> QED
      BY <2>4, <3>1, <1>1, <1>4, OffAfterOrder DEF ShutdownInv
  <2>5. CASE \E t \in Threads : LostAccess(t) \/ PressOverlap(t)
    <3>1. touched' = touched
      BY <2>5 DEF LostAccess, PressOverlap, lifeVars
    <3> QED
      BY <2>5, <3>1, <1>1, <1>4, OffAfterSpoiled DEF ShutdownInv
  <2> QED
    BY <1>2, <1>4, <2>1, <2>2, <2>3, <2>4, <2>5, StoppingSplit
<1>5. CASE LifeNext /\ life # "stopping" /\ ~SigInt
  <2>1. life' # "stopping"
    <3>1. CASE PlanterStep
      BY <3>1, <1>5 DEF PlanterStep
    <3>2. CASE ClosedStep \/ SpoiledStep
      BY <3>2, <1>5 DEF ClosedStep, SpoiledStep, SenseClosed, QueryFails, LostAccess,
                        PressOverlap, lifeVars
    <3>3. CASE Handler
      BY <3>3, <1>5 DEF Handler, DisconnectAll, ServoPulse, ServoDuty, CloseOrBegin,
                        HumidifierOff, CloseDatabase, Exit, Deinit, At
    <3>4. CASE Crash \/ Start
      BY <3>4 DEF Crash, Die, Start
    <3> QED
      BY <3>1, <3>2, <3>3, <3>4, <1>5, LifeSplit
  <2> QED
    BY <2>1
<1> QED
  BY <1>2, <1>3, <1>4, <1>5 DEF allVars, vars, lifeVars

(* When SIGINT's handler gets to exit(), it has turned off every device that *)
(* no other thread was using meanwhile, for any number of threads.           *)
THEOREM ShutdownSafety == LifeSpec => []ShutdownTurnsOff
<1>1. LifeInit => ShutdownInv
  BY DEF LifeInit, ShutdownInv
<1>2. LifeInv /\ ShutdownInv => ShutdownTurnsOff
  <2> SUFFICES ASSUME LifeInv, ShutdownInv, At("exit"), NEW d \in Device \ touched
               PROVE  IsOff(d)
    BY DEF ShutdownTurnsOff
  <2>1. todo = 11
    BY StepNumbers DEF LifeInv, LifeTypeOK
  <2>2. OffSoFar(d)
    BY DEF ShutdownInv, At
  <2>3. d \in RelayDevice \/ d = "drain" \/ d = "humidifier"
    BY DEF Device, RelayDevice
  <2>4. /\ d \in RelayDevice => ~relay[Channel(d)]
        /\ d = "drain" => pwm["drain"] = 0
        /\ d = "humidifier" => ~spraying
    BY <2>1, <2>2 DEF OffSoFar
  <2> QED
    BY <2>3, <2>4 DEF IsOff, RelayDevice
<1> QED
  BY <1>1, <1>2, LifeInvInit, LifeInvStep, ShutdownInvStep, PTL DEF LifeSpec

=============================================================================
