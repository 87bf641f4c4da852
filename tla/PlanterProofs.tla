---------------------------- MODULE PlanterProofs ----------------------------
(***************************************************************************)
(* Theorems about the controller for any number of connections, any queue  *)
(* capacity and any choice of polling threads: type correctness, that the  *)
(* controller drives the devices the way module Actuators allows, and what *)
(* follows for the recorded states and for the valve.                      *)
(***************************************************************************)
EXTENDS Planter, ActuatorsProofs

\* The rules only send commands of RuleCommand, and none opens the valve.
LEMMA RuleTable ==
  ASSUME NEW p \in PollerName, NEW k \in 1..Last(p)
  PROVE  /\ Rules[p][k].cmd \in RuleCommand
         /\ Verdict(Rules[p][k]) \in RuleCommand
<1>1. CASE p = "humitemp"
  <2>1. Rules[p] = HumitempRules /\ Last(p) = 8
    BY <1>1 DEF Rules, Last, HumitempRules
  <2>2. k \in 1..8
    BY <2>1
  <2>3. HumitempRules[k].cmd \in RuleCommand
    BY <2>2 DEF HumitempRules, Ventilate, StopVentilating, Humidify, StopHumidifying, Dry,
               StopDrying, Cool, StopCooling, Rule, RuleCommand
  <2> QED
    BY <2>1, <2>3 DEF Verdict, RuleCommand
<1>2. CASE p = "photo"
  <2>1. Rules[p] = PhotoRules /\ Last(p) = 2
    BY <1>2 DEF Rules, Last, PhotoRules
  <2> QED
    BY <2>1 DEF PhotoRules, Light, StopLighting, Rule, RuleCommand, Verdict
<1>3. CASE p = "magnetic"
  <2>1. Rules[p] = MagneticRules /\ Last(p) = 1
    BY <1>3 DEF Rules, Last, MagneticRules
  <2> QED
    BY <2>1 DEF MagneticRules, Rule, RuleCommand, Verdict
<1>4. CASE p = "moisture"
  <2>1. Rules[p] = MoistureRules /\ Last(p) = 1
    BY <1>4 DEF Rules, Last, MoistureRules
  <2> QED
    BY <2>1 DEF MoistureRules, Rule, RuleCommand, Verdict
<1> QED
  BY <1>1, <1>2, <1>3, <1>4 DEF PollerName

LEMMA RuleCount == \A p \in PollerName : Last(p) \in Nat \ {0}
  BY DEF PollerName, Last, Rules, HumitempRules, PhotoRules, MagneticRules, MoistureRules

\* The commands of the rules and of the boundary client are device commands.
LEMMA AutomaticCommands ==
  /\ RuleCommand \subseteq Command \ {"SOLENOID_OPEN"}
  /\ \A i \in 1..4 : OffSequence[i] \in Command \ {"SOLENOID_OPEN"}
  /\ Len(OffSequence) = 4
  BY DEF RuleCommand, Command, OffSequence

\* mq_send() appends one command or nothing, and never overfills the queue.
LEMMA EnqueueTyped ==
  ASSUME NEW S, NEW c \in S, queue \in Seq(S), Len(queue) <= MaxMsg, Enqueue(c)
  PROVE  queue' \in Seq(S) /\ Len(queue') <= MaxMsg
  BY QueueAssumption DEF Enqueue

\* A change of readings keeps them readings.
LEMMA ChangeTyped ==
  ASSUME NEW C \in SUBSET Chain, NEW R, Change(C, R), beyond \in [Chain -> SUBSET Side]
  PROVE  beyond' \in [Chain -> SUBSET Side]
  BY DEF Change

-----------------------------------------------------------------------------
\* The part of the invariant about the threads that are not in a handler.
PlanterInv == TypeOK /\ \A t \in Threads : CallFits(t)

LEMMA PlanterInvInit == Init => PlanterInv
<1> SUFFICES ASSUME Init PROVE PlanterInv
  OBVIOUS
<1>1. HwTypeOK /\ \A t \in Threads : CallFits(t)
  BY ShapeInit DEF Init, ShapeInv
<1>2. \A p \in Pollers : Last(p) \in Nat \ {0}
  BY RuleCount, PollersAssumption
<1>3. /\ mode \in Mode /\ torn \in BOOLEAN
      /\ beyond \in [Chain -> SUBSET Side]
  BY DEF Init, Mode
<1>6. queue \in Seq(Command) /\ Len(queue) <= MaxMsg
  BY QueueAssumption DEF Init
<1>4. /\ at \in [Pollers -> Nat] /\ \A p \in Pollers : at[p] = 0
      /\ pend \in [Pollers -> Command \cup {NoCommand}]
      /\ \A p \in Pollers : pend[p] = NoCommand
  BY DEF Init
<1>5. /\ stage \in [Clients -> Stage] /\ seen \in [Clients -> Mode]
      /\ sent \in [Clients -> 0..3]
  BY DEF Init, Stage, Mode
<1> QED
  BY <1>1, <1>2, <1>3, <1>6, <1>4, <1>5 DEF PlanterInv, TypeOK

\* Steps of the polling threads.
LEMMA PollTyped ==
  ASSUME PlanterInv, NEW p \in Pollers, Poll(p)
  PROVE  TypeOK' /\ UNCHANGED hwVars
<1> USE DEF PlanterInv
<1>p. p \in PollerName /\ Last(p) \in Nat \ {0}
  BY RuleCount, PollersAssumption
<1>h. UNCHANGED hwVars
  BY DEF Poll, Sense, Evaluate, Send, Store
<1>t. HwTypeOK'
  BY <1>h DEF TypeOK, HwTypeOK, hwVars
<1>1. CASE Sense(p)
  <2>1. ChainsOf(p) \subseteq Chain
    BY DEF ChainsOf, Chain
  <2>2. beyond' \in [Chain -> SUBSET Side]
    BY <1>1, <2>1, ChangeTyped DEF Sense, TypeOK
  <2>3. pend[p] = NoCommand
    BY <1>1 DEF Sense, TypeOK
  <2> QED
    BY <1>1, <1>t, <1>p, <2>2, <2>3 DEF Sense, TypeOK
<1>2. CASE Evaluate(p)
  <2> DEFINE r == Rules[p][at[p]]
  <2>1. at[p] \in 1..Last(p)
    BY <1>2 DEF Evaluate
  <2>2. Verdict(r) \in Command
    BY <2>1, <1>p, RuleTable, AutomaticCommands
  <2>3. /\ UNCHANGED <<mode, queue, beyond, stage, seen, sent, torn>>
        /\ \/ pend' = [pend EXCEPT ![p] = Verdict(r)] /\ at' = at
           \/ at' = [at EXCEPT ![p] = @ + 1] /\ pend' = pend /\ pend[p] = NoCommand
    BY <1>2 DEF Evaluate
  <2> HIDE DEF r
  <2>4. CASE pend' = [pend EXCEPT ![p] = Verdict(r)] /\ at' = at
    BY <2>4, <1>h, <1>t, <2>1, <2>2, <2>3 DEF TypeOK
  <2>5. CASE at' = [at EXCEPT ![p] = @ + 1] /\ pend' = pend /\ pend[p] = NoCommand
    BY <2>5, <1>h, <1>t, <1>p, <2>1, <2>3 DEF TypeOK
  <2> QED
    BY <2>3, <2>4, <2>5
<1>3. CASE Send(p)
  <2>1. pend[p] \in Command /\ at[p] \in 1..Last(p)
    BY <1>3 DEF Send, TypeOK
  <2>2. queue' \in Seq(Command) /\ Len(queue') <= MaxMsg
    BY <1>3, <2>1, EnqueueTyped DEF Send, TypeOK
  <2>3. Past(at[p], Last(p)) \in Nat /\ Past(at[p], Last(p)) <= Last(p) + 1
    BY <2>1, <1>p DEF Past
  <2> QED
    BY <1>3, <1>t, <1>p, <2>2, <2>3 DEF Send, TypeOK
<1>4. CASE Store(p)
  <2>1. pend[p] = NoCommand
    BY <1>4, <1>p DEF Store, TypeOK
  <2> QED
    BY <1>4, <1>t, <1>p, <2>1 DEF Store, TypeOK
<1> QED
  BY <1>h, <1>1, <1>2, <1>3, <1>4 DEF Poll

\* Steps of the socket threads that touch no device.
ClientOnly(c) ==
  \/ \E o \in Ops[c] : Connect(c, o)
  \/ LoadMode(c) \/ StoreMode(c) \/ StreamEnds(c) \/ CheckMode(c) \/ IgnoreOrder(c)
  \/ ParseBoundary(c) \/ UpdateBoundary(c) \/ SendOff(c) \/ BeginQuery(c) \/ EndQuery(c)

LEMMA ClientTyped ==
  ASSUME PlanterInv, NEW c \in Clients, ClientOnly(c)
  PROVE  TypeOK' /\ UNCHANGED hwVars
<1> USE DEF PlanterInv
<1>h. UNCHANGED hwVars
  BY DEF ClientOnly, Connect, LoadMode, StoreMode, StreamEnds, CheckMode, IgnoreOrder,
         ParseBoundary, UpdateBoundary, SendOff, BeginQuery, EndQuery
<1>t. HwTypeOK'
  BY <1>h DEF TypeOK, HwTypeOK, hwVars
<1>1. ASSUME NEW o \in Ops[c], Connect(c, o) PROVE TypeOK'
  <2>1. FirstStage(o) \in Stage
    BY DEF FirstStage, Stage
  <2> QED
    BY <1>1, <1>t, <2>1 DEF Connect, Goto, TypeOK
<1>2. CASE LoadMode(c) \/ StoreMode(c)
  BY <1>2, <1>t DEF LoadMode, StoreMode, Flip, Goto, TypeOK, Mode, Stage
<1>3. CASE StreamEnds(c) \/ CheckMode(c) \/ IgnoreOrder(c) \/ BeginQuery(c) \/ EndQuery(c)
  BY <1>3, <1>t DEF StreamEnds, CheckMode, IgnoreOrder, BeginQuery, EndQuery, Goto,
                    TypeOK, Stage
<1>4. CASE ParseBoundary(c) \/ UpdateBoundary(c)
  <2>1. BoundaryChain \subseteq Chain
    BY DEF BoundaryChain, ChainsOf, Chain
  <2>2. beyond' \in [Chain -> SUBSET Side]
    BY <1>4, <2>1, ChangeTyped DEF ParseBoundary, UpdateBoundary, TypeOK
  <2> QED
    BY <1>4, <1>t, <2>2 DEF ParseBoundary, UpdateBoundary, Goto, TypeOK, Stage
<1>5. CASE SendOff(c)
  <2>1. sent[c] \in 0..3 /\ sent[c] + 1 \in 1..4
    BY DEF TypeOK
  <2>2. OffSequence[sent[c] + 1] \in Command
    BY <2>1, AutomaticCommands
  <2>3. queue' \in Seq(Command) /\ Len(queue') <= MaxMsg
    BY <1>5, <2>2, EnqueueTyped DEF SendOff, TypeOK
  <2>4. (sent[c] + 1) % Len(OffSequence) \in 0..3
    BY <2>1, AutomaticCommands
  <2> QED
    BY <1>5, <1>t, <2>3, <2>4 DEF SendOff, Goto, TypeOK, Stage
<1> QED
  BY <1>h, <1>1, <1>2, <1>3, <1>4, <1>5 DEF ClientOnly

\* Steps that touch a device are steps of module Actuators.
LEMMA DeviceTyped ==
  ASSUME PlanterInv,
         \/ Receive
         \/ \E t \in Threads : Work(t)
         \/ \E c \in Clients : ObeyOrder(c)
  PROVE  TypeOK' /\ HwNext /\ \A t \in Threads : CallFits(t)'
<1> USE DEF PlanterInv
<1>1. CASE Receive
  <2>1. Head(queue) \in Command /\ Tail(queue) \in Seq(Command) /\ Len(Tail(queue)) <= MaxMsg
    BY <1>1, QueueAssumption DEF Receive, TypeOK
  <2>2. Main \in Threads
    BY ThreadsAssumption
  <2>3. HwTypeOK' /\ HwNext /\ \A t \in Threads : CallFits(t)'
    BY <1>1, <2>1, <2>2, IssuedIsCommand, BeginTyped, StepFits DEF Receive, HwNext, TypeOK
  <2> QED
    BY <1>1, <2>1, <2>3 DEF Receive, TypeOK
<1>2. ASSUME NEW t \in Threads, Work(t)
      PROVE  TypeOK' /\ HwNext /\ \A u \in Threads : CallFits(u)'
  <2>1. HwTypeOK' /\ HwNext /\ \A u \in Threads : CallFits(u)'
    BY <1>2, StepTyped, StepFits DEF Work, HwNext, TypeOK
  <2> QED
    BY <1>2, <2>1 DEF Work, planterVars, TypeOK
<1>3. ASSUME NEW c \in Clients, ObeyOrder(c)
      PROVE  TypeOK' /\ HwNext /\ \A t \in Threads : CallFits(t)'
  <2>1. PICK x \in Command : Begin(c, x)
    BY <1>3, OrdersAssumption DEF ObeyOrder
  <2>2. c \in Threads
    BY ThreadsAssumption
  <2>3. HwTypeOK' /\ HwNext /\ \A t \in Threads : CallFits(t)'
    BY <2>1, <2>2, IssuedIsCommand, BeginTyped, StepFits DEF HwNext, TypeOK
  <2> QED
    BY <1>3, <2>3 DEF ObeyOrder, Goto, TypeOK, Stage
<1> QED
  BY <1>1, <1>2, <1>3

\* Every step of the controller is one of the three kinds above.
LEMMA NextSplit ==
  ASSUME Next
  PROVE  \/ \E p \in Pollers : Poll(p)
         \/ \E c \in Clients : ClientOnly(c)
         \/ Receive \/ (\E t \in Threads : Work(t)) \/ (\E c \in Clients : ObeyOrder(c))
  BY DEF Next, Serve, Await, ClientOnly

LEMMA PlanterInvStep == PlanterInv /\ [Next]_vars => PlanterInv' /\ [HwNext]_hwVars
<1> SUFFICES ASSUME PlanterInv, [Next]_vars PROVE PlanterInv' /\ [HwNext]_hwVars
  OBVIOUS
<1>k. UNCHANGED hwVars => \A t \in Threads : CallFits(t)'
  BY DEF PlanterInv, CallFits, hwVars
<1>1. CASE UNCHANGED vars
  BY <1>1, <1>k DEF PlanterInv, TypeOK, HwTypeOK, vars, hwVars, planterVars
<1>2. ASSUME NEW p \in Pollers, Poll(p) PROVE PlanterInv' /\ [HwNext]_hwVars
  BY <1>2, <1>k, PollTyped DEF PlanterInv
<1>3. ASSUME NEW c \in Clients, ClientOnly(c) PROVE PlanterInv' /\ [HwNext]_hwVars
  BY <1>3, <1>k, ClientTyped DEF PlanterInv
<1>4. CASE Receive \/ (\E t \in Threads : Work(t)) \/ (\E c \in Clients : ObeyOrder(c))
  BY <1>4, DeviceTyped DEF PlanterInv
<1> QED
  BY <1>1, <1>2, <1>3, <1>4, NextSplit

(* Type correctness of the controller.                                       *)
THEOREM TypeCorrect == Spec => []TypeOK
<1>1. PlanterInv => TypeOK
  BY DEF PlanterInv
<1> QED
  BY <1>1, PlanterInvInit, PlanterInvStep, PTL DEF Spec

(* The controller implements the specification of the actuators: whatever    *)
(* the queue, the rules and the clients do, devices only change by calls of  *)
(* message_queue_handler(), one at a time per thread.                        *)
THEOREM DrivesActuators == Spec => HwSpec
<1>1. Init => HwInit
  BY DEF Init
<1> QED
  BY <1>1, PlanterInvInit, PlanterInvStep, PTL DEF Spec, HwSpec

(* So the records of devices that are idle and settled are right in the      *)
(* whole controller too.                                                     *)
THEOREM RecordsCorrectInPlanter == Spec => []RecordMatchesHardware
  BY DrivesActuators, RecordsCorrect, PTL

-----------------------------------------------------------------------------
\* No command on its way to the main thread opens the valve.
ValveInv ==
  /\ PlanterInv
  /\ \A i \in 1..Len(queue) : queue[i] # "SOLENOID_OPEN"
  /\ \A p \in Pollers : pend[p] # "SOLENOID_OPEN"
  /\ cmd[Main] # "SOLENOID_OPEN"

LEMMA ValveInvInit == Init => ValveInv
  BY PlanterInvInit, ThreadsAssumption DEF Init, HwInit, ValveInv, NoCommand

LEMMA EnqueueSafe ==
  ASSUME queue \in Seq(Command), NEW c \in Command, c # "SOLENOID_OPEN", Enqueue(c),
         \A i \in 1..Len(queue) : queue[i] # "SOLENOID_OPEN"
  PROVE  \A i \in 1..Len(queue') : queue'[i] # "SOLENOID_OPEN"
  BY DEF Enqueue

LEMMA ValveInvStep == ValveInv /\ [Next]_vars => ValveInv'
<1> SUFFICES ASSUME ValveInv, [Next]_vars PROVE ValveInv'
  OBVIOUS
<1> USE DEF ValveInv
<1>i. PlanterInv' /\ TypeOK
  BY PlanterInvStep DEF PlanterInv
<1>m. Main \in Threads
  BY ThreadsAssumption
<1>1. CASE UNCHANGED vars
  BY <1>1, <1>i DEF vars, hwVars, planterVars
<1>2. ASSUME NEW p \in Pollers, Poll(p) PROVE ValveInv'
  <2>p. p \in PollerName
    BY PollersAssumption
  <2>h. cmd' = cmd
    BY <1>2, PollTyped DEF hwVars
  <2>1. CASE Sense(p) \/ Store(p)
    BY <2>1, <2>h, <1>i DEF Sense, Store
  <2>2. CASE Evaluate(p)
    <3>1. Verdict(Rules[p][at[p]]) # "SOLENOID_OPEN"
      BY <2>2, <2>p, RuleTable, AutomaticCommands DEF Evaluate
    <3>2. queue' = queue
          /\ (pend' = pend \/ pend' = [pend EXCEPT ![p] = Verdict(Rules[p][at[p]])])
      BY <2>2 DEF Evaluate
    <3> QED
      BY <3>1, <3>2, <2>h, <1>i DEF TypeOK
  <2>3. CASE Send(p)
    <3>1. pend[p] \in Command /\ pend[p] # "SOLENOID_OPEN"
      BY <2>3, <1>i DEF Send, TypeOK
    <3>2. \A i \in 1..Len(queue') : queue'[i] # "SOLENOID_OPEN"
      BY <2>3, <1>i, <3>1, EnqueueSafe DEF Send, TypeOK
    <3>3. \A q \in Pollers : pend'[q] # "SOLENOID_OPEN"
      BY <2>3, <1>i DEF Send, TypeOK, NoCommand
    <3> QED
      BY <3>2, <3>3, <2>h, <1>i
  <2> QED
    BY <1>2, <2>1, <2>2, <2>3 DEF Poll
<1>3. ASSUME NEW c \in Clients, ClientOnly(c) PROVE ValveInv'
  <2>h. cmd' = cmd
    BY <1>3, ClientTyped DEF hwVars
  <2>1. CASE SendOff(c)
    <3>0. sent[c] + 1 \in 1..4
      BY <1>i DEF TypeOK
    <3>1. OffSequence[sent[c] + 1] \in Command \ {"SOLENOID_OPEN"}
      BY <3>0, AutomaticCommands
    <3>2. \A i \in 1..Len(queue') : queue'[i] # "SOLENOID_OPEN"
      BY <2>1, <1>i, <3>1, EnqueueSafe DEF SendOff, TypeOK
    <3> QED
      BY <2>1, <3>2, <2>h, <1>i DEF SendOff
  <2>2. CASE ~SendOff(c)
    <3>1. queue' = queue /\ pend' = pend
      BY <1>3, <2>2 DEF ClientOnly, Connect, LoadMode, StoreMode, StreamEnds, CheckMode,
                        IgnoreOrder, ParseBoundary, UpdateBoundary, BeginQuery, EndQuery
    <3> QED
      BY <3>1, <2>h, <1>i
  <2> QED
    BY <2>1, <2>2
<1>4. CASE Receive
  <2>1. queue # <<>> /\ queue \in Seq(Command)
    BY <1>4, <1>i DEF Receive, TypeOK
  <2>2. Head(queue) # "SOLENOID_OPEN"
    BY <2>1
  <2>3. \A i \in 1..Len(queue') : queue'[i] # "SOLENOID_OPEN"
    BY <2>1, <1>4 DEF Receive
  <2>4. cmd'[Main] = Head(queue) /\ pend' = pend
    BY <1>4, <1>i, <1>m DEF Receive, Begin, TypeOK, HwTypeOK
  <2> QED
    BY <2>2, <2>3, <2>4, <1>i
<1>5. ASSUME NEW t \in Threads, Work(t) PROVE ValveInv'
  <2>1. cmd'[Main] = cmd[Main] \/ cmd'[Main] = NoCommand
    BY <1>5, <1>i, <1>m DEF Work, HwStep, SwitchRelay, SetPulse, LatchPulse, PressButton,
                            Record, TypeOK, HwTypeOK
  <2> QED
    BY <1>5, <2>1, <1>i DEF Work, planterVars, NoCommand
<1>6. ASSUME NEW c \in Clients, ObeyOrder(c) PROVE ValveInv'
  <2>1. c # Main
    BY ThreadsAssumption
  <2>2. cmd'[Main] = cmd[Main] /\ queue' = queue /\ pend' = pend
    BY <1>6, <2>1, <1>i, <1>m DEF ObeyOrder, Begin, TypeOK, HwTypeOK
  <2> QED
    BY <2>2, <1>i
<1> QED
  BY <1>1, <1>2, <1>3, <1>4, <1>5, <1>6, NextSplit

\* Only the command SOLENOID_OPEN connects the relay of the valve.
LEMMA ValveRelay ==
  ASSUME PlanterInv, [HwNext]_hwVars,
         ~relay[Channel("solenoid")], relay'[Channel("solenoid")]
  PROVE  \E t \in Threads : cmd[t] = "SOLENOID_OPEN"
<1>1. PICK t \in Threads : SwitchRelay(t)
  BY DEF HwNext, HwStep, Begin, SetPulse, LatchPulse, PressButton, Record, hwVars
<1>2. cmd[t] \in RelayCommand
  BY <1>1 DEF SwitchRelay, PlanterInv, CallFits
<1>3. /\ Channel(DeviceOf(cmd[t])) = Channel("solenoid")
      /\ Connects(cmd[t])
  <2>1. Channel("solenoid") \in 1..4
    BY DEF Channel
  <2> QED
    BY <1>1, <2>1 DEF SwitchRelay, PlanterInv, TypeOK, HwTypeOK
<1>4. \A c \in RelayCommand :
        Channel(DeviceOf(c)) = Channel("solenoid") /\ Connects(c) => c = "SOLENOID_OPEN"
  BY DEF RelayCommand, Command, DeviceOf, Channel, Connects
<1> QED
  BY <1>2, <1>3, <1>4

(* Water is only let in by hand, for any number of clients and any queue.    *)
THEOREM ValveSafety == Spec => ValveOpensOnlyByHand
<1>1. ValveInv /\ [Next]_vars
        => [~relay[Channel("solenoid")] /\ relay'[Channel("solenoid")]
              => \E c \in Clients : cmd[c] = "SOLENOID_OPEN"]_vars
  <2> SUFFICES ASSUME ValveInv, [Next]_vars,
                      ~relay[Channel("solenoid")], relay'[Channel("solenoid")]
               PROVE  \E c \in Clients : cmd[c] = "SOLENOID_OPEN"
    OBVIOUS
  <2>1. PICK t \in Threads : cmd[t] = "SOLENOID_OPEN"
    BY PlanterInvStep, ValveRelay DEF ValveInv
  <2>2. t # Main
    BY <2>1 DEF ValveInv
  <2> QED
    BY <2>1, <2>2, ThreadsAssumption
<1> QED
  BY <1>1, ValveInvInit, ValveInvStep, PTL DEF Spec, ValveOpensOnlyByHand

-----------------------------------------------------------------------------
\* The operations that end in a call of message_queue_handler() by a client.
ByHand == {"state_change", "state_stream"}

\* Without them the main thread is the only caller, so nothing unsettles a device.
SoleCaller ==
  /\ PlanterInv
  /\ HwInv
  /\ \A c \in Clients : pc[c] = "idle" /\ stage[c] \notin {"check", "order", "stream"}
  /\ Device \ {"drain"} \subseteq settled
  /\ insync

LEMMA SoleCallerInit == Init => SoleCaller
<1> SUFFICES ASSUME Init PROVE SoleCaller
  OBVIOUS
<1>1. PlanterInv /\ HwInv
  BY PlanterInvInit, HwInvInit DEF Init
<1> QED
  BY <1>1, ThreadsAssumption DEF Init, HwInit, SoleCaller

LEMMA SoleCallerStep ==
  ASSUME \A c \in Clients : Ops[c] \cap ByHand = {}, SoleCaller, [Next]_vars
  PROVE  SoleCaller'
<1> USE DEF SoleCaller
<1>1. PlanterInv' /\ HwInv' /\ TypeOK /\ HwTypeOK
  BY PlanterInvStep, HwInvNext DEF PlanterInv, TypeOK
<1>m. Main \in Threads /\ \A t \in Threads : t # Main => t \in Clients
  BY ThreadsAssumption
<1>2. CASE UNCHANGED vars
  BY <1>2, <1>1 DEF vars, hwVars, planterVars
<1>3. ASSUME NEW p \in Pollers, Poll(p) PROVE SoleCaller'
  <2>1. UNCHANGED hwVars /\ stage' = stage
    BY <1>3, PollTyped DEF Poll, Sense, Evaluate, Send, Store
  <2> QED
    BY <2>1, <1>1 DEF hwVars
<1>4. ASSUME NEW c \in Clients, ClientOnly(c) PROVE SoleCaller'
  <2>1. UNCHANGED hwVars
    BY <1>4, ClientTyped
  <2>2. stage'[c] \notin {"check", "order", "stream"}
        /\ \A d \in Clients : d # c => stage'[d] = stage[d]
    <3>1. ASSUME NEW o \in Ops[c], Connect(c, o)
          PROVE  stage'[c] \notin {"check", "order", "stream"}
      <4>1. o \in Operation \ ByHand
        BY OpsAssumption
      <4>2. FirstStage(o) \notin {"check", "order", "stream"}
        BY <4>1 DEF Operation, ByHand, FirstStage
      <4> QED
        BY <3>1, <4>2, <1>1 DEF Connect, Goto, TypeOK
    <3>2. \A d \in Clients : d # c => stage'[d] = stage[d]
      BY <1>4, <1>1 DEF ClientOnly, Connect, LoadMode, StoreMode, StreamEnds, CheckMode,
             IgnoreOrder, ParseBoundary, UpdateBoundary, SendOff, BeginQuery, EndQuery,
             Goto, TypeOK
    <3>3. ~(\E o \in Ops[c] : Connect(c, o)) => stage'[c] \notin {"check", "order", "stream"}
      BY <1>4, <1>1 DEF ClientOnly, LoadMode, StoreMode, StreamEnds, CheckMode,
             IgnoreOrder, ParseBoundary, UpdateBoundary, SendOff, BeginQuery, EndQuery,
             Goto, TypeOK
    <3> QED
      BY <3>1, <3>2, <3>3
  <2> QED
    BY <2>1, <2>2, <1>1 DEF hwVars
<1>5. CASE Receive
  <2>1. Head(queue) \in Command
    BY <1>5, <1>1 DEF Receive, TypeOK
  <2>2. DeviceOf(Head(queue)) \in Device
    BY <2>1, CommandTable
  <2>3. \A t \in Threads : pc[t] = "idle"
    BY <1>5, <1>m DEF Receive, Begin
  <2>4. Busy(DeviceOf(Head(queue))) = {}
    BY <2>3 DEF Busy
  <2>5. settled \subseteq settled' /\ insync' = insync
    BY <1>5, <2>4 DEF Receive, Begin
  <2>6. \A c \in Clients : pc'[c] = pc[c] /\ stage'[c] = stage[c]
    BY <1>5, <1>1, ThreadsAssumption DEF Receive, Begin, HwTypeOK
  <2> QED
    BY <2>5, <2>6, <1>1
<1>6. ASSUME NEW t \in Threads, Work(t) PROVE SoleCaller'
  <2>1. t = Main
    BY <1>6, <1>m DEF Work, HwStep, SwitchRelay, SetPulse, LatchPulse, PressButton, Record
  <2>2. \A c \in Clients : pc'[c] = pc[c]
    BY <2>1, <1>6, <1>1, ThreadsAssumption DEF Work, HwStep, SwitchRelay, SetPulse,
       LatchPulse, PressButton, Record, HwTypeOK
  <2>h. "humidifier" \in settled
    BY DEF Device
  <2>3. settled' = settled /\ stage' = stage /\ insync' = insync
    BY <1>6, <2>h DEF Work, planterVars, HwStep, SwitchRelay, SetPulse, LatchPulse, PressButton,
                Record
  <2> QED
    BY <2>2, <2>3, <1>1
<1>7. ASSUME NEW c \in Clients, ObeyOrder(c) PROVE SoleCaller'
  BY <1>7 DEF ObeyOrder
<1> QED
  BY <1>2, <1>3, <1>4, <1>5, <1>6, <1>7, NextSplit

(* As long as no client gives orders by hand, every record but the drain's   *)
(* first is right whenever its device is idle: the queue serialises all      *)
(* other commands, however many polling threads and boundary clients there   *)
(* are.                                                                      *)
THEOREM AutomaticRecordsAreTrue ==
  ASSUME \A c \in Clients : Ops[c] \cap ByHand = {}
  PROVE  Spec => []RecordsAreTrue
<1>1. SoleCaller /\ [Next]_vars => SoleCaller'
  BY SoleCallerStep
<1>2. SoleCaller => RecordsAreTrue
  BY DEF SoleCaller, HwInv, RecordMatchesHardware, Reliable, RecordsAreTrue
<1> QED
  BY <1>1, <1>2, SoleCallerInit, PTL DEF Spec
=============================================================================
