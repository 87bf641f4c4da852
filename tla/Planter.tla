------------------------------- MODULE Planter -------------------------------
(***************************************************************************)
(* The controller of src/main.c: polling threads read the sensors and send *)
(* commands to a message queue, the main thread executes them, and socket  *)
(* threads, one per connection, change the mode, the boundaries and, in    *)
(* MANUAL mode, the devices.  All of them share the g_ variables without a *)
(* lock; the actions are the accesses they can interleave at.              *)
(*                                                                         *)
(* A reading is modelled by which of its boundaries it is beyond: that is  *)
(* all the rules of the polling threads test.                              *)
(***************************************************************************)
EXTENDS Actuators, Sequences

CONSTANTS
  Main,      \* the main thread
  Clients,   \* socket threads: connections served at the same time
  Pollers,   \* the polling threads that run
  MaxMsg,    \* MQ_MAX_MSG, the capacity of the message queue
  Ops,       \* client -> the commands it opens a connection for
  Orders,    \* the device commands clients send to state_change()
  Excited    \* the chains whose readings leave their band (bounds TLC runs)

PollerName == {"humitemp", "photo", "magnetic", "moisture"}

Operation == {"mode_toggle", "state_change", "state_stream", "boundary", "database"}

\* What a rule compares: a reading with the boundaries of the device it is for.
Chain == {"fan", "humidifier", "dryer", "cooler", "led", "solenoid", "drain"}
Side == {"under", "upper"}

ASSUME ThreadsAssumption == Threads = Clients \cup {Main} /\ Main \notin Clients
ASSUME PollersAssumption == Pollers \subseteq PollerName
ASSUME QueueAssumption == MaxMsg \in Nat \ {0}
ASSUME OpsAssumption == Ops \in [Clients -> SUBSET Operation]
ASSUME OrdersAssumption == Orders \subseteq Command
ASSUME ExcitedAssumption == Excited \subseteq Chain
ASSUME IssuedIsCommand == Issued = Command

VARIABLES
  mode,    \* g_mode
  queue,   \* the message queue /mq_main
  beyond,  \* chain -> the boundaries its latest reading is beyond
  at,      \* poller -> 0 at the sensor, k at its k-th rule, then the database
  pend,    \* poller -> command it has decided on and not sent yet
  stage,   \* client -> where its socket thread stands
  seen,    \* client -> the g_mode that mode_toggle() has loaded
  sent,    \* client -> how many OFF commands receive_boundary_data() has sent
  torn     \* history: the last boundary update that began overlapped another

planterVars == <<mode, queue, beyond, at, pend, stage, seen, sent, torn>>
vars == <<hwVars, planterVars>>

Mode == {"AUTO", "MANUAL"}
Stage == {"none", "load", "store", "check", "order", "stream",
          "parse", "update", "off", "dbwait", "query"}

-----------------------------------------------------------------------------
(* The rules, in the order of the code.  Rule k and k+1, k odd, are an      *)
(* if / else if pair.  A rule fires when its reading is beyond 'side' and   *)
(* the recorded state is in 'when'; 'cmd' is the command it sends.          *)

Rule(chain, side, when, c) == [chain |-> chain, side |-> side, when |-> when, cmd |-> c]

Ventilate       == Rule("fan", "upper", {"FAN_OFF"}, "FAN_ON")
StopVentilating == Rule("fan", "under", {"FAN_ON"}, "FAN_OFF")
Humidify        == Rule("humidifier", "under", {"HUMIDIFIER_OFF"}, "HUMIDIFIER_ON")
StopHumidifying == Rule("humidifier", "upper", {"HUMIDIFIER_ON"}, "HUMIDIFIER_OFF")
Dry             == Rule("dryer", "under", {"DRYER_OFF"}, "DRYER_ON")
StopDrying      == Rule("dryer", "upper", {"DRYER_ON"}, "DRYER_OFF")
CoolFromRest    == Rule("cooler", "upper", {"FAN_OFF"}, "FAN_VERY_FAST")            \* mutant
CoolAlways      == Rule("cooler", "upper", {"FAN_OFF", "FAN_ON", "FAN_VERY_FAST"},
                        "FAN_VERY_FAST")                                            \* mutant
Cool            == Rule("cooler", "upper", {"FAN_OFF", "FAN_ON"}, "FAN_VERY_FAST")
StopCooling     == Rule("cooler", "under", {"FAN_VERY_FAST"}, "FAN_OFF")

HumitempRules == << Ventilate, StopVentilating, Humidify, StopHumidifying,
                    Dry, StopDrying, Cool, StopCooling >>

LightInBrightness == Rule("led", "upper", {"LED_OFF"}, "LED_ON")                      \* mutant
Light             == Rule("led", "under", {"LED_OFF"}, "LED_ON")
StopLighting      == Rule("led", "upper", {"LED_ON"}, "LED_OFF")

PhotoRules == << Light, StopLighting >>

\* "upper" stands for MAGNETIC_DETECTED and MOISTURE_FULL.
MagneticRules == << Rule("solenoid", "upper", {"SOLENOID_OPEN"}, "SOLENOID_CLOSE") >>
MoistureRules == << Rule("drain", "upper", {"DRAIN_CLOSE"}, "DRAIN_OPEN") >>

Rules == [humitemp |-> HumitempRules, photo    |-> PhotoRules,
          magnetic |-> MagneticRules, moisture |-> MoistureRules]

RuleCommand == {"FAN_ON", "FAN_OFF", "HUMIDIFIER_ON", "HUMIDIFIER_OFF", "DRYER_ON",
                "DRYER_OFF", "FAN_VERY_FAST", "LED_ON", "LED_OFF", "SOLENOID_CLOSE",
                "DRAIN_OPEN"}

Last(p) == Len(Rules[p])

\* Where the code goes on after rule k of p has fired, or has not.
Past(k, n) == IF k % 2 = 1 /\ k < n THEN k + 2 ELSE k + 1

\* Mutant: the reading is not looked at.
FiresOnRecord(r) == gstate[DeviceOf(r.cmd)] \in r.when

Fires(r) == r.side \in beyond[r.chain] /\ gstate[DeviceOf(r.cmd)] \in r.when

\* When the cooler lets go of the fan, humidity decides whether it keeps turning.
Verdict(r) == IF r.chain = "cooler" /\ r.side = "under" /\ "under" \notin beyond["fan"]
              THEN "FAN_ON" ELSE r.cmd

ChainsOf(p) == CASE p = "humitemp" -> {"fan", "humidifier", "dryer", "cooler"}
                 [] p = "photo"    -> {"led"}
                 [] p = "magnetic" -> {"solenoid"}
                 [] OTHER          -> {"drain"}

BoundaryChain == ChainsOf("humitemp") \cup ChainsOf("photo")

\* The readings of a chain; none is beyond both boundaries while the bands are
\* straight, which is what NeverBeyondBoth of module Boundary says.
Reading(straight) ==
  [ch \in Chain |-> IF ch \notin BoundaryChain THEN {{}, {"upper"}}
                    ELSE IF straight THEN {{}, {"under"}, {"upper"}} ELSE SUBSET Side]

\* No boundary is between sscanf() and boundary_update(), and none was left so.
Straight == ~torn /\ \A c \in Clients : stage[c] # "update"

\* The readings of the excited chains in C change to one of R.
Change(C, R) ==
  \E f \in [C \cap Excited -> SUBSET Side] :
    /\ \A ch \in C \cap Excited : f[ch] \in R[ch]
    /\ beyond' = [ch \in Chain |-> IF ch \in C \cap Excited THEN f[ch] ELSE beyond[ch]]

-----------------------------------------------------------------------------
(* Type invariant.  The queue never exceeds its capacity, and a polling      *)
(* thread that has decided on a command stands at one of its rules.          *)
TypeOK ==
  /\ HwTypeOK
  /\ mode \in Mode
  /\ queue \in Seq(Command) /\ Len(queue) <= MaxMsg
  /\ beyond \in [Chain -> SUBSET Side]
  /\ at \in [Pollers -> Nat]
  /\ \A p \in Pollers : at[p] <= Last(p) + 1
  /\ pend \in [Pollers -> Command \cup {NoCommand}]
  /\ \A p \in Pollers : pend[p] # NoCommand => at[p] \in 1..Last(p)
  /\ stage \in [Clients -> Stage]
  /\ seen \in [Clients -> Mode]
  /\ sent \in [Clients -> 0..3]
  /\ torn \in BOOLEAN

\* main() up to its loop: states_init(), boundary_init(), message_queue_init()
\* with an empty queue, create_polling_threads(); g_mode is zero-initialised.
Init ==
  /\ HwInit
  /\ mode = "AUTO"
  /\ queue = <<>>
  /\ beyond = [ch \in Chain |-> {}]
  /\ at = [p \in Pollers |-> 0]
  /\ pend = [p \in Pollers |-> NoCommand]
  /\ stage = [c \in Clients |-> "none"]
  /\ seen = [c \in Clients |-> "AUTO"]
  /\ sent = [c \in Clients |-> 0]
  /\ torn = FALSE

\* Mutant: the queue has no limit.
EnqueueUnbounded(c) == queue' = Append(queue, c)

\* mq_send() on the O_NONBLOCK queue; no caller looks at its result.
Enqueue(c) == queue' = IF Len(queue) < MaxMsg THEN Append(queue, c) ELSE queue

-----------------------------------------------------------------------------
(* The polling threads.                                                     *)

\* Mutant: the mode is not tested.
SenseInAnyMode(p) ==
  /\ at[p] = 0
  /\ Change(ChainsOf(p), Reading(Straight))
  /\ at' = [at EXCEPT ![p] = 1]
  /\ UNCHANGED <<hwVars, mode, queue, pend, stage, seen, sent, torn>>

\* Read the sensor into the g_ variable, then test g_mode.
Sense(p) ==
  /\ at[p] = 0
  /\ Change(ChainsOf(p), Reading(Straight))
  /\ at' = [at EXCEPT ![p] = IF mode = "AUTO" THEN 1 ELSE Last(p) + 1]
  /\ UNCHANGED <<hwVars, mode, queue, pend, stage, seen, sent, torn>>

\* One condition of the handler: compare the reading, then the recorded state.
Evaluate(p) ==
  /\ at[p] \in 1..Last(p) /\ pend[p] = NoCommand
  /\ LET r == Rules[p][at[p]] IN
       IF Fires(r)
       THEN /\ pend' = [pend EXCEPT ![p] = Verdict(r)]
            /\ UNCHANGED at
       ELSE /\ at' = [at EXCEPT ![p] = @ + 1]
            /\ UNCHANGED pend
  /\ UNCHANGED <<hwVars, mode, queue, beyond, stage, seen, sent, torn>>

\* mq_send() of the command decided on, past the else-branch of the pair.
Send(p) ==
  /\ pend[p] # NoCommand
  /\ Enqueue(pend[p])
  /\ pend' = [pend EXCEPT ![p] = NoCommand]
  /\ at' = [at EXCEPT ![p] = Past(@, Last(p))]
  /\ UNCHANGED <<hwVars, mode, beyond, stage, seen, sent, torn>>

\* The SQLite connection's mutex, held while a query sends its rows.
Querying == \E c \in Clients : stage[c] = "query"

\* database_insert(), which waits for that mutex, and the sleep until the next
\* reading.
Store(p) ==
  /\ at[p] = Last(p) + 1
  /\ ~Querying
  /\ at' = [at EXCEPT ![p] = 0]
  /\ UNCHANGED <<hwVars, mode, queue, beyond, pend, stage, seen, sent, torn>>

Poll(p) == Sense(p) \/ Evaluate(p) \/ Send(p) \/ Store(p)

-----------------------------------------------------------------------------
(* The main thread and the calls of message_queue_handler().                *)

\* One iteration of the loop of main() that finds a message.
Receive ==
  /\ queue # <<>>
  /\ Begin(Main, Head(queue))
  /\ queue' = Tail(queue)
  /\ UNCHANGED <<mode, beyond, at, pend, stage, seen, sent, torn>>

\* The next hardware access of a message_queue_handler() call in progress.
Work(t) == HwStep(t) /\ UNCHANGED planterVars

-----------------------------------------------------------------------------
(* The socket threads.                                                      *)

Goto(c, s) == stage' = [stage EXCEPT ![c] = s]

FirstStage(o) == CASE o = "mode_toggle"  -> "load"
                   [] o = "state_change" -> "check"
                   [] o = "state_stream" -> "stream"
                   [] o = "boundary"     -> "parse"
                   [] OTHER              -> "dbwait"

\* main() accepts a connection and socket_handler() receives its command.
Connect(c, o) ==
  /\ pc[Main] = "idle"
  /\ stage[c] = "none" /\ pc[c] = "idle"
  /\ Goto(c, FirstStage(o))
  /\ UNCHANGED <<hwVars, mode, queue, beyond, at, pend, seen, sent, torn>>

\* g_mode ^= 1 is a load and a store of a volatile variable.
Flip(m) == IF m = "AUTO" THEN "MANUAL" ELSE "AUTO"

LoadMode(c) ==
  /\ stage[c] = "load"
  /\ seen' = [seen EXCEPT ![c] = mode]
  /\ Goto(c, "store")
  /\ UNCHANGED <<hwVars, mode, queue, beyond, at, pend, sent, torn>>

StoreMode(c) ==
  /\ stage[c] = "store"
  /\ mode' = Flip(seen[c])
  /\ seen' = [seen EXCEPT ![c] = "AUTO"]
  /\ Goto(c, "none")
  /\ UNCHANGED <<hwVars, queue, beyond, at, pend, sent, torn>>

\* The client of transfer_state_data() is gone: send() fails, the loop ends, and
\* case 9 of socket_handler(), which has no break, falls into state_change().
StreamEnds(c) ==
  /\ stage[c] = "stream"
  /\ Goto(c, "check")
  /\ UNCHANGED <<hwVars, mode, queue, beyond, at, pend, seen, sent, torn>>

\* state_change() looks at g_mode before it waits for the order.
CheckMode(c) ==
  /\ stage[c] = "check"
  /\ Goto(c, IF mode = "MANUAL" THEN "order" ELSE "none")
  /\ UNCHANGED <<hwVars, mode, queue, beyond, at, pend, seen, sent, torn>>

\* state_change() receives the order and passes it to message_queue_handler().
ObeyOrder(c) ==
  /\ stage[c] = "order"
  /\ \E x \in Orders : Begin(c, x)
  /\ Goto(c, "none")
  /\ UNCHANGED <<mode, queue, beyond, at, pend, seen, sent, torn>>

\* It receives something else, or nothing: "invalid message queue command".
IgnoreOrder(c) ==
  /\ stage[c] = "order"
  /\ Goto(c, "none")
  /\ UNCHANGED <<hwVars, mode, queue, beyond, at, pend, seen, sent, torn>>

\* receive_boundary_data(): sscanf() moves one boundary of each chain ...
ParseBoundary(c) ==
  /\ stage[c] = "parse"
  /\ Change(BoundaryChain, Reading(FALSE))
  /\ torn' = (\E d \in Clients : stage[d] = "update")
  /\ Goto(c, "update")
  /\ UNCHANGED <<hwVars, mode, queue, at, pend, seen, sent>>

\* ... boundary_update() moves the other one after it ...
UpdateBoundary(c) ==
  /\ stage[c] = "update"
  /\ Change(BoundaryChain, Reading(~torn))
  /\ Goto(c, "off")
  /\ UNCHANGED <<hwVars, mode, queue, at, pend, seen, sent, torn>>

\* ... and four mq_send() calls turn the devices off, whatever the mode.
OffSequence == <<"FAN_OFF", "DRYER_OFF", "LED_OFF", "HUMIDIFIER_OFF">>

SendOff(c) ==
  /\ stage[c] = "off"
  /\ Enqueue(OffSequence[sent[c] + 1])
  /\ sent' = [sent EXCEPT ![c] = (@ + 1) % Len(OffSequence)]
  /\ Goto(c, IF sent[c] + 1 < Len(OffSequence) THEN "off" ELSE "none")
  /\ UNCHANGED <<hwVars, mode, beyond, at, pend, seen, torn>>

\* database_data_socket_transfer(): sqlite3_exec() holds the connection's mutex
\* while its callback sends row after row to the client.
BeginQuery(c) ==
  /\ stage[c] = "dbwait"
  /\ ~Querying
  /\ Goto(c, "query")
  /\ UNCHANGED <<hwVars, mode, queue, beyond, at, pend, seen, sent, torn>>

EndQuery(c) ==
  /\ stage[c] = "query"
  /\ Goto(c, "none")
  /\ UNCHANGED <<hwVars, mode, queue, beyond, at, pend, seen, sent, torn>>

\* Steps the thread takes on its own, and those that wait for the client.
Serve(c) == \/ LoadMode(c) \/ StoreMode(c) \/ CheckMode(c)
            \/ UpdateBoundary(c) \/ SendOff(c) \/ BeginQuery(c)
Await(c) == \/ \E o \in Ops[c] : Connect(c, o)
            \/ StreamEnds(c) \/ ObeyOrder(c) \/ IgnoreOrder(c)
            \/ ParseBoundary(c) \/ EndQuery(c)

Next == \/ Receive
        \/ \E t \in Threads : Work(t)
        \/ \E p \in Pollers : Poll(p)
        \/ \E c \in Clients : Serve(c) \/ Await(c)

Spec == Init /\ [][Next]_vars

\* Every thread is scheduled; nothing is assumed of the clients.
Fairness == /\ WF_vars(Receive \/ Work(Main))
            /\ \A p \in Pollers : WF_vars(Poll(p))
            /\ \A c \in Clients : WF_vars(Serve(c) \/ Work(c))

FairSpec == Spec /\ Fairness

-----------------------------------------------------------------------------
(* Safety.  Water is only ever let in by hand: no thread but a socket thread *)
(* obeying SOLENOID_OPEN connects the relay of the valve, whatever the rules, *)
(* the boundary clients and the message queue do.                            *)
ValveOpensOnlyByHand ==
  [][~relay[Channel("solenoid")] /\ relay'[Channel("solenoid")]
       => \E c \in Clients : cmd[c] = "SOLENOID_OPEN"]_vars

-----------------------------------------------------------------------------
(* Liveness.  "Stable" is the premise that the world comes to rest: the mode  *)
(* stays AUTO, no client is connected, and the readings do not change sides. *)
Undisturbed == mode = "AUTO" /\ \A c \in Clients : stage[c] = "none"

Stable == <>[]Undisturbed /\ <>[][UNCHANGED beyond]_vars

Stays(ch, s) == <>[](beyond[ch] = {s})

(* Liveness.  The lamp, the humidifier and the dryer follow their readings:  *)
(* whatever clients did before, and however late the main thread executes    *)
(* commands that were decided on older readings, or drops them because the   *)
(* queue is full, a reading that stays beyond a boundary ends with the       *)
(* device in the condition the rules ask for.                                *)
DevicesFollowClimate ==
  Stable => /\ Stays("humidifier", "under") => <>[]InEffect("HUMIDIFIER_ON")
            /\ Stays("humidifier", "upper") => <>[]InEffect("HUMIDIFIER_OFF")
            /\ Stays("dryer", "under") => <>[]InEffect("DRYER_ON")
            /\ Stays("dryer", "upper") => <>[]InEffect("DRYER_OFF")
            /\ Stays("led", "under") => <>[]InEffect("LED_ON")
            /\ Stays("led", "upper") => <>[]InEffect("LED_OFF")

(* Liveness.  Two rule pairs command the fan.  Heat wins: the fan ends up    *)
(* very fast, whatever the humidity; once it is cool humidity alone decides. *)
FanFollowsClimate ==
  Stable => /\ Stays("cooler", "upper") => <>[]InEffect("FAN_VERY_FAST")
            /\ Stays("cooler", "under") /\ Stays("fan", "upper") => <>[]InEffect("FAN_ON")
            /\ Stays("cooler", "under") /\ Stays("fan", "under") => <>[]InEffect("FAN_OFF")

(* Liveness.  The rules reach a fixed point: when the readings rest the      *)
(* polling threads stop sending, so no two rules undo each other for ever    *)
(* and a reading inside its band changes nothing.                            *)
ClimateSettles == Stable => <>[](queue = <<>>)

(* Liveness.  In MANUAL mode the automatic control falls silent: commands    *)
(* queued before the toggle are executed, and then the main thread rests.    *)
ManualTakesOver ==
  <>[](mode = "MANUAL" /\ \A c \in Clients : stage[c] = "none")
    => <>[](queue = <<>> /\ pc[Main] = "idle")

-----------------------------------------------------------------------------
(* Claims of the code's comments that its interleavings break.              *)

(* "command 9: transfer state data to client" (main.c:410): in a run whose    *)
(* clients only toggle the mode and watch the states, no device changes.     *)
ObserversChangeNothing == [][UNCHANGED gstate]_vars

(* "if magnet is detected and solenoid is open state" (main.c:665) the valve *)
(* is closed: with the tank full for ever the water ends up shut off.        *)
WaterStops == Stable /\ Stays("solenoid", "upper") => <>[]InEffect("SOLENOID_CLOSE")
=============================================================================
