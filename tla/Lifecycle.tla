------------------------------ MODULE Lifecycle ------------------------------
(***************************************************************************)
(* The controller of module Planter through the lives of its process: main()*)
(* sets the devices up, SIGINT runs resources_deinit() in the middle of    *)
(* whatever the threads are doing, and the process may die at any moment   *)
(* (a kill, an error of the camera, an access to freed memory).  Relays,   *)
(* PWM timers, the humidifier and the message queue keep their state while *)
(* there is no process; the rest is lost.                                  *)
(*                                                                         *)
(* The kernel delivers SIGINT to the main thread: its loop, and a call of  *)
(* message_queue_handler() it may be in, stand still while the handler     *)
(* runs; all other threads go on, with fewer and fewer open files.         *)
(***************************************************************************)
EXTENDS Planter

VARIABLES
  life,     \* "up", "stopping" while resources_deinit() runs, "down"
  todo,     \* the step of resources_deinit() that comes next
  conn,     \* whether the SQLite connection is open
  touched   \* history: devices some other call was using while the handler ran

lifeVars == <<life, todo, conn, touched>>
allVars == <<vars, lifeVars>>

(* resources_deinit(), step by step.  music_deinit() between the humidifier  *)
(* and the database belongs to module Music; mq_close() is part of the exit.*)
DeinitSteps == << "relays", "relay file", "servo", "servo duty", "servo file",
                  "sensors", "fan file", "humidifier", "humidifier file",
                  "database", "exit" >>

At(s) == life = "stopping" /\ DeinitSteps[todo] = s

\* The handler has taken step s.
Done(s) == life = "stopping" /\ \E k \in 1..(todo - 1) : DeinitSteps[k] = s

SensorsClosed == Done("sensors")

\* The file the next access of t goes to is closed.
FileClosed(t) ==
  \/ pc[t] = "relay" /\ Done("relay file")
  \/ pc[t] = "ioctl" /\ Done(IF DeviceOf(cmd[t]) = "drain" THEN "servo file" ELSE "fan file")
  \/ pc[t] = "press" /\ Done("humidifier file")

\* humidifier_off() of the handler is pressing the button.
HandlerPresses == At("humidifier file")

-----------------------------------------------------------------------------
LifeInit ==
  /\ Init
  /\ life = "up" /\ todo = 1 /\ conn \in BOOLEAN /\ touched = {}

\* What is lost with the process: its memory and its threads.  The count of
\* presses is to start at 0 again, whatever the humidifier does.
Die ==
  /\ life' = "down" /\ todo' = 1 /\ conn' = FALSE /\ touched' = {}
  /\ pulse' = [m \in Motor |-> 0]
  /\ gstate' = StatesInit
  /\ pc' = [t \in Threads |-> "idle"]
  /\ cmd' = [t \in Threads |-> NoCommand]
  /\ settled' = {}
  /\ mode' = "AUTO"
  /\ at' = [p \in Pollers |-> 0]
  /\ pend' = [p \in Pollers |-> NoCommand]
  /\ stage' = [c \in Clients |-> "none"]
  /\ seen' = [c \in Clients |-> "AUTO"]
  /\ sent' = [c \in Clients |-> 0]
  /\ torn' = FALSE
  /\ insync' = ~spraying
  /\ UNCHANGED <<relay, pwm, spraying, queue, beyond>>

\* The process ends without running resources_deinit().
Crash == life # "down" /\ Die

\* Mutant: what earlier commands left connected stays so.
StartAsIs ==
  /\ life = "down"
  /\ life' = "up" /\ conn' \in BOOLEAN
  /\ pwm' = [pwm EXCEPT !["drain"] = 0]
  /\ settled' = Device \ {"drain"}
  /\ UNCHANGED <<relay, pulse, spraying, insync, gstate, pc, cmd, planterVars, todo, touched>>

\* main() up to its loop: relay_init() opens every relay, servo_init() turns the
\* servo, mq_open() finds the queue of the life before, the database may fail to
\* open.
Start ==
  /\ life = "down"
  /\ life' = "up" /\ conn' \in BOOLEAN
  /\ relay' = [ch \in 1..4 |-> FALSE]
  /\ pwm' = [pwm EXCEPT !["drain"] = 0]
  /\ settled' = Device \ {"drain"}
  /\ UNCHANGED <<pulse, spraying, insync, gstate, pc, cmd, planterVars, todo, touched>>

-----------------------------------------------------------------------------
(* The handler of SIGINT.                                                   *)

\* Devices other threads are using, and the humidifier if the main thread was
\* stopped while pressing its button or the count of presses is wrong already.
InUse == {d \in Device : Busy(d) \ {Main} # {}}
         \cup (IF pc[Main] = "press" \/ ~insync THEN {"humidifier"} ELSE {})

SigInt ==
  /\ life = "up"
  /\ life' = "stopping"
  /\ touched' = InUse
  /\ settled' = {}
  /\ UNCHANGED <<relay, pulse, pwm, spraying, insync, gstate, pc, cmd, planterVars, todo, conn>>

\* Step s of the handler; what it does to devices no record tells of.
Deinit(s) ==
  /\ At(s)
  /\ todo' = todo + 1
  /\ settled' = {}
  /\ UNCHANGED <<gstate, pc, cmd, planterVars, life, touched>>

\* Mutant: IN3 is forgotten.
DisconnectThree ==
  /\ Deinit("relays")
  /\ relay' = [ch \in 1..4 |-> ch = 3 /\ relay[ch]]
  /\ UNCHANGED <<pulse, pwm, spraying, insync, conn>>

\* relay_deinit(): all relays are disconnected.
DisconnectAll ==
  /\ Deinit("relays")
  /\ relay' = [ch \in 1..4 |-> FALSE]
  /\ UNCHANGED <<pulse, pwm, spraying, insync, conn>>

\* servo_deinit(): back to 0 degrees, through the duty other threads store to.
ServoPulse ==
  /\ Deinit("servo")
  /\ pulse' = [pulse EXCEPT !["drain"] = 0]
  /\ UNCHANGED <<relay, pwm, spraying, insync, conn>>

ServoDuty ==
  /\ Deinit("servo duty")
  /\ pwm' = [pwm EXCEPT !["drain"] = pulse["drain"]]
  /\ UNCHANGED <<relay, pulse, spraying, insync, conn>>

\* A file is closed, or humidifier_off() begins.  The fan's relay is asked for
\* again, on a file that is closed by then.
CloseOrBegin ==
  /\ \E s \in {"relay file", "servo file", "sensors", "fan file", "humidifier"} : Deinit(s)
  /\ UNCHANGED <<relay, pulse, pwm, spraying, insync, conn>>

\* humidifier_off() has pressed the button as the count asks for, which goes
\* wrong with a wrong count or another thread in the middle of its presses; the
\* file is closed.
HumidifierOff ==
  /\ Deinit("humidifier file")
  /\ IF insync /\ \A t \in Threads : pc[t] # "press"
     THEN spraying' = FALSE
     ELSE spraying' \in BOOLEAN
  /\ UNCHANGED <<relay, pulse, pwm, insync, conn>>

\* Mutant: a connection closed by a failed insert is waited for.
CloseDatabaseIfOpen ==
  /\ ~Querying /\ conn
  /\ Deinit("database")
  /\ conn' = FALSE
  /\ UNCHANGED <<relay, pulse, pwm, spraying, insync>>

\* database_deinit(): sqlite3_close() waits for the connection's mutex.
CloseDatabase ==
  /\ ~Querying
  /\ Deinit("database")
  /\ conn' = FALSE
  /\ UNCHANGED <<relay, pulse, pwm, spraying, insync>>

Exit == At("exit") /\ Die

Handler == \/ DisconnectAll \/ ServoPulse \/ ServoDuty \/ CloseOrBegin
           \/ HumidifierOff \/ CloseDatabase \/ Exit
-----------------------------------------------------------------------------
(* The threads.                                                             *)

\* There is a process.
Running == life # "down"

\* What every step of a thread leaves to the history.
Touch ==
  touched' = IF life # "stopping" THEN touched
             ELSE touched \cup {DeviceOf(cmd'[t]) : t \in {u \in Threads : pc[u] = "idle" /\ pc'[u] # "idle"}}

\* The main thread's own steps, which the handler interrupts.
MainStep ==
  /\ life = "up"
  /\ \/ Receive
     \/ Work(Main)
     \/ \E c \in Clients : \E o \in Ops[c] : Connect(c, o)
  /\ UNCHANGED lifeVars

\* An access of another thread, to a file that is still open.
DeviceStep(t) ==
  /\ Running /\ t # Main /\ ~FileClosed(t)
  /\ ~(pc[t] = "press" /\ HandlerPresses)
  /\ Work(t)
  /\ UNCHANGED lifeVars

\* An access to a closed file: ioctl() fails and nobody looks.
LostAccess(t) ==
  /\ t # Main /\ FileClosed(t)
  /\ pc' = [pc EXCEPT ![t] = IF @ = "relay" THEN AfterRelay(cmd[t]) ELSE "record"]
  /\ settled' = settled \ {DeviceOf(cmd[t])}
  /\ UNCHANGED <<relay, pulse, pwm, spraying, insync, gstate, cmd, planterVars, lifeVars>>

\* Another thread and the handler press the button at the same time.
PressOverlap(t) ==
  /\ t # Main /\ pc[t] = "press" /\ HandlerPresses
  /\ spraying' \in BOOLEAN /\ insync' = FALSE
  /\ pc' = [pc EXCEPT ![t] = "record"]
  /\ settled' = {}
  /\ UNCHANGED <<relay, pulse, pwm, gstate, cmd, planterVars, lifeVars>>

\* read() of a closed sensor fails.  magnetic_is_detected() and
\* moisture_is_full() then return 0; the other threads do not get past it.
SenseClosed(p) ==
  /\ SensorsClosed
  /\ at[p] = 0 /\ p \in {"magnetic", "moisture"}
  /\ beyond' = [ch \in Chain |-> IF ch \in ChainsOf(p) THEN {} ELSE beyond[ch]]
  /\ at' = [at EXCEPT ![p] = IF mode = "AUTO" THEN 1 ELSE Last(p) + 1]
  /\ UNCHANGED <<hwVars, mode, queue, pend, stage, seen, sent, torn, lifeVars>>

\* Mutant: a polling thread waits for a connection that is open.
InsertIfOpen(p) ==
  /\ Running /\ conn
  /\ Store(p)
  /\ conn' \in {conn, FALSE}
  /\ UNCHANGED <<life, todo, touched>>

\* database_insert(): it succeeds, or fails and closes the connection, after
\* which every call fails at once.
Insert(p) ==
  /\ Running
  /\ Store(p)
  /\ conn' \in {conn, FALSE}
  /\ UNCHANGED <<life, todo, touched>>

PollStep(p) ==
  \/ /\ Running
     /\ (Sense(p) /\ ~SensorsClosed) \/ Evaluate(p) \/ Send(p)
     /\ UNCHANGED lifeVars
  \/ SenseClosed(p)
  \/ Insert(p)

\* A query fails at once when the connection is closed.
QueryFails(c) ==
  /\ stage[c] = "dbwait" /\ ~conn
  /\ Goto(c, "none")
  /\ UNCHANGED <<hwVars, mode, queue, beyond, at, pend, seen, sent, torn, lifeVars>>

ServeStep(c) ==
  \/ /\ Running
     /\ \/ LoadMode(c) \/ StoreMode(c) \/ CheckMode(c) \/ UpdateBoundary(c)
        \/ SendOff(c) \/ (conn /\ BeginQuery(c))
     /\ Touch
     /\ UNCHANGED <<life, todo, conn>>
  \/ QueryFails(c)

\* What waits for the client.  A query that fails closes the connection, too.
AwaitStep(c) ==
  /\ Running
  /\ \/ /\ StreamEnds(c) \/ ObeyOrder(c) \/ IgnoreOrder(c) \/ ParseBoundary(c)
        /\ UNCHANGED conn
     \/ EndQuery(c) /\ conn' \in {conn, FALSE}
  /\ Touch
  /\ UNCHANGED <<life, todo>>

LifeNext ==
  \/ SigInt \/ Handler \/ Crash \/ Start
  \/ MainStep
  \/ \E t \in Threads : DeviceStep(t) \/ LostAccess(t) \/ PressOverlap(t)
  \/ \E p \in Pollers : PollStep(p)
  \/ \E c \in Clients : ServeStep(c) \/ AwaitStep(c)

LifeSpec == LifeInit /\ [][LifeNext]_allVars

(* Every thread is scheduled, and the mutex of the database is obtained by    *)
(* who waits for it while others release it again and again.  Nothing is     *)
(* assumed of clients, of SIGINT, or of who starts the process.               *)
LifeFairness ==
  /\ WF_allVars(MainStep /\ (Receive \/ Work(Main)))
  /\ \A t \in Threads : WF_allVars(DeviceStep(t) \/ LostAccess(t) \/ PressOverlap(t))
  /\ \A p \in Pollers : WF_allVars(PollStep(p)) /\ SF_allVars(Insert(p))
  /\ \A c \in Clients : WF_allVars(ServeStep(c))
  /\ WF_allVars(Handler) /\ SF_allVars(CloseDatabase)

LifeFairSpec == LifeSpec /\ LifeFairness

-----------------------------------------------------------------------------
(* Type invariant.                                                          *)
LifeTypeOK ==
  /\ TypeOK
  /\ life \in {"up", "stopping", "down"}
  /\ todo \in 1..Len(DeinitSteps) /\ (life # "stopping" => todo = 1)
  /\ conn \in BOOLEAN
  /\ touched \subseteq Device

IsOff(d) == CASE d = "drain"      -> pwm["drain"] = 0
              [] d = "humidifier" -> ~spraying
              [] OTHER            -> ~relay[Channel(d)]

(* Safety.  When resources_deinit() gets to exit(), every device is off that *)
(* no other thread was using while it ran: neither the main thread's frozen  *)
(* call, nor commands the polling threads go on to send, nor calls that find *)
(* their file closed leave a relay connected, the drain open, or, with a     *)
(* right count, the humidifier spraying.                                     *)
ShutdownTurnsOff == At("exit") => \A d \in Device \ touched : IsOff(d)

(* Safety.  While the process is up the valve only lets water in that a      *)
(* client ordered in this life: a start shuts it, and the queue, which may   *)
(* hold commands of earlier lives, never opens it.                           *)
WaterOnlyByHand ==
  [][life' = "up" /\ relay'[Channel("solenoid")]
       => \/ relay[Channel("solenoid")] /\ life = "up"
          \/ \E c \in Clients : cmd[c] = "SOLENOID_OPEN"]_allVars

(* Clients read what they asked for, so that queries end.                   *)
QueriesEnd == \A c \in Clients : []<>(stage[c] # "query")

(* Liveness.  No polling thread waits for ever for the mutex of the database *)
(* that queries hold, as long as the clients that ask for data read it; nor  *)
(* does a failed insert, which closes the connection others use, stop one.   *)
InsertsReturn ==
  QueriesEnd => \A p \in Pollers : []<>(at[p] # Last(p) + 1)

(* Liveness.  SIGINT ends the process if clients read what they asked for,   *)
(* although its handler waits for a mutex that may be held.                   *)
ShutdownEnds == QueriesEnd => []<>(life # "stopping")

(* Liveness.  The last life of the process follows the climate like the      *)
(* first: neither the commands an earlier life has left in the queue, nor    *)
(* devices it has left on, nor a database that has failed keep the lamp, the *)
(* dryer and, if it was off at the start, the humidifier from their readings.*)
ClimateAfterRestart ==
  <>[](life = "up" /\ insync) => DevicesFollowClimate
=============================================================================
