----------------------------- MODULE Humidifier -----------------------------
(***************************************************************************)
(* drivers/lib/humidifier.c: a humidifier with one button, behind a GPIO   *)
(* line.  Each press takes it from off to spraying, to spraying without    *)
(* pause, to off.  The library counts the presses to know where it is and  *)
(* presses as often as the way to the wanted state takes.  Nothing         *)
(* serialises its callers, and the count is lost when the process ends,    *)
(* while the humidifier keeps its state.                                   *)
(***************************************************************************)
EXTENDS Integers

CONSTANT Callers   \* threads in humidifier_on() or humidifier_off()

VARIABLES
  cnt,      \* the library's count of presses, modulo 3: all it looks at
  line,     \* level of the GPIO line; the button is pressed while it is low
  phase,    \* the humidifier: 0 off, 1 spraying, 2 spraying without pause
  pc,       \* caller -> its next step
  want,     \* caller -> phase its call is for: 1 humidifier_on, 0 humidifier_off
  left,     \* caller -> presses still to make
  loaded,   \* caller -> cnt as its cnt++ has loaded it
  asked,    \* history: phase the last call was for
  upset     \* history: calls overlapped, or the count was lost, since count and
            \* humidifier last agreed

humVars == <<cnt, line, phase, pc, want, left, loaded, asked, upset>>

Step == {"idle", "test", "load", "store", "low", "high"}

(* Type invariant.  The count is taken modulo 3, and no caller has more than *)
(* two presses to make.                                                      *)
HumTypeOK ==
  /\ cnt \in 0..2
  /\ line \in {"high", "low"}
  /\ phase \in 0..2
  /\ pc \in [Callers -> Step]
  /\ want \in [Callers -> {0, 1}]
  /\ left \in [Callers -> 0..2]
  /\ loaded \in [Callers -> 0..2]
  /\ asked \in {0, 1}
  /\ upset \in BOOLEAN

HumInit ==
  /\ cnt = 0 /\ line = "high" /\ phase = 0
  /\ pc = [t \in Callers |-> "idle"]
  /\ want = [t \in Callers |-> 0]
  /\ left = [t \in Callers |-> 0]
  /\ loaded = [t \in Callers |-> 0]
  /\ asked = 0 /\ upset = FALSE

Resting == \A t \in Callers : pc[t] = "idle"

\* Mutant: neither is taken modulo 3.
AdvanceEndlessly(n) == n + 1

\* The next phase, and the next count.
Advance(n) == (n + 1) % 3

\* Mutant: one press turns it off.
PressesOnceForOff(w, n) == IF w = 1 THEN (CASE n = 0 -> 1 [] n = 1 -> 0 [] OTHER -> 2)
                                    ELSE (CASE n = 0 -> 0 [] OTHER -> 1)

\* How often to press with count n: the if / else if / else of both functions.
Presses(w, n) == IF w = 1 THEN (CASE n = 0 -> 1 [] n = 1 -> 0 [] OTHER -> 2)
                          ELSE (CASE n = 0 -> 0 [] n = 1 -> 2 [] OTHER -> 1)

\* A thread calls humidifier_on() (w = 1) or humidifier_off() (w = 0).
Call(t, w) ==
  /\ pc[t] = "idle"
  /\ pc' = [pc EXCEPT ![t] = "test"]
  /\ want' = [want EXCEPT ![t] = w]
  /\ asked' = w
  /\ upset' = (upset \/ ~Resting)
  /\ UNCHANGED <<cnt, line, phase, left, loaded>>

\* cnt % 3 decides how many presses follow; with none the call returns.
Test(t) ==
  /\ pc[t] = "test"
  /\ left' = [left EXCEPT ![t] = Presses(want[t], cnt)]
  /\ pc' = [pc EXCEPT ![t] = IF Presses(want[t], cnt) = 0 THEN "idle" ELSE "load"]
  /\ UNCHANGED <<cnt, line, phase, want, loaded, asked, upset>>

\* humidifier_push(): cnt++, which is a load and a store ...
LoadCnt(t) ==
  /\ pc[t] = "load"
  /\ loaded' = [loaded EXCEPT ![t] = cnt]
  /\ pc' = [pc EXCEPT ![t] = "store"]
  /\ UNCHANGED <<cnt, line, phase, want, left, asked, upset>>

\* Mutant: humidifier_push_2() counts one press.
StoreCntPerCall(t) ==
  /\ pc[t] = "store"
  /\ cnt' = (IF left[t] = 2 THEN cnt ELSE Advance(loaded[t]))
  /\ pc' = [pc EXCEPT ![t] = "low"]
  /\ UNCHANGED <<line, phase, want, left, loaded, asked, upset>>

StoreCnt(t) ==
  /\ pc[t] = "store"
  /\ cnt' = Advance(loaded[t])
  /\ pc' = [pc EXCEPT ![t] = "low"]
  /\ UNCHANGED <<line, phase, want, left, loaded, asked, upset>>

\* ... the line goes low: a press, unless it is low already ...
PullLow(t) ==
  /\ pc[t] = "low"
  /\ line' = "low"
  /\ phase' = IF line = "high" THEN Advance(phase) ELSE phase
  /\ pc' = [pc EXCEPT ![t] = "high"]
  /\ UNCHANGED <<cnt, want, left, loaded, asked, upset>>

\* Mutants: the line stays low; the presses are not counted down.
LetGoHeld(t) ==
  /\ pc[t] = "high"
  /\ left' = [left EXCEPT ![t] = @ - 1]
  /\ pc' = [pc EXCEPT ![t] = IF left[t] > 1 THEN "load" ELSE "idle"]
  /\ UNCHANGED <<cnt, line, phase, want, loaded, asked, upset>>

LetGoAgain(t) ==
  /\ pc[t] = "high"
  /\ line' = "high"
  /\ pc' = [pc EXCEPT ![t] = IF left[t] > 1 THEN "load" ELSE "idle"]
  /\ UNCHANGED <<cnt, phase, want, left, loaded, asked, upset>>

\* ... and high again 200 ms later.  humidifier_push_2() pushes once more.
LetGo(t) ==
  /\ pc[t] = "high"
  /\ line' = "high"
  /\ left' = [left EXCEPT ![t] = @ - 1]
  /\ pc' = [pc EXCEPT ![t] = IF left[t] > 1 THEN "load" ELSE "idle"]
  /\ UNCHANGED <<cnt, phase, want, loaded, asked, upset>>

\* The process ends anywhere and starts again: humidifier_init() drives the line
\* high and the count starts from 0; the humidifier stays as it is.
Restart ==
  /\ cnt' = 0
  /\ line' = "high"
  /\ pc' = [t \in Callers |-> "idle"]
  /\ want' = [t \in Callers |-> 0]
  /\ left' = [t \in Callers |-> 0]
  /\ loaded' = [t \in Callers |-> 0]
  /\ asked' = 0
  /\ upset' = (phase # 0)
  /\ UNCHANGED phase

Continue(t) == Test(t) \/ LoadCnt(t) \/ StoreCnt(t) \/ PullLow(t) \/ LetGo(t)

CallOrContinue == \E t \in Callers : Continue(t) \/ \E w \in {0, 1} : Call(t, w)

HumNext == CallOrContinue \/ Restart

HumSpec == HumInit /\ [][HumNext]_humVars

\* The threads inside the library are scheduled.
HumFairSpec == HumSpec /\ \A t \in Callers : WF_humVars(Continue(t))

-----------------------------------------------------------------------------
(* Safety.  The count knows the humidifier's phase whenever nobody is        *)
(* pressing and nothing has upset it: this is what makes "1 push", "2 push"  *)
(* and "do nothing" the right decisions.                                     *)
CountIsPhase == Resting /\ ~upset => cnt = phase

(* Safety.  Then a call that has returned has left the humidifier in the     *)
(* phase it was for.                                                         *)
CallDelivers == Resting /\ ~upset => phase = asked

(* Refinement.  Undisturbed, the counted button is the switch main.c takes   *)
(* the humidifier for; the phases it passes through only show during a turn. *)
PositionOf(n) == CASE n = 0 -> "off" [] n = 1 -> "spray" [] OTHER -> "pausing"

ASwitch == INSTANCE Switch WITH
  asked   <- PositionOf(asked),
  showing <- IF Resting THEN PositionOf(phase) ELSE "turning",
  broken  <- upset

IsSwitch == ASwitch!SwitchSpec

(* Liveness.  Every call returns: the humidifier is not left between phases  *)
(* with the button held down.                                                *)
CallsReturn == \A t \in Callers : pc[t] # "idle" ~> pc[t] = "idle"

-----------------------------------------------------------------------------
(* The inductive invariant behind all three.                                 *)

\* Where a call stands that nothing has upset: the presses it still has to make
\* are those that lead from the present phase to the phase it is for.
OnCourse(t) ==
  /\ want[t] = asked
  /\ cnt = (IF pc[t] = "low" THEN Advance(phase) ELSE phase)
  /\ line = (IF pc[t] = "high" THEN "low" ELSE "high")
  /\ pc[t] \in {"load", "store", "low"} => left[t] = Presses(want[t], phase)
  /\ pc[t] = "store" => loaded[t] = cnt
  /\ pc[t] = "high" => left[t] - 1 = Presses(want[t], phase)

(* Until something upsets it there is at most one call, it is on course, and *)
(* between calls count, humidifier and the last call agree.                  *)
HumInv ==
  /\ HumTypeOK
  /\ \A t \in Callers : pc[t] \in {"load", "store", "low", "high"} => left[t] # 0
  /\ ~upset =>
       /\ \A t, u \in Callers : pc[t] # "idle" /\ pc[u] # "idle" => t = u
       /\ \A t \in Callers : pc[t] # "idle" => OnCourse(t)
       /\ Resting => cnt = phase /\ phase = asked /\ line = "high"

=============================================================================
