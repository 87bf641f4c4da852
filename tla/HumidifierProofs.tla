-------------------------- MODULE HumidifierProofs --------------------------
(***************************************************************************)
(* The counted button delivers what main.c asks of it, for any number of   *)
(* threads in the library: HumInv is inductive, the safety properties      *)
(* follow from it, and every step is a step of the abstract switch.        *)
(***************************************************************************)
EXTENDS Humidifier, TLAPS

\* A press and its effect on the number of presses still to make.
LEMMA PressesFacts ==
  ASSUME NEW w \in {0, 1}, NEW n \in 0..2
  PROVE  /\ Presses(w, n) \in 0..2
         /\ Advance(n) \in 0..2
         /\ Presses(w, n) = 0 <=> n = w
         /\ Presses(w, n) # 0 => Presses(w, Advance(n)) = Presses(w, n) - 1
<1>1. CASE n = 0  BY <1>1 DEF Presses, Advance
<1>2. CASE n = 1  BY <1>2 DEF Presses, Advance
<1>3. CASE n = 2  BY <1>3 DEF Presses, Advance
<1> QED  BY <1>1, <1>2, <1>3

LEMMA HumInitInv == HumInit => HumInv
<1> SUFFICES ASSUME HumInit  PROVE HumInv
  OBVIOUS
<1>1. HumTypeOK
  <2>1. cnt \in 0..2 /\ phase \in 0..2 /\ asked \in {0, 1} /\ line \in {"high", "low"}
    BY DEF HumInit
  <2>2. pc \in [Callers -> Step] /\ want \in [Callers -> {0, 1}] /\ upset \in BOOLEAN
    BY DEF HumInit, Step
  <2>3. left \in [Callers -> 0..2] /\ loaded \in [Callers -> 0..2]
    BY DEF HumInit
  <2> QED  BY <2>1, <2>2, <2>3 DEF HumTypeOK
<1>2. \A t \in Callers : pc[t] = "idle"
  BY DEF HumInit
<1> QED
  BY <1>1, <1>2 DEF HumInit, HumInv

LEMMA HumStepInv == HumInv /\ [HumNext]_humVars => HumInv'
<1> SUFFICES ASSUME HumInv, [HumNext]_humVars  PROVE HumInv'
  OBVIOUS
<1> USE DEF HumInv, HumTypeOK, Step, Resting, OnCourse
<1>1. ASSUME NEW t \in Callers, NEW w \in {0, 1}, Call(t, w)  PROVE HumInv'
  <2>1. HumTypeOK' /\ \A u \in Callers : pc'[u] \in {"load", "store", "low", "high"} => left'[u] # 0
    BY <1>1 DEF Call
  <2>2. ASSUME ~upset'  PROVE \A u \in Callers : pc[u] = "idle"
    BY <1>1, <2>2 DEF Call
  <2>3. ASSUME ~upset'  PROVE ~upset
    BY <1>1, <2>3 DEF Call
  <2>4. ASSUME ~upset'
        PROVE  /\ pc'[t] = "test" /\ OnCourse(t)' /\ ~Resting'
               /\ \A u \in Callers : pc'[u] # "idle" => u = t
    BY <1>1, <2>2, <2>3, <2>4 DEF Call
  <2> QED  BY <2>1, <2>4
<1>2. ASSUME NEW t \in Callers, Test(t)  PROVE HumInv'
  <2>1. Presses(want[t], cnt) \in 0..2 /\ (Presses(want[t], cnt) = 0 <=> cnt = want[t])
    BY PressesFacts
  <2> QED  BY <1>2, <2>1 DEF Test
<1>3. ASSUME NEW t \in Callers, LoadCnt(t)  PROVE HumInv'
  BY <1>3 DEF LoadCnt
<1>4. ASSUME NEW t \in Callers, StoreCnt(t)  PROVE HumInv'
  <2>1. Advance(loaded[t]) \in 0..2
    BY PressesFacts
  <2> QED  BY <1>4, <2>1 DEF StoreCnt
<1>5. ASSUME NEW t \in Callers, PullLow(t)  PROVE HumInv'
  <2>1. /\ Advance(phase) \in 0..2
        /\ Presses(want[t], phase) # 0
              => Presses(want[t], Advance(phase)) = Presses(want[t], phase) - 1
    BY PressesFacts
  <2> QED  BY <1>5, <2>1 DEF PullLow
<1>6. ASSUME NEW t \in Callers, LetGo(t)  PROVE HumInv'
  <2>1. Presses(want[t], phase) \in 0..2 /\ (Presses(want[t], phase) = 0 <=> phase = want[t])
    BY PressesFacts
  <2>2. left[t] # 0 /\ left'[t] = left[t] - 1 /\ left'[t] \in 0..1
    BY <1>6 DEF LetGo
  <2>3. HumTypeOK' /\ \A u \in Callers : pc'[u] \in {"load", "store", "low", "high"} => left'[u] # 0
    BY <1>6, <2>2 DEF LetGo
  <2>4. ASSUME ~upset', pc'[t] = "idle"
        PROVE  /\ \A u \in Callers : pc'[u] = "idle"
               /\ cnt' = phase' /\ phase' = asked' /\ line' = "high"
    BY <1>6, <2>1, <2>2, <2>4 DEF LetGo
  <2>5. ASSUME ~upset', pc'[t] # "idle"
        PROVE  /\ \A u \in Callers : pc'[u] # "idle" => u = t
               /\ OnCourse(t)'
    <3>1. \A u \in Callers : pc[u] # "idle" => u = t
      BY <1>6, <2>5 DEF LetGo
    <3>2. pc[t] = "high" /\ OnCourse(t)
      BY <1>6, <2>5 DEF LetGo
    <3>3. pc'[t] = "load" /\ \A u \in Callers : u # t => pc'[u] = pc[u]
      BY <1>6, <2>5 DEF LetGo
    <3>4. want' = want /\ cnt' = cnt /\ phase' = phase /\ asked' = asked /\ line' = "high"
      BY <1>6 DEF LetGo
    <3>5. left'[t] = Presses(want[t], phase)
      BY <2>2, <3>2
    <3> QED  BY <3>1, <3>2, <3>3, <3>4, <3>5
  <2> QED  BY <2>3, <2>4, <2>5
<1>7. ASSUME Restart  PROVE HumInv'
  <2>1. \A t \in Callers : pc'[t] = "idle"
    BY <1>7 DEF Restart
  <2>2. left' \in [Callers -> 0..2] /\ loaded' \in [Callers -> 0..2]
    BY <1>7 DEF Restart
  <2>3. pc' \in [Callers -> Step] /\ want' \in [Callers -> {0, 1}] /\ upset' \in BOOLEAN
    BY <1>7 DEF Restart
  <2>4. HumTypeOK'
    BY <1>7, <2>2, <2>3 DEF Restart
  <2>5. ASSUME ~upset'  PROVE cnt' = phase' /\ phase' = asked' /\ line' = "high"
    BY <1>7, <2>5 DEF Restart
  <2> QED  BY <2>1, <2>4, <2>5
<1>8. ASSUME UNCHANGED humVars  PROVE HumInv'
  BY <1>8 DEF humVars
<1> QED
  BY <1>1, <1>2, <1>3, <1>4, <1>5, <1>6, <1>7, <1>8
  DEF HumNext, CallOrContinue, Continue

(* A call that nothing upsets owes exactly the presses that lead from the    *)
(* humidifier's phase to the one it was asked for, at every step.            *)
THEOREM HumInvariant == HumSpec => []HumInv
BY HumInitInv, HumStepInv, PTL DEF HumSpec

(* The variables of the library and of the humidifier keep their types.      *)
THEOREM HumTypeCorrect == HumSpec => []HumTypeOK
<1>1. HumInv => HumTypeOK  BY DEF HumInv
<1> QED  BY <1>1, HumInvariant, PTL

(* Between calls that nothing has upset, the count of presses is the phase   *)
(* of the humidifier.                                                        *)
THEOREM CountCorrect == HumSpec => []CountIsPhase
<1>1. HumInv => CountIsPhase  BY DEF HumInv, CountIsPhase
<1> QED  BY <1>1, HumInvariant, PTL

(* Such a call of humidifier_on() or humidifier_off() has done its work when *)
(* it returns.                                                               *)
THEOREM CallsDeliver == HumSpec => []CallDelivers
<1>1. HumInv => CallDelivers  BY DEF HumInv, CallDelivers
<1> QED  BY <1>1, HumInvariant, PTL

-----------------------------------------------------------------------------
LEMMA PositionFacts ==
  ASSUME NEW n \in 0..2
  PROVE  PositionOf(n) # "turning" /\ (n \in {0, 1} => PositionOf(n) \in ASwitch!Position)
BY DEF PositionOf, ASwitch!Position

LEMMA SwitchInitial == HumInit => ASwitch!SwitchInit
BY DEF HumInit, ASwitch!SwitchInit, Resting, PositionOf

\* A step that ends upset breaks the switch, whatever else it does.
LEMMA SwitchStep ==
  HumInv /\ [HumNext]_humVars => [ASwitch!SwitchNext]_(ASwitch!switchVars)
<1> SUFFICES ASSUME HumInv, [HumNext]_humVars
             PROVE  [ASwitch!SwitchNext]_(ASwitch!switchVars)
  OBVIOUS
<1> USE DEF ASwitch!switchVars, ASwitch!SwitchNext
<1>0. CASE upset'
  BY <1>0 DEF ASwitch!Break
<1>1. ASSUME NEW t \in Callers, NEW w \in {0, 1}, Call(t, w), ~upset'
      PROVE  \E x \in ASwitch!Position : ~upset /\ ASwitch!Turn(x)
  <2>0. upset \in BOOLEAN
    BY DEF HumInv, HumTypeOK
  <2>1. ~upset /\ upset' = upset /\ Resting /\ asked' = w
    BY <1>1, <2>0 DEF Call
  <2>2. ~Resting'
    BY <1>1 DEF Call, Resting, HumInv, HumTypeOK
  <2>3. PositionOf(phase) # "turning" /\ PositionOf(w) \in ASwitch!Position
    BY PositionFacts DEF HumInv, HumTypeOK
  <2> QED
    BY <2>1, <2>2, <2>3 DEF ASwitch!Turn
<1>2. ASSUME NEW t \in Callers, Continue(t), ~upset'
      PROVE  (~upset /\ ASwitch!Arrive) \/ UNCHANGED ASwitch!switchVars
  <2>1. ~upset /\ ~Resting /\ UNCHANGED <<asked, upset>>
    BY <1>2 DEF Continue, Test, LoadCnt, StoreCnt, PullLow, LetGo, Resting
  <2>2. CASE Resting'
    <3>1. HumInv'
      BY HumStepInv
    <3>2. phase' = asked'
      BY <3>1, <1>2, <2>2 DEF HumInv
    <3> QED
      BY <2>1, <2>2, <3>2 DEF ASwitch!Arrive
  <2>3. CASE ~Resting'
    BY <2>1, <2>3
  <2> QED  BY <2>2, <2>3
<1>3. ASSUME Restart, ~upset'  PROVE ASwitch!Mend
  <2>1. phase' = 0 /\ asked' = 0 /\ Resting'
    BY <1>3 DEF Restart, Resting
  <2> QED
    BY <1>3, <2>1 DEF ASwitch!Mend, PositionOf
<1>4. CASE UNCHANGED humVars
  BY <1>4 DEF humVars, Resting
<1> QED
  BY <1>0, <1>1, <1>2, <1>3, <1>4 DEF HumNext, CallOrContinue

(* The counted button implements the switch main.c takes the humidifier for. *)
THEOREM ButtonIsSwitch == HumSpec => IsSwitch
BY SwitchInitial, SwitchStep, HumInvariant, PTL
DEF HumSpec, IsSwitch, ASwitch!SwitchSpec
=============================================================================
