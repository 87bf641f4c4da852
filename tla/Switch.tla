------------------------------- MODULE Switch -------------------------------
(***************************************************************************)
(* What main.c expects of humidifier_on() and humidifier_off(): a switch   *)
(* that is turned to a position and then shows it.  Once it is broken it   *)
(* shows anything, until it is seen off with nobody turning it.            *)
(***************************************************************************)

Position == {"off", "spray"}

VARIABLES
  asked,    \* the position of the last turn
  showing,  \* the position shown, or "turning" while a turn is under way
  broken

switchVars == <<asked, showing, broken>>

SwitchInit == asked = "off" /\ showing = "off" /\ broken = FALSE

Turn(x) ==
  /\ showing # "turning"
  /\ asked' = x
  /\ showing' = "turning"
  /\ UNCHANGED broken

Arrive ==
  /\ showing = "turning"
  /\ showing' = asked
  /\ UNCHANGED <<asked, broken>>

Break == broken' = TRUE

Mend ==
  /\ broken' = FALSE
  /\ asked' = "off" /\ showing' = "off"

SwitchNext ==
  \/ ~broken /\ (Arrive \/ \E x \in Position : Turn(x))
  \/ Break
  \/ Mend

SwitchSpec == SwitchInit /\ [][SwitchNext]_switchVars
=============================================================================
