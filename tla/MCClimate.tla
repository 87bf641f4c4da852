----------------------------- MODULE MCClimate -----------------------------
(* The controller with up to two clients: which polling threads run and      *)
(* which readings move is chosen in the cfg of each run, what clients do is  *)
(* one of the definitions below.                                             *)
EXTENDS Planter
CONSTANTS main, c1, c2

\* One moves boundaries; the other toggles the mode, watches, queries the
\* database and, in MANUAL mode, sends an order.
Visitors ==
  [c \in Clients |-> IF c = c1 THEN {"boundary"}
                     ELSE {"mode_toggle", "state_stream", "database"}]

Toggler == [c \in Clients |-> {"mode_toggle"}]
Watchers == [c \in Clients |-> {"mode_toggle", "state_stream"}]
Gardeners == [c \in Clients |-> {"mode_toggle", "state_change"}]
=============================================================================
