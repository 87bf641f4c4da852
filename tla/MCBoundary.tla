----------------------------- MODULE MCBoundary -----------------------------
(* Two clients; messages with all five numbers, with two before something   *)
(* that is no number, with none, and with one at the limit of int.          *)
EXTENDS Boundary, TLC
CONSTANTS c1, c2
MCMin == -1000
MCMessages == {<<40, 60, 15, 28, 700>>, <<60, 20>>, <<>>, <<1000, 50, -40>>}
Symmetry == Permutations({c1, c2})
=============================================================================
