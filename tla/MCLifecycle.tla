---------------------------- MODULE MCLifecycle ----------------------------
(* The controller through lives of its process, with one client, who drives  *)
(* devices by hand or reads the database.                                    *)
EXTENDS Lifecycle
CONSTANTS main, c1

ByHand == [c \in Clients |-> {"mode_toggle", "state_change", "state_stream", "database"}]
Reader == [c \in Clients |-> {"database"}]
=============================================================================
