---------------------------- MODULE MCHumidifier ----------------------------
(* Two threads in the library, and restarts of the process at any moment.   *)
EXTENDS Humidifier, TLC
CONSTANTS main, client
=============================================================================
