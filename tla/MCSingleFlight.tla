--------------------------- MODULE MCSingleFlight ---------------------------
(* An instance of SingleFlight for TLC: the cfg files give the constants.  *)
EXTENDS SingleFlight
=============================================================================
