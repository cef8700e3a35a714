----------------------------- MODULE MCHostSem ------------------------------
(* An instance of HostSem for TLC: the cfg files give the constants.       *)
EXTENDS HostSem
=============================================================================
