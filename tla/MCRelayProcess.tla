---------------------------- MODULE MCRelayProcess ----------------------------
(* An instance of RelayProcess for TLC. *)
EXTENDS RelayProcess
=============================================================================
