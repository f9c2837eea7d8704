---------------------------- MODULE MCErrorPipe ----------------------------
(* TLC instances of ErrorPipe: a buffer of two, bursts that overflow it.     *)
EXTENDS ErrorPipe

CONSTANTS boot, wire
=============================================================================
