----------------------------- MODULE MCPresence -----------------------------
(* An instance of Presence for TLC. *)
EXTENDS Presence
=============================================================================
