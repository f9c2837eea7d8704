-------------------------- MODULE MCMastodonLogin --------------------------
(* An instance of MastodonLogin for TLC. *)
EXTENDS MastodonLogin
=============================================================================
