--------------------------- MODULE MCAtprotoLogin ---------------------------
(* TLC instances of AtprotoLogin.  The ratio of Rounds to FlowTtl is that of  *)
(* the code: 150 rounds of at least 2 s against 600 s.                        *)
EXTENDS AtprotoLogin

CONSTANTS alice, bob
=============================================================================
