---------------------------- MODULE FrameChannel ----------------------------
(***************************************************************************)
(* What laye-p2p promises a host about one topic it polls: the frames that *)
(* arrive wait in order, and recv_bytes hands over all of them, once       *)
(* (crates/laye-p2p/src/{wasm,state}.rs).  P2pPump implements it; Presence *)
(* is a host that relies on it.                                            *)
(***************************************************************************)
EXTENDS Sequences

CONSTANT Frames

VARIABLES
  waiting,  \* frames that have arrived and were not handed over
  handed    \* what recv_bytes has returned and the host is still at

TypeOK == waiting \in Seq(Frames) /\ handed \in Seq(Frames)

Init == waiting = <<>> /\ handed = <<>>

Arrive(f) ==
  /\ waiting' = Append(waiting, f)
  /\ UNCHANGED handed

Take ==
  /\ handed' = waiting
  /\ waiting' = <<>>

Done ==
  /\ handed' = <<>>
  /\ UNCHANGED waiting

Next == (\E f \in Frames : Arrive(f)) \/ Take \/ Done

Spec == Init /\ [][Next]_<<waiting, handed>>
=============================================================================
