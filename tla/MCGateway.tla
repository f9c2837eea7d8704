----------------------------- MODULE MCGateway -----------------------------
(* Instances of Gateway for TLC. *)
EXTENDS Gateway

CONSTANTS a, b,           \* connections
          pos, chat       \* topics

\* Both clients follow one topic; the mesh talks on the other one too.
MCTopicOf == [c \in Conns |-> pos]

\* One client talks twice, the mesh once.
MCBudget == [s \in Sources |-> IF s = a THEN 2 ELSE IF s = Swarm THEN 1 ELSE 0]
=============================================================================
