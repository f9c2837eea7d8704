---------------------------- MODULE MCP2pPump ----------------------------
(* Instances of P2pPump for TLC. *)
EXTENDS P2pPump

CONSTANTS game, p, q

\* How much happens on the host's topic, the chat and the identity topic.
On(g, c, i) == [t \in Topics |-> IF t = game THEN g ELSE IF t = Chat THEN c ELSE i]

MCNone == On(0, 0, 0)

\* Sending: enough frames on one topic to overflow an outbox of two and a chat
\* line beside them, over a mesh that forms, goes and forms again.
MCSentOut == On(3, 1, 0)
MCChangesOut == On(2, 1, 0)

\* Receiving on every topic (two of the host), one chat line and the
\* republication of our logins.
MCArrivedIn == On(2, 1, 1)
MCSentIn == On(0, 1, 1)
=============================================================================
