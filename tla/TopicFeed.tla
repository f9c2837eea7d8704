----------------------------- MODULE TopicFeed -----------------------------
(***************************************************************************)
(* What the WebSocket gateway of relaye promises to the clients of one     *)
(* process, without sinks, locks or wakeups.                               *)
(*                                                                         *)
(* Every topic is an append-only log.  A reader that has joined a topic    *)
(* sees a window of the log, log[lo+1 .. hi], of at most Cap frames.  The  *)
(* window only moves forward: its upper end follows the log one frame at a *)
(* time, its lower end moves when the reader takes the oldest frame or     *)
(* when the window would outgrow Cap.  So a reader gets frames in log      *)
(* order, each at most once, nothing from before it joined, and misses a   *)
(* frame only after Cap newer ones were appended behind it.                *)
(***************************************************************************)
EXTENDS Naturals, Sequences

CONSTANTS
  Readers,   \* the connections
  Topics,
  TopicOf,   \* the topic each reader follows
  Frames,    \* the payloads
  Cap        \* the most frames a window holds

VARIABLES
  log,       \* topic -> every frame ever fanned out on it
  member,    \* the readers that have joined and not left
  lo, hi,    \* reader -> the ends of its window
  got        \* reader -> the frames it has taken

feedVars == <<log, member, lo, hi, got>>

Init ==
  /\ log = [t \in Topics |-> <<>>]
  /\ member = {}
  /\ lo = [r \in Readers |-> 0]
  /\ hi = [r \in Readers |-> 0]
  /\ got = [r \in Readers |-> <<>>]

Fan(t, f) ==
  /\ log' = [log EXCEPT ![t] = Append(@, f)]
  /\ UNCHANGED <<member, lo, hi, got>>

Join(r) ==
  /\ r \notin member
  /\ member' = member \cup {r}
  /\ lo' = [lo EXCEPT ![r] = Len(log[TopicOf[r]])]
  /\ hi' = [hi EXCEPT ![r] = Len(log[TopicOf[r]])]
  /\ UNCHANGED <<log, got>>

\* The next frame of the log enters the window; an overfull window loses its
\* oldest frame.
Arrive(r) ==
  /\ r \in member
  /\ hi[r] < Len(log[TopicOf[r]])
  /\ hi' = [hi EXCEPT ![r] = @ + 1]
  /\ lo' = [lo EXCEPT ![r] = IF hi[r] - @ = Cap THEN @ + 1 ELSE @]
  /\ UNCHANGED <<log, member, got>>

Take(r) ==
  /\ r \in member
  /\ lo[r] < hi[r]
  /\ got' = [got EXCEPT ![r] = Append(@, log[TopicOf[r]][lo[r] + 1])]
  /\ lo' = [lo EXCEPT ![r] = @ + 1]
  /\ UNCHANGED <<log, member, hi>>

Leave(r) ==
  /\ r \in member
  /\ member' = member \ {r}
  /\ lo' = [lo EXCEPT ![r] = 0]
  /\ hi' = [hi EXCEPT ![r] = 0]
  /\ UNCHANGED <<log, got>>

Next ==
  \/ \E t \in Topics, f \in Frames : Fan(t, f)
  \/ \E r \in Readers : Join(r) \/ Arrive(r) \/ Take(r) \/ Leave(r)

Spec == Init /\ [][Next]_feedVars
=============================================================================
